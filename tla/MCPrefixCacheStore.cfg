SPECIFICATION Spec
CONSTANTS
  Prompts <- NestedPrompts
  Queries <- NestedQueries
  Key <- Whole
  TokenBytes <- One
  StateBytes <- Twice
  MaxBytes = 6
  MaxSaves = 2
  MaxCrashes = 2
  WritesFail = TRUE
  RemovesFail = TRUE
INVARIANTS
  StoreTruthful
PROPERTIES
  InterruptionLosesNothing
  LruSpec
