SPECIFICATION Spec
CONSTANTS
  Prompts <- NestedPrompts
  Queries <- NestedQueries
  Key <- Whole
  TokenBytes <- One
  StateBytes <- Twice
  MaxBytes = 6
  MaxSaves = 2
  MaxCrashes = 1
  WritesFail = FALSE
  RemovesFail = FALSE
INVARIANT DirectoryBounded
