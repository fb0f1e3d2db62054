---------------------------- MODULE ThinkingBudget ----------------------------
(***************************************************************************)
(* The limit on thinking tokens (native_engine.cpp, the generation loop).  *)
(* When the budget is used up, or the model stops while it still thinks, a *)
(* fixed suffix that closes the thinking block is forced into the answer,  *)
(* provided that the token limit leaves room for it.  A request with a     *)
(* budget runs serially, one token per turn of the loop.                   *)
(***************************************************************************)
EXTENDS Naturals

CONSTANTS
  Limits,        \* max_tokens
  BudgetSizes,   \* thinking_budget_tokens, not zero
  SuffixSize,    \* tokens of the forced suffix
  CloseAt        \* the place of the closing marker in it

ASSUME ThinkingAssumption ==
  /\ Limits \subseteq Nat /\ BudgetSizes \subseteq Nat \ {0}
  /\ SuffixSize \in Nat /\ CloseAt \in 1..SuffixSize

VARIABLES
  limit, thinkingBudget,
  produced,    \* result.tokens.size()
  forced,      \* forced_tokens.size()
  attempted,   \* thinking_intervention_attempted
  closed,      \* thinking_closed
  intervened,  \* thinking_budget_forced
  finish       \* finish_reason

thinkingVars ==
  <<limit, thinkingBudget, produced, forced, attempted, closed, intervened, finish>>

\* At least one token of the final answer must remain possible.
Room == produced + SuffixSize < limit

\* Mutation: the budget is one token larger.
OverLate == ~closed /\ forced = 0 /\ produced > thinkingBudget

\* The budget is used up and nothing is forced yet.
Over == ~closed /\ forced = 0 /\ produced >= thinkingBudget

ThinkingInit ==
  /\ limit \in Limits /\ thinkingBudget \in BudgetSizes
  /\ produced = 0 /\ forced = 0
  /\ attempted = FALSE /\ closed = FALSE /\ intervened = FALSE
  /\ finish = "none"

\* The token that is appended: a forced one, or the model's.
Emit(fromForced, left, marker) ==
  /\ produced' = produced + 1
  /\ forced' = IF fromForced THEN left - 1 ELSE 0
  /\ closed' = \/ closed
               \/ IF fromForced THEN left = SuffixSize - CloseAt + 1 ELSE marker
  /\ finish' = IF produced' = limit THEN "length" ELSE "none"

\* One turn of the loop.  The model offers a stop token, the closing marker
\* or another token; the budget is looked at before the step and a stop
\* token after it.
Turn(offer) ==
  /\ finish = "none" /\ produced < limit
  /\ LET queued == IF Over /\ Room /\ ~attempted THEN SuffixSize ELSE forced
         tried  == attempted \/ Over
         stops  == queued = 0 /\ ~closed /\ offer = "stop"
         left   == IF stops /\ Room /\ ~tried THEN SuffixSize ELSE queued
     IN  /\ attempted' = (tried \/ stops)
         /\ intervened' = (intervened \/ left > forced)
         /\ IF left = 0 /\ offer = "stop"
            THEN finish' = "stop" /\ UNCHANGED <<produced, forced, closed>>
            ELSE Emit(left > 0, left, offer = "close")
  /\ UNCHANGED <<limit, thinkingBudget>>

\* The client leaves.
Leave ==
  /\ finish = "none" /\ produced > 0
  /\ finish' = "cancelled"
  /\ UNCHANGED <<limit, thinkingBudget, produced, forced, attempted, closed, intervened>>

ThinkingNext == (\E offer \in {"stop", "close", "other"} : Turn(offer)) \/ Leave

ThinkingSpec == ThinkingInit /\ [][ThinkingNext]_thinkingVars

-----------------------------------------------------------------------------
(* Properties.                                                             *)

\* Whatever the model does, thinking is over once the budget and the suffix
\* have been produced, if the limit had room for both; and an answer that
\* ends by itself has closed its thinking or had no room to.
ThinkingEnds ==
  /\ produced >= thinkingBudget + SuffixSize /\ thinkingBudget + SuffixSize < limit
       => closed
  /\ finish = "stop" /\ ~closed => attempted /\ ~intervened

\* A forced suffix is completed, never cut by the token limit, and one token
\* of the answer can still follow.
SuffixLeavesAnswer ==
  /\ intervened /\ finish = "length" => forced = 0
  /\ forced > 0 => produced + forced < limit

\* The forced end of thinking comes in time, is whole and leaves room for an
\* answer (NativeEngine::complete_impl).
ThinkingClosed == ThinkingEnds /\ SuffixLeavesAnswer

=============================================================================
