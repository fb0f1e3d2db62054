----------------------------- MODULE MCExecutor -----------------------------
(***************************************************************************)
(* Small instances of Executor for TLC.                                    *)
(***************************************************************************)
EXTENDS Executor, TLC

Gen(prompt, max_tokens, stream) ==
  [kind |-> "generate", thinking |-> FALSE, valid |-> TRUE,
   stream |-> stream, prompt |-> prompt, max_tokens |-> max_tokens]

Short    == Gen(1, 2, FALSE)
Long     == Gen(3, 2, TRUE)
Invalid  == [Short EXCEPT !.valid = FALSE]
Thinking == [Short EXCEPT !.thinking = TRUE]
Clear    == [Short EXCEPT !.kind = "clear"]

\* Two lengths of prompt and output, both solitary kinds and a bad request.
AllRequests == {Short, Long, Invalid, Thinking, Clear}

\* Rows that outlive one another, so that a batch can be refilled for ever,
\* and one too large to join them.
Medium == Gen(1, 3, FALSE)
RecurringRequests == {Medium, Long}

TaskSymmetry == Permutations(Tasks)

=============================================================================
