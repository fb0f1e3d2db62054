---------------------------- MODULE TaskService ----------------------------
(***************************************************************************)
(* What NativeEngineExecutor promises to the threads that call complete,   *)
(* complete_stream and clear_cache (include/qwen38/inference.hpp), with    *)
(* the queue, the batches and the engine hidden:                           *)
(*                                                                         *)
(*  - a call is either accepted, and takes its place in one order, or      *)
(*    rejected because the executor is stopping;                           *)
(*  - an accepted call gets exactly one answer;                            *)
(*  - clear_cache is a barrier in that order: it answers only after every  *)
(*    earlier call has its answer, and no later call is answered first.    *)
(*                                                                         *)
(* Generations between two barriers may be answered in any order, and      *)
(* several at once (one exception can answer a whole batch).               *)
(***************************************************************************)
EXTENDS Naturals, Sequences

CONSTANT Tasks      \* identities of the calls

VARIABLES
  kind,     \* what was asked: "none" before the call, "rejected" if refused
  order,    \* the accepted calls, oldest first
  outcome   \* the answers given to each call

svars == <<kind, order, outcome>>

Answers == {"value", "error"}

Answered(t) == outcome[t] # <<>>

Before(t, u) ==
  \E i, j \in DOMAIN order : i < j /\ order[i] = t /\ order[j] = u

-----------------------------------------------------------------------------

Init ==
  /\ kind = [t \in Tasks |-> "none"]
  /\ order = <<>>
  /\ outcome = [t \in Tasks |-> <<>>]

Accept(t, k) ==
  /\ kind[t] = "none"
  /\ kind' = [kind EXCEPT ![t] = k]
  /\ order' = Append(order, t)
  /\ UNCHANGED outcome

Reject(t) ==
  /\ kind[t] = "none"
  /\ kind' = [kind EXCEPT ![t] = "rejected"]
  /\ UNCHANGED <<order, outcome>>

\* The calls of S, none of them answered yet, are answered with v.
Answer(S, v) ==
  /\ S # {}
  /\ \A t \in S : kind[t] \in {"generate", "clear"} /\ ~Answered(t)
  /\ \A t \in S : \A u \in Tasks :
        Before(u, t) /\ "clear" \in {kind[t], kind[u]} => Answered(u)
  /\ outcome' = [t \in Tasks |-> IF t \in S THEN <<v>> ELSE outcome[t]]
  /\ UNCHANGED <<kind, order>>

Next ==
  \/ \E t \in Tasks, k \in {"generate", "clear"} : Accept(t, k)
  \/ \E t \in Tasks : Reject(t)
  \/ \E S \in SUBSET Tasks, v \in Answers : Answer(S, v)

Spec == Init /\ [][Next]_svars

=============================================================================
