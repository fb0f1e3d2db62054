---------------------------- MODULE GreedyDecode ----------------------------
(***************************************************************************)
(* What a caller of NativeEngine::complete is promised for a greedy        *)
(* request: each token is the model's own next token after the prompt and  *)
(* the tokens before it, generation ends at the first stop token or at     *)
(* max_tokens, and the finish reason says which.  Tokens may arrive        *)
(* several at a time.  Sampled requests promise only the length and the    *)
(* reason.                                                                 *)
(*                                                                         *)
(* The diagnostic override QWEN38_PERSISTENT_MIN_TOKENS asks for a minimum *)
(* length: below it a stop token may give way to the model's second        *)
(* choice.  Where it is not set the minimum is 0 and the answer is exactly *)
(* the greedy continuation.                                                *)
(***************************************************************************)
EXTENDS Naturals, Sequences

CONSTANTS
  Requests,    \* records with prompt, max_tokens, sampled, stream
  Tokens,
  Stops,       \* the stop tokens
  Greedy(_),   \* the model's next token after a sequence
  RunnerUp(_)  \* its second choice

VARIABLES
  minimum,   \* the diagnostic minimum, fixed when the engine starts
  request,   \* the request being answered
  out,       \* the tokens generated so far
  status     \* "idle" before the first request, "running", or how it ended

\* May the runner-up take the place of a stop token?
TooEarly(r, tokens) ==
  Greedy(r.prompt \o tokens) \in Stops /\ Len(tokens) < minimum

\* The next token of a greedy request.
Chosen(r, tokens, t) ==
  \/ r.sampled
  \/ t = Greedy(r.prompt \o tokens)
  \/ TooEarly(r, tokens) /\ t = RunnerUp(r.prompt \o tokens)

Begin(r) ==
  /\ status # "running"
  /\ request' = r
  /\ out' = <<>>
  /\ status' = "running"
  /\ UNCHANGED minimum

\* more are new tokens, each the choice after what precedes it.
Extend(more) ==
  /\ status = "running"
  /\ Len(out) + Len(more) <= request.max_tokens
  /\ \A i \in DOMAIN more :
       /\ more[i] \notin Stops
       /\ Chosen(request, out \o SubSeq(more, 1, i - 1), more[i])
  /\ out' = out \o more
  /\ UNCHANGED <<minimum, request, status>>

Finish(reason) ==
  /\ status = "running"
  /\ \/ reason = "stop" /\ \E t \in Stops : Chosen(request, out, t)
     \/ reason = "length" /\ Len(out) = request.max_tokens
     \/ reason = "cancelled" /\ request.stream
     \/ reason = "error"
  /\ status' = reason
  /\ UNCHANGED <<minimum, request, out>>

Init ==
  /\ minimum \in Nat
  /\ status = "idle"
  /\ out = <<>>
  /\ request \in Requests

\* The new tokens of a step, as the suffix of out'.
More == SubSeq(out', Len(out) + 1, Len(out'))

Next ==
  \/ \E r \in Requests : Begin(r)
  \/ Extend(More)
  \/ \E reason \in {"stop", "length", "cancelled", "error"} : Finish(reason)

Spec == Init /\ [][Next]_<<minimum, request, out, status>>

=============================================================================
