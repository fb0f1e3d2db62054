------------------------------ MODULE ApiStream ------------------------------
(***************************************************************************)
(* A completion request in Api::handle (src/api.cpp): the streaming        *)
(* closure that turns the deltas of the engine into server-sent events,    *)
(* the request counters of RuntimeState (src/runtime.cpp) around it, and   *)
(* the non-streaming path, which splits the finished text at once.         *)
(*                                                                         *)
(* The stream must decide byte by byte what the other path decides with    *)
(* the whole text before it: it holds back what may be the start of        *)
(* </think> or of <tool_call>, across deltas that are cut anywhere, and it *)
(* learns that its client has gone only from a write that fails.           *)
(*                                                                         *)
(* Text is a sequence of characters of a small alphabet.  The body of a    *)
(* tool call between its opening marker and CallEnd is abstracted away.    *)
(***************************************************************************)
EXTENDS Naturals, Sequences, FiniteSets, FiniteSetsExt

CONSTANTS
  Characters,   \* the alphabet
  Space,        \* the character isspace accepts
  CloseMarker,  \* "</think>"
  ToolMarker,   \* "<tool_call>"
  CallEnd,      \* what completes a call after ToolMarker
  Deltas,       \* what one call of on_delta may carry
  KeepAlive,    \* captured deltas per comment line: 16 in the code
  MaxText,      \* bound: characters the engine generates for one request
  MaxRequests   \* bound: requests

ASSUME ApiStreamAssumption ==
  /\ Space \in Characters
  /\ CloseMarker \in Seq(Characters \ {Space}) \ {<<>>}
  /\ ToolMarker \in Seq(Characters \ {Space}) \ {<<>>}
  /\ CallEnd \in Characters \ {Space}
  /\ Deltas \subseteq Seq(Characters) \ {<<>>}
  /\ KeepAlive \in Nat \ {0}
  /\ {MaxText, MaxRequests} \subseteq Nat

VARIABLES
  pc,         \* where the worker is in the request
  mode,       \* the options of the request
  open,       \* the client still has its connection
  stream,     \* the locals of the closure, and what the client received
  text,       \* history: what the engine generated while open
  room,       \* characters the engine may still generate
  late,       \* history: deltas generated after the client had gone
  total,      \* requests_total_
  active,     \* requests_active_
  cancelled   \* requests_cancelled_

vars == <<pc, mode, open, stream, text, room, late, total, active, cancelled>>
counters == <<total, active, cancelled>>

\* Thinking and tools are options of the chat route.
Modes ==
  {m \in [stream : BOOLEAN, chat : BOOLEAN, thinking : BOOLEAN,
          tools : BOOLEAN] : m.chat \/ ~(m.thinking \/ m.tools)}

-----------------------------------------------------------------------------
(* Text.                                                                   *)

\* Where m begins in w.
Occurrences(m, w) ==
  {i \in 1..(Len(w) + 1 - Len(m)) : SubSeq(w, i, i + Len(m) - 1) = m}

Has(m, w) == Len(w) >= Len(m) /\ Occurrences(m, w) # {}
Find(m, w) == Min(Occurrences(m, w))

\* Neither marker lies within the other.
ASSUME MarkersAssumption ==
  ~Has(CloseMarker, ToolMarker) /\ ~Has(ToolMarker, CloseMarker)

Before(i, w) == SubSeq(w, 1, i - 1)
From(i, w) == SubSeq(w, i, Len(w))

\* The loops over isspace, at the front only or at both ends.
Printing(w) == {i \in DOMAIN w : w[i] # Space}
TrimFront(w) == IF Printing(w) = {} THEN <<>> ELSE From(Min(Printing(w)), w)
Trim(w) ==
  IF Printing(w) = {} THEN <<>>
  ELSE SubSeq(w, Min(Printing(w)), Max(Printing(w)))

\* The calls of w, which begins with ToolMarker: their number if w is
\* nothing but calls and spaces, 0 if any of it is malformed.
Call == Append(ToolMarker, CallEnd)
CallsIn(w) ==
  LET parses[i \in 1..(Len(w) + 1)] ==
        \/ i = Len(w) + 1
        \/ i <= Len(w) /\ w[i] = Space /\ parses[i + 1]
        \/ i \in Occurrences(Call, w) /\ parses[i + Len(Call)]
  IN  IF parses[1] THEN Cardinality(Occurrences(Call, w)) ELSE 0

\* parse_qwen_tool_output
ParseToolOutput(w) ==
  LET calls == IF Has(ToolMarker, w)
                 THEN CallsIn(From(Find(ToolMarker, w), w)) ELSE 0
  IN  [content |-> IF calls = 0 THEN Trim(w)
                   ELSE Trim(Before(Find(ToolMarker, w), w)),
       calls |-> calls]

\* split_chat_output: what the non-streaming path makes of the whole text.
SplitChatOutput(m, w) ==
  LET closed == m.thinking /\ Has(CloseMarker, w)
      content == IF closed
                   THEN Trim(From(Find(CloseMarker, w) + Len(CloseMarker), w))
                   ELSE w
      parsed == IF m.tools THEN ParseToolOutput(content)
                ELSE [content |-> content, calls |-> 0]
  IN  [reasoning |-> IF closed THEN Trim(Before(Find(CloseMarker, w), w))
                     ELSE <<>>,
       content |-> parsed.content,
       calls |-> parsed.calls]

-----------------------------------------------------------------------------
(* The closure.  Each operator maps the closure's locals to their values   *)
(* after the call.                                                         *)

NewStream(m) ==
  [connected |-> TRUE,
   in_reasoning |-> m.chat /\ m.thinking,
   thinking_carry |-> <<>>,
   tool_carry |-> <<>>,
   capturing |-> FALSE,
   captured |-> 0,            \* captured_tool_deltas % KeepAlive
   reasoning |-> <<>>,        \* received as reasoning_content
   content |-> <<>>,          \* received as content, or as text
   calls |-> 0,               \* received as tool_calls
   ending |-> <<>>]           \* the closing events received

parse_tools == mode.chat /\ mode.tools

\* sink: a write succeeds exactly as long as the client is there.
Sink(s) == [s EXCEPT !.connected = @ /\ open]

EmitText(s, field, w) ==
  IF w = <<>> THEN s
  ELSE IF Sink(s).connected THEN [s EXCEPT ![field] = @ \o w]
  ELSE Sink(s)

EmitEvent(s, event) ==
  IF Sink(s).connected THEN [s EXCEPT !.ending = Append(@, event)]
  ELSE Sink(s)

\* Mutation: no comment lines while a call is captured.
CaptureSilently(s) == [s EXCEPT !.captured = (@ + 1) % KeepAlive]

\* A captured delta shows nothing, but every KeepAlive-th one writes.
Capture(s) ==
  LET n == [s EXCEPT !.captured = (@ + 1) % KeepAlive]
  IN  IF n.captured = 0 THEN Sink(n) ELSE n

EmitContent(s, w) ==
  LET c == [s EXCEPT !.tool_carry = @ \o w]
      carry == c.tool_carry
      cut == IF Has(ToolMarker, carry) THEN Find(ToolMarker, carry)
             ELSE Len(carry) + 2 - Len(ToolMarker)
  IN  IF ~parse_tools THEN EmitText(s, "content", w)
      ELSE IF c.capturing THEN Capture(c)
      ELSE IF Len(carry) < Len(ToolMarker) THEN c
      ELSE [EmitText(c, "content", Before(cut, carry))
              EXCEPT !.tool_carry = From(cut, carry),
                     !.capturing = Has(ToolMarker, carry)]

\* Mutation: only the shorter marker considered.
HoldbackClose == Len(CloseMarker) - 1

\* What is kept of the thoughts because a marker may have begun there.
Holdback ==
  IF parse_tools THEN Max({Len(CloseMarker), Len(ToolMarker)}) - 1
  ELSE Len(CloseMarker) - 1

\* The thoughts end before position i of the carry; rest is spoken.
LeaveReasoning(s, i, rest) ==
  LET told == EmitText(s, "reasoning", Before(i, s.thinking_carry))
  IN  EmitContent([told EXCEPT !.thinking_carry = <<>>,
                               !.in_reasoning = FALSE], rest)

OnReasoning(s, w) ==
  LET c == [s EXCEPT !.thinking_carry = @ \o w]
      carry == c.thinking_carry
      ready == Len(carry) - Holdback
  IN  IF Has(CloseMarker, carry)
        THEN LET i == Find(CloseMarker, carry)
             IN  LeaveReasoning(c, i, TrimFront(From(i + Len(CloseMarker), carry)))
      ELSE IF parse_tools /\ Has(ToolMarker, carry)
        THEN LET i == Find(ToolMarker, carry)
             IN  LeaveReasoning(c, i, From(i, carry))
      ELSE IF Len(carry) <= Holdback THEN c
      ELSE [EmitText(c, "reasoning", SubSeq(carry, 1, ready))
              EXCEPT !.thinking_carry = From(ready + 1, carry)]

\* on_delta: the engine goes on as long as connected holds afterwards.
OnDelta(s, w) ==
  IF ~mode.chat THEN EmitText(s, "content", w)
  ELSE IF s.in_reasoning THEN OnReasoning(s, w)
  ELSE EmitContent(s, w)

EmitCalls(s, n) ==
  IF n = 0 THEN s
  ELSE IF Sink(s).connected THEN [s EXCEPT !.calls = n]
  ELSE Sink(s)

\* Mutation: a marker that was begun and never completed is dropped.
FlushCaptured(s) ==
  LET thought == IF s.in_reasoning
                   THEN EmitText(s, "reasoning", s.thinking_carry) ELSE s
      parsed == ParseToolOutput(s.tool_carry)
  IN  IF s.capturing
        THEN EmitCalls(EmitText(thought, "content", parsed.content),
                       parsed.calls)
      ELSE thought

\* After complete_stream has returned: what was held back is sent.
Flush(s) ==
  LET thought == IF s.in_reasoning
                   THEN EmitText(s, "reasoning", s.thinking_carry) ELSE s
      parsed == ParseToolOutput(s.tool_carry)
  IN  IF ~parse_tools \/ s.tool_carry = <<>> THEN thought
      ELSE IF s.capturing
        THEN EmitCalls(EmitText(thought, "content", parsed.content),
                       parsed.calls)
      ELSE EmitText(thought, "content", s.tool_carry)

-----------------------------------------------------------------------------
(* The request.                                                            *)

Init ==
  /\ pc = "idle"
  /\ mode = [stream |-> FALSE, chat |-> FALSE, thinking |-> FALSE,
             tools |-> FALSE]
  /\ open = FALSE
  /\ stream = NewStream(mode)
  /\ text = <<>>
  /\ room = 0
  /\ late = 0
  /\ total = 0
  /\ active = 0
  /\ cancelled = 0

\* The model is ready and the request is valid: Api::handle answers with
\* the closure, or goes on to the blocking path.
Begin(m) ==
  /\ pc = "idle"
  /\ total < MaxRequests
  /\ pc' = "accepted"
  /\ mode' = m
  /\ open' = TRUE
  /\ stream' = NewStream(m)
  /\ text' = <<>>
  /\ room' = MaxText
  /\ late' = 0
  /\ UNCHANGED counters

\* The client closes its connection: external.  What it received and the
\* text it was owed no longer matter to anyone.
Disconnect ==
  /\ pc # "idle"
  /\ open
  /\ open' = FALSE
  /\ text' = <<>>
  /\ stream' = [stream EXCEPT !.reasoning = <<>>, !.content = <<>>]
  /\ UNCHANGED <<pc, mode, room, late, counters>>

RequestStarted == total' = total + 1 /\ active' = active + 1

RequestFinished(was_cancelled) ==
  /\ active' = active - 1
  /\ cancelled' = IF was_cancelled THEN cancelled + 1 ELSE cancelled
  /\ total' = total

\* write_response does not call the closure if the header cannot be sent.
HeaderFails ==
  /\ pc = "accepted"
  /\ mode.stream
  /\ ~open
  /\ pc' = "idle"
  /\ UNCHANGED <<mode, open, stream, text, room, late, counters>>

\* The closure starts, and greets a chat client with the assistant role.
\* A client that has gone before that never reaches the engine.
Start ==
  /\ pc = "accepted"
  /\ mode.stream
  /\ RequestStarted
  /\ stream' = IF mode.chat THEN Sink(stream) ELSE stream
  /\ pc' = IF stream'.connected THEN "streaming" ELSE "refused"
  /\ UNCHANGED <<mode, open, text, room, late, cancelled>>

FinishRefused ==
  /\ pc = "refused"
  /\ RequestFinished(TRUE)
  /\ pc' = "idle"
  /\ UNCHANGED <<mode, open, stream, text, room, late>>

\* The engine commits tokens and hands their text to on_delta, until that
\* answers false.
Delta(w) ==
  /\ pc = "streaming"
  /\ stream.connected
  /\ Len(w) <= room
  /\ room' = room - Len(w)
  /\ IF open THEN text' = text \o w /\ late' = late
             ELSE late' = late + 1 /\ text' = text
  /\ stream' = OnDelta(stream, w)
  /\ UNCHANGED <<pc, mode, open, counters>>

\* complete_stream returns.  Its finish_reason is "cancelled" exactly if
\* on_delta answered false, but a completed call replaces it.
Complete ==
  /\ pc = "streaming"
  /\ stream' = Flush(stream)
  /\ RequestFinished(/\ ~stream.connected
                     /\ ~(/\ stream.capturing
                          /\ ParseToolOutput(stream.tool_carry).calls # 0))
  /\ pc' = "finish"
  /\ UNCHANGED <<mode, open, text, room, late>>

\* Mutation: the handler forgets the counter.
ThrowsUncounted ==
  /\ pc = "streaming"
  /\ pc' = "error"
  /\ UNCHANGED <<mode, open, stream, text, room, late, counters>>

\* complete_stream throws, before or after on_delta answered false.
Throws ==
  /\ pc = "streaming"
  /\ RequestFinished(FALSE)
  /\ pc' = "error"
  /\ UNCHANGED <<mode, open, stream, text, room, late>>

EmitEnding ==
  /\ pc \in {"finish", "error"}
  /\ stream' = EmitEvent(stream, pc)
  /\ pc' = "done"
  /\ UNCHANGED <<mode, open, text, room, late, counters>>

Done ==
  /\ pc = "done"
  /\ stream' = IF stream.connected /\ open
                 THEN EmitEvent(stream, "done") ELSE stream
  /\ pc' = "idle"
  /\ UNCHANGED <<mode, open, text, room, late, counters>>

\* stream: false.  The engine answers with the whole text, or throws.
Block ==
  /\ pc = "accepted"
  /\ ~mode.stream
  /\ RequestStarted
  /\ pc' = "blocking"
  /\ UNCHANGED <<mode, open, stream, text, room, late, cancelled>>

Unblock ==
  /\ pc = "blocking"
  /\ RequestFinished(FALSE)
  /\ pc' = "idle"
  /\ open' = FALSE
  /\ UNCHANGED <<mode, stream, text, room, late>>

Next ==
  \/ \E m \in Modes : Begin(m)
  \/ \E w \in Deltas : Delta(w)
  \/ Disconnect \/ HeaderFails \/ Start \/ FinishRefused \/ Complete \/ Throws
  \/ EmitEnding \/ Done \/ Block \/ Unblock

Spec == Init /\ [][Next]_vars

-----------------------------------------------------------------------------
(* Properties.                                                             *)

\* Types; the carries never hold more than an unfinished marker, so that
\* the client sees text as soon as it cannot be part of one.
TypeOK ==
  /\ pc \in {"idle", "accepted", "refused", "streaming", "finish", "error",
             "done", "blocking"}
  /\ mode \in Modes
  /\ open \in BOOLEAN
  /\ {total, active, cancelled, room, late} \subseteq Nat
  /\ stream.in_reasoning =>
       Len(stream.thinking_carry) <
         IF parse_tools THEN Max({Len(CloseMarker), Len(ToolMarker)})
         ELSE Len(CloseMarker)
  /\ ~stream.capturing => Len(stream.tool_carry) < Len(ToolMarker)

\* Where the thoughts end in all the text so far, and what follows them:
\* at the first marker, of which </think> itself belongs to neither side.
Thoughts ==
  LET none == Len(text) + 1
      close == IF Has(CloseMarker, text) THEN Find(CloseMarker, text) ELSE none
      tool == IF parse_tools /\ Has(ToolMarker, text)
                THEN Find(ToolMarker, text) ELSE none
      cut == Min({close, tool})
  IN  IF mode.chat /\ mode.thinking
        THEN [reasoning |-> Before(cut, text),
              rest |-> From(IF tool < close THEN tool
                            ELSE close + Len(CloseMarker), text),
              over |-> cut < none]
      ELSE [reasoning |-> <<>>, rest |-> text, over |-> TRUE]

\* However the engine cuts its text into deltas, what was sent and what is
\* held back are together the thoughts and the answer of the text so far:
\* nothing is lost, sent twice or sent as the wrong field, a marker is
\* found wherever it is cut, and a call is captured from its marker on.
\* Only spaces after </think> may be dropped or not.
SplitIsExact ==
  pc = "streaming" /\ open =>
    LET split == Thoughts
        spoken == stream.content \o stream.tool_carry
    IN  /\ stream.in_reasoning = ~split.over
        /\ stream.reasoning \o stream.thinking_carry = split.reasoning
        /\ TrimFront(spoken) = TrimFront(split.rest)
        /\ parse_tools =>
             /\ stream.capturing = Has(ToolMarker, split.rest)
             /\ stream.capturing => ~Has(ToolMarker, stream.content)

\* A chat stream that ends normally tells the client what the response
\* without streaming would have told it, up to the spaces at both ends, if
\* no tool call precedes the end of the thoughts.
StreamAgrees ==
  /\ pc = "finish" /\ open /\ mode.chat
  /\ mode.thinking => /\ Has(CloseMarker, text)
                      /\ ~Has(ToolMarker, Before(Find(CloseMarker, text), text))
  => [reasoning |-> Trim(stream.reasoning),
      content |-> Trim(stream.content),
      calls |-> stream.calls]
     = [SplitChatOutput(mode, text) EXCEPT !.content = Trim(@)]

\* A client that has gone is noticed soon, whatever the stream is doing:
\* before another </think>, another <tool_call> and KeepAlive captured
\* deltas have passed by unsent.
LateBounded == late <= Len(CloseMarker) + Len(ToolMarker) + KeepAlive

\* On every path out of a request its start is matched by one finish, and
\* no request is counted as cancelled twice.
CountersSettle ==
  /\ active = IF pc \in {"refused", "streaming", "blocking"} THEN 1 ELSE 0
  /\ cancelled + active <= total

\* A client that stays gets exactly one finish or error event and then
\* [DONE], after a normal end as after an exception.
EndsWithDone ==
  pc = "idle" /\ open =>
    stream.ending \in {<<"finish", "done">>, <<"error", "done">>}

\* Every path out of a request leaves the counters and the client settled
\* (Api::handle, its stream closure).
StreamSettles == TypeOK /\ CountersSettle /\ EndsWithDone

=============================================================================
