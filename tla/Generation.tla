----------------------------- MODULE Generation -----------------------------
(***************************************************************************)
(* One generation of the serial engine, NativeEngine::complete_impl        *)
(* (src/native_engine.cpp), with speculative decoding                      *)
(* (src/mtp_runner.cpp, src/mtp_verifier.cpp, src/mtp_lifecycle.cpp,       *)
(* src/mtp_head.cpp), the hand-over of the decode state to the persistent  *)
(* Metal backend, and the prefix cache in RAM and on the SSD.              *)
(*                                                                         *)
(* A decode state is what it has consumed: the target state is a sequence  *)
(* of tokens, a hidden stream is the sequence that produced it, a row of   *)
(* the MTP head is a stream and the token it was combined with.  The       *)
(* arithmetic is the operator Greedy.  Drafts, draft depth and the         *)
(* fallback decision are arbitrary: they belong to policies that may only  *)
(* affect speed.  Every call into the model, the tokenizer or a callback   *)
(* may throw (Abort), which drops the request and keeps the caches.        *)
(***************************************************************************)
EXTENDS Integers, Sequences, FiniteSets

CONSTANTS
  Tokens,
  Stops,        \* end_of_sequence_token and chat_end_token_
  Greedy(_),    \* the model: the next token after a sequence
  RunnerUp(_),  \* its second choice, alternative_token of the backend
  Requests,     \* the requests: prompt, max_tokens, sampled, stream
  Configs,      \* the configurations of the engine, see ConfigType
  Depths,       \* draft lengths
  ChunkRows,    \* request_prefill_chunk
  CacheLimit,   \* prefix_cache_max_tokens
  MaxRequests   \* bound: requests served

\* head: an MTP head is loaded; backend: the persistent Metal backend is;
\* disk: the SSD prefix cache is on; extendEnv: QWEN38_EXTEND_PREFIX_CACHE;
\* shared: QWEN38_PERSISTENT_SHARE_MLX_WEIGHTS; anchor:
\* QWEN38_PERSISTENT_ANCHOR_TOKENS; minTokens: the diagnostic override
\* QWEN38_PERSISTENT_MIN_TOKENS, 0 where it is not set.
ConfigType ==
  [head : BOOLEAN, backend : BOOLEAN, disk : BOOLEAN, extendEnv : BOOLEAN,
   shared : BOOLEAN, anchor : Nat, minTokens : Nat]

RequestType ==
  [prompt : Seq(Tokens), max_tokens : Nat, sampled : BOOLEAN, stream : BOOLEAN]

ASSUME GenerationAssumption ==
  /\ Stops \subseteq Tokens
  /\ Configs \subseteq ConfigType
  /\ \A r \in Requests : /\ r.prompt \in Seq(Tokens) \ {<<>>}
                         /\ r.max_tokens \in Nat \ {0}
                         /\ {r.sampled, r.stream} \subseteq BOOLEAN
  /\ Depths \subseteq Nat \ {0, 1}
  /\ ChunkRows \in Nat \ {0}
  /\ CacheLimit \in Nat
  /\ MaxRequests \in Nat

NoBase == -1
NoStream == <<>>
EmptyHead == [base |-> NoBase, rows |-> <<>>]
EmptyTarget == [tokens |-> <<>>, count |-> 0]
NoEntry == [tokens |-> <<>>]

VARIABLES
  config,      \* the engine's configuration
  ram,         \* prefix_cache_
  disk,        \* the entries of the SSD store
  request,     \* the request being served
  pc,          \* how far complete_impl has got
  offset,      \* prefill_offset, then the rows prefilled
  target,      \* state: what it has consumed, and token_count
  head,        \* mtp_state: position_base and its rows
  stream,      \* previous_target_stream
  backend,     \* the persistent backend: what it has consumed, its stream
  active,      \* persistent_active
  reset,       \* persistent_reset
  anchor,      \* persistent_anchor_remaining
  current,     \* the token to consume next
  out,         \* result.tokens
  profitable,  \* mtp_profitable
  extendable,  \* mtp_cache_extendable
  pending,     \* pending_mtp_streams and pending_mtp_tokens
  rounds,      \* result.mtp_rounds, counted to 2
  changed,     \* prefix_cache_changed
  copy,        \* prompt_cache_tokens and prompt_cache_state
  reason,      \* result.finish_reason
  status,      \* how the last request ended
  served       \* requests begun

caches == <<ram, disk>>
live == <<offset, target, head, stream>>
metal == <<backend, active, reset, anchor>>
loop == <<current, out, profitable, extendable, pending, rounds>>
ending == <<changed, copy, reason>>
serving == <<config, request, status, served>>
vars == <<caches, live, metal, loop, ending, serving, pc>>

Pcs == {"idle", "lookup", "restore", "prefill", "checkpoint", "persist",
        "activate", "decode", "finish", "save prompt", "save entry", "return"}

-----------------------------------------------------------------------------
(* Sequences of tokens.                                                    *)

IsPrefix(s, t) == Len(s) <= Len(t) /\ SubSeq(t, 1, Len(s)) = s

\* All but the last prompt token, which is the first one decoded.
PrefillTokens == SubSeq(request.prompt, 1, Len(request.prompt) - 1)
PrefillRows == Len(request.prompt) - 1

Min2(a, b) == IF a < b THEN a ELSE b

-----------------------------------------------------------------------------
(* The MTP head.                                                           *)

\* mtp_state_matches_target.
Matches(h, count) == h.base # NoBase /\ h.base + Len(h.rows) = count

\* Rows are contiguous: the first one fixes position_base, any other
\* position than the next one throws.
Accepts(h, position) == h.base = NoBase \/ h.base + Len(h.rows) = position

Feed(h, rows, position) ==
  [base |-> IF h.base = NoBase THEN position ELSE h.base,
   rows |-> h.rows \o rows]

Row(s, t) == [stream |-> s, token |-> t]

-----------------------------------------------------------------------------
(* The SSD store as the engine sees it; PrefixCacheStore has the detail.   *)

\* What a stored entry keeps of a RAM entry.
Persisted(e) == [e EXCEPT !.backed = FALSE]

\* save returned true: other entries may have been evicted.
DiskKeeps(e) ==
  \E rest \in SUBSET {d \in disk : d.tokens # e.tokens} :
    disk' = rest \cup {Persisted(e)}

\* save returned false: e alone is over the limit, all others are evicted.
DiskRefuses == disk' = {}

-----------------------------------------------------------------------------
(* The start of a request.                                                 *)

Begin(r) ==
  /\ pc = "idle"
  /\ served < MaxRequests
  /\ served' = served + 1
  /\ request' = r
  /\ offset' = 0
  /\ target' = EmptyTarget
  /\ head' = EmptyHead
  /\ stream' = NoStream
  /\ active' = FALSE
  /\ anchor' = IF config.backend THEN Min2(config.anchor, r.max_tokens) ELSE 0
  /\ reset' = (Len(r.prompt) = 1 /\ anchor' = 0)
  /\ current' = r.prompt[Len(r.prompt)]
  /\ out' = <<>>
  /\ extendable' = TRUE
  /\ pending' = <<>>
  /\ rounds' = 0
  /\ changed' = FALSE
  /\ copy' = NoEntry
  /\ reason' = "length"
  /\ status' = "running"
  /\ pc' = "lookup"
  /\ profitable' = (~r.sampled /\ config.head)
  /\ UNCHANGED <<config, caches, backend>>

\* A RAM entry that does not match gives way to the longest one on disk.
Lookup ==
  /\ pc = "lookup"
  /\ IF config.disk /\ (ram = NoEntry \/ ~IsPrefix(ram.tokens, PrefillTokens))
     THEN LET found == {d \in disk : IsPrefix(d.tokens, PrefillTokens)}
          IN  \/ \E d \in found :
                   /\ \A e \in found : Len(e.tokens) <= Len(d.tokens)
                   /\ ram' = [d EXCEPT !.backed = TRUE]
              \/ ram' = NoEntry
     ELSE UNCHANGED ram
  /\ pc' = "restore"
  /\ UNCHANGED <<disk, live, metal, loop, ending, serving>>

Hit == ram # NoEntry /\ IsPrefix(ram.tokens, PrefillTokens)

\* The entry's head state, with its pending rows consumed.
RestoredHead ==
  IF config.head
  THEN IF ram.pending = <<>> THEN ram.head
       ELSE Feed(ram.head, ram.pending, ram.head.base + Len(ram.head.rows))
  ELSE EmptyHead

\* An extended hit lets go of an entry that the disk still has.
DropsRestored ==
  config.disk /\ ram.backed /\ Len(ram.tokens) < PrefillRows

\* A hit restores the entry's states; an exact hit may also restore the
\* verdict that speculation does not pay.
Restore ==
  /\ pc = "restore"
  /\ \/ /\ Hit
        /\ target' = ram.target
        /\ head' = RestoredHead
        /\ stream' = ram.stream
        /\ offset' = Len(ram.tokens)
        /\ ram' = IF DropsRestored THEN NoEntry ELSE ram
        /\ profitable' \in {profitable,
                            profitable /\ Len(ram.tokens) < PrefillRows}
     \/ ~Hit /\ UNCHANGED <<live, ram, profitable>>
  /\ pc' = "prefill"
  /\ UNCHANGED <<disk, metal, current, out, extendable, pending, rounds, ending,
                 serving>>

-----------------------------------------------------------------------------
(* Prefill.                                                                *)

\* The first token of a chunk that the head consumes: it needs the stream of
\* the token before.
FirstFed(first) == IF stream = NoStream THEN first + 1 ELSE first

\* One chunk, prefill_chunk_batch and consume_target_batch.
PrefillChunk ==
  /\ pc = "prefill"
  /\ offset < PrefillRows
  /\ LET count == Min2(ChunkRows, PrefillRows - offset)
         chunk == SubSeq(request.prompt, offset + 1, offset + count)
         after(k) == target.tokens \o SubSeq(chunk, 1, k)
         first == FirstFed(offset)
         rows  == [i \in 1..(offset + count - first) |->
                     Row(IF first + i - 1 = offset THEN stream
                         ELSE after(first + i - 1 - offset),
                         request.prompt[first + i])]
     IN  /\ target' = [tokens |-> after(count), count |-> target.count + count]
         /\ stream' = after(count)
         /\ offset' = offset + count
         /\ \/ config.head /\ rows # <<>> /\ Accepts(head, first)
               /\ head' = Feed(head, rows, first)
            \/ ~(config.head /\ rows # <<>>) /\ UNCHANGED head
  /\ UNCHANGED <<caches, metal, loop, ending, serving, pc>>

EndPrefill ==
  /\ pc = "prefill"
  /\ offset >= PrefillRows
  /\ pc' = "checkpoint"
  /\ UNCHANGED <<caches, live, metal, loop, ending, serving>>

Entry(tokens, rows) ==
  [tokens |-> tokens, target |-> target, head |-> head, stream |-> stream,
   pending |-> rows, backed |-> FALSE]

\* prefill_offset was prefill_rows: the restored entry is the whole prompt.
RestoredExactly == Hit /\ Len(ram.tokens) = PrefillRows

\* The prompt checkpoint takes the one slot in RAM.
PromptCheckpoint ==
  /\ pc = "checkpoint"
  /\ PrefillRows # 0 /\ PrefillRows <= CacheLimit
  /\ ~RestoredExactly
  /\ ram' = Entry(PrefillTokens, <<>>)
  /\ changed' = TRUE
  /\ pc' = IF config.disk THEN "persist" ELSE "activate"
  /\ UNCHANGED <<disk, live, metal, loop, copy, reason, serving>>

\* It moves to the disk if the disk takes it; otherwise it stays, with a
\* copy to offer again at the end.
PersistPrompt ==
  /\ pc = "persist"
  /\ \/ /\ DiskKeeps(ram)
        /\ ram' = NoEntry
        /\ UNCHANGED copy
     \/ /\ DiskRefuses \/ UNCHANGED disk
        /\ copy' = ram
        /\ UNCHANGED ram
  /\ pc' = "activate"
  /\ UNCHANGED <<live, metal, loop, changed, reason, serving>>

NoCheckpoint ==
  /\ pc = "checkpoint"
  /\ ~(PrefillRows # 0 /\ PrefillRows <= CacheLimit) \/ RestoredExactly
  /\ pc' = "activate"
  /\ UNCHANGED <<caches, live, metal, loop, ending, serving>>

-----------------------------------------------------------------------------
(* The persistent backend.                                                 *)

\* The stream left by the disposable warm-up step on token 0.
WarmStream == <<0>>

\* activate_persistent: the backend takes over the tokens consumed, and the
\* MLX state is replaced by an empty one that keeps only its token_count.
Activate(tokens, count) ==
  /\ backend' = [tokens |-> tokens, stream |-> WarmStream]
  /\ target' = [tokens |-> <<>>, count |-> count]
  /\ stream' = NoStream
  /\ active' = TRUE
  /\ reset' = FALSE

StartDecoding ==
  /\ pc = "activate"
  /\ IF ~request.sampled /\ config.backend /\ ~config.head /\ anchor = 0
     THEN \/ /\ ~reset
             /\ Activate(target.tokens, target.count)
          \/ /\ reset
             /\ active' = config.shared
             /\ UNCHANGED <<backend, target, stream, reset>>
     ELSE UNCHANGED <<backend, target, stream, active, reset>>
  /\ pc' = "decode"
  /\ UNCHANGED <<caches, offset, head, anchor, loop, ending, serving>>

\* The backend has no room for another token: the state goes back to MLX.
Export ==
  /\ pc = "decode"
  /\ active /\ ~reset
  /\ target' = [tokens |-> backend.tokens, count |-> Len(backend.tokens)]
  /\ stream' = backend.stream
  /\ active' = FALSE
  /\ UNCHANGED <<caches, offset, head, backend, reset, anchor, loop, ending,
                 serving, pc>>

-----------------------------------------------------------------------------
(* The decode loop: one token at a time.                                   *)

Remaining == request.max_tokens - Len(out)

\* extend_cache_enabled.
Extends == ~(config.backend /\ config.head) /\ (config.disk \/ config.extendEnv)

Serial ==
  \/ ~profitable
  \/ stream = NoStream
  \/ Remaining = 1
  \/ Extends /\ Remaining = 2

\* May the row of this step be kept for later?
CanPend ==
  /\ Extends /\ stream # NoStream
  /\ \/ pending = <<>> /\ Matches(head, target.count)
     \/ /\ pending # <<>> /\ head.base # NoBase
        /\ head.base + Len(head.rows) + Len(pending) = target.count

\* A serial step keeps the head in step, collects a row for later, or gives
\* up extending the cache.
HeadFollows ==
  IF ~config.head THEN UNCHANGED <<head, pending, extendable>>
  ELSE IF Extends /\ profitable /\ stream # NoStream /\ Matches(head, target.count)
  THEN /\ head' = Feed(head, <<Row(stream, current)>>, target.count)
       /\ UNCHANGED <<pending, extendable>>
  ELSE IF CanPend
  THEN /\ pending' = Append(pending, Row(stream, current))
       /\ UNCHANGED <<head, extendable>>
  ELSE /\ extendable' = FALSE
       /\ UNCHANGED <<head, pending>>

\* new are the tokens a step adds to the result, stopped says that a stop
\* token follows them; the client may be found gone while they are sent.
Push(new, stopped) ==
  /\ out' = out \o new
  /\ \/ /\ stopped
        /\ reason' = "stop" /\ pc' = "finish"
     \/ /\ ~stopped /\ request.stream
        /\ reason' = "cancelled" /\ pc' = "finish"
     \/ /\ ~stopped
        /\ reason' = reason
        /\ pc' = IF Len(out') = request.max_tokens THEN "finish" ELSE "decode"

\* persistent_min_tokens.
MinTokens == Min2(config.minTokens, request.max_tokens)

\* The backend's next token: a stop token below the minimum gives way to the
\* second choice, which may be a stop token too.
MetalNext(consumed) ==
  IF Greedy(consumed) \in Stops /\ Len(out) < MinTokens
  THEN RunnerUp(consumed)
  ELSE Greedy(consumed)

\* A step of the persistent backend.
MetalStep ==
  /\ pc = "decode" /\ Serial
  /\ active /\ anchor = 0
  /\ HeadFollows
  /\ LET consumed == IF reset THEN <<current>>
                     ELSE Append(backend.tokens, current)
         next == MetalNext(consumed)
     IN  /\ backend' = [tokens |-> consumed, stream |-> consumed]
         /\ target' = [target EXCEPT !.count = @ + 1]
         /\ current' = next
         /\ Push(IF next \in Stops THEN <<>> ELSE <<next>>, next \in Stops)
  /\ reset' = FALSE
  /\ UNCHANGED <<caches, offset, stream, active, anchor, profitable, rounds,
                 changed, copy, serving>>

\* A step of the MLX model, greedy or sampled.  The last anchor token hands
\* over to the backend.
MlxStep ==
  /\ pc = "decode" /\ Serial
  /\ ~active \/ anchor # 0
  /\ HeadFollows
  /\ \E next \in Tokens :
       LET consumed == Append(target.tokens, current)
           handOver == anchor = 1 /\ next \notin Stops
       IN  /\ request.sampled \/ next = Greedy(consumed)
           /\ \/ handOver /\ Activate(consumed, target.count + 1)
              \/ /\ ~handOver
                 /\ target' = [tokens |-> consumed, count |-> target.count + 1]
                 /\ stream' = consumed
                 /\ UNCHANGED <<backend, active, reset>>
           /\ current' = next
           /\ Push(IF next \in Stops THEN <<>> ELSE <<next>>, next \in Stops)
  /\ anchor' = IF anchor = 0 THEN 0 ELSE anchor - 1
  /\ UNCHANGED <<caches, offset, profitable, rounds, changed, copy, serving>>

-----------------------------------------------------------------------------
(* The decode loop: a speculative round.                                   *)

\* What the verifier's rows have consumed, and their greedy tokens.
Verified(drafts, i) == target.tokens \o <<current>> \o SubSeq(drafts, 1, i)
TargetRow(drafts, i) == Greedy(Verified(drafts, i))

\* Mutation: the match is not required to be a prefix.
AgreesAlone(drafts, k) ==
  k = 0 \/ (drafts[k] = TargetRow(drafts, k - 1) /\ drafts[k] \notin Stops)

\* Do the first k drafts agree with the target, none being a stop token?
Agrees(drafts, k) ==
  \A i \in 1..k :
    drafts[i] = TargetRow(drafts, i - 1) /\ drafts[i] \notin Stops

\* decide_mtp_greedy: the longest agreeing prefix.
Accepted(drafts) ==
  CHOOSE k \in 0..Len(drafts) :
    /\ Agrees(drafts, k)
    /\ \A m \in 0..Len(drafts) : Agrees(drafts, m) => m <= k

\* Mutation: the speculative rows of rejected drafts stay in the head.
CommittedRowsAll(drafts, k) ==
  <<Row(stream, current)>> \o
    [i \in 1..Len(drafts) |-> Row(Verified(drafts, i - 1), drafts[i])]

\* Mutation: a draft is paired with the stream after it.
CommittedRowsShifted(drafts, k) ==
  <<Row(stream, current)>> \o
    [i \in 1..k |-> Row(Verified(drafts, i), drafts[i])]

\* The head is rebuilt from the current row and the accepted drafts.
CommittedRows(drafts, k) ==
  <<Row(stream, current)>> \o
    [i \in 1..k |-> Row(Verified(drafts, i - 1), drafts[i])]

\* One round: draft, verify, commit the accepted rows, emit.  A draft that
\* is not the head's own is at most as long as what remains.
Round(drafts, external) ==
  /\ pc = "decode" /\ ~Serial
  /\ external => Len(drafts) <= Remaining
  /\ Accepts(head, target.count)
  /\ LET k == Accepted(drafts)
         consumed == Verified(drafts, k)
         next == TargetRow(drafts, k)
         emitted == SubSeq(Append(SubSeq(drafts, 1, k), next), 1,
                           Min2(k + 1, Remaining))
         stopped == emitted[Len(emitted)] \in Stops
     IN  /\ head' = Feed(head, CommittedRows(drafts, k), target.count)
         /\ current' = next
         /\ Push(IF stopped THEN SubSeq(emitted, 1, Len(emitted) - 1)
                 ELSE emitted, stopped)
         /\ \/ /\ target' = [tokens |-> consumed, count |-> target.count + k + 1]
               /\ stream' = consumed
               /\ UNCHANGED <<profitable, backend, active, reset>>
            \/ /\ ~external /\ reason' = reason
               /\ profitable' = FALSE
               /\ \/ /\ config.backend /\ ~active
                     /\ Activate(consumed, target.count + k + 1)
                  \/ /\ ~config.backend \/ active
                     /\ target' = [tokens |-> consumed,
                                   count |-> target.count + k + 1]
                     /\ stream' = consumed
                     /\ UNCHANGED <<backend, active, reset>>
  /\ rounds' = Min2(rounds + 1, 2)
  /\ UNCHANGED <<caches, offset, anchor, extendable, pending, changed, copy,
                 serving>>

-----------------------------------------------------------------------------
(* The end of a request.                                                   *)

Complete == Len(request.prompt) + Len(out)

\* Has the target consumed exactly what the result says, up to the token
\* that would come next?
TargetMatches(count) ==
  IF reason = "stop" THEN count = Complete ELSE count + 1 = Complete

HeadMatches(count) ==
  \/ ~config.head
  \/ /\ extendable
     /\ \/ Matches(head, count)
        \/ /\ head.base # NoBase
           /\ head.base + Len(head.rows) + Len(pending) = count

\* The state is fetched back from the backend.
FetchesBack == active /\ Extends /\ CacheLimit # 0 /\ target.count <= CacheLimit
Final ==
  IF FetchesBack THEN [tokens |-> backend.tokens, count |-> Len(backend.tokens)]
  ELSE target
FinalStream == IF FetchesBack THEN backend.stream ELSE stream

\* The RAM entry is extended to all tokens consumed when target, head and
\* stream agree on them.
Extension ==
  /\ Extends /\ CacheLimit # 0
  /\ TargetMatches(Final.count) /\ HeadMatches(Final.count)
  /\ FinalStream # NoStream /\ Final.count <= CacheLimit
ExtendedEntry ==
  [tokens |-> SubSeq(request.prompt \o out, 1, Final.count),
   target |-> Final, head |-> head, stream |-> FinalStream,
   pending |-> pending, backed |-> FALSE]

FinishDecoding ==
  /\ pc = "finish"
  /\ LET probed == ram # NoEntry /\ ram.tokens = PrefillTokens /\ rounds >= 2
     IN  /\ target' = Final
         /\ stream' = FinalStream
         /\ ram' = IF Extension THEN ExtendedEntry ELSE ram
         /\ changed' = (changed \/ Extension \/ probed)
  /\ reason' \in {reason} \cup
                 (IF request.stream /\ reason # "cancelled" /\ out # <<>>
                  THEN {"cancelled"} ELSE {})
  /\ pc' = IF changed' /\ config.disk THEN "save prompt" ELSE "return"
  /\ UNCHANGED <<disk, offset, head, metal, loop, copy, serving>>

IsPromptEntry == ram # NoEntry /\ ram.tokens = copy.tokens

\* A prompt checkpoint the disk did not take is offered again; an exception
\* skips what follows.
SavePrompt ==
  /\ pc = "save prompt"
  /\ \/ /\ copy = NoEntry
        /\ pc' = "save entry"
        /\ UNCHANGED <<ram, disk>>
     \/ /\ copy # NoEntry
        /\ \/ /\ DiskKeeps(copy)
              /\ ram' = IF IsPromptEntry THEN [ram EXCEPT !.backed = TRUE] ELSE ram
              /\ pc' = "save entry"
           \/ /\ DiskRefuses
              /\ ram' = IF IsPromptEntry THEN [ram EXCEPT !.backed = FALSE] ELSE ram
              /\ pc' = "save entry"
           \/ /\ ram' = IF IsPromptEntry THEN [ram EXCEPT !.backed = FALSE] ELSE ram
              /\ pc' = "return"
              /\ UNCHANGED disk
  /\ UNCHANGED <<live, metal, loop, ending, serving>>

\* Mutation: a failing save leaves the old verdict in place.
SaveEntryKeepsBacked ==
  /\ pc = "save entry"
  /\ \/ (ram = NoEntry \/ IsPromptEntry) /\ UNCHANGED caches
     \/ /\ ram # NoEntry /\ ~IsPromptEntry
        /\ \/ DiskKeeps(ram) /\ ram' = [ram EXCEPT !.backed = TRUE]
           \/ DiskRefuses /\ UNCHANGED ram
           \/ UNCHANGED caches
  /\ pc' = "return"
  /\ UNCHANGED <<live, metal, loop, ending, serving>>

\* persist_prefix_cache for an entry other than the prompt's.
SaveEntry ==
  /\ pc = "save entry"
  /\ \/ (ram = NoEntry \/ IsPromptEntry) /\ UNCHANGED caches
     \/ /\ ram # NoEntry /\ ~IsPromptEntry
        /\ \/ DiskKeeps(ram) /\ ram' = [ram EXCEPT !.backed = TRUE]
           \/ /\ DiskRefuses \/ UNCHANGED disk
              /\ ram' = [ram EXCEPT !.backed = FALSE]
  /\ pc' = "return"
  /\ UNCHANGED <<live, metal, loop, ending, serving>>

\* The locals of complete_impl are gone.
Forget ==
  /\ offset' = 0
  /\ target' = EmptyTarget
  /\ head' = EmptyHead
  /\ stream' = NoStream
  /\ active' = FALSE
  /\ pending' = <<>>
  /\ copy' = NoEntry
  /\ pc' = "idle"
  /\ UNCHANGED <<config, request, served, out, backend, reset, anchor, current,
                 profitable, extendable, rounds, changed, reason>>

Return ==
  /\ pc = "return"
  /\ ram' = IF config.disk /\ ram # NoEntry /\ ram.backed THEN NoEntry ELSE ram
  /\ status' = reason
  /\ Forget
  /\ UNCHANGED disk

\* The last delta or the decoding of the text throws: the entry extended just
\* before stays, and is not offered to the disk.
FinishThrows ==
  /\ pc = "finish" /\ Extension
  /\ ram' = ExtendedEntry
  /\ status' = "error"
  /\ Forget
  /\ UNCHANGED disk

\* An exception anywhere else: the caches stay as they are.
Abort ==
  /\ pc \notin {"idle", "save prompt", "save entry", "return"}
  /\ status' = "error"
  /\ Forget
  /\ UNCHANGED caches

\* clear_cache(), between requests.
ClearCache ==
  /\ pc = "idle"
  /\ ram # NoEntry \/ disk # {}
  /\ ram' = NoEntry
  /\ disk' = {}
  /\ UNCHANGED <<live, metal, loop, ending, serving, pc>>

Init ==
  /\ config \in Configs
  /\ ram = NoEntry
  /\ disk = {}
  /\ request \in Requests
  /\ pc = "idle"
  /\ offset = 0
  /\ target = EmptyTarget
  /\ head = EmptyHead
  /\ stream = NoStream
  /\ backend = [tokens |-> <<>>, stream |-> NoStream]
  /\ active = FALSE
  /\ reset = FALSE
  /\ anchor = 0
  /\ current = request.prompt[1]
  /\ out = <<>>
  /\ profitable = FALSE
  /\ extendable = TRUE
  /\ pending = <<>>
  /\ rounds = 0
  /\ changed = FALSE
  /\ copy = NoEntry
  /\ reason = "length"
  /\ status = "idle"
  /\ served = 0

Next ==
  \/ \E r \in Requests : Begin(r)
  \/ Lookup \/ Restore \/ PrefillChunk \/ EndPrefill
  \/ PromptCheckpoint \/ PersistPrompt \/ NoCheckpoint
  \/ StartDecoding
  \/ Export \/ MetalStep \/ MlxStep
  \/ \E d \in Depths, external \in BOOLEAN :
       \E drafts \in [1..d -> Tokens] : Round(drafts, external)
  \/ FinishDecoding \/ FinishThrows \/ SavePrompt \/ SaveEntry \/ Return
  \/ Abort \/ ClearCache

Spec == Init /\ [][Next]_vars

-----------------------------------------------------------------------------
(* Properties.                                                             *)

\* The rows of a head, with those still pending, are the rows of these
\* tokens: token i beside the stream of the i tokens before it.
RowsOf(h, rows, tokens) ==
  LET all == h.rows \o rows
  IN  /\ h.base + Len(all) = Len(tokens)
      /\ \A i \in DOMAIN all :
           /\ all[i].token = tokens[h.base + i]
           /\ all[i].stream = SubSeq(tokens, 1, h.base + i - 1)

EntryTrue(e) ==
  /\ e.target = [tokens |-> e.tokens, count |-> Len(e.tokens)]
  /\ config.head =>
       /\ e.stream = e.tokens
       /\ e.head.base # NoBase => RowsOf(e.head, e.pending, e.tokens)
       /\ e.head.base = NoBase => e.pending = <<>>

TypeOK ==
  /\ config \in Configs
  /\ request \in Requests
  /\ pc \in Pcs
  /\ target.tokens \in Seq(Tokens) /\ target.count \in Nat
  /\ out \in Seq(Tokens)
  /\ Len(out) <= request.max_tokens
  /\ current \in Tokens
  /\ offset \in Nat /\ anchor \in Nat
  /\ {active, reset, profitable, extendable, changed} \subseteq BOOLEAN
  /\ served \in 0..MaxRequests

\* What a cache entry says it is, it is: its target state consumed exactly
\* the entry's tokens, and its head state, pending rows included, is what a
\* prefill of those tokens builds.  It holds for entries extended by
\* speculation, truncated at max_tokens, stopped, cancelled or fetched back
\* from the backend.
CacheTrue ==
  /\ ram # NoEntry => EntryTrue(ram)
  /\ \A d \in disk : EntryTrue(d)

\* A RAM entry that may be let go as backed by the SSD is on the SSD
\* (native_engine.cpp:1042 "Its SSD copy remains available for retry").
BackedIsOnDisk ==
  ram # NoEntry /\ ram.backed => \E d \in disk : d.tokens = ram.tokens

\* native_engine.cpp:1755: "Only discard a RAM checkpoint after confirmed
\* persistence".  Outside the lookup of another prompt and clear_cache, an
\* entry leaves RAM only when the disk has it.
DropsOnlyPersisted ==
  ram # NoEntry /\ ram' = NoEntry /\ pc \notin {"lookup", "idle"} =>
    \E d \in disk' : d.tokens = ram.tokens

\* A speculative round is never refused for its position: whenever the loop
\* would speculate, the head is in step with the target.
SpeculationInStep ==
  pc = "decode" /\ ~Serial => Accepts(head, target.count)

\* The tokens consumed when a step of the loop begins.
Consumed == SubSeq(request.prompt \o out, 1, Complete - 1)

\* prior-research-ledger.md:291, the hand-over "imported the exact committed
\* target state": while the backend is in charge its state is that of
\* everything consumed so far.
MetalHoldsCommitted ==
  pc = "decode" /\ active /\ ~reset => backend.tokens = Consumed

\* Whatever is drafted, accepted, cached, restored and handed over, a greedy
\* request gets the model's own greedy continuation, or, under the diagnostic
\* minimum, the runner-up of a stop token that comes too early.
Decode == INSTANCE GreedyDecode WITH minimum <- config.minTokens
GreedySpec == Decode!Spec

\* Whoever takes the next step of complete_impl's loop, the head for a round
\* or the backend for a token, holds what the loop has consumed.
DecodersInStep == TypeOK /\ SpeculationInStep /\ MetalHoldsCommitted

\* No checkpoint is lost to the exchange between RAM and SSD: what counts as
\* backed is on disk, and nothing else is let go (persist_prefix_cache).
CheckpointsKept == [][BackedIsOnDisk' /\ DropsOnlyPersisted]_vars

=============================================================================
