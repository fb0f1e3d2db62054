---------------------------- MODULE DecodeState ----------------------------
(***************************************************************************)
(* The decode state of the target model and of the speculative head (MTP), *)
(* driven through every operation the engine has on it: prefill in chunks, *)
(* a group of layers at a time, possibly several chunks at once; decoding  *)
(* alone or in a batch of sequences; speculative rounds that keep the      *)
(* checkpoint of the last accepted draft; catching the head up; snapshot   *)
(* and restore; saving to and loading from a prefix file.                  *)
(*                                                                         *)
(* The text a request will turn out to have is fixed when it starts: the   *)
(* tokens fed are always its beginning, and a rejected draft is Wrong.     *)
(***************************************************************************)
EXTENDS LayerState

CONSTANTS
  Kinds,      \* the kinds of the layers
  Stride,     \* layers per barrier group of a prefill
  Options,    \* the environments the process may have been started with
  Texts,      \* the texts of the requests
  Wrong,      \* a token that is in no text
  MaxRows,    \* rows of one prefill call
  MaxChunks,  \* chunks of one layer-major prefill
  MaxDrafts,  \* drafts of one round
  MaxBatch,   \* sequences of one batch
  Starts      \* positions the head is first fed from

\* What the readers of the environment accept: a decode budget within the
\* model's, no window or one of at least 16 rows, which is more than the
\* blocks of any model need (qsa_selection_budget, qsa_raw_window).
Environments ==
  [window : Nat, decode_budget : 1..Budget, q8 : BOOLEAN, batch_q8 : BOOLEAN,
   batch_sdpa : BOOLEAN, batch_kv : BOOLEAN, sdpa_prefill : BOOLEAN,
   packed_prefill : BOOLEAN, compact : BOOLEAN, metal_prefill : BOOLEAN,
   pairs : BOOLEAN, batch_commit : BOOLEAN]

ASSUME DecodeStateAssumption ==
  /\ Kinds \in Seq([full : BOOLEAN, ple : BOOLEAN]) /\ Kinds # <<>>
  /\ {Stride, MaxRows} \subseteq Nat \ {0}
  /\ {MaxChunks, MaxDrafts, MaxBatch, Wrong} \subseteq Nat
  /\ \A o \in Options : o \in Environments /\ (o.window = 0 \/ o.window + 2 >= Ratio)
  /\ Texts \subseteq Seq(Nat) /\ Starts \subseteq Nat \ {0}

NoBase == -1
Layers == DOMAIN Kinds
HeadKind == [full |-> TRUE, ple |-> FALSE]

VARIABLES
  opt,      \* the environment
  text,     \* the text of the current request
  target,   \* ModelDecodeState
  head,     \* MtpDecodeState
  chunks,   \* the chunks of the prefill call in progress
  fed       \* history: the tokens the request has fed to the target

vars == <<opt, text, target, head, chunks, fed>>

NewTarget == [layers |-> [l \in Layers |-> NewLayer], token_count |-> 0]
NewHead == [layer |-> NewLayer, row_count |-> 0, position_base |-> NoBase]

Init ==
  /\ opt \in Options /\ text \in Texts
  /\ target = NewTarget /\ head = NewHead /\ chunks = <<>> /\ fed = <<>>

Ready == chunks = <<>>
Upcoming(n) == Rows(text, Len(fed), Len(fed) + n)

-----------------------------------------------------------------------------
(* Prefill.                                                                *)

\* begin_prefill_chunk_batch for every chunk of a call.
BeginPrefill(n, chunk_rows) ==
  /\ Ready /\ Len(fed) + n <= Len(text)
  /\ chunks' = [c \in 1..((n + chunk_rows - 1) \div chunk_rows) |->
                  [next_layer |-> 0,
                   toks |-> Rows(Upcoming(n), (c - 1) * chunk_rows,
                                 MinOf(c * chunk_rows, n))]]
  /\ UNCHANGED <<opt, text, target, head, fed>>

\* The layers of the barrier group that starts at layer begin.
BarrierEnd(begin) == MinOf(Len(Kinds), ((begin \div Stride) + 1) * Stride)

\* advance_prefill_chunk_batch: one group of layers, and at the last one
\* the length of the state.
Advanced(state, chunk) ==
  LET end == BarrierEnd(chunk.next_layer)
  IN [layers |-> [l \in Layers |->
                    IF chunk.next_layer < l /\ l <= end
                    THEN LayerPrefill(Kinds[l], state.layers[l], opt, chunk.toks)
                    ELSE state.layers[l]],
      token_count |-> state.token_count
                        + (IF end = Len(Kinds) THEN Len(chunk.toks) ELSE 0)]

\* The chunks of a layer-major prefill take turns, a group each.
ChunkInTurn == CHOOSE c \in DOMAIN chunks :
          \A d \in DOMAIN chunks :
            \/ chunks[c].next_layer < chunks[d].next_layer
            \/ chunks[c].next_layer = chunks[d].next_layer /\ c <= d

AdvancePrefill ==
  /\ chunks # <<>>
  /\ LET moved == [chunks EXCEPT ![ChunkInTurn].next_layer = BarrierEnd(@)]
         done  == \A c \in DOMAIN moved : moved[c].next_layer = Len(Kinds)
         rows[c \in 0..Len(chunks)] ==
           IF c = 0 THEN <<>> ELSE rows[c - 1] \o chunks[c].toks
     IN /\ target' = Advanced(target, chunks[ChunkInTurn])
        /\ chunks' = IF done THEN <<>> ELSE moved
        /\ fed' = IF done THEN fed \o rows[Len(chunks)] ELSE fed
  /\ UNCHANGED <<opt, text, head>>

\* An exception inside a group: the request ends, and its state with it.
PrefillThrows ==
  /\ chunks # <<>>
  /\ chunks' = <<>> /\ target' = NewTarget /\ head' = NewHead /\ fed' = <<>>
  /\ text' \in Texts
  /\ UNCHANGED opt

-----------------------------------------------------------------------------
(* Decoding.                                                               *)

\* forward_hidden_decode_impl.
Decoded(state, tok) ==
  [layers |-> [l \in Layers |-> LayerDecode(Kinds[l], state.layers[l], opt, tok)],
   token_count |-> state.token_count + 1]

Decode ==
  /\ Ready /\ Len(fed) < Len(text)
  /\ target' = Decoded(target, Upcoming(1)[1])
  /\ fed' = fed \o Upcoming(1)
  /\ UNCHANGED <<opt, text, head, chunks>>

\* forward_decode_capture_multi.
DecodedMulti(states, toks) ==
  [row \in DOMAIN states |->
     [layers |-> [l \in Layers |->
                    LayerDecodeMulti(Kinds[l],
                      [r \in DOMAIN states |-> states[r].layers[l]], opt, toks)[row]],
      token_count |-> states[row].token_count + 1]]

\* The sequence decodes as one row of a batch, beside sequences that have
\* just begun.
DecodeInBatch(rows, mine) ==
  LET states == [r \in 1..rows |-> IF r = mine THEN target ELSE NewTarget]
      toks   == [r \in 1..rows |-> IF r = mine THEN Upcoming(1)[1] ELSE Wrong]
  IN /\ Ready /\ Len(fed) < Len(text)
     /\ target' = DecodedMulti(states, toks)[mine]
     /\ fed' = fed \o Upcoming(1)
     /\ UNCHANGED <<opt, text, head, chunks>>

-----------------------------------------------------------------------------
(* The speculative head.  Its row at position p pairs the target's stream  *)
(* of position p - 1 with the token fed at p.                              *)

\* The checks and the base that every call of the head starts with.
Based(h, position) ==
  LET base == IF h.position_base = NoBase THEN position ELSE h.position_base
      full == [h.layer.full EXCEPT
                 !.position_base = IF h.row_count = 0 THEN position ELSE @,
                 !.err = IF position = base + h.row_count THEN @ ELSE TRUE]
  IN [h EXCEPT !.position_base = base, !.layer.full = full]

\* forward_stream_lazy_token: drafting and consume_decode.
HeadDecoded(h, position, tok) ==
  LET b == Based(h, position)
  IN [b EXCEPT !.layer = LayerDecode(HeadKind, @, opt, tok), !.row_count = @ + 1]

\* consume_committed_batch keeps the checkpoint of the last row.
HeadCommitted(h, position, toks) ==
  LET b == Based(h, position)
  IN [b EXCEPT !.layer = LayerVerify(HeadKind, @, opt, toks)[Len(toks)],
               !.row_count = @ + Len(toks)]

\* consume_prefill_batch.
HeadPrefilled(h, position, toks) ==
  LET b == Based(h, position)
  IN [b EXCEPT !.layer = LayerPrefill(HeadKind, @, opt, toks),
               !.row_count = @ + Len(toks)]

\* A chain of consume_decode.
HeadChain(h, position, toks) ==
  LET after[i \in 0..Len(toks)] ==
        IF i = 0 THEN h ELSE HeadDecoded(after[i - 1], position + i - 1, toks[i])
  IN after[Len(toks)]

Positions == IF head.position_base = NoBase THEN Starts
             ELSE {head.position_base + head.row_count}

\* The engine hands the head rows of tokens already fed, from any position
\* at first and then where it left off.
CatchUp(position, n) ==
  /\ Ready /\ position >= 1 /\ position + n <= Len(fed)
  /\ LET toks == Rows(fed, position, position + n)
     IN \/ head' = HeadPrefilled(head, position, toks)
        \/ head' = HeadChain(head, position, toks)
  /\ UNCHANGED <<opt, text, target, chunks, fed>>

-----------------------------------------------------------------------------
(* A speculative round.                                                    *)

\* forward_verify_layer_major_reference: a state after each row.
Checkpoints(state, toks) ==
  LET layers == [l \in Layers |-> LayerVerify(Kinds[l], state.layers[l], opt, toks)]
  IN [row \in 1..Len(toks) |->
        [layers |-> [l \in Layers |-> layers[l][row]],
         token_count |-> state.token_count + row]]

\* QwenModel::materialize_speculative_state.
Materialized(state) ==
  [state EXCEPT !.layers = [l \in Layers |-> MaterializeLayer(Kinds[l], @[l])]]

\* commit_mtp_target_verification.
Committed(rows, accepted) == rows[accepted + 1]

\* Mutation: the committed rows are added to the drafted ones.
HeadOriginDrafted(drafted, origin) == drafted

\* finish_greedy_mtp_round puts the head back before it verifies.
HeadOrigin(drafted, origin) == origin

\* The rows of a round: the current token and its drafts, of which the
\* first accepted are what the text goes on with.
RoundRows(drafts, accepted) ==
  Upcoming(accepted + 1) \o [i \in 1..(drafts - accepted) |-> Wrong]

HeadAfterRound(position, drafts, accepted) ==
  LET rows    == RoundRows(drafts, accepted)
      drafted == HeadChain(head, position, Rows(rows, 0, drafts))
      origin  == HeadOrigin(drafted, head)
      kept    == Rows(rows, 0, accepted + 1)
  IN IF accepted # 0 /\ opt.batch_commit THEN HeadCommitted(origin, position, kept)
     ELSE HeadChain(origin, position, kept)

HeadFollows ==
  head.position_base # NoBase => head.position_base + head.row_count = target.token_count

Round(drafts, accepted) ==
  /\ Ready /\ fed # <<>> /\ HeadFollows
  /\ Len(fed) + accepted + 1 <= Len(text)
  /\ target' = Materialized(Committed(Checkpoints(target, RoundRows(drafts, accepted)), accepted))
  /\ head' = HeadAfterRound(target.token_count, drafts, accepted)
  /\ fed' = fed \o Upcoming(accepted + 1)
  /\ UNCHANGED <<opt, text, chunks>>

-----------------------------------------------------------------------------
(* Snapshots and files.                                                    *)

\* snapshot_decoder_layer_state: the arrays under their own conditions.
SnapshotLayer(s) ==
  [linear |-> IF ~s.linear.initialized THEN [NewLinear EXCEPT !.err = s.linear.err]
              ELSE [s.linear EXCEPT !.rollback = IF s.linear.rollback_rows = 0 THEN <<>> ELSE @],
   full   |-> [s.full EXCEPT
                 !.keys = IF s.full.kv_q8 /\ s.full.token_count = s.full.cold_tokens
                          THEN <<>> ELSE @,
                 !.pooled = IF s.full.pooled_count = 0 THEN <<>> ELSE @],
   ple    |-> [s.ple EXCEPT !.convolution = IF s.ple.convolution_initialized THEN @ ELSE <<>>]]

SnapshotTarget(state) ==
  [state EXCEPT !.layers = [l \in Layers |-> SnapshotLayer(@[l])]]

SnapshotHead(h) == [h EXCEPT !.layer = SnapshotLayer(@)]

\* append_decoder and load_decoder: a file has no rollback rows.
SavedLayer(s) ==
  [SnapshotLayer(s) EXCEPT !.linear.rollback = <<>>, !.linear.rollback_rows = 0]

LoadedLayer(f) ==
  [f EXCEPT !.full.cold_tokens = IF f.full.token_count # 0 /\ f.full.kv_q8 THEN @ ELSE 0]

\* save_prefix_state and load_prefix_state.
ReloadedTarget(state) ==
  [state EXCEPT !.layers = [l \in Layers |-> LoadedLayer(SavedLayer(@[l]))]]

ReloadedHead(h) == [h EXCEPT !.layer = LoadedLayer(SavedLayer(@))]

\* The request leaves a snapshot of its state as the cache entry, and a
\* later request whose text begins with the entry's tokens starts from a
\* snapshot of the entry, or, when the process was started again in between,
\* from what was saved of it.
NextRequest(from_file) ==
  LET left     == SnapshotTarget(target)
      left_mtp == SnapshotHead(head)
  IN /\ Ready /\ fed # <<>>
     /\ text' \in {t \in Texts : Len(fed) <= Len(t) /\ Rows(t, 0, Len(fed)) = fed}
     /\ target' = SnapshotTarget(IF from_file THEN ReloadedTarget(left) ELSE left)
     /\ head' = SnapshotHead(IF from_file THEN ReloadedHead(left_mtp) ELSE left_mtp)
     /\ opt' \in (IF from_file THEN Options ELSE {opt})
     /\ UNCHANGED <<chunks, fed>>

\* prepare_persistent_state, before the Metal backend imports the state.
Prepare ==
  /\ Ready /\ fed # <<>>
  /\ target' = [target EXCEPT !.layers = [l \in Layers |-> PrepareLayer(Kinds[l], @[l])]]
  /\ UNCHANGED <<opt, text, head, chunks, fed>>

-----------------------------------------------------------------------------
Next ==
  \/ \E n \in 1..(MaxRows * MaxChunks) :
       BeginPrefill(n, IF n <= MaxRows THEN n ELSE MaxRows)
  \/ AdvancePrefill
  \/ PrefillThrows
  \/ Decode
  \/ \E rows \in 2..MaxBatch : \E mine \in 1..rows : DecodeInBatch(rows, mine)
  \/ \E n \in 1..MaxRows : \E position \in Positions : CatchUp(position, n)
  \/ \E drafts \in 2..MaxDrafts : \E accepted \in 0..drafts : Round(drafts, accepted)
  \/ \E from_file \in BOOLEAN : NextRequest(from_file)
  \/ Prepare

Spec == Init /\ [][Next]_vars

-----------------------------------------------------------------------------
(* Properties.                                                             *)

\* Outside a prefill call every layer of the target holds exactly the
\* tokens fed, at their positions, and all layers agree with the length of
\* the state, however prefills, decodes, batches, speculative rounds,
\* restores, reloads and failed calls have followed each other; and none of
\* the consistency checks of the code has thrown.
TargetHolds ==
  Ready => /\ target.token_count = Len(fed)
           /\ \A l \in Layers : LayerHolds(Kinds[l], target.layers[l], fed)

\* The head holds the rows of the tokens fed from its base on, rotated to
\* the positions of the target, and never a draft that was rejected.
HeadHolds ==
  \/ head = NewHead
  \/ /\ head.layer.full.position_base = head.position_base
     /\ head.position_base + head.row_count <= Len(fed)
     /\ AttentionHolds(head.layer.full,
          Rows(fed, head.position_base, head.position_base + head.row_count),
          head.position_base)

\* Whenever a request may end, what would be loaded from its prefix file is
\* a whole state of its tokens: rows that a checkpoint has deferred are not
\* in the file, so none may be left when the state is saved.
FileHolds ==
  Ready => /\ \A l \in Layers :
                LayerHolds(Kinds[l], ReloadedTarget(target).layers[l], fed)
           /\ head # NewHead =>
                AttentionHolds(ReloadedHead(head).layer.full,
                  Rows(fed, head.position_base, head.position_base + head.row_count),
                  head.position_base)

\* Sparse attention never leaves a query without a key, never shows it a
\* later one, and the packed list of indices selects the same keys as the
\* dense mask, whatever the scores and also for rows that use the selection
\* of the first row of their group.
SelectionSound ==
  \A l \in Layers :
    LET s == target.layers[l].full
        total == s.token_count
        count == total \div Ratio
    IN Kinds[l].full /\ Engages(total, Budget) /\ ~s.err =>
         \A rows \in 1..MinOf(total, AttRows), shared \in {1, 2} : \A r \in 0..(rows - 1) :
           LET p    == total - rows + r
               from == total - rows + SampledRow(r, shared)
           IN \A top \in TopBlocks(count, Budget \div Ratio, from) :
                LET packed == PackedKeys(top, count, p)
                IN /\ packed = DenseKeys(top, count, p, total)
                   /\ packed # {} /\ \A k \in packed : k <= p

\* The target, the head and what a prefix file would give back of them are
\* the states of the committed tokens (QwenModel, QwenMtpHead,
\* decode_state_io.cpp).
StatesHold == TargetHolds /\ HeadHolds /\ FileHolds

=============================================================================
