----------------------------- MODULE LayerState -----------------------------
(***************************************************************************)
(* What one decoder layer remembers between calls, and how each forward    *)
(* pass changes it: the key/value cache with its packed Q8 part and the    *)
(* index of pooled keys that sparse attention (QSA) selects from, the      *)
(* gated delta network's convolution window, recurrent state and deferred  *)
(* rollback, and the n-gram context of the per-layer embedding (PLE).      *)
(*                                                                         *)
(* A row is abstracted to its token, a key to the pair of its token and    *)
(* the rope position it was rotated to, a pooled key to the rows it        *)
(* averages and its own rope position, the recurrent state to the rows it  *)
(* has absorbed in order.  The lengths the code keeps beside its arrays    *)
(* are kept beside the sequences, because they can disagree.  err records  *)
(* that one of the code's own consistency checks has thrown.               *)
(***************************************************************************)
EXTENDS Integers, Sequences, FiniteSets

CONSTANTS
  Ratio,       \* indexer_compress_ratio: rows per pooled key
  Budget,      \* indexer_budget: tokens a query may select
  Q8Min,       \* QWEN38_KV_Q8_MIN_TOKENS
  Flush,       \* QWEN38_KV_Q8_FLUSH_TOKENS
  SdpaMin,     \* cached tokens from which use_sdpa_decode holds
  PrefillMin,  \* rows from which forward_prefill takes its own path
  AttRows,     \* rows one attention prefill call takes
  PleConv,     \* rows of PLE convolution state
  Eos          \* end_of_sequence_token

\* The manifest refuses a budget that is no multiple of the ratio.  The
\* threshold of Q8 is beyond the first length at which a prefill selects
\* blocks (q8_kv_min_tokens alone would admit the Ratio - 1 lengths below).
\* The budget of a model is at least the 512 rows of an attention call
\* (qsa_smoke refuses one that they do not divide).
ASSUME GeometryAssumption ==
  /\ Ratio \in Nat \ {0} /\ Budget \in Nat \ {0} /\ Budget % Ratio = 0
  /\ Q8Min \in Nat /\ Q8Min >= Budget + Ratio /\ Flush \in Nat \ {0}
  /\ AttRows \in Nat \ {0} /\ AttRows <= Budget
  /\ SdpaMin \in Nat /\ PrefillMin \in Nat /\ PleConv \in Nat \ {0} /\ Eos \in Nat

NoRow == -1
MinOf(a, b) == IF a < b THEN a ELSE b
MaxOf(a, b) == IF a > b THEN a ELSE b

\* MlxArray::slice along the sequence axis, rows lo .. hi-1.
Rows(s, lo, hi) == SubSeq(s, lo + 1, hi)
LastRows(s, k) == Rows(s, Len(s) - k, Len(s))
Zeros(k) == [i \in 1..k |-> NoRow]
NoContexts(k) == [i \in 1..k |-> <<>>]

-----------------------------------------------------------------------------
(* Sparse attention index: raw keys, pooled keys, selection.               *)

NewAttention ==
  [keys |-> <<>>, cold |-> <<>>, kv_q8 |-> FALSE, cold_tokens |-> 0,
   raw |-> <<>>, raw_start |-> 0, pooled |-> <<>>, pooled_count |-> 0,
   token_count |-> 0, position_base |-> 0, err |-> FALSE]

\* The tokens one query may select; only decoding has its own budget.
SelectionBudget(o, decode) == IF decode THEN o.decode_budget ELSE Budget

Engages(total, budget) == total \div Ratio > budget \div Ratio

\* Pool every complete block up to total that is not pooled yet.
MaterializePools(s, total) ==
  LET blocks == total \div Ratio
      first  == s.pooled_count * Ratio
      fresh  == [b \in 1..(blocks - s.pooled_count) |->
                   [at |-> s.position_base + first + (b - 1) * Ratio,
                    of |-> Rows(s.raw, first - s.raw_start + (b - 1) * Ratio,
                                first - s.raw_start + b * Ratio)]]
  IN CASE s.pooled_count = blocks -> s
       [] s.pooled_count > blocks \/ first < s.raw_start -> [s EXCEPT !.err = TRUE]
       [] OTHER -> [s EXCEPT !.pooled = @ \o fresh, !.pooled_count = blocks]

AppendRaw(s, toks) ==
  IF s.token_count = 0 THEN [s EXCEPT !.raw = toks]
  ELSE IF \/ s.raw_start > s.token_count
          \/ Len(s.raw) # s.token_count - s.raw_start
  THEN [s EXCEPT !.err = TRUE]
  ELSE [s EXCEPT !.raw = @ \o toks]

\* Keep the rows of this call and a window of rows before them.
TrimRaw(s, o, rows) ==
  LET total == s.token_count + rows
      start == IF o.window = 0 THEN 0 ELSE MaxOf(0, total - o.window - rows)
  IN IF start > s.raw_start
     THEN [s EXCEPT !.raw = Rows(@, start - s.raw_start, Len(@)), !.raw_start = start]
     ELSE s

\* update_qsa_and_build_mask: what it does to the state.
UpdateQsa(s, o, toks, decode) ==
  LET total    == s.token_count + Len(toks)
      appended == AppendRaw(s, toks)
  IN IF appended.err \/ ~Engages(total, SelectionBudget(o, decode)) THEN appended
     ELSE TrimRaw(MaterializePools(appended, total), o, Len(toks))

\* The blocks complete at or before position p, of count blocks in all.
VisibleBlocks(count, p) == {b \in 0..(count - 1) : (b + 1) * Ratio - 1 <= p}

\* Any top-k of scores that are minus infinity for the blocks that the
\* sampled query at position p cannot see.
TopBlocks(count, topk, p) ==
  LET visible == VisibleBlocks(count, p)
  IN {t \in SUBSET (0..(count - 1)) :
        Cardinality(t) = topk /\ (t \subseteq visible \/ visible \subseteq t)}

BlockTokens(blocks) == {b * Ratio + i : b \in blocks, i \in 0..(Ratio - 1)}

\* Mutation: the block of the query itself counts as part of the tail.
TailStartOpen(p) == (p \div Ratio) * Ratio

TailStart(p) == ((p + 1) \div Ratio) * Ratio

\* The keys of the packed index list that are marked valid for the query
\* at p: the selected blocks it sees and Ratio - 1 slots for the tail.
PackedKeys(top, count, p) ==
  BlockTokens(top \intersect VisibleBlocks(count, p))
    \union {k \in {TailStart(p) + i : i \in 0..(Ratio - 2)} : k <= p}

\* The keys the dense mask leaves for the query at p, of total keys.
DenseKeys(top, count, p, total) ==
  {k \in 0..(total - 1) :
     /\ k <= p
     /\ \/ k \in BlockTokens(top \intersect VisibleBlocks(count, p))
        \/ k >= TailStart(p)}

\* sample_qsa_queries and expand_qsa_blocks: the row whose selection row r
\* of a call uses when every shared rows share one.
SampledRow(r, shared) == (r \div shared) * shared

-----------------------------------------------------------------------------
(* Keys and values.                                                        *)

\* project, rms_norm and apply_rope of the rows appended at the frontier.
RotatedKeys(s, toks) ==
  [i \in 1..Len(toks) |-> <<toks[i], s.position_base + s.token_count + i - 1>>]

AppendKeys(s, toks) == [s EXCEPT !.keys = @ \o RotatedKeys(s, toks)]

\* Pack the whole history at the first call, the hot rows when enough of
\* them have gathered, and keep the new rows hot.
AppendQ8(s, toks) ==
  LET new == RotatedKeys(s, toks)
      hot == s.token_count - s.cold_tokens
  IN CASE ~s.kv_q8 /\ s.token_count = 0 -> [s EXCEPT !.err = TRUE]
       [] ~s.kv_q8 /\ s.token_count # 0 ->
            [s EXCEPT !.cold = s.keys, !.keys = new, !.kv_q8 = TRUE,
                      !.cold_tokens = s.token_count]
       [] s.kv_q8 /\ hot = 0 -> [s EXCEPT !.keys = new]
       [] s.kv_q8 /\ hot >= Flush ->
            [s EXCEPT !.cold = @ \o s.keys, !.cold_tokens = @ + hot, !.keys = new]
       [] OTHER -> [s EXCEPT !.keys = @ \o new]

WantsQ8(s, o, rows) == s.kv_q8 \/ (o.q8 /\ s.token_count + rows >= Q8Min)

\* packed_qsa_attention_q8 refuses a state whose arrays and counts differ.
Q8Contract(s) ==
  /\ s.cold_tokens = Len(s.cold)
  /\ s.cold_tokens + Len(s.keys) = s.token_count

\* Attend over the state the rows have been added to.
Attend(s, packed) ==
  IF s.kv_q8 /\ (~packed \/ ~Q8Contract(s)) THEN [s EXCEPT !.err = TRUE] ELSE s

\* Index, keys, length and attention of one call, shared by forward_decode
\* and forward_prefill.
Extended(s, o, toks, decode, packs) ==
  LET rows   == Len(toks)
      q8     == WantsQ8(s, o, rows)
      picked == Engages(s.token_count + rows, SelectionBudget(o, decode))
      packed == picked /\ (q8 \/ packs)
      index  == UpdateQsa(s, o, toks, decode)
      added  == IF q8 /\ packed THEN AppendQ8(index, toks) ELSE AppendKeys(index, toks)
  IN IF s.err \/ index.err THEN [s EXCEPT !.err = TRUE]
     ELSE Attend([added EXCEPT !.token_count = @ + rows], packed)

AttentionDecode(s, o, tok) == Extended(s, o, <<tok>>, TRUE, FALSE)

\* SelfAttention::forward_decode_multi: the indexes of both rows first, then
\* the keys of each, into its own state.
AttentionDecodeMulti(pair, o, toks) ==
  LET index == [r \in DOMAIN pair |-> UpdateQsa(pair[r], o, <<toks[r]>>, TRUE)]
      step(r) ==
        LET q8     == WantsQ8(pair[r], o, 1)
            packed == q8 /\ Engages(pair[r].token_count + 1, SelectionBudget(o, TRUE))
            added  == IF packed THEN AppendQ8(index[r], <<toks[r]>>)
                      ELSE AppendKeys(index[r], <<toks[r]>>)
        IN Attend([added EXCEPT !.token_count = @ + 1], packed)
  IN [r \in DOMAIN pair |-> step(r)]

\* A row-by-row chain of decodes from s: the states after each row.
DecodeChain(s, o, toks) ==
  LET chain[i \in 0..Len(toks)] ==
        IF i = 0 THEN s ELSE AttentionDecode(chain[i - 1], o, toks[i])
  IN [i \in 1..Len(toks) |-> chain[i]]

\* plan_qsa_checkpoint and copy_qsa_checkpoint: cut the index of complete
\* back to its first tokens rows.
QsaCheckpoint(complete, o, tokens, cp) ==
  LET blocks   == MinOf(complete.pooled_count, tokens \div Ratio)
      frontier == blocks * Ratio
      desired  == IF o.window = 0 THEN complete.raw_start ELSE MaxOf(0, tokens - o.window)
      start    == MaxOf(complete.raw_start, MinOf(desired, frontier))
  IN IF \/ tokens > complete.token_count \/ complete.raw_start > tokens
        \/ complete.pooled_count > complete.token_count \div Ratio
        \/ complete.raw_start > frontier
     THEN [cp EXCEPT !.err = TRUE]
     ELSE [cp EXCEPT !.raw = Rows(complete.raw, start - complete.raw_start,
                                  tokens - complete.raw_start),
                     !.raw_start = start, !.pooled_count = blocks,
                     !.pooled = Rows(complete.pooled, 0, blocks)]

\* The batched verifier over a Q8 cache: one pass over all rows, and a
\* checkpoint per row that shares the cold part and cuts the hot one.
VerifyQ8Batch(s, o, toks) ==
  LET rows     == Len(toks)
      index    == UpdateQsa(s, o, toks, TRUE)
      hot      == IF s.token_count # s.cold_tokens THEN s.keys ELSE <<>>
      all      == hot \o RotatedKeys(s, toks)
      complete == Attend([index EXCEPT !.keys = all, !.token_count = s.token_count + rows],
                         Engages(s.token_count + rows, SelectionBudget(o, TRUE)))
      at(i)    == [complete EXCEPT
                     !.keys = Rows(all, 0, s.token_count - s.cold_tokens + i),
                     !.token_count = s.token_count + i]
  IN [i \in 1..rows |-> QsaCheckpoint(complete, o, s.token_count + i, at(i))]

\* The batched verifier over an unpacked cache.
VerifySdpaBatch(s, o, toks) ==
  LET rows     == Len(toks)
      index    == UpdateQsa(s, o, toks, TRUE)
      all      == s.keys \o RotatedKeys(s, toks)
      complete == [index EXCEPT !.keys = all, !.token_count = s.token_count + rows]
      at(i)    == [NewAttention EXCEPT
                     !.keys = Rows(all, 0, s.token_count + i),
                     !.token_count = s.token_count + i,
                     !.position_base = s.position_base, !.err = complete.err]
  IN [i \in 1..rows |-> QsaCheckpoint(complete, o, s.token_count + i, at(i))]

\* One row of the verifier over an unpacked cache.
VerifyRow(before, o, tok, batch, all) ==
  LET index == UpdateQsa(before, o, <<tok>>, TRUE)
      added == IF batch THEN [index EXCEPT !.keys = Rows(all, 0, before.token_count + 1)]
               ELSE AppendKeys(index, <<tok>>)
  IN [added EXCEPT !.token_count = @ + 1]

\* All rows in turn.  With batch_kv the keys of all rows are computed first
\* and cut to each row's length.
VerifyRows(s, o, toks) ==
  LET all   == s.keys \o RotatedKeys(s, toks)
      batch == o.batch_kv /\ Len(toks) > 1
      chain[i \in 0..Len(toks)] ==
        IF i = 0 THEN s ELSE VerifyRow(chain[i - 1], o, toks[i], batch, all)
  IN [i \in 1..Len(toks) |-> chain[i]]

\* SelfAttention::forward_verify: a checkpoint after each row.
AttentionVerify(s, o, toks) ==
  LET rows == Len(toks)
  IN IF WantsQ8(s, o, rows)
     THEN IF rows > 1 /\ s.kv_q8 /\ o.batch_q8
          THEN VerifyQ8Batch(s, o, toks) ELSE DecodeChain(s, o, toks)
     ELSE IF rows > 1 /\ o.batch_sdpa /\ s.token_count + 1 >= SdpaMin
          THEN VerifySdpaBatch(s, o, toks) ELSE VerifyRows(s, o, toks)

AttentionPrefill(s, o, toks) ==
  IF o.sdpa_prefill /\ Len(toks) >= PrefillMin
  THEN Extended(s, o, toks, FALSE, o.packed_prefill)
  ELSE AttentionVerify(s, o, toks)[Len(toks)]

-----------------------------------------------------------------------------
(* Gated delta network.                                                    *)

NewLinear ==
  [convolution |-> <<>>, recurrent |-> <<>>, rollback |-> <<>>,
   rollback_rows |-> 0, initialized |-> FALSE, err |-> FALSE]

\* Replay the accepted rows that a compact checkpoint left to be redone.
MaterializeRollback(s) ==
  IF s.rollback_rows = 0 THEN s
  ELSE IF ~s.initialized \/ s.rollback_rows > Len(s.rollback) THEN [s EXCEPT !.err = TRUE]
  ELSE [s EXCEPT !.recurrent = @ \o Rows(s.rollback, 0, s.rollback_rows),
                 !.rollback = <<>>, !.rollback_rows = 0]

Initialized(s) ==
  IF s.initialized THEN s
  ELSE [s EXCEPT !.convolution = Zeros(3), !.recurrent = <<>>, !.initialized = TRUE]

\* Convolution window and recurrence of one row.
Absorb(s, tok) ==
  LET input == s.convolution \o <<tok>>
  IN [s EXCEPT !.convolution = Rows(input, 1, 4), !.recurrent = @ \o <<tok>>]

LinearDecode(s, tok) == Absorb(Initialized(MaterializeRollback(s)), tok)

\* GatedDeltaNet::forward_decode_multi: both rollbacks, then both windows,
\* then both recurrences.
LinearDecodeMulti(pair, toks) ==
  LET ready  == [r \in DOMAIN pair |-> Initialized(MaterializeRollback(pair[r]))]
      window == [r \in DOMAIN pair |->
                   [ready[r] EXCEPT !.convolution = Rows(@ \o <<toks[r]>>, 1, 4)]]
  IN [r \in DOMAIN pair |-> [window[r] EXCEPT !.recurrent = @ \o <<toks[r]>>]]

\* GatedDeltaNet::forward_verify.  The compact Metal verifier keeps the
\* recurrent state of the last row only; the others are the origin's with
\* the rows to redo.
LinearVerify(s, o, toks) ==
  LET rows   == Len(toks)
      origin == Initialized(s)
      input  == origin.convolution \o toks
      at(i)  == [NewLinear EXCEPT !.convolution = Rows(input, i, i + 3),
                   !.initialized = TRUE, !.err = s.err \/ s.rollback_rows # 0]
  IN [i \in 1..rows |->
        IF o.compact /\ i # rows
        THEN [at(i) EXCEPT !.recurrent = origin.recurrent, !.rollback = toks,
                           !.rollback_rows = i]
        ELSE [at(i) EXCEPT !.recurrent = origin.recurrent \o Rows(toks, 0, i)]]

\* Without the Metal prefill more than 64 rows throw; every prefill may throw
\* (PrefillThrows), with the same effect.
LinearPrefill(s, o, toks) ==
  LET origin == Initialized(MaterializeRollback(s))
      input  == origin.convolution \o toks
      rows   == Len(toks)
  IN IF o.metal_prefill
     THEN [origin EXCEPT !.convolution = Rows(input, rows, rows + 3),
                         !.recurrent = @ \o toks]
     ELSE LinearVerify(MaterializeRollback(s), o, toks)[rows]

-----------------------------------------------------------------------------
(* Per-layer embedding: n-gram context and convolution window.             *)

NewPle ==
  [previous |-> <<0, 0>>, segment_length |-> 0, initialized |-> FALSE,
   convolution |-> <<>>, convolution_initialized |-> FALSE]

\* NgramHash::row_ids: the context the row's 16 table rows are hashed from.
NgramContext(s, tok) ==
  LET previous == IF s.initialized THEN s.previous ELSE <<Eos, Eos>>
  IN <<tok, IF s.segment_length >= 1 THEN previous[2] ELSE Eos,
       IF s.segment_length >= 2 THEN previous[1] ELSE Eos>>

NgramAdvance(s, tok) ==
  LET previous == IF s.initialized THEN s.previous ELSE <<Eos, Eos>>
  IN [s EXCEPT !.initialized = TRUE,
               !.previous = IF tok = Eos THEN <<Eos, Eos>> ELSE <<previous[2], tok>>,
               !.segment_length = IF tok = Eos THEN 0 ELSE MinOf(2, @ + 1)]

PleDecode(s, tok) ==
  LET window == IF s.convolution_initialized THEN s.convolution ELSE NoContexts(PleConv)
  IN [NgramAdvance(s, tok) EXCEPT
        !.convolution = Rows(window \o <<NgramContext(s, tok)>>, 1, PleConv + 1),
        !.convolution_initialized = TRUE]

\* Ple::forward_verify: contexts of all rows first, one gather, then the
\* convolution windows cut from one input.
PleVerify(s, toks) ==
  LET rows == Len(toks)
      ngram[i \in 0..rows] == IF i = 0 THEN s ELSE NgramAdvance(ngram[i - 1], toks[i])
      contexts == [i \in 1..rows |-> NgramContext(ngram[i - 1], toks[i])]
      input == (IF s.convolution_initialized THEN s.convolution ELSE NoContexts(PleConv))
                 \o contexts
  IN [i \in 1..rows |-> [ngram[i] EXCEPT !.convolution = Rows(input, i, i + PleConv),
                                         !.convolution_initialized = TRUE]]

-----------------------------------------------------------------------------
(* Decoder layer.  A kind says whether its attention is full and whether   *)
(* it has a per-layer embedding.                                           *)

NewLayer == [linear |-> NewLinear, full |-> NewAttention, ple |-> NewPle]

\* DecoderLayer::materialize_speculative_state.
MaterializeLayer(kind, s) ==
  IF kind.full THEN s ELSE [s EXCEPT !.linear = MaterializeRollback(@)]

\* DecoderLayer::prepare_persistent_state.
PrepareLayer(kind, s) ==
  LET m == MaterializeLayer(kind, s)
  IN IF kind.full THEN [m EXCEPT !.full = MaterializePools(@, @.token_count)] ELSE m

LayerDecode(kind, s, o, tok) ==
  LET m == MaterializeLayer(kind, s)
      p == IF kind.ple THEN [m EXCEPT !.ple = PleDecode(@, tok)] ELSE m
  IN IF kind.full THEN [p EXCEPT !.full = AttentionDecode(@, o, tok)]
     ELSE [p EXCEPT !.linear = LinearDecode(@, tok)]

\* Two rows of forward_decode_multi together: PLE row by row, attention as a
\* pair.
PairDecode(kind, pair, o, toks) ==
  LET ple    == [r \in DOMAIN pair |-> IF kind.ple THEN PleDecode(pair[r].ple, toks[r])
                                       ELSE pair[r].ple]
      full   == AttentionDecodeMulti([r \in DOMAIN pair |-> pair[r].full], o, toks)
      linear == LinearDecodeMulti([r \in DOMAIN pair |-> pair[r].linear], toks)
  IN [r \in DOMAIN pair |->
        IF kind.full THEN [pair[r] EXCEPT !.ple = ple[r], !.full = full[r]]
        ELSE [pair[r] EXCEPT !.ple = ple[r], !.linear = linear[r]]]

\* DecoderLayer::forward_decode_multi: in pairs, and what is left alone, or
\* all rows one by one.
LayerDecodeMulti(kind, states, o, toks) ==
  LET rows     == Len(states)
      first(r) == r - ((r - 1) % 2)
  IN [r \in 1..rows |->
        IF o.pairs /\ first(r) < rows
        THEN PairDecode(kind, Rows(states, first(r) - 1, first(r) + 1), o,
                        Rows(toks, first(r) - 1, first(r) + 1))[r - first(r) + 1]
        ELSE LayerDecode(kind, states[r], o, toks[r])]

\* DecoderLayer::forward_verify_dense_batched: the layer states after each
\* row; what the layer does not have stays default.
LayerVerify(kind, s, o, toks) ==
  LET ple    == IF kind.ple THEN PleVerify(s.ple, toks) ELSE <<>>
      full   == IF kind.full THEN AttentionVerify(s.full, o, toks) ELSE <<>>
      linear == IF kind.full THEN <<>> ELSE LinearVerify(s.linear, o, toks)
  IN [i \in 1..Len(toks) |->
        [linear |-> IF kind.full THEN NewLinear ELSE linear[i],
         full   |-> IF kind.full THEN full[i] ELSE NewAttention,
         ple    |-> IF kind.ple THEN ple[i] ELSE NewPle]]

\* The attention calls of a prefill, AttRows rows at a time.
PrefillPieces(s, o, toks) ==
  LET pieces == (Len(toks) + AttRows - 1) \div AttRows
      after[i \in 0..pieces] ==
        IF i = 0 THEN s
        ELSE AttentionPrefill(after[i - 1], o,
               Rows(toks, (i - 1) * AttRows, MinOf(i * AttRows, Len(toks))))
  IN after[pieces]

LayerPrefill(kind, s, o, toks) ==
  LET p == IF kind.ple THEN [s EXCEPT !.ple = PleVerify(@, toks)[Len(toks)]] ELSE s
  IN IF Len(toks) = 1 THEN LayerDecode(kind, s, o, toks[1])
     ELSE IF kind.full THEN [p EXCEPT !.full = PrefillPieces(@, o, toks)]
     ELSE [p EXCEPT !.linear = LinearPrefill(@, o, toks)]

-----------------------------------------------------------------------------
(* What a layer must hold once the tokens fed have passed it.              *)

AttentionHolds(s, fed, base) ==
  /\ ~s.err
  /\ s.token_count = Len(fed)
  /\ s.cold \o s.keys = [i \in 1..Len(fed) |-> <<fed[i], base + i - 1>>]
  /\ s.cold_tokens = Len(s.cold)
  /\ s.raw = Rows(fed, s.raw_start, Len(fed))
  /\ s.pooled_count = Len(s.pooled)
  /\ s.pooled_count <= Len(fed) \div Ratio
  /\ s.raw_start <= s.pooled_count * Ratio
  /\ \A b \in 1..Len(s.pooled) :
       s.pooled[b] = [at |-> base + (b - 1) * Ratio, of |-> Rows(fed, (b - 1) * Ratio, b * Ratio)]

LinearHolds(s, fed) ==
  /\ ~s.err
  /\ s.recurrent \o Rows(s.rollback, 0, s.rollback_rows) = fed
  /\ fed # <<>> => s.convolution = LastRows(Zeros(3) \o fed, 3)

\* The n-gram of row i: the two tokens before it in its segment.
ContextOf(fed, i) ==
  <<fed[i], IF i > 1 THEN fed[i - 1] ELSE Eos,
    IF i > 2 /\ fed[i - 1] # Eos THEN fed[i - 2] ELSE Eos>>

PleHolds(s, fed) ==
  fed # <<>> =>
    s.convolution = LastRows(NoContexts(PleConv) \o [i \in 1..Len(fed) |-> ContextOf(fed, i)],
                             PleConv)

LayerHolds(kind, s, fed) ==
  /\ IF kind.full THEN AttentionHolds(s.full, fed, s.full.position_base)
     ELSE LinearHolds(s.linear, fed)
  /\ kind.ple => PleHolds(s.ple, fed)
=============================================================================
