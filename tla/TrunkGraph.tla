----------------------------- MODULE TrunkGraph -----------------------------
(***************************************************************************)
(* The dispatches of the persistent Metal backend                          *)
(* (persistent_metal_backend.mm, the encode_ functions, and the kernels of *)
(* persistent_metal_kernels.hpp), in the order of the queue.  All layers   *)
(* share one set of scratch buffers, and every kernel computes its own     *)
(* indices from the grid it is dispatched with: a wrong buffer, offset or  *)
(* grid, or a dispatch before its producer, silently computes with what    *)
(* another layer or token left behind.                                     *)
(*                                                                         *)
(* A kernel is the ranges of elements that it reads and writes, as its     *)
(* index arithmetic gives them for a grid; its arithmetic, the weights and *)
(* the state of a layer, which are the layer's own, are left out.  A       *)
(* buffer remembers who wrote each of its elements last.                   *)
(***************************************************************************)
EXTENDS Integers, Sequences, FiniteSetsExt

CONSTANTS
  TrunkLayers,    \* 48
  AttentionEvery, \* 4
  NgramLayer,     \* 1
  SharedFrom,     \* layers without routed experts of a pruned checkpoint:
  SharedTo,       \*   10..33
  Vocabulary,     \* rows of the head
  BlockCounts,    \* blocks of the context: up to 65536
  ProbedLayers,   \* bound: layers that are run alone
  MaxTrunks       \* bound: calls

ASSUME TrunkAssumption ==
  /\ TrunkLayers \in Nat \ {0} /\ AttentionEvery \in Nat \ {0}
  /\ SharedFrom \in Nat /\ SharedTo \in Nat /\ Vocabulary \in Nat \ {0}

VARIABLES
  model,     \* the checkpoint: rows of an expert, pruned, vector-quantized
  blocks,    \* blocks of the context
  written,   \* buffer |-> who wrote which of its elements last
  call,      \* the call: its number, what it runs, the layer it is at
  todo,      \* dispatches still to run
  last       \* the last dispatch, with the segments that it found

trunkVars == <<model, blocks, written, call, todo, last>>

-----------------------------------------------------------------------------
(* The checkpoints the backend accepts.                                    *)

\* vq_routed_, vq_d2_layers_: any layer may have codes of two dimensions.
vq == model.vq

\* The geometry checks left of supports: an expert of 448 rows with unfolded
\* maps and the pruned layers, or one of 640 rows with neither.
Supports(m) ==
  \/ m.rows = 448 /\ m.pruned
  \/ m.rows = 640 /\ ~m.pruned

\* create: a vector-quantized checkpoint also needs QWEN38_PERSISTENT_VQ=1
\* and layers of one known geometry, which are taken as given.
create(m) == Supports(m)

-----------------------------------------------------------------------------
(* Elements of buffers.                                                    *)

Hidden == 2560
Stream == 4 * Hidden
Least(a, b) == IF a < b THEN a ELSE b

\* n elements of a buffer, of a type.
Of(type, buffer, from, n) == [b |-> buffer, from |-> from, to |-> from + n, type |-> type]
R(buffer, from, n) == Of("bf16", buffer, from, n)

\* Rows of an expert that scratch is allocated for.
ExpertRows == IF model.rows < 448 THEN 448 ELSE model.rows

\* allocate_scratch: elements of each buffer.
allocate_scratch ==
  [stream |-> Stream, normalized |-> Stream, activation |-> 320, injection |-> 4,
   mixed |-> Hidden, projected |-> 16480, query |-> 2048, key |-> 2048,
   value |-> 6144, decay |-> 48, beta |-> 48, recurrent_output |-> 6144,
   gated |-> 6144, block_output |-> Hidden, post_attention |-> Stream,
   expert_ids |-> 10, route_weights |-> 10, routed_hidden |-> 10 * ExpertRows,
   shared_hidden |-> 640, shared_scale |-> 1, moe_output |-> Hidden,
   zero_output |-> Hidden, healing_hidden |-> 64, output_stream |-> Stream,
   router_logits |-> 512, attention_projected |-> 13952, selector_query |-> 512,
   attention_query |-> 6144, attention_key |-> 512, attention_values |-> 6144,
   attention_gated |-> 6144, rope |-> 64, pool_rope |-> 64, qsa_scores |-> 65536,
   selected |-> 128, temp_scores_a |-> 32768, temp_scores_b |-> 32768,
   temp_ids_a |-> 32768, temp_ids_b |-> 32768, ple_embedding |-> Hidden,
   ple_projected |-> 12800, ple_stream |-> Stream, head_logits |-> Vocabulary,
   head_candidate_values |-> 2 * ((Vocabulary + 1023) \div 1024),
   head_candidate_ids |-> 2 * ((Vocabulary + 1023) \div 1024),
   head_result_values |-> 2, head_result_ids |-> 2]

\* A dispatch of one half of a layer ("attn", "mlp") or outside the halves,
\* with the rows of an expert that its kernel assumes, if any.
D(half, reads, writes) ==
  [half |-> half, reads |-> reads, writes |-> writes, rows |-> 0]

\* Rows computed by a grid in which every SIMD group takes one.
SimdRows(groups, threads, rows) == Least(groups * (threads \div 32), rows)

\* What is left of a grid after its first rows.
Rest(count, first, most) == IF count < first THEN 0 ELSE Least(count - first, most)

-----------------------------------------------------------------------------
(* The kernels.                                                            *)

hc_normalize(half, input, groups) ==
  D(half, {R(input, 0, groups * Hidden)}, {R("normalized", 0, groups * Hidden)})

hc_down_injection(half, groups) ==
  D(half, {R("normalized", 0, Stream)},
    {R("activation", 0, Least(groups, 320)), R("injection", 0, Rest(groups, 320, groups))})
hc_down_injection_q8(half, groups) == hc_down_injection(half, groups)

hc_up_mix(half, groups) ==
  D(half, {R("normalized", 0, Stream), R("activation", 0, 320)},
    {R("mixed", 0, SimdRows(groups, 256, Hidden))})
hc_up_mix_q8(half, groups) == hc_up_mix(half, groups)

hc_down_only(groups) ==
  D("head", {R("normalized", 0, Stream)},
    {R("activation", 0, SimdRows(groups, 128, 320))})
hc_down_only_q8(groups) == hc_down_only(groups)

hc_write(half, input, block, output, threads) ==
  D(half, {R(input, 0, Least(threads, Stream)), R(block, 0, Hidden), R("injection", 0, 4)},
    {R(output, 0, Least(threads, Stream))})

healing_left(groups) ==
  D("mlp", {R("moe_output", 0, Hidden)},
    {R("healing_hidden", 0, SimdRows(groups, 128, 64))})

\* Each column is written in all four streams.
healing_right_write(source, groups) ==
  LET columns == SimdRows(groups, 128, Hidden) IN
  D("mlp", {R("moe_output", 0, columns), R("healing_hidden", 0, 64),
            R("injection", 0, 4)} \cup {R(source, hc * Hidden, columns) : hc \in 0..3},
    {R("output_stream", hc * Hidden, columns) : hc \in 0..3})

\* A projection of rows rows into part of a buffer.
q4_input_projection(half, input, output, offset, groups, rows) ==
  D(half, {R(input, 0, Hidden)}, {R(output, offset, SimdRows(groups, 128, rows))})
q8_input_projection(half, input, output, offset, groups, rows) ==
  q4_input_projection(half, input, output, offset, groups, rows)

\* Four projections in one grid of four rows a group, each with its own base.
q8_gdn_input_projections(groups) ==
  D("attn", {R("mixed", 0, Hidden)},
    {R("projected", 0, 4 * Least(groups, 2560)),
     R("projected", 10240, 4 * Rest(groups, 2560, 1536)),
     R("projected", 16384, 4 * Rest(groups, 4096, 12)),
     R("projected", 16432, 4 * Rest(groups, 4108, groups))})

\* Heads of queries, keys and values, each with its channels; every value
\* head also takes its decay and beta.
gdn_prework(heads) ==
  LET hv == Rest(heads, 32, heads) IN
  D("attn", {R("projected", 0, heads * 128), R("projected", 16384, hv),
             R("projected", 16432, hv)},
    {R("query", 0, 128 * Least(heads, 16)), R("key", 0, 128 * Rest(heads, 16, 16)),
     R("value", 0, 128 * hv), R("decay", 0, hv), R("beta", 0, hv)})

\* Three value heads share a key head.
gdn_recurrence(dv, hv) ==
  D("attn", {R("query", 0, 128 * (hv \div 3)), R("key", 0, 128 * (hv \div 3)),
             R("value", 0, 128 * hv), R("decay", 0, hv), R("beta", 0, hv)},
    {R("recurrent_output", h * 128, dv) : h \in 0..(hv - 1)})

gdn_norm_gate(heads) ==
  D("attn", {R("recurrent_output", 0, 128 * heads), R("projected", 10240, 128 * heads)},
    {R("gated", 0, 128 * heads)})

\* The output projections of both kinds of layers.
gdn_output_projection(groups) ==
  D("attn", {R("gated", 0, 6144)}, {R("block_output", 0, SimdRows(groups, 128, Hidden))})
attention_output_projection(groups) ==
  D("attn", {R("attention_gated", 0, 6144)},
    {R("block_output", 0, SimdRows(groups, 128, Hidden))})
q8_output_projection_6144(input, groups) ==
  D("attn", {R(input, 0, 6144)}, {R("block_output", 0, SimdRows(groups, 128, Hidden))})

\* Index query and key (640), query and gate (12288), key (512), value (512).
attention_qkv_index(groups) ==
  D("attn", {R("mixed", 0, Hidden)},
    {R("attention_projected", 0, SimdRows(groups, 128, 13952))})
attention_qkv_index_q8(groups) == attention_qkv_index(groups)

\* Four index heads, 24 query heads between their gates, two key heads.
attention_normalize_rope(heads) ==
  LET queries == Rest(heads, 4, 24)
      keys == Rest(heads, 28, heads)
  IN  D("attn",
        {R("rope", 0, 64), R("attention_projected", 0, 128 * Least(heads, 4)),
         R("attention_projected", 12928, 256 * keys)}
        \cup {R("attention_projected", 640 + 512 * h, 256) : h \in 0..(queries - 1)},
        {R("selector_query", 0, 128 * Least(heads, 4)),
         R("attention_query", 0, 256 * queries), R("attention_key", 0, 256 * keys)})

\* Two heads of keys and values, and the index key behind the index query.
qsa_append_decode_state ==
  D("attn", {R("attention_key", 0, 512), R("attention_projected", 13440, 512),
             R("attention_projected", 512, 128), R("pool_rope", 0, 64)}, {})

qsa_score_rows(groups, padded) ==
  D("attn", {R("selector_query", 0, 512)},
    {Of("f32", "qsa_scores", 0, SimdRows(groups, 128, padded))})

qsa_first(groups, ids) ==
  D("attn", {Of("f32", "qsa_scores", 0, groups * 256)},
    {Of("f32", "temp_scores_a", 0, groups * 128), Of("u32", ids, 0, groups * 128)})

\* An odd group is copied.
qsa_merge(scores, ids, toScores, toIds, groups) ==
  D("attn", {Of("f32", scores, 0, groups * 128), Of("u32", ids, 0, groups * 128)},
    {Of("f32", toScores, 0, 128 * ((groups + 1) \div 2)),
     Of("u32", toIds, 0, 128 * ((groups + 1) \div 2))})

\* Twelve query heads a group, one for each of its SIMD groups.
qsa_attention_q8_blocks(groups, threads, selected) ==
  LET heads == groups * Least(threads \div 32, 12) IN
  D("attn", {R("attention_query", 0, 256 * heads),
             Of("u32", "selected", 0, (selected + 3) \div 4)},
    {R("attention_values", 0, 256 * heads)})

\* The gate of a head lies behind its query.
attention_apply_gate(threads) ==
  D("attn", {R("attention_values", 0, threads)}
            \cup {R("attention_projected", 896 + 512 * h, 256) : h \in 0..(threads \div 256 - 1)},
    {R("attention_gated", 0, threads)})

q8_router_logits(groups) ==
  D("mlp", {R("mixed", 0, Hidden)},
    {Of("f32", "router_logits", 0, SimdRows(groups, 128, 512))})
bf16_router_logits(groups) == q8_router_logits(groups)

\* The chosen logits are overwritten; the weights are rounded, or are not.
SelectTop(type) ==
  D("mlp", {Of("f32", "router_logits", 0, 512)},
    {Of("u32", "expert_ids", 0, 10), Of(type, "route_weights", 0, 10)})
select_top10 == SelectTop("bf16")
select_top10_vq == SelectTop("f32")

\* Ten experts, the shared expert and its gate in one grid of rows.
AllGateUp(groups, rows) ==
  [D("mlp", {R("mixed", 0, Hidden), Of("u32", "expert_ids", 0, 10)},
     {R("routed_hidden", 0, Least(4 * groups, 10 * rows)),
      R("shared_hidden", 0, Rest(4 * groups, 10 * rows, 640)),
      R("shared_scale", 0, Rest(4 * groups, 10 * rows + 640, 1))}) EXCEPT !.rows = rows]
fused_all_gate_up(groups) == AllGateUp(groups, 448)
vq_d8_all_gate_up(groups) == AllGateUp(groups, 640)
vq_d2_all_gate_up(groups) == AllGateUp(groups, 640)

AllDown(groups, rows, type) ==
  [D("mlp", {R("routed_hidden", 0, 10 * rows), Of("u32", "expert_ids", 0, 10),
             Of(type, "route_weights", 0, 10), R("shared_hidden", 0, 640),
             R("shared_scale", 0, 1)},
     {R("moe_output", 0, SimdRows(groups, 128, Hidden))}) EXCEPT !.rows = rows]
fused_all_down(groups) == AllDown(groups, 448, "bf16")
vq_d8_all_down(groups) == AllDown(groups, 640, "f32")
vq_d2_all_down(groups) == AllDown(groups, 640, "f32")

q4_shared_gate_up(groups) ==
  D("mlp", {R("mixed", 0, Hidden)}, {R("shared_hidden", 0, SimdRows(groups, 128, 640))})
q8_shared_router == D("mlp", {R("mixed", 0, Hidden)}, {R("shared_scale", 0, 1)})
q4_shared_down_merge(groups) ==
  LET rows == SimdRows(groups, 128, Hidden) IN
  D("mlp", {R("shared_hidden", 0, 640), R("shared_scale", 0, 1), R("zero_output", 0, rows)},
    {R("moe_output", 0, rows)})

\* One group a stream; the value behind the four keys serves all of them.
ple_fused_update(input, groups) ==
  D("ple", {R("ple_projected", 0, groups * Hidden), R("ple_projected", 10240, Hidden),
            R(input, 0, groups * Hidden)},
    {R("ple_stream", 0, groups * Hidden)})

\* One row, repeated in the four streams.
embedding_q4_stream(threads) ==
  D("embed", {}, {R("stream", hc * Hidden, Least(threads, Hidden)) : hc \in 0..3})
embedding_q8_stream(threads) == embedding_q4_stream(threads)

lm_head_q4(groups, rows) ==
  D("head", {R("mixed", 0, Hidden)},
    {Of("f32", "head_logits", 0, SimdRows(groups, 128, rows))})
lm_head_q8(groups, rows) == lm_head_q4(groups, rows)

\* 1024 rows a group; candidates of a second pass bring their ids.
Top2Reduce(values, ids, toValues, toIds, groups, rows) ==
  D("head", {Of("f32", values, 0, Least(rows, groups * 1024))} \cup ids,
    {Of("f32", toValues, 0, 2 * groups), Of("u32", toIds, 0, 2 * groups)})

-----------------------------------------------------------------------------
(* The encoders.                                                           *)

\* Normalize the stream, project it down with the injection weights, mix it.
encode_hc_read(half, input) ==
  <<hc_normalize(half, input, 4),
    IF vq THEN hc_down_injection_q8(half, 324) ELSE hc_down_injection(half, 324),
    IF vq THEN hc_up_mix_q8(half, 320) ELSE hc_up_mix(half, 320)>>

encode_hc_write(half, input, block, output) ==
  <<hc_write(half, input, block, output, 10240)>>

encode_healing_write(source) == <<healing_left(16), healing_right_write(source, 640)>>

\* One fused projection, or four into parts of the same buffer.
encode_gdn ==
  (IF vq THEN <<q8_gdn_input_projections(4120)>>
   ELSE <<q4_input_projection("attn", "mixed", "projected", 0, 2560, 10240),
          q4_input_projection("attn", "mixed", "projected", 10240, 1536, 6144),
          q4_input_projection("attn", "mixed", "projected", 16384, 12, 48),
          q4_input_projection("attn", "mixed", "projected", 16432, 12, 48)>>)
  \o <<gdn_prework(80), gdn_recurrence(128, 48), gdn_norm_gate(48),
       IF vq THEN q8_output_projection_6144("gated", 640) ELSE gdn_output_projection(640)>>

\* encode_qsa_top128: the passes alternate between two pairs of buffers; the
\* last one, which may be the first, writes the ids where they are read.
MergePasses ==
  LET merge[g \in Nat, sourceA \in BOOLEAN] ==
        IF g <= 1 THEN <<>>
        ELSE LET next == (g + 1) \div 2
                 ids == IF next = 1 THEN "selected"
                        ELSE IF sourceA THEN "temp_ids_b" ELSE "temp_ids_a"
             IN  <<IF sourceA
                   THEN qsa_merge("temp_scores_a", "temp_ids_a", "temp_scores_b", ids, g)
                   ELSE qsa_merge("temp_scores_b", "temp_ids_b", "temp_scores_a", ids, g)>>
                 \o merge[next, ~sourceA]
  IN  merge

encode_qsa_top128(padded) ==
  LET groups == padded \div 256
  IN  <<qsa_first(groups, IF groups = 1 THEN "selected" ELSE "temp_ids_a")>>
      \o MergePasses[groups, TRUE]

\* Few blocks are listed by the host, which nothing has to select.
dense == blocks <= 128

encode_qsa_selection ==
  IF dense THEN <<D("attn", {}, {Of("u32", "selected", 0, blocks)})>>
  ELSE LET padded == ((blocks + 255) \div 256) * 256
       IN  <<qsa_score_rows(padded \div 4, padded)>> \o encode_qsa_top128(padded)

SelectedRows == IF dense THEN 4 * blocks ELSE 512

\* The host fills the rotary tables; the rest is dispatched.
HostFills(half, buffer, n) == D(half, {}, {R(buffer, 0, n)})

AttentionInputs ==
  <<HostFills("attn", "rope", 64), HostFills("attn", "pool_rope", 64),
    IF vq THEN attention_qkv_index_q8(3488) ELSE attention_qkv_index(3488)>>

AttentionOutputs ==
  <<qsa_attention_q8_blocks(2, 384, SelectedRows), attention_apply_gate(6144),
    IF vq THEN q8_output_projection_6144("attention_gated", 640)
    ELSE attention_output_projection(640)>>

\* Mutation: the selection runs before the query is rotated.
SelectsFirst ==
  AttentionInputs \o encode_qsa_selection
  \o <<attention_normalize_rope(30), qsa_append_decode_state>> \o AttentionOutputs

encode_attention ==
  AttentionInputs \o <<attention_normalize_rope(30), qsa_append_decode_state>>
  \o encode_qsa_selection \o AttentionOutputs

SharedOnly(l) == ~vq /\ l \in SharedFrom..SharedTo

\* The shared expert alone; the routed output it is merged with stays zero.
SharedExpert ==
  <<q4_shared_gate_up(160), q8_shared_router, q4_shared_down_merge(640)>>

\* Route, then all ten experts and the shared one in two dispatches, by
\* kernels of the layer's own format.
RoutedExperts(d2) ==
  IF vq
  THEN <<bf16_router_logits(128), select_top10_vq,
         IF d2 THEN vq_d2_all_gate_up(1761) ELSE vq_d8_all_gate_up(1761),
         IF d2 THEN vq_d2_all_down(640) ELSE vq_d8_all_down(640)>>
  ELSE <<q8_router_logits(128), select_top10, fused_all_gate_up(1281), fused_all_down(640)>>

encode_mlp(l, d2) ==
  encode_hc_read("mlp", "post_attention")
  \o (IF SharedOnly(l) THEN SharedExpert ELSE RoutedExperts(d2))
  \o IF vq THEN encode_hc_write("mlp", "post_attention", "moe_output", "output_stream")
     ELSE encode_healing_write("post_attention")

\* The host gathers the rows of the n-grams.
encode_ple(input) ==
  <<HostFills("ple", "ple_embedding", Hidden),
    IF vq THEN q8_input_projection("ple", "ple_embedding", "ple_projected", 0, 2560, 10240)
    ELSE q4_input_projection("ple", "ple_embedding", "ple_projected", 0, 2560, 10240),
    IF vq THEN q8_input_projection("ple", "ple_embedding", "ple_projected", 10240, 640, 2560)
    ELSE q4_input_projection("ple", "ple_embedding", "ple_projected", 10240, 640, 2560),
    ple_fused_update(input, 4)>>

encode_embedding ==
  <<IF vq THEN embedding_q8_stream(2560) ELSE embedding_q4_stream(2560)>>

encode_hc_read_final(input) ==
  <<hc_normalize("head", input, 4),
    IF vq THEN hc_down_only_q8(80) ELSE hc_down_only(80),
    IF vq THEN hc_up_mix_q8("head", 320) ELSE hc_up_mix("head", 320)>>

\* The final mixer, the logits, and two passes that keep the two best.
encode_head(input) ==
  LET rows == Vocabulary
      groups == (rows + 1023) \div 1024
      lm == (rows + 3) \div 4
  IN  encode_hc_read_final(input)
      \o <<IF vq THEN lm_head_q8(lm, rows) ELSE lm_head_q4(lm, rows),
           Top2Reduce("head_logits", {}, "head_candidate_values", "head_candidate_ids",
                      groups, rows),
           Top2Reduce("head_candidate_values",
                      {Of("u32", "head_candidate_ids", 0, 2 * groups)},
                      "head_result_values", "head_result_ids", 1, 2 * groups)>>

\* One layer on its input, as in encode_trunk and the calls for one layer.
LayerWork(l, d2, input) ==
  encode_hc_read("attn", input)
  \o (IF l % AttentionEvery = AttentionEvery - 1 THEN encode_attention ELSE encode_gdn)
  \o encode_hc_write("attn", input, "block_output", "post_attention")
  \o encode_mlp(l, d2)

-----------------------------------------------------------------------------
(* The calls.                                                              *)

\* A call copies its stream in before, and its result out afterwards.
CopyIn == <<HostFills("embed", "stream", Stream)>>
CopyOut(buffer) == <<D("result", {R(buffer, 0, Stream)}, {})>>
read_head_result ==
  <<D("result", {Of("f32", "head_result_values", 0, 1), Of("u32", "head_result_ids", 0, 2)}, {})>>

\* The stream that a layer reads.
LayerInput(l) ==
  IF l = 0 THEN "stream" ELSE IF l = NgramLayer THEN "ple_stream" ELSE "output_stream"

\* encode_trunk for one layer, with the embedding and the head of a whole token.
encode_trunk(l, d2, whole) ==
  (IF l = 0 THEN IF whole THEN encode_embedding ELSE CopyIn ELSE <<>>)
  \o (IF l = NgramLayer THEN encode_ple(IF l = 0 THEN "stream" ELSE "output_stream")
      ELSE <<>>)
  \o LayerWork(l, d2, LayerInput(l))
  \o IF l + 1 < TrunkLayers THEN <<>>
     ELSE IF whole THEN encode_head("output_stream") \o read_head_result
          ELSE CopyOut("output_stream")

decode_layer(l, d2) == CopyIn \o LayerWork(l, d2, "stream") \o CopyOut("output_stream")
decode_ple == CopyIn \o encode_ple("stream") \o CopyOut("ple_stream")
embed == encode_embedding \o CopyOut("stream")
head == CopyIn \o encode_head("stream") \o read_head_result

Never == [call |-> 0, layer |-> -1, half |-> "none"]

\* The layers of a pruned checkpoint are not vector-quantized.
Checkpoints == {[rows |-> r, pruned |-> p, vq |-> v] :
                  r \in {448, 640}, p \in BOOLEAN, v \in BOOLEAN}

\* Buffers start zeroed; nobody has written them.
TrunkInit ==
  /\ model \in {m \in Checkpoints : ~(m.pruned /\ m.vq)} /\ create(model)
  /\ blocks \in BlockCounts
  /\ written = [b \in DOMAIN allocate_scratch |->
       {[from |-> 0, to |-> allocate_scratch[b], type |-> "bf16", by |-> Never]}]
  /\ call = [n |-> 0, kind |-> "none", layer |-> -1]
  /\ todo = <<>>
  /\ last = [half |-> "none", rows |-> 0, ranges |-> {}, found |-> {}]

\* The segments of a buffer after a write.
Cut(s, w) ==
  {p \in {[s EXCEPT !.to = Least(@, w.from)],
          [s EXCEPT !.from = IF @ < w.to THEN w.to ELSE @]} : p.from < p.to}
Rewritten(who, w, segments) ==
  UNION {Cut(s, w) : s \in segments}
  \cup IF w.from < w.to
       THEN {[from |-> w.from, to |-> w.to, type |-> w.type, by |-> who]} ELSE {}

\* What a read finds: the type and the writer of every segment it touches.
Found(r) ==
  {[b |-> r.b, wanted |-> r.type, type |-> s.type, by |-> s.by] :
     s \in {x \in written[r.b] : x.from < r.to /\ r.from < x.to}}

\* The GPU runs the next dispatch; the host's part is done when it encodes,
\* ahead of the GPU (MetalSession looks at that).
Dispatch ==
  /\ todo # <<>>
  /\ LET d == Head(todo)
         who == [call |-> call.n, layer |-> call.layer, half |-> d.half]
     IN  /\ last' = [half |-> d.half, rows |-> d.rows, ranges |-> d.reads \cup d.writes,
                     found |-> UNION {Found(r) : r \in d.reads}]
         /\ written' = [b \in DOMAIN written |->
              FoldSet(LAMBDA w, acc : Rewritten(who, w, acc), written[b],
                      {w \in d.writes : w.b = b})]
  /\ todo' = Tail(todo)
  /\ UNCHANGED <<model, blocks, call>>

Quiet == [half |-> "none", rows |-> 0, ranges |-> {}, found |-> {}]

\* The next layer of a token or of a trunk.
NextLayer ==
  /\ todo = <<>> /\ call.kind \in {"token", "trunk"} /\ call.layer + 1 < TrunkLayers
  /\ call' = [call EXCEPT !.layer = @ + 1]
  /\ \E d2 \in BOOLEAN : todo' = encode_trunk(call.layer + 1, d2, call.kind = "token")
  /\ last' = Quiet
  /\ UNCHANGED <<model, blocks, written>>

Starts(kind, l, work) ==
  /\ call' = [n |-> call.n + 1, kind |-> kind, layer |-> l]
  /\ todo' = work

\* The next call: greedy_decode, decode_trunk, one layer, or a part.
NextCall ==
  /\ todo = <<>> /\ call.n < MaxTrunks
  /\ call.kind \in {"token", "trunk"} => call.layer + 1 = TrunkLayers
  /\ \E d2 \in BOOLEAN :
       \/ Starts("token", 0, encode_trunk(0, d2, TRUE))
       \/ Starts("trunk", 0, encode_trunk(0, d2, FALSE))
       \/ \E l \in ProbedLayers : Starts("layer", l, decode_layer(l, d2))
       \/ Starts("ple", NgramLayer, decode_ple)
       \/ Starts("embed", 0, embed)
       \/ Starts("head", 0, head)
  /\ last' = Quiet
  /\ UNCHANGED <<model, blocks, written>>

TrunkNext == Dispatch \/ NextLayer \/ NextCall

TrunkSpec == TrunkInit /\ [][TrunkNext]_trunkVars

-----------------------------------------------------------------------------
(* Properties.                                                             *)

\* Who must have written an element that a half of a layer reads.
Expected(b, half) ==
  LET here(h) == [call |-> call.n, layer |-> call.layer, half |-> h]
      before == [call |-> call.n, layer |-> call.layer - 1, half |-> "mlp"]
  IN  CASE b = "stream" -> here("embed")
        [] b = "output_stream" -> IF half \in {"head", "result"} THEN here("mlp") ELSE before
        [] b = "ple_stream" -> here("ple")
        [] b = "post_attention" -> here("attn")
        [] b = "zero_output" -> Never
        [] half = "result" -> here("head")
        [] OTHER -> here(half)

\* Every element that a dispatch reads, and every element of the result that
\* a call returns, was written by the same half of the same layer of the
\* same call, in the type it is read as; the streams are what the layer
\* before left, and the zero output stays zero.  No grid is too small, no
\* offset off, no scratch buffer carries a value over.
ReadsAreFresh ==
  \A f \in last.found : f.by = Expected(f.b, last.half) /\ f.type = f.wanted

\* No kernel reads or writes beyond the buffer it is given (allocate_scratch),
\* for either size of an expert and up to the longest context.
WithinBuffers ==
  \A r \in last.ranges : r.from >= 0 /\ r.to <= allocate_scratch[r.b]

\* An affine checkpoint that is not pruned passes supports and is taken for a
\* pruned one (persistent_metal_backend.mm:1674).
AffineUnpruned == ~model.vq /\ ~model.pruned

\* "fails closed when ... the model geometry is unsupported"
\* (docs/persistent-metal-backend.md:293): the kernels of routed experts
\* assume the number of rows that the checkpoint's experts have.
KernelsFitCheckpoint == last.rows \in {0, model.rows} \/ AffineUnpruned

\* Every dispatch reads what the right producer has written, inside the
\* buffers that allocate_scratch made, with kernels for the checkpoint's rows.
DispatchesFresh == ReadsAreFresh /\ WithinBuffers /\ KernelsFitCheckpoint

=============================================================================
