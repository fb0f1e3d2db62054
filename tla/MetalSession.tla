---------------------------- MODULE MetalSession ----------------------------
(***************************************************************************)
(* The persistent Metal backend (persistent_metal_backend.mm) and its use  *)
(* by one request after the other in NativeEngine::complete_impl.  A       *)
(* decode step encodes the layers on the host and commits them to the GPU  *)
(* in groups while the GPU already runs the earlier groups.  The host      *)
(* advances the token counts and the n-gram state when it encodes, and     *)
(* writes the rotary tables and the n-gram embedding into buffers that the *)
(* GPU reads when it gets there.                                           *)
(*                                                                         *)
(* What a layer holds is the rows it has absorbed: a row names the request *)
(* and the position of a token, an attention key also the position its     *)
(* rotation was taken from.                                                *)
(***************************************************************************)
EXTENDS Integers, Sequences, FiniteSets

CONSTANTS
  LayerCount,     \* 48
  Period,         \* every Period-th layer is an attention layer: 4
  PleLayer,       \* the layer with the n-gram embedding: 1
  Compress,       \* rows per pooled block: 4
  HotCapacity,    \* rows of the hot slab: 8192
  ContextLimit,   \* 262144
  PositionLimit,  \* 2^32 - 1
  GroupSizes,     \* QWEN38_PERSISTENT_LAYER_GROUP: 1..48
  Prompts,        \* the states requests bring: [rows, cold, base]
  MaxRequests,    \* bound: requests
  MaxSteps        \* bound: decode steps of a request

ASSUME SessionAssumption ==
  /\ LayerCount \in Nat \ {0} /\ Period \in 2..LayerCount
  /\ PleLayer \in 0..(LayerCount - 1)
  /\ Compress \in Nat \ {0} /\ HotCapacity \in Nat \ {0}
  /\ ContextLimit \in Nat \ {0} /\ PositionLimit \in Nat \ {0}
  /\ GroupSizes \subseteq 1..LayerCount
  /\ \A p \in Prompts :
       /\ p.rows \in Nat /\ p.cold \in 0..p.rows /\ p.base \in Nat
       /\ p.rows = 0 => p.base = 0

VARIABLES
  sharing,   \* the weights are MLX allocations, bound for one request at a time
  prepared,  \* they have a Metal buffer
  group,     \* layers per command buffer
  request,   \* the request: its number, prompt and the tokens it has consumed
  phase,     \* what complete_impl is doing
  fresh,     \* persistent_reset
  step,      \* the decode in progress: its token, whether to reset, what follows
  gdn,       \* per linear layer: the rows absorbed
  counts,    \* per attention layer: token_count, position_base, cold_count
  slabs,     \* per attention layer: cold and hot rows, pending rows, pooled blocks
  ngram,     \* n-gram state on the host
  pleRows,   \* the convolution of the n-gram embedding
  tables,    \* host-visible buffers: rotary tables and n-gram embedding; the
             \* dense ids of the selection, which the host writes too, are the
             \* same for every layer and are left out
  layer,     \* next layer to encode
  open,      \* operations of the command buffer not committed yet
  queue,     \* committed operations, oldest first, each with its group's end
  broken,    \* a command buffer of this step has failed
  handed,    \* the state last exported to MLX
  outcome    \* how the last request ended

sessionVars == <<sharing, prepared, group, request, phase, fresh, step, gdn,
                 counts, slabs, ngram, pleRows, tables, layer, open, queue,
                 broken, handed, outcome>>
state == <<gdn, counts, slabs, ngram, pleRows>>
host == <<sharing, prepared, group, request, phase, fresh, step, layer, open,
          handed, outcome>>

AllLayers == 0..(LayerCount - 1)
Attention == {l \in AllLayers : l % Period = Period - 1}
Linear == AllLayers \ Attention
First == Period - 1

\* An empty buffer row, and no exported state.
Nothing == [of |-> -1, at |-> -1]
NoState == [token_count |-> -1]

\* The token decoded to register the buffers with the queue.
WarmToken == [of |-> 0, at |-> 0]

\* The rows a request has consumed.
Rows(r) == [i \in 1..r.rows |-> [of |-> r.id, at |-> i]]
Keyed(row, position) == [of |-> row.of, at |-> row.at, rotated |-> position]

-----------------------------------------------------------------------------
(* What the state of a context is: the reference for import and export.    *)

\* The layers of a model that has consumed rows, cold of them quantized.
KeysOf(rows, base) == [i \in 1..Len(rows) |-> Keyed(rows[i], base + i - 1)]
PoolOf(rows, base, b) ==
  [rows |-> SubSeq(rows, b * Compress + 1, (b + 1) * Compress),
   rotated |-> base + b * Compress]
PendingOf(rows) ==
  SubSeq(rows, Len(rows) - (Len(rows) % Compress) + 1, Len(rows))

Image(rows, base, cold) ==
  [token_count |-> Len(rows),
   linear |-> [l \in Linear |-> rows],
   attention |->
     [l \in Attention |->
       [token_count |-> Len(rows), position_base |-> base,
        cold |-> SubSeq(KeysOf(rows, base), 1, cold),
        hot |-> SubSeq(KeysOf(rows, base), cold + 1, Len(rows)),
        raw |-> PendingOf(rows),
        pooled |-> [b \in 1..(Len(rows) \div Compress) |-> PoolOf(rows, base, b - 1)]]],
   ngram |-> rows, convolution |-> rows]

-----------------------------------------------------------------------------
(* The state of the backend.                                               *)

EmptyCounts == [token_count |-> 0, position_base |-> 0, cold_count |-> 0]
EmptySlabs ==
  [cold |-> <<>>, hot |-> [i \in 0..(HotCapacity - 1) |-> Nothing],
   pending |-> [i \in 0..(Compress - 1) |-> Nothing], pooled |-> <<>>]

\* Pooled blocks are never cleared: what a reset leaves of them.
Cleared(s) == [EmptySlabs EXCEPT !.pooled = s.pooled]

\* Mutation: the n-gram embedding keeps its rows.
ResetLayersOnly ==
  /\ gdn' = [l \in Linear |-> <<>>]
  /\ counts' = [l \in Attention |-> EmptyCounts]
  /\ slabs' = [l \in Attention |-> Cleared(slabs[l])]
  /\ UNCHANGED <<ngram, pleRows>>

reset_all_state ==
  /\ gdn' = [l \in Linear |-> <<>>]
  /\ counts' = [l \in Attention |-> EmptyCounts]
  /\ slabs' = [l \in Attention |-> Cleared(slabs[l])]
  /\ ngram' = <<>> /\ pleRows' = <<>>

HotRows(c) == c.token_count - c.cold_count

can_decode(cs) ==
  \A l \in Attention :
    /\ cs[l].cold_count <= cs[l].token_count
    /\ HotRows(cs[l]) < HotCapacity
    /\ cs[l].token_count < ContextLimit
    /\ cs[l].position_base < PositionLimit - cs[l].token_count

Partial == \E l \in Attention : counts[l].token_count # counts[First].token_count

\* The rows of a buffer from its start; the pool may hold older blocks further on.
Taken(f, n) == [i \in 1..n |-> f[i - 1]]

export_state ==
  [token_count |-> counts[First].token_count,
   linear |-> gdn,
   attention |->
     [l \in Attention |->
       LET c == counts[l] IN
       [token_count |-> c.token_count, position_base |-> c.position_base,
        cold |-> slabs[l].cold,
        hot |-> Taken(slabs[l].hot, HotRows(c)),
        raw |-> Taken(slabs[l].pending, c.token_count % Compress),
        pooled |-> SubSeq(slabs[l].pooled, 1, c.token_count \div Compress)]],
   ngram |-> ngram, convolution |-> pleRows]

\* Every geometry and frontier is checked before anything is touched.
Importable(s) ==
  \A l \in Attention :
    LET a == s.attention[l] IN
    /\ a.token_count = s.token_count /\ a.token_count <= ContextLimit
    /\ Len(a.pooled) = a.token_count \div Compress
    /\ Len(a.hot) <= HotCapacity
    /\ a.position_base <= PositionLimit - a.token_count

Filled(f, rows) == [i \in DOMAIN f |-> IF i < Len(rows) THEN rows[i + 1] ELSE Nothing]

\* The first rows of the pool are overwritten, the others stay.
Overwritten(pool, blocks) == blocks \o SubSeq(pool, Len(blocks) + 1, Len(pool))

ImportedSlabs(s, old) ==
  [cold |-> s.cold, hot |-> Filled(EmptySlabs.hot, s.hot),
   pending |-> Filled(EmptySlabs.pending, s.raw),
   pooled |-> Overwritten(old.pooled, s.pooled)]

import_state(s) ==
  /\ gdn' = s.linear
  /\ counts' = [l \in Attention |->
       [token_count |-> s.attention[l].token_count,
        position_base |-> s.attention[l].position_base,
        cold_count |-> Len(s.attention[l].cold)]]
  /\ slabs' = [l \in Attention |-> ImportedSlabs(s.attention[l], slabs[l])]
  /\ ngram' = s.ngram /\ pleRows' = s.convolution

-----------------------------------------------------------------------------
SessionInit ==
  /\ sharing \in BOOLEAN /\ prepared = FALSE
  /\ group \in GroupSizes
  /\ request = [id |-> 0, rows |-> 0, cold |-> 0, base |-> 0, steps |-> 0]
  /\ phase = "idle" /\ fresh = FALSE
  /\ step = [token |-> WarmToken, reset |-> FALSE, then |-> "ready"]
  /\ gdn = [l \in Linear |-> <<>>]
  /\ counts = [l \in Attention |-> EmptyCounts]
  /\ slabs = [l \in Attention |-> EmptySlabs]
  /\ ngram = <<>> /\ pleRows = <<>>
  /\ tables = [rope |-> 0, pool |-> 0, embedding |-> Nothing]
  /\ layer = 0 /\ open = <<>> /\ queue = <<>> /\ broken = FALSE
  /\ handed = NoState /\ outcome = "none"

\* The request leaves complete_impl and its lease drops the shared buffers.
End(why) ==
  /\ phase' = "idle" /\ prepared' = FALSE /\ outcome' = why
  /\ UNCHANGED <<sharing, group, request, fresh, step>>

\* complete_impl up to the hand-over.  A prompt of one token leaves nothing
\* to import: the first step resets instead.
Begin ==
  /\ phase = "idle" /\ request.id < MaxRequests
  /\ \E p \in Prompts :
       request' = [id |-> request.id + 1, rows |-> p.rows, cold |-> p.cold,
                   base |-> p.base, steps |-> 0]
  /\ fresh' = (request'.rows = 0)
  /\ phase' = IF sharing THEN "prepare"
              ELSE IF fresh' THEN "mlx" ELSE "import"
  /\ prepared' = FALSE /\ handed' = NoState /\ outcome' = "none"
  /\ UNCHANGED <<sharing, group, step, state, tables, layer, open, queue, broken>>

\* prepare_shared_weights and the warm-up step; Metal may reject an allocation.
Prepare ==
  /\ phase = "prepare"
  /\ \/ /\ prepared' = TRUE
        /\ step' = [token |-> WarmToken, reset |-> TRUE,
                    then |-> IF fresh THEN "ready" ELSE "import"]
        /\ phase' = "start"
        /\ UNCHANGED <<sharing, group, request, fresh, outcome>>
     \/ End("rejected")

PrepareStep ==
  /\ Prepare
  /\ UNCHANGED <<state, tables, layer, open, queue, broken, handed>>

\* activate_persistent: prepare_persistent_state has completed the pools.
Import ==
  /\ phase = "import"
  /\ LET s == Image(Rows(request), request.base, request.cold) IN
     IF Importable(s)
     THEN /\ import_state(s)
          /\ phase' = "ready" /\ fresh' = FALSE
          /\ UNCHANGED <<sharing, prepared, group, request, step, outcome>>
     ELSE End("refused") /\ UNCHANGED state
  /\ UNCHANGED <<tables, layer, open, queue, broken, handed>>

\* The loop of complete_impl: hand a full state back, or decode a token.
Export ==
  /\ phase = "ready" /\ ~fresh /\ ~can_decode(counts)
  /\ IF Partial
     THEN End("partial") /\ UNCHANGED handed
     ELSE /\ handed' = export_state
          /\ prepared' = FALSE /\ phase' = "mlx"
          /\ UNCHANGED <<sharing, group, request, fresh, step, outcome>>
  /\ UNCHANGED <<state, tables, layer, open, queue, broken>>

DecodeToken ==
  /\ phase = "ready" /\ (fresh \/ can_decode(counts))
  /\ request.steps < MaxSteps
  /\ request' = [request EXCEPT !.rows = @ + 1, !.steps = @ + 1]
  /\ step' = [token |-> [of |-> request.id, at |-> request.rows + 1],
              reset |-> fresh, then |-> "ready"]
  /\ fresh' = FALSE
  /\ phase' = "start"
  /\ UNCHANGED <<sharing, prepared, group, state, tables, layer, open, queue,
                 broken, handed, outcome>>

\* The request ends, with the state exported for the prefix cache or not.
Finish ==
  /\ \/ phase = "ready" /\ request.steps > 0 /\ ~Partial /\ handed' = export_state
     \/ phase \in {"ready", "mlx"} /\ UNCHANGED handed
  /\ End("done")
  /\ UNCHANGED <<state, tables, layer, open, queue, broken>>

-----------------------------------------------------------------------------
(* greedy_decode.                                                          *)

\* The reset, and the capacity check before anything is encoded.
Start ==
  /\ phase = "start"
  /\ IF step.reset THEN reset_all_state ELSE UNCHANGED state
  /\ IF can_decode(counts')
     THEN /\ phase' = "encode"
          /\ UNCHANGED <<sharing, prepared, group, request, fresh, step, outcome>>
     ELSE End("capacity")
  /\ layer' = 0 /\ open' = <<>> /\ broken' = FALSE
  /\ UNCHANGED <<tables, queue, handed>>

\* One operation of a layer with the values set at encoding.
Operation(l) ==
  IF l \in Linear THEN [layer |-> l, token |-> step.token, last |-> FALSE]
  ELSE [layer |-> l, token |-> step.token, last |-> FALSE,
        hot |-> HotRows(counts[l]), slot |-> counts[l].token_count % Compress,
        block |-> counts[l].token_count \div Compress,
        complete |-> (counts[l].token_count + 1) \div Compress
                       > counts[l].token_count \div Compress]

\* The host's part of a layer: the tables, the counts, the n-gram state.
EncodeHost(l) ==
  /\ tables' = [tables EXCEPT
       !.embedding = IF l = PleLayer THEN step.token ELSE @,
       !.rope = IF l \in Attention
                THEN counts[l].position_base + counts[l].token_count ELSE @,
       !.pool = IF l \in Attention
                THEN counts[l].position_base
                       + (counts[l].token_count \div Compress) * Compress ELSE @]
  /\ ngram' = IF l = PleLayer THEN Append(ngram, step.token) ELSE ngram
  /\ counts' = IF l \in Attention THEN [counts EXCEPT ![l].token_count = @ + 1]
               ELSE counts

LastOf(ops) == [i \in 1..Len(ops) |-> [ops[i] EXCEPT !.last = (i = Len(ops))]]

\* encode_trunk, one layer; the group is committed after its last layer.
EncodeLayer ==
  /\ phase = "encode" /\ layer < LayerCount
  /\ layer \in Attention => HotRows(counts[layer]) < HotCapacity
  /\ EncodeHost(layer)
  /\ LET ops == Append(open, Operation(layer)) IN
     IF (layer + 1) % group = 0 \/ layer + 1 = LayerCount
     THEN queue' = queue \o LastOf(ops) /\ open' = <<>>
     ELSE open' = ops /\ UNCHANGED queue
  /\ layer' = layer + 1
  /\ phase' = IF layer + 1 = LayerCount THEN "wait" ELSE phase
  /\ UNCHANGED <<sharing, prepared, group, request, fresh, step, gdn, slabs,
                 pleRows, broken, handed, outcome>>

\* Encoding a layer throws (a tensor is missing, the n-gram table cannot be
\* read, the slab is full) before or after the host's part of it.
EncodeThrows ==
  /\ phase = "encode" /\ layer < LayerCount
  /\ EncodeHost(layer) \/ UNCHANGED <<tables, ngram, counts>>
  /\ open' = <<>>
  /\ phase' = "drain"
  /\ outcome' = IF layer \in Attention /\ HotRows(counts[layer]) >= HotCapacity
                THEN "slab" ELSE "encoding"
  /\ UNCHANGED <<sharing, prepared, group, request, fresh, step, gdn, slabs,
                 pleRows, layer, queue, broken, handed>>

\* The committed groups are waited for before the exception leaves.
Drain ==
  /\ phase = "drain" /\ queue = <<>>
  /\ End(outcome)
  /\ UNCHANGED <<state, tables, layer, open, queue, broken, handed>>

\* finish_commands: wait for the last group, then look at all of them.
FinishCommands ==
  /\ phase = "wait" /\ queue = <<>>
  /\ IF broken THEN End("gpu")
     ELSE /\ phase' = step.then
          /\ UNCHANGED <<sharing, prepared, group, request, fresh, step, outcome>>
  /\ UNCHANGED <<state, tables, layer, open, queue, broken, handed>>

-----------------------------------------------------------------------------
(* The GPU, in the order of the queue.                                     *)

\* qsa_append_decode_state: the key, the pending row, and a complete block.
Appended(s, op) ==
  LET pending == [s.pending EXCEPT ![op.slot] = op.token]
      block == [rows |-> Taken(pending, Compress), rotated |-> tables.pool]
  IN  [cold |-> s.cold,
       hot |-> [s.hot EXCEPT ![op.hot] = Keyed(op.token, tables.rope)],
       pending |-> pending,
       pooled |-> IF op.complete
                  THEN SubSeq(s.pooled, 1, op.block) \o <<block>>
                         \o SubSeq(s.pooled, op.block + 2, Len(s.pooled))
                  ELSE s.pooled]

Execute ==
  /\ queue # <<>>
  /\ LET op == Head(queue) IN
     /\ IF op.layer \in Linear
        THEN gdn' = [gdn EXCEPT ![op.layer] = Append(@, op.token)] /\ UNCHANGED slabs
        ELSE slabs' = [slabs EXCEPT ![op.layer] = Appended(@, op)] /\ UNCHANGED gdn
     /\ pleRows' = IF op.layer = PleLayer THEN Append(pleRows, tables.embedding)
                   ELSE pleRows
  /\ queue' = Tail(queue)
  /\ UNCHANGED <<host, counts, ngram, tables, broken>>

\* A command buffer fails: the rest of its group is lost, later groups run.
GroupLen(q) == CHOOSE n \in 1..Len(q) : q[n].last /\ \A m \in 1..(n - 1) : ~q[m].last

CommandFails ==
  /\ queue # <<>> /\ phase \in {"encode", "wait", "drain"}
  /\ queue' = SubSeq(queue, GroupLen(queue) + 1, Len(queue))
  /\ broken' = TRUE
  /\ UNCHANGED <<host, state, tables>>

SessionNext ==
  \/ Begin \/ PrepareStep \/ Import \/ Export \/ DecodeToken \/ Finish
  \/ Start \/ EncodeLayer \/ EncodeThrows \/ Drain \/ FinishCommands
  \/ Execute \/ CommandFails

SessionSpec == SessionInit /\ [][SessionNext]_sessionVars

-----------------------------------------------------------------------------
(* Properties.                                                             *)

\* Whatever failed before, whatever the warm-up step left behind and however
\* the GPU lags behind the host, when a step is over every layer of the
\* backend holds exactly the rows of the current request, each key rotated
\* for its own position (import_state, reset_all_state, encode_attention).
HoldsContext ==
  phase = "ready" /\ ~fresh =>
    export_state = Image(Rows(request), request.base, request.cold)

\* "No partial native step: return the complete frontier to MLX": what
\* leaves the backend is the whole context (native_engine.cpp:1411).
HandOverWhole ==
  handed # NoState =>
    handed = Image(Rows(request), request.base, request.cold)

\* Capacity ends the backend's part of a request, never the request: the
\* slab check inside encode_trunk is never reached with a full slab.
CapacityNeverThrows == outcome \notin {"capacity", "slab"}

\* greedy_decode: committed groups "may still own scratch/state"; nothing
\* runs on the GPU when the host resets, imports, exports or leaves.
GpuQuiet == phase \notin {"encode", "wait", "drain"} => queue = <<>>

\* Layers encoded against shared weights find their buffers in place.
WeightsInPlace == sharing /\ phase = "encode" => prepared

\* One request after the other, the backend holds and hands over the context
\* of the request, with nothing left running and the weights in place.
SessionSound ==
  HoldsContext /\ HandOverWhole /\ CapacityNeverThrows /\ GpuQuiet /\ WeightsInPlace

=============================================================================
