----------------------------- MODULE MoeDispatch -----------------------------
(***************************************************************************)
(* SparseMoe (src/sparse_moe.cpp): which of its entry points and kernels   *)
(* serve a batch of rows.                                                  *)
(*                                                                         *)
(* A layer is opened once, from a checkpoint and a dozen environment       *)
(* variables, and is then called with one row (decode), with the rows of   *)
(* several requests (decode_multi), with a draft to verify or with a chunk *)
(* of a prompt.  Four entry points hand the rows to each other and to      *)
(* kernels that only take certain widths and route counts.  A behaviour is *)
(* the opening of one layer and one call; a step is one C++ function.      *)
(***************************************************************************)
EXTENDS Naturals

CONSTANTS
  ConfiguredTopK,  \* experts_per_token of the checkpoint (10)
  LeastTopK,       \* the least QWEN38_TARGET_TOPK (6)
  RoutedRows,      \* rows of one routed batch (8)
  LoneRows,        \* rows that a paged VQ layer takes one by one (4)
  WideBranch,      \* requests of one wide branch batch (4)
  GroupFrom,       \* rows from which fused weights are grouped (16)
  SegmentFrom,     \* rows from which VQ routes are segmented (128)
  VerifyRows,      \* rows of one verification (1024)
  PrefillRows,     \* rows of one prompt chunk (2048)
  RowCounts,       \* the widths that are asked
  Layers           \* layers as stored, with the environment that opens them

ASSUME MoeDispatchAssumption ==
  /\ {ConfiguredTopK, LeastTopK, RoutedRows, LoneRows, WideBranch, GroupFrom,
      SegmentFrom, VerifyRows, PrefillRows} \subseteq Nat
  /\ 0 < LeastTopK /\ LeastTopK <= ConfiguredTopK
  /\ 0 < LoneRows /\ LoneRows <= RoutedRows
  /\ 1 < WideBranch /\ WideBranch <= RoutedRows
  /\ RoutedRows < GroupFrom /\ GroupFrom < SegmentFrom
  /\ SegmentFrom < VerifyRows /\ VerifyRows < PrefillRows
  /\ RowCounts \subseteq Nat \ {0}
  /\ \A l \in Layers :
       /\ l.kind \in {"dense", "affine", "compact", "vq", "paged", "pagedvq"}
       /\ l.topk \in 1..ConfiguredTopK

VARIABLES
  layer,    \* the layer: what is stored, what the environment asks, paging
  asked,    \* the call: entry and rows
  running,  \* the function that is about to run: name and rows
  left,     \* rows that the caller's loop still has to hand over
  entered,  \* functions entered for the current rows
  kernel,   \* the kernel that ran last: name and rows
  computed, \* rows that have their routed output
  moeResult \* "opening", "running", "done" or why the call failed

moeVars == <<layer, asked, running, left, entered, kernel, computed, moeResult>>

Entries == {"decode", "decode_multi", "verify", "prefill"}

-----------------------------------------------------------------------------
(* Opening a layer.                                                        *)

Routed(l) == l.kind # "dense"
Paged(l) == l.kind \in {"paged", "pagedvq"}
Vq(l) == l.kind \in {"vq", "pagedvq"}
Compact(l) == l.kind = "compact"

\* effective_experts_per_token and the constructor: a reduced route count is
\* for compact metadata only, compact metadata is complete or not asked for,
\* and paged experts keep both as they are.
Opens(l) ==
  /\ l.topk = ConfiguredTopK \/ LeastTopK <= l.topk
  /\ Routed(l) => /\ l.topk = ConfiguredTopK \/ Compact(l)
                  /\ l.qmeta <=> Compact(l)
                  /\ Compact(l) => l.bits = 4

\* Whether both fused kernels exist.  The vector-quantised layers have kernels
\* of their own and no bit width that these take.
Fused(l) ==
  /\ l.kind \in {"affine", "compact"}
  /\ \/ l.exact6 /\ l.topk = 10 /\ l.bits = 6 /\ l.group = 32
     \/ /\ l.fused
        /\ (Compact(l) /\ l.topk \in 6..10) \/ l.topk = 10
        /\ l.bits \in {4, 8} /\ l.group = 64
        /\ l.bits = 8 => l.exact8

OpenLayer ==
  /\ moeResult = "opening"
  /\ IF Opens(layer) THEN moeResult' = "running" ELSE moeResult' = "not_opened"
  /\ UNCHANGED <<layer, asked, running, left, entered, kernel, computed>>

-----------------------------------------------------------------------------
(* Control between the functions.                                          *)

At(f) == moeResult = "running" /\ running.f = f

Rows == running.rows

Keep == UNCHANGED <<layer, asked>>

RefuseRows ==
  /\ moeResult' = "refused"
  /\ UNCHANGED <<running, left, entered, kernel, computed>> /\ Keep

\* One function hands its rows to another.
HandOver(f) ==
  /\ running' = [f |-> f, rows |-> Rows]
  /\ entered' = entered \cup {running.f}
  /\ UNCHANGED <<left, kernel, computed, moeResult>> /\ Keep

\* A loop hands its rows over in pieces of at most n.
InPieces(f, n) ==
  LET piece == IF Rows < n THEN Rows ELSE n
  IN  /\ running' = [f |-> f, rows |-> piece]
      /\ left' = left + (Rows - piece)
      /\ entered' = {}
      /\ UNCHANGED <<kernel, computed, moeResult>> /\ Keep

\* A kernel computes the rows; a loop around it goes on with the next piece,
\* as wide as this one unless fewer are left.
Compute(k) ==
  /\ kernel' = [name |-> k, rows |-> Rows]
  /\ computed' = computed + Rows
  /\ IF left = 0
     THEN moeResult' = "done" /\ UNCHANGED <<running, left, entered>>
     ELSE LET piece == IF left < Rows THEN left ELSE Rows
          IN  /\ running' = [running EXCEPT !.rows = piece]
              /\ left' = left - piece
              /\ UNCHANGED <<entered, moeResult>>
  /\ Keep

\* The fused VQ kernels on one row, or on the resident arrays of several.
VqRow == Compute("vq_routed")
VqBatch == IF Rows <= RoutedRows THEN Compute("vq_routed") ELSE RefuseRows

\* The kernels for exactly ten routes, on one row and on a verification.
FixedRow == Compute("fixed")
FixedRows == Compute("fixed")

\* One projection after the other, through take and quantized_matmul.
ByExpert == Compute("by_expert")

\* A prompt chunk: the VQ kernels route by route or on segments of routes, and
\* the gathered matmuls on routes sorted by expert.
VqDirect == Compute("vq_direct")
VqSegmented == Compute("vq_segmented")
Grouped == Compute("grouped")

-----------------------------------------------------------------------------
(* The entry points.                                                       *)

\* forward_decode.
Decode ==
  /\ At("decode")
  /\ CASE ~Routed(layer) -> Compute("shared")
       [] Paged(layer)   -> HandOver("paged")
       [] /\ layer.kind = "affine" /\ ~Fused(layer)
          /\ layer.device /\ layer.grouped -> HandOver("verify")
       [] OTHER -> HandOver("experts")

\* forward_experts_decode: one row through a fused kernel, or expert by expert.
Experts ==
  /\ At("experts")
  /\ CASE Vq(layer) -> VqRow
       [] Fused(layer) /\ Compact(layer)  -> HandOver("compact_routed")
       [] Fused(layer) /\ ~Compact(layer) -> FixedRow
       [] OTHER -> ByExpert

\* The requests of two, or of up to four, rows that a VQ layer batches.
BranchBatch ==
  /\ Vq(layer)
  /\ \/ Rows = 2 /\ layer.branch
     \/ Rows > 2 /\ Rows <= WideBranch /\ layer.wide

\* forward_decode_multi.
DecodeMulti ==
  /\ At("decode_multi")
  /\ CASE BranchBatch -> VqBatch
       [] ~BranchBatch /\ (Rows = 1 \/ Rows > RoutedRows \/ ~Compact(layer)) ->
            InPieces("decode", 1)
       [] OTHER -> HandOver("compact_routed")

\* Width and route count that forward_compact_routed accepts.
CompactTakes(rows) ==
  rows <= RoutedRows /\ layer.topk >= LeastTopK /\ layer.topk <= ConfiguredTopK

CompactRouted ==
  /\ At("compact_routed")
  /\ IF CompactTakes(Rows) THEN Compute("compact_routed") ELSE RefuseRows

\* forward_verify.
Verify ==
  /\ At("verify")
  /\ CASE ~Routed(layer) -> Compute("shared")
       [] Paged(layer)   -> HandOver("paged")
       [] Routed(layer) /\ ~Paged(layer) /\ Rows > VerifyRows -> RefuseRows
       [] Vq(layer) /\ ~Paged(layer) /\ Rows <= VerifyRows -> HandOver("prefill")
       [] OTHER ->
            CASE /\ layer.kind = "affine" /\ ~Fused(layer)
                 /\ layer.device /\ layer.grouped -> HandOver("prefill")
              [] Fused(layer) /\ layer.device ->
                   IF Compact(layer) /\ Rows <= RoutedRows
                   THEN HandOver("compact_routed") ELSE FixedRows
              [] /\ Compact(layer) /\ ~Fused(layer) /\ Rows > 1
                 /\ layer.device /\ layer.grouped -> HandOver("prefill")
              [] OTHER -> InPieces("experts", 1)

\* Mutation: every small chunk is verified, whatever serves the verification.
SentToVerifySmall(rows) ==
  \/ rows <= RoutedRows
  \/ ~Compact(layer) /\ ((Fused(layer) /\ rows < GroupFrom) \/ ~layer.grouped)

\* forward_prefill gives small chunks, and ungrouped ones, to forward_verify.
SentToVerify(rows) ==
  IF Compact(layer) THEN rows <= RoutedRows
  ELSE (Fused(layer) /\ rows < GroupFrom) \/ ~layer.grouped

Prefill ==
  /\ At("prefill")
  /\ CASE ~Routed(layer) -> Compute("shared")
       [] Paged(layer)   -> HandOver("paged")
       [] Routed(layer) /\ ~Paged(layer) /\ Rows > PrefillRows -> RefuseRows
       [] Vq(layer) /\ ~Paged(layer) /\ Rows <= PrefillRows ->
            IF Rows >= SegmentFrom /\ layer.segments
            THEN VqSegmented ELSE VqDirect
       [] OTHER -> IF SentToVerify(Rows) THEN HandOver("verify") ELSE Grouped

-----------------------------------------------------------------------------
(* Paged layers.                                                           *)

\* forward_paged and forward_paged_vq.  The experts of a row fit the fixed
\* slots or not.
PagedRows ==
  /\ At("paged")
  /\ CASE Rows > VerifyRows -> RefuseRows
       [] Rows <= VerifyRows /\ Vq(layer) ->
            IF Rows <= LoneRows THEN InPieces("paged_vq_group", 1)
            ELSE InPieces("paged_vq_group", RoutedRows)
       [] Rows <= VerifyRows /\ ~Vq(layer) ->
            CASE layer.paging.batch /\ layer.paging.grouped /\ Rows > 1 ->
                   Compute("paged_grouped")
              [] layer.paging.fixed /\ Rows = 1 ->
                   \/ Compute("paged_packed") \/ Compute("paged_row")
              [] /\ ~layer.paging.fixed /\ Rows = 1
                 /\ layer.paging.batch /\ layer.paging.packed -> Compute("paged_packed")
              [] OTHER -> InPieces("paged_row", 1)

PagedRow == At("paged_row") /\ Compute("paged_row")

\* forward_paged_vq_group, with the routed batch it calls.
PagedVqGroup ==
  /\ At("paged_vq_group")
  /\ IF Rows <= RoutedRows THEN Compute("vq_leased") ELSE RefuseRows

-----------------------------------------------------------------------------
\* The model calls forward_decode with one row.
Asks == {[f |-> f, rows |-> n] : f \in Entries \ {"decode"}, n \in RowCounts}
        \cup {[f |-> "decode", rows |-> 1]}

MoeInit ==
  /\ layer \in Layers
  /\ asked \in Asks
  /\ running = asked
  /\ left = 0
  /\ entered = {}
  /\ kernel = [name |-> "none", rows |-> 0]
  /\ computed = 0
  /\ moeResult = "opening"

MoeNext ==
  \/ OpenLayer
  \/ Decode \/ Experts \/ DecodeMulti \/ CompactRouted \/ Verify \/ Prefill
  \/ PagedRows \/ PagedRow \/ PagedVqGroup

MoeSpec == MoeInit /\ [][MoeNext]_moeVars

-----------------------------------------------------------------------------
(* Properties.                                                             *)

\* Compact metadata without the fused kernels, routed on the device with
\* grouping on: forward_verify sends two to eight rows to forward_prefill,
\* which sends them back.
SendsBackAndForth ==
  /\ Compact(layer) /\ ~Fused(layer) /\ layer.device /\ layer.grouped
  /\ Rows \in 2..RoutedRows

\* The entry points settle on a kernel: no function is entered again for the
\* rows it was entered with, so no call recurses for ever.  The one exception
\* is the configuration above.
DispatchSettles ==
  running.f \in entered => SendsBackAndForth

\* Fused compact metadata with fewer routes than ten, routed on the device,
\* and more rows to verify than the compact kernel takes: forward_verify falls
\* through to the kernel for exactly ten routes.
WideReducedVerify ==
  Compact(layer) /\ Fused(layer) /\ layer.device /\ layer.topk < ConfiguredTopK

\* A paged layer whose requests are decoded together: the branch batch reads
\* the resident arrays, which a paged layer does not have.
PagedBranch ==
  layer.kind = "pagedvq" /\ asked.f = "decode_multi" /\ asked.rows \in 2..WideBranch

\* A kernel only ever runs on what it is written for: the fixed kernels on ten
\* routes, the compact one on at most eight rows, resident kernels on layers
\* whose experts are resident, and the leased ones on paged layers.  The two
\* configurations above are the exceptions.
KernelFits ==
  /\ kernel.name = "fixed" =>
       (~Vq(layer) /\ layer.topk = ConfiguredTopK) \/ WideReducedVerify
  /\ kernel.name = "compact_routed" =>
       /\ Compact(layer) /\ kernel.rows <= RoutedRows
       /\ layer.topk \in LeastTopK..ConfiguredTopK
  /\ kernel.name \in {"vq_direct", "vq_segmented"} => layer.kind = "vq"
  /\ kernel.name = "vq_routed" =>
       Vq(layer) /\ kernel.rows <= RoutedRows /\ (layer.kind = "vq" \/ PagedBranch)
  /\ kernel.name \in {"paged_packed", "paged_row", "paged_grouped"} =>
       Paged(layer) /\ ~Vq(layer)
  /\ kernel.name = "vq_leased" => Paged(layer) /\ kernel.rows <= RoutedRows

\* A chunk that forward_prefill accepts and forward_verify does not: wider than
\* a verification, in a paged layer or with grouping off.
TooWideFurtherDown ==
  /\ asked.f = "prefill" /\ asked.rows > VerifyRows
  /\ Paged(layer) \/ (layer.kind = "affine" /\ ~layer.grouped)

\* Every row is computed exactly once, however the loops cut the batch, and a
\* batch that the entry point accepts is never refused further down, except
\* the chunks above.
RowsServed ==
  /\ computed + left + (IF moeResult = "running" THEN Rows ELSE 0) =
       IF moeResult \in {"opening", "not_opened", "refused"} THEN 0 ELSE asked.rows
  /\ moeResult = "refused" =>
       \/ asked.f = "verify" /\ asked.rows > VerifyRows
       \/ asked.f = "prefill" /\ asked.rows > PrefillRows
       \/ TooWideFurtherDown

\* Every call ends in kernels that are written for its rows, and each row is
\* computed once; the named configurations are the only exceptions.
DispatchSound == DispatchSettles /\ KernelFits /\ RowsServed

=============================================================================
