---------------------------- MODULE ExpertPaging ----------------------------
(***************************************************************************)
(* Paged experts (MlxTensorStore in src/mlx_backend.cpp and its users in   *)
(* src/sparse_moe.cpp): the fixed slots that experts are read into, with   *)
(* the leases that keep a slot until the GPU has used it, and the three    *)
(* readers that fetch one expert in parallel.                              *)
(*                                                                         *)
(* Projections are lazy: a projection of a leased expert is only a note to *)
(* read its slot when the result is evaluated.  A slot is bytes that MLX   *)
(* does not copy, so a slot that is filled again before that changes what  *)
(* the projection reads.                                                   *)
(***************************************************************************)
EXTENDS Naturals, Sequences, FiniteSets, FiniteSetsExt, SequencesExt

CONSTANTS
  PagedExperts,  \* experts of the layer (288)
  HotSlots,      \* fixed_hot_: experts that are always resident
  ColdSlots,     \* slots for the others (8)
  FitsBatch,     \* cold experts that fixed_batch_fits accepts (8)
  LeaseGroup,    \* leases between two fences of a grouped prefill (8)
  PageTopK,      \* experts of a row
  Projections,   \* readers of one expert (3)
  FieldsEach,    \* fields of a projection: two codes or three affine fields
  MaxCalls       \* bound: calls of the layer

ASSUME ExpertPagingAssumption ==
  /\ {HotSlots, ColdSlots, PageTopK, Projections} \subseteq Nat \ {0}
  /\ PagedExperts \in Nat /\ PagedExperts > HotSlots
  /\ FitsBatch \in 0..ColdSlots /\ LeaseGroup \in 0..ColdSlots
  /\ FieldsEach \subseteq Nat \ {0} /\ MaxCalls \in Nat

VARIABLES
  slotIds,     \* ids: the published expert of each slot, or none
  slotHolds,   \* the bytes in each slot: an expert, or torn
  touches, clock,
  failedLayer, \* failed
  leased,      \* leases of each slot
  reads,       \* projections that are built and not evaluated
  form,        \* the function that serves the call
  toLease,     \* experts it still has to lease
  pagingResult,
  calls,
  readers,     \* the parallel readers of one expert bundle
  bundle       \* fields appended to the bundle, and whether the frame lives

slotVars   == <<slotIds, slotHolds, touches, clock, failedLayer, leased, reads,
                form, toLease, pagingResult, calls>>
readerVars == <<readers, bundle>>
pagingVars == <<slotVars, readerVars>>

ExpertNumbers == 0..(PagedExperts - 1)
Slots == 0..(HotSlots + ColdSlots - 1)
ColdOnes == HotSlots..(HotSlots + ColdSlots - 1)
None == PagedExperts
Torn == PagedExperts + 1

-----------------------------------------------------------------------------
(* A call.                                                                 *)

\* fixed_batch_fits.
FixedBatchFits(ids) == Cardinality({e \in Range(ids) : e >= HotSlots}) <= FitsBatch

\* forward_paged with fixed slots: several rows are grouped by expert, one
\* row is packed if its experts fit, and otherwise served expert by expert.
BeginCall(ids, rows) ==
  /\ form = "idle" /\ calls < MaxCalls
  /\ calls' = calls + 1
  /\ pagingResult' = "none"
  /\ form' = CASE rows > 1 -> "grouped"
               [] rows = 1 /\ FixedBatchFits(ids) -> "packed"
               [] OTHER -> "single"
  /\ toLease' = ids
  /\ UNCHANGED <<slotIds, slotHolds, touches, clock, failedLayer, leased, reads>>

\* Several rows: the experts of all of them, each once and in increasing order.
GroupedIds(S) == {ids \in SetToSeqs(S) : \A i \in 2..Len(ids) : ids[i - 1] < ids[i]}

\* An exception unwinds the call: leases and unevaluated projections go.
Unwind(why) ==
  /\ pagingResult' = why
  /\ form' = "idle"
  /\ toLease' = <<>>
  /\ leased' = [s \in Slots |-> 0]
  /\ reads' = {}

\* A grouped prefill fences after each full group.
GroupFull == form = "grouped" /\ MapThenSumSet(LAMBDA s : leased[s], Slots) = LeaseGroup

MayLease ==
  /\ form # "idle" /\ toLease # <<>>
  /\ ~GroupFull
  /\ form = "single" => reads = {}

\* The lease is taken and a projection through the slot is built.
TakeLease(slot) ==
  /\ touches' = [touches EXCEPT ![slot] = clock + 1]
  /\ clock' = clock + 1
  /\ leased' = [leased EXCEPT ![slot] = @ + 1]
  /\ reads' = reads \cup {[slot |-> slot, expert |-> Head(toLease)]}
  /\ toLease' = Tail(toLease)

Hit ==
  /\ MayLease /\ ~failedLayer
  /\ \E s \in Slots :
       /\ slotIds[s] = Head(toLease)
       /\ \A t \in Slots : slotIds[t] = Head(toLease) => s <= t
       /\ TakeLease(s)
  /\ UNCHANGED <<slotIds, slotHolds, failedLayer, form, pagingResult, calls>>

Missing == Head(toLease) \notin Range(slotIds)

\* Only a slot that nobody leases is filled again, the one touched longest ago.
Unleased == {s \in ColdOnes : leased[s] = 0}
OldestUnleased ==
  {s \in Unleased : \A t \in Unleased :
     touches[s] < touches[t] \/ (touches[s] = touches[t] /\ s <= t)}

\* fill: every field is read, and only then the slot is published.  Without an
\* unleased slot the call throws.
Miss ==
  /\ MayLease /\ ~failedLayer /\ Missing
  /\ IF Unleased = {}
     THEN /\ Unwind("all leased")
          /\ UNCHANGED <<slotIds, slotHolds, touches, clock>>
     ELSE \E s \in OldestUnleased :
            /\ slotHolds' = [slotHolds EXCEPT ![s] = Head(toLease)]
            /\ slotIds' = [slotIds EXCEPT ![s] = Head(toLease)]
            /\ TakeLease(s)
            /\ UNCHANGED <<form, pagingResult>>
  /\ UNCHANGED <<failedLayer, calls>>

\* A field cannot be read: the slot is torn under its old name, and the layer
\* is unusable from then on.
FillFails ==
  /\ MayLease /\ ~failedLayer /\ Missing
  /\ \E s \in OldestUnleased : slotHolds' = [slotHolds EXCEPT ![s] = Torn]
  /\ failedLayer' = TRUE
  /\ Unwind("read failed")
  /\ UNCHANGED <<slotIds, touches, clock, calls>>

RefuseFailed ==
  /\ MayLease /\ failedLayer
  /\ Unwind("layer failed")
  /\ UNCHANGED <<slotIds, slotHolds, touches, clock, failedLayer, calls>>

\* What eval and the synchronisation after it leave: the projections are
\* computed, the leases end, and with the last expert the call.
Evaluated ==
  /\ reads' = {}
  /\ leased' = [s \in Slots |-> 0]
  /\ IF toLease = <<>>
     THEN form' = "idle" /\ pagingResult' = "served"
     ELSE UNCHANGED <<form, pagingResult>>
  /\ UNCHANGED <<slotIds, slotHolds, touches, clock, failedLayer, toLease, calls>>

\* One row, expert by expert.
RowFence == form = "single" /\ reads # {} /\ Evaluated

\* Mutation: a grouped prefill gives its leases up before it evaluates.
GroupFenceLate ==
  /\ form = "grouped" /\ (GroupFull \/ toLease = <<>>) /\ reads # {}
  /\ leased' = [s \in Slots |-> 0]
  /\ reads' = IF toLease = <<>> THEN {} ELSE reads
  /\ IF toLease = <<>>
     THEN form' = "idle" /\ pagingResult' = "served"
     ELSE UNCHANGED <<form, pagingResult>>
  /\ UNCHANGED <<slotIds, slotHolds, touches, clock, failedLayer, toLease, calls>>

\* A grouped prefill, after every group of leases and at the end.
GroupFence ==
  form = "grouped" /\ (GroupFull \/ toLease = <<>>) /\ reads # {} /\ Evaluated

\* One packed row: fixed_ids looks every leased expert up again.
PackedFence ==
  /\ form = "packed" /\ toLease = <<>> /\ reads # {}
  /\ \A r \in reads : r.expert \in Range(slotIds)
  /\ Evaluated

\* The GPU reports an error at any of them.
FenceFails ==
  /\ form # "idle" /\ reads # {}
  /\ form = "single" \/ GroupFull \/ toLease = <<>>
  /\ Unwind("fence failed")
  /\ UNCHANGED <<slotIds, slotHolds, touches, clock, failedLayer, calls>>

-----------------------------------------------------------------------------
(* One expert bundle through the cache's loader, with parallel reads.      *)

\* The readers are started in order; each reads the fields of a projection.
StartReaders(fields) ==
  /\ bundle.frame = "none"
  /\ readers' = [p \in 1..Projections |-> "running"]
  /\ bundle' = [frame |-> "loading", each |-> fields, taken |-> 0, arrays |-> <<>>]

ReaderEnds(p, how) ==
  /\ readers[p] = "running"
  /\ readers' = [readers EXCEPT ![p] = how]
  /\ UNCHANGED bundle

\* get() on the first future that has not been taken.
NextReader(p) == p = bundle.taken + 1 /\ readers[p] \in {"done", "failed"}

\* The buffers become arrays; a failed read, or an array that cannot be made
\* of them, ends the load.
TakeReader(p) ==
  /\ bundle.frame = "loading" /\ NextReader(p)
  /\ \/ /\ readers[p] = "done"
        /\ bundle' = [bundle EXCEPT !.taken = @ + 1,
             !.arrays = @ \o [f \in 1..bundle.each |-> (p - 1) * bundle.each + f]]
     \/ bundle' = [bundle EXCEPT !.frame = "unwinding"]
  /\ readers' = [readers EXCEPT ![p] = "taken"]

\* The futures of std::async join in their destructors.
MayLeave == \A p \in 1..Projections : readers[p] # "running"

\* The fence and the allocator's account of the bundle; it may not match.
FinishBundle(ok) ==
  /\ bundle.frame = "loading" /\ bundle.taken = Projections
  /\ bundle' = [bundle EXCEPT !.frame = IF ok THEN "loaded" ELSE "unwound"]
  /\ UNCHANGED readers

LeaveFrame ==
  /\ bundle.frame = "unwinding" /\ MayLeave
  /\ bundle' = [bundle EXCEPT !.frame = "unwound"]
  /\ UNCHANGED readers

-----------------------------------------------------------------------------
\* fixed_layer preloads the hot experts.
PagingInit ==
  /\ slotIds = [s \in Slots |-> IF s < HotSlots THEN s ELSE None]
  /\ slotHolds = slotIds
  /\ touches = [s \in Slots |-> 0] /\ clock = 0
  /\ failedLayer = FALSE
  /\ leased = [s \in Slots |-> 0]
  /\ reads = {}
  /\ form = "idle" /\ toLease = <<>> /\ pagingResult = "none" /\ calls = 0
  /\ readers = [p \in 1..Projections |-> "taken"]
  /\ bundle = [frame |-> "none", each |-> 0, taken |-> 0, arrays |-> <<>>]

SlotNext ==
  /\ \/ \E ids \in UNION {SetToSeqs(S) : S \in kSubset(PageTopK, ExpertNumbers)} :
          BeginCall(ids, 1)
     \/ \E S \in SUBSET ExpertNumbers :
          Cardinality(S) >= PageTopK /\ \E ids \in GroupedIds(S) : BeginCall(ids, 2)
     \/ Hit \/ Miss \/ FillFails \/ RefuseFailed
     \/ RowFence \/ GroupFence \/ PackedFence \/ FenceFails
  /\ UNCHANGED readerVars

ReaderNext ==
  /\ \/ \E fields \in FieldsEach : StartReaders(fields)
     \/ \E p \in 1..Projections :
          \/ \E how \in {"done", "failed"} : ReaderEnds(p, how)
          \/ TakeReader(p)
     \/ \E ok \in BOOLEAN : FinishBundle(ok)
     \/ LeaveFrame
  /\ UNCHANGED slotVars

PagingSpec == PagingInit /\ [][SlotNext \/ ReaderNext]_pagingVars

-----------------------------------------------------------------------------
(* Properties.                                                             *)

\* A projection that is not evaluated yet still finds the expert it was built
\* for in its slot, whatever was filled since.
ReadsFindTheirExpert ==
  \A r \in reads : slotHolds[r.slot] = r.expert

\* A layer that is in use has in every published slot the expert that the
\* slot is published for: a read that failed half way is never served.
SlotsTruthful ==
  ~failedLayer => \A s \in Slots : slotIds[s] # None => slotHolds[s] = slotIds[s]

\* The grouping and the check before a batch keep enough slots free: no call
\* runs out of unleased cold slots.
PoolSuffices == pagingResult # "all leased"

\* A loaded bundle has its fields in the order in which the projections read
\* them, although the readers end in any order, and no reader is left running
\* when the frame with its requests and buffers is gone.
BundleInOrder ==
  /\ bundle.arrays = [i \in 1..Len(bundle.arrays) |-> i]
  /\ bundle.frame \in {"loaded", "unwound"} =>
       \A p \in 1..Projections : readers[p] # "running"
  /\ bundle.frame = "loaded" => Len(bundle.arrays) = Projections * bundle.each

\* The GPU never computes with an expert that it was not given: through lazy
\* reads, failing reads, full pools and parallel readers.
PagesTruthful == ReadsFindTheirExpert /\ SlotsTruthful /\ PoolSuffices /\ BundleInOrder

=============================================================================
