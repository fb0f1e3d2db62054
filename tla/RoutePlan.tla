------------------------------ MODULE RoutePlan ------------------------------
(***************************************************************************)
(* Routing in SparseMoe (src/sparse_moe.cpp): the choice of the experts of *)
(* a row by the two routers, and the four plans that reorder the routes of *)
(* a batch by expert, run the expert projections and put the results back. *)
(*                                                                         *)
(* Route r (counted from 0) is slot r % topk of row r \div topk.  What an  *)
(* expert computes for a row is the pair itself, so a result that belongs  *)
(* to another expert, another row or another slot is visible.              *)
(***************************************************************************)
EXTENDS Naturals, Sequences, FiniteSets, FiniteSetsExt, SequencesExt

CONSTANTS
  ExpertCount,
  Scores,       \* router logits
  Shapes,       \* rows and route counts of the batches
  WideFrom,     \* rows of a wide batch (768)
  WideTile,     \* routes of a primary tile of a wide batch (24)
  WideTail,     \* routes of a tail tile of a wide batch (16)
  NarrowTile,   \* routes of a primary tile of another batch (16)
  NarrowTail,   \* routes of a tail tile of another batch (8)
  TieBound      \* bound: routes that an argsort may leave in any order

ASSUME RoutePlanAssumption ==
  /\ ExpertCount \in Nat \ {0}
  /\ Scores \subseteq Nat \ {0}
  /\ 0 < WideTail /\ WideTail < WideTile
  /\ 0 < NarrowTail /\ NarrowTail < NarrowTile
  /\ \A s \in Shapes : s.rows > 0 /\ s.topk \in 1..ExpertCount

VARIABLES
  batch,     \* rows and topk
  score,     \* logits of one row, 0 for a masked expert
  picked,    \* the experts of that row as a router chose them, in slot order
  router,    \* the router that chose
  routes,    \* the expert of every route of the batch
  order,     \* the routes sorted by expert
  begin,     \* sorted routes that have been planned
  primary,   \* RouteGroupPlan: tile size, order and tiles
  tail,
  inverse,   \* where each route's result is
  outputs,   \* results in planned order
  restored,  \* the result given to each route
  planStage

planVars == <<batch, score, picked, router, routes, order, begin, primary, tail,
              inverse, outputs, restored, planStage>>

ExpertIds == 0..(ExpertCount - 1)
Routes == 0..(batch.rows * batch.topk - 1)
RowOf(r) == r \div batch.topk

-----------------------------------------------------------------------------
(* The routers.                                                            *)

Before(a, b) == score[a] > score[b] \/ (score[a] = score[b] /\ a < b)

\* route_decode_batch: descending probability, the lower index first.
HostChoice ==
  CHOOSE s \in [1..batch.topk -> ExpertIds] :
    /\ \A i, j \in 1..batch.topk : i < j => Before(s[i], s[j])
    /\ \A e \in ExpertIds \ Range(s) : \A i \in 1..batch.topk : Before(s[i], e)

\* argpartition: any experts that no other expert exceeds.
BestSets ==
  {S \in kSubset(batch.topk, ExpertIds) :
     \A e \in S, f \in ExpertIds \ S : score[e] >= score[f]}

RouteHost ==
  /\ planStage = "scored"
  /\ picked' = HostChoice
  /\ router' = "host"
  /\ planStage' = "picked"
  /\ UNCHANGED <<batch, score, routes, order, begin, primary, tail, inverse,
                 outputs, restored>>

\* The experts of one of the best sets, sorted by weight where the reduction
\* follows the slots (single rows), in any order elsewhere.
RouteDevice(sorted) ==
  /\ planStage = "scored"
  /\ \E S \in BestSets : \E s \in SetToSeqs(S) :
       /\ sorted => \A i \in 1..(Len(s) - 1) : score[s[i]] >= score[s[i + 1]]
       /\ picked' = s
  /\ router' = IF sorted THEN "device sorted" ELSE "device"
  /\ planStage' = "picked"
  /\ UNCHANGED <<batch, score, routes, order, begin, primary, tail, inverse,
                 outputs, restored>>

-----------------------------------------------------------------------------
(* The segmented plan of a VQ layer.                                       *)

Group(tile) == [tile |-> tile, order |-> <<>>, tiles |-> <<>>]

Wide == batch.rows >= WideFrom
TileRows == IF Wide THEN WideTile ELSE NarrowTile
TailRows == IF Wide THEN WideTail ELSE NarrowTail

\* The routes of an expert in the order of their rows and slots.
StableOrder == SortSeq([i \in 1..Cardinality(Routes) |-> i - 1],
                       LAMBDA a, b : routes[a] < routes[b]
                                     \/ (routes[a] = routes[b] /\ a < b))

\* An argsort: any order that is sorted by expert; above the bound the stable
\* one.
SortedOrders ==
  IF Cardinality(Routes) > TieBound THEN {StableOrder}
  ELSE {s \in SetToSeqs(Routes) :
          \A i \in 1..(Len(s) - 1) : routes[s[i]] <= routes[s[i + 1]]}

StartSegmented ==
  /\ planStage = "routed"
  /\ order' = StableOrder
  /\ primary' = Group(TileRows) /\ tail' = Group(TailRows)
  /\ begin' = 0
  /\ planStage' = "segmenting"
  /\ UNCHANGED <<batch, score, picked, router, routes, inverse, outputs, restored>>

\* Mutation: the tiles of a group start at the sorted routes, not its own.
Append_routesSorted(plan, expert, from, count) ==
  IF count = 0 THEN plan
  ELSE [plan EXCEPT
          !.order = @ \o SubSeq(order, from + 1, from + count),
          !.tiles = @ \o [i \in 1..((count + plan.tile - 1) \div plan.tile) |->
            LET offset == (i - 1) * plan.tile
            IN  [expert |-> expert, begin |-> from + offset,
                 count |-> IF count - offset < plan.tile THEN count - offset
                           ELSE plan.tile]]]

\* append_routes: the routes, and one tile for every tile_rows of them.
Append_routes(plan, expert, from, count) ==
  IF count = 0 THEN plan
  ELSE [plan EXCEPT
          !.order = @ \o SubSeq(order, from + 1, from + count),
          !.tiles = @ \o [i \in 1..((count + plan.tile - 1) \div plan.tile) |->
            LET offset == (i - 1) * plan.tile
            IN  [expert |-> expert, begin |-> Len(plan.order) + offset,
                 count |-> IF count - offset < plan.tile THEN count - offset
                           ELSE plan.tile]]]

\* The routes of the next expert: full tiles to the primary group, and the
\* rest to the tail if it is short enough for a tail tile.
SegmentExpert ==
  /\ planStage = "segmenting" /\ begin < Len(order)
  /\ LET expert    == routes[order[begin + 1]]
         count     == Cardinality({i \in (begin + 1)..Len(order) :
                                     routes[order[i]] = expert})
         full      == (count \div TileRows) * TileRows
         remainder == count - full
     IN  /\ primary' = Append_routes(primary, expert, begin,
                                     IF remainder > TailRows THEN count ELSE full)
         /\ tail' = IF remainder <= TailRows
                    THEN Append_routes(tail, expert, begin + full, remainder)
                    ELSE tail
         /\ begin' = begin + count
  /\ UNCHANGED <<batch, score, picked, router, routes, order, inverse, outputs,
                 restored, planStage>>

\* An empty primary group takes the tail's place.
SwapEmpty ==
  IF primary.order = <<>>
  THEN primary' = tail /\ tail' = Group(TailRows)
  ELSE UNCHANGED <<primary, tail>>

\* Positions of a group's results in the combined order.
Placed(plan, from) == [i \in 1..Len(plan.order) |-> from + i - 1]

\* finalize_plan.
FinishSegmented ==
  /\ planStage = "segmenting" /\ begin = Len(order)
  /\ SwapEmpty
  /\ LET places == Placed(primary', 0) \o Placed(tail', Len(primary'.order))
         all    == primary'.order \o tail'.order
     IN  inverse' = [r \in Routes |->
                       LET at == {i \in 1..Len(all) : all[i] = r}
                       IN  IF at = {} THEN 0 ELSE places[CHOOSE i \in at : TRUE]]
  /\ planStage' = "dispatching"
  /\ UNCHANGED <<batch, score, picked, router, routes, order, begin, outputs,
                 restored>>

\* A segmented kernel: every tile computes its positions with its expert; a
\* position that no tile covers is never written, nor is one beyond the tile
\* size that the kernel was built for.
Segments(tiles, rtile, source) ==
  [p \in 1..Len(source) |->
     LET covering == {i \in 1..Len(tiles) :
                        /\ tiles[i].begin < p
                        /\ p <= tiles[i].begin + Min({tiles[i].count, rtile})}
     IN  IF covering = {} THEN <<ExpertCount, ExpertCount>>
         ELSE <<tiles[CHOOSE i \in covering : TRUE].expert, source[p]>>]

Shifted(tiles, n) == [i \in 1..Len(tiles) |-> [tiles[i] EXCEPT !.begin = @ + n]]

\* The gate and up projections of each group from its source rows, and the
\* down projection of both with the combined tiles.
DispatchSegments ==
  /\ planStage = "dispatching"
  /\ LET rowsOf(plan) == [i \in 1..Len(plan.order) |-> RowOf(plan.order[i])]
         hidden == Segments(primary.tiles, primary.tile, rowsOf(primary))
                   \o Segments(tail.tiles, tail.tile, rowsOf(tail))
         down == Segments(primary.tiles \o Shifted(tail.tiles, Len(primary.order)),
                          TileRows, hidden)
     IN  outputs' = down
  /\ planStage' = "reducing"
  /\ UNCHANGED <<batch, score, picked, router, routes, order, begin, primary,
                 tail, inverse, restored>>

-----------------------------------------------------------------------------
(* The plans of the other layers.                                          *)

\* Both projections of one route.
Through(expert, row) == <<expert, <<expert, row>>>>

InverseOf(s) == [r \in Routes |-> (CHOOSE i \in 1..Len(s) : s[i] = r) - 1]

\* Grouped prefill: argsort gives any sorted order, and its inverse is
\* computed from it.
PlanGrouped ==
  /\ planStage = "routed"
  /\ \E s \in SortedOrders :
       /\ order' = s
       /\ outputs' = [i \in 1..Len(s) |-> Through(routes[s[i]], RowOf(s[i]))]
       /\ inverse' = InverseOf(s)
  /\ planStage' = "reducing"
  /\ UNCHANGED <<batch, score, picked, router, routes, begin, primary, tail,
                 restored>>

\* Paged grouped prefill: the routes of each expert in row order, expert by
\* expert; offset counts the results.
PlanPagedGrouped ==
  /\ planStage = "routed"
  /\ LET slots(e) == SortSeq(SetToSeq({r \in Routes : routes[r] = e}), <)
         all == FoldLeft(LAMBDA s, e : s \o slots(e), <<>>,
                         [i \in 1..ExpertCount |-> i - 1])
     IN  /\ outputs' = [i \in 1..Len(all) |-> Through(routes[all[i]], RowOf(all[i]))]
         /\ inverse' = InverseOf(all)
  /\ planStage' = "reducing"
  /\ UNCHANGED <<batch, score, picked, router, routes, order, begin, primary,
                 tail, restored>>

\* Paged VQ group: the selected experts are packed in ascending order and the
\* routes are renamed to their local numbers.
PlanPacked ==
  /\ planStage = "routed"
  /\ LET unique == SortSeq(SetToSeq({routes[r] : r \in Routes}), <)
         local(e) == (CHOOSE i \in 1..Len(unique) : unique[i] = e) - 1
     IN  outputs' = [i \in 1..Cardinality(Routes) |->
                       Through(unique[local(routes[i - 1]) + 1], RowOf(i - 1))]
  /\ inverse' = [r \in Routes |-> r]
  /\ planStage' = "reducing"
  /\ UNCHANGED <<batch, score, picked, router, routes, order, begin, primary,
                 tail, restored>>

\* The reduction reads the result of every route of a row.
ReduceRoutes ==
  /\ planStage = "reducing"
  /\ restored' = [r \in Routes |-> outputs[inverse[r] + 1]]
  /\ planStage' = "reduced"
  /\ UNCHANGED <<batch, score, picked, router, routes, order, begin, primary,
                 tail, inverse, outputs>>

-----------------------------------------------------------------------------
\* A batch is planned, or one row is scored: masked experts score nothing.
PlanInit ==
  /\ batch \in Shapes
  /\ order = <<>> /\ begin = 0 /\ picked = <<>> /\ router = "none"
  /\ primary = Group(TileRows) /\ tail = Group(TailRows)
  /\ inverse = <<>> /\ outputs = <<>> /\ restored = <<>>
  /\ \/ /\ planStage = "routed"
        /\ score = <<>>
        /\ routes \in {f \in [Routes -> ExpertIds] :
             \A r, q \in Routes : r < q /\ RowOf(r) = RowOf(q) => f[r] # f[q]}
     \/ /\ planStage = "scored" /\ batch.rows = 1
        /\ score \in [ExpertIds -> Scores \cup {0}]
        /\ routes = <<>>

PlanNext ==
  \/ RouteHost \/ \E sorted \in BOOLEAN : RouteDevice(sorted)
  \/ StartSegmented \/ SegmentExpert \/ FinishSegmented \/ DispatchSegments
  \/ PlanGrouped \/ PlanPagedGrouped \/ PlanPacked \/ ReduceRoutes

-----------------------------------------------------------------------------
(* Properties.                                                             *)

\* Whichever plan reorders the routes, every route of every row gets the
\* result of its own expert, in both projections, for its own row: no tile is
\* missing, overlaps another, exceeds the kernel's tile size or is read from
\* another group, also when the primary group is empty.
RoutesRestored ==
  planStage = "reduced" =>
    \A r \in Routes : restored[r] = Through(routes[r], RowOf(r))

\* Both groups together hold every planned route once, in tiles that the two
\* dispatches are built for, and a group that is dispatched is not empty.
SegmentsCover ==
  /\ planStage = "segmenting" =>
       Range(primary.order) \cup Range(tail.order) = {order[i] : i \in 1..begin}
  /\ planStage = "dispatching" =>
       /\ primary.order # <<>>
       /\ Len(primary.order) + Len(tail.order) = Cardinality(Routes)
       /\ \A g \in {primary, tail} : \A i \in 1..Len(g.tiles) :
            g.tiles[i].count \in 1..g.tile

\* Both routers choose the same experts unless scores tie where the choice is
\* cut, an expert that is masked is never chosen while enough are retained,
\* and wherever the device sorts, the slots are in the host's order of scores.
RoutersAgree ==
  planStage = "picked" =>
    /\ (\A e \in Range(HostChoice), f \in ExpertIds \ Range(HostChoice) :
          score[e] # score[f]) => Range(picked) = Range(HostChoice)
    /\ Cardinality({e \in ExpertIds : score[e] > 0}) >= batch.topk =>
         \A e \in Range(picked) : score[e] > 0
    /\ router # "device" =>
         \A i \in 1..batch.topk : score[picked[i]] = score[HostChoice[i]]

\* From the router's choice to the sum of a row, each route keeps its expert,
\* its row and its slot.
PlansSound == RoutesRestored /\ SegmentsCover /\ RoutersAgree

=============================================================================
