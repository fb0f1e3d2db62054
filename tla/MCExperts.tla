------------------------------ MODULE MCExperts ------------------------------
(***************************************************************************)
(* Model checking of the four parts that serve routed experts: the expert  *)
(* cache, the paged experts, the dispatch of a layer and its route plans.  *)
(* A behaviour runs one of them and leaves the others in an initial state. *)
(***************************************************************************)
EXTENDS ExpertCache, ExpertPaging, MoeDispatch, RoutePlan, TLC

CONSTANTS a, b, c

VARIABLE part

\* Two small values and one as large as both.
MCBytes == a :> 1 @@ b :> 1 @@ c :> 2

Small == Permutations({a, b})

\* Batches that fill tiles, leave short and long remainders, or fill none.
MCShapes ==
  {[rows |-> 7, topk |-> 1], [rows |-> 5, topk |-> 1], [rows |-> 3, topk |-> 2],
   [rows |-> 2, topk |-> 2], [rows |-> 1, topk |-> 2]}

NoPaging == [batch |-> FALSE, grouped |-> FALSE, packed |-> FALSE, fixed |-> FALSE]

\* Every kind of layer under every variable that it reads.
MCLayers ==
  [kind : {"affine", "compact", "dense"}, bits : {4}, group : {64},
   segments : {FALSE}, qmeta : BOOLEAN, fused : BOOLEAN, exact6 : {FALSE},
   exact8 : {TRUE}, device : BOOLEAN, grouped : BOOLEAN, branch : {FALSE},
   wide : {FALSE}, topk : {5, 8, 10}, paging : {NoPaging}]
  \cup
  [kind : {"affine"}, bits : {6, 8}, group : {32, 64}, segments : {FALSE},
   qmeta : {FALSE}, fused : BOOLEAN, exact6 : BOOLEAN, exact8 : BOOLEAN,
   device : BOOLEAN, grouped : BOOLEAN, branch : {FALSE}, wide : {FALSE},
   topk : {10}, paging : {NoPaging}]
  \cup
  [kind : {"vq", "pagedvq"}, bits : {4}, group : {64}, segments : BOOLEAN,
   qmeta : BOOLEAN, fused : {TRUE}, exact6 : {FALSE}, exact8 : {TRUE},
   device : {TRUE}, grouped : {TRUE}, branch : BOOLEAN, wide : BOOLEAN,
   topk : {8, 10}, paging : {NoPaging}]
  \cup
  [kind : {"paged"}, bits : {4}, group : {64}, segments : {FALSE},
   qmeta : BOOLEAN, fused : {TRUE}, exact6 : {FALSE}, exact8 : {TRUE},
   device : {TRUE}, grouped : {TRUE}, branch : {TRUE}, wide : {TRUE},
   topk : {10}, paging : [batch : BOOLEAN, grouped : BOOLEAN,
                          packed : BOOLEAN, fixed : BOOLEAN]]

allVars == <<part, vars, pagingVars, moeVars, planVars>>

\* Parts that do not run start in one fixed state.
MCInit ==
  /\ part \in {"cache", "slots", "readers", "dispatch", "plan"}
  /\ Init /\ PagingInit
  /\ part # "cache" => budget = CHOOSE n \in Budgets : TRUE
  /\ wanted = a \/ part = "cache"
  /\ IF part = "dispatch" THEN MoeInit
     ELSE /\ layer = CHOOSE l \in Layers : TRUE
          /\ asked = [f |-> "decode", rows |-> 1] /\ running = asked
          /\ left = 0 /\ entered = {} /\ computed = 0
          /\ kernel = [name |-> "none", rows |-> 0] /\ moeResult = "opening"
  /\ IF part = "plan" THEN PlanInit
     ELSE /\ batch = [rows |-> 1, topk |-> 1]
          /\ score = <<>> /\ routes = <<>> /\ order = <<>> /\ begin = 0
          /\ picked = <<>> /\ router = "none"
          /\ primary = Group(TileRows) /\ tail = Group(TailRows)
          /\ inverse = <<>> /\ outputs = <<>> /\ restored = <<>>
          /\ planStage = "idle"

CacheStep    == part = "cache" /\ Next /\ UNCHANGED <<pagingVars, moeVars, planVars>>
SlotStep     == part = "slots" /\ SlotNext /\ UNCHANGED <<vars, moeVars, planVars>>
ReaderStep   == part = "readers" /\ ReaderNext /\ UNCHANGED <<vars, moeVars, planVars>>
DispatchStep == part = "dispatch" /\ MoeNext /\ UNCHANGED <<vars, pagingVars, planVars>>
PlanStep     == part = "plan" /\ PlanNext /\ UNCHANGED <<vars, pagingVars, moeVars>>

MCNext ==
  (CacheStep \/ SlotStep \/ ReaderStep \/ DispatchStep \/ PlanStep) /\ UNCHANGED part

MCSpec == MCInit /\ [][MCNext]_allVars

=============================================================================
