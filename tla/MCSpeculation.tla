--------------------------- MODULE MCSpeculation ---------------------------
(***************************************************************************)
(* Model checking of speculative decoding: the states of the target and    *)
(* the draft head, and the three parts that decide what is drafted and     *)
(* when generation stops thinking.  A behaviour runs one of the four and   *)
(* leaves the others in an initial state.                                  *)
(***************************************************************************)
EXTENDS DecodeState, DraftPolicy, DraftCaches, ThinkingBudget

VARIABLE part

allVars == <<part, vars, policyVars, cacheVars, thinkingVars>>

\* Three layers, and two texts that part after their fourth token.
MCKinds ==
  <<[full |-> FALSE, ple |-> TRUE], [full |-> TRUE, ple |-> FALSE],
    [full |-> FALSE, ple |-> FALSE]>>

MCTexts == {<<1, 2, 0, 3, 4, 5, 6, 7>>, <<1, 2, 0, 3, 0, 9, 10, 11>>}

PlainOptions ==
  [window |-> 0, decode_budget |-> Budget, q8 |-> FALSE, batch_q8 |-> FALSE,
   batch_sdpa |-> FALSE, batch_kv |-> FALSE, sdpa_prefill |-> TRUE,
   packed_prefill |-> FALSE, compact |-> FALSE, metal_prefill |-> FALSE,
   pairs |-> FALSE, batch_commit |-> FALSE]

MCOptions ==
  {PlainOptions,
   [PlainOptions EXCEPT !.batch_sdpa = TRUE, !.compact = TRUE, !.batch_commit = TRUE,
                 !.metal_prefill = TRUE, !.window = 1, !.pairs = TRUE],
   [PlainOptions EXCEPT !.q8 = TRUE, !.batch_q8 = TRUE, !.compact = TRUE, !.window = 1,
                 !.batch_commit = TRUE, !.packed_prefill = TRUE, !.decode_budget = Ratio],
   [PlainOptions EXCEPT !.q8 = TRUE, !.batch_kv = TRUE, !.sdpa_prefill = FALSE,
                 !.decode_budget = Ratio]}

\* Every option that the policies read.
MCSettings ==
  [maximum : 2..4, adaptive : BOOLEAN, short : BOOLEAN, early : {TRUE},
   demotion : {TRUE}, mode : {"adaptive"}, economic : BOOLEAN, copy : {0}]
  \cup
  [maximum : {3}, adaptive : BOOLEAN, short : {TRUE}, early : BOOLEAN,
   demotion : BOOLEAN, mode : {"adaptive", "forced", "disabled"}, economic : {TRUE},
   copy : {0}]
  \cup
  [maximum : {2}, adaptive : {FALSE}, short : {TRUE}, early : {TRUE},
   demotion : {TRUE}, mode : {"disabled"}, economic : {TRUE}, copy : {4}]

\* A hash with few values, so that n-grams of one and of different lengths
\* collide, but not all of them.
MCKeyOf(tokens) ==
  <<Len(tokens) % 2, FoldSeq(LAMBDA t, n : t + 2 * n, 0, tokens) % 5>>

\* Parts that do not run start in one fixed state.
MCInit ==
  /\ part \in {"states", "policy", "caches", "thinking"}
  /\ Init /\ PolicyInit /\ CacheInit /\ ThinkingInit
  /\ part # "states" => /\ opt = CHOOSE o \in Options : TRUE
                        /\ text = CHOOSE x \in Texts : TRUE
  /\ part # "policy" => setting = CHOOSE s \in Settings : TRUE
  /\ part # "thinking" =>
       /\ limit = CHOOSE n \in Limits : TRUE
       /\ thinkingBudget = CHOOSE n \in BudgetSizes : TRUE

StateStep ==
  part = "states" /\ Next /\ UNCHANGED <<policyVars, cacheVars, thinkingVars>>
PolicyStep ==
  part = "policy" /\ PolicyNext /\ UNCHANGED <<vars, cacheVars, thinkingVars>>
CacheStep ==
  part = "caches" /\ CacheNext /\ UNCHANGED <<vars, policyVars, thinkingVars>>
ThinkingStep ==
  part = "thinking" /\ ThinkingNext /\ UNCHANGED <<vars, policyVars, cacheVars>>

MCNext == (StateStep \/ PolicyStep \/ CacheStep \/ ThinkingStep) /\ UNCHANGED part

MCSpec == MCInit /\ [][MCNext]_allVars

=============================================================================
