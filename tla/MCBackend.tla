------------------------------ MODULE MCBackend ------------------------------
(***************************************************************************)
(* Model checking of the way from the files to the GPU: the start of the   *)
(* process, the manifest and its tensors, the sessions of the persistent   *)
(* Metal backend, its dispatches and its kernels.  A behaviour runs one of *)
(* them and leaves the others in an initial state.                         *)
(***************************************************************************)
EXTENDS MetalSession, TrunkGraph, MetalKernels, Manifest, Startup

VARIABLE part

allVars == <<part, sessionVars, trunkVars, kernelVars, manifestVars, startVars>>

\* Prompts of one token, with and without quantized rows, off the start, and
\* near the limits of the slab, the context and the positions.
MCPrompts ==
  {[rows |-> 0, cold |-> 0, base |-> 0], [rows |-> 3, cold |-> 0, base |-> 1],
   [rows |-> 3, cold |-> 1, base |-> 0], [rows |-> 2, cold |-> 2, base |-> 7],
   [rows |-> 5, cold |-> 4, base |-> 0]}

\* Many groups of four rows, and one of eight.
MCSelections == {<<4, 5>>, <<8, 1>>}

\* The user's environment: nothing, everything, and what decides a default.
MCUserSettings ==
  {{}, Settings, {"MTP_MODEL_DIR"}, {"RESIDENT_EXPERT_RANGE", "COMPACT_QMETA"}}

\* A config.json that loads, and one for each way to fail a check.
Plain ==
  [indexer_heads |-> 4, indexer_kv_heads |-> 1, ratio |-> 4, budget |-> 8, pair |-> 0,
   pair_bits |-> 4, pair_group |-> 2, heads_per_ngram |-> 8, ple_dimension |-> 64,
   hidden |-> 64, layers |-> 2, layer_types |-> <<"linear", "full">>, ple_ids |-> {2},
   experts |-> 3, topk |-> 2, vq |-> Empty, shared_only |-> <<>>, streaming |-> Empty,
   masks |-> <<>>, bits |-> 4, overrides |-> Empty]

Proj(wrapped, field) == NameOf(wrapped, "proj", field)

MCConfigs ==
  {Plain}
  \cup {[Plain EXCEPT !.overrides = [m \in {[wrapped |-> w, module |-> "proj"]} |-> 8]] :
          w \in BOOLEAN}
  \cup {[Plain EXCEPT !.ratio = r] : r \in {0, 3}}
  \cup {[Plain EXCEPT !.pair = 2, !.pair_group = g, !.heads_per_ngram = h] :
          g \in {0, 3, 4}, h \in {0, 8}}
  \cup {[Plain EXCEPT !.ple_dimension = 8],
        [Plain EXCEPT !.hidden = 32, !.ple_dimension = 32],
        [Plain EXCEPT !.layer_types = <<"full">>], [Plain EXCEPT !.ple_ids = {3}]}
  \cup {[Plain EXCEPT !.vq = [experts |-> 3, input |-> 8, dim |-> d, group |-> g]] :
          d \in {0, 2, 3}, g \in {0, 4}}
  \cup {[Plain EXCEPT !.shared_only = s] : s \in {<<0, 1>>, <<1, 1>>}}
  \cup {[Plain EXCEPT !.streaming = [layers |-> s, bytes |-> 1]] : s \in {<<>>, <<1, 0>>}}
  \cup {[Plain EXCEPT !.masks = <<[layer |-> 1, experts |-> e]>>] :
          e \in {<<2, 0>>, <<1>>, <<1, 1>>, <<0, 1, 2>>}}
  \cup {[Plain EXCEPT !.masks = <<[layer |-> 1, experts |-> <<2, 0>>],
                                  [layer |-> l, experts |-> <<1, 0>>]>>] : l \in 0..2}

\* A checkpoint with or without the wrapper, and sidecars that keep to their
\* own names or do not.
MCIndexFiles ==
  {[n \in {Proj(w, "weight"), Proj(w, "scales")} |-> "shard"] : w \in BOOLEAN}
  \cup {[n \in {Proj(TRUE, "weight"), NameOf(TRUE, "mtp_lm_head", "weight")} |-> "shard"]}
MCQmetaFiles == {{NameOf(FALSE, "codes", "weight")}, {Proj(TRUE, "scales")}}
MCRequired == {NameOf(FALSE, "fc", "weight")}
Fc == MCRequired \cup {NameOf(FALSE, "fc", "scales")}
MCMtpFiles ==
  {Fc, {NameOf(FALSE, "fc", "scales")}, Fc \cup {Proj(FALSE, "scales")},
   Fc \cup {Proj(TRUE, "weight")}, Fc \cup {Proj(TRUE, "scales")}}
MCRequiredHead == {NameOf(FALSE, "mtp_lm_head", "weight")}
MCHeadFiles == {{}, MCRequiredHead, MCRequiredHead \cup MCRequired}

\* Parts that do not run start in one fixed state.
MCInit ==
  /\ part \in {"startup", "manifest", "session", "trunk", "kernels"}
  /\ ManifestInit
  /\ IF part = "session" THEN SessionInit
     ELSE sharing = FALSE /\ group = 1 /\ SessionInit
  /\ IF part = "trunk" THEN TrunkInit
     ELSE /\ model = [rows |-> 640, pruned |-> FALSE, vq |-> TRUE]
          /\ blocks = 0 /\ TrunkInit
  /\ IF part = "kernels" THEN KernelInit
     ELSE job = [kind |-> "code", group |-> 0, local |-> 0] /\ KernelInit
  /\ IF part = "startup" THEN StartInit
     ELSE program = "safe" /\ given = {} /\ StartInit

StartupStep ==
  /\ part = "startup" /\ StartNext
  /\ UNCHANGED <<manifestVars, sessionVars, trunkVars, kernelVars>>
ManifestStep ==
  /\ part = "manifest" /\ ManifestNext
  /\ UNCHANGED <<startVars, sessionVars, trunkVars, kernelVars>>
SessionStep ==
  /\ part = "session" /\ SessionNext
  /\ UNCHANGED <<startVars, manifestVars, trunkVars, kernelVars>>
TrunkStep ==
  /\ part = "trunk" /\ TrunkNext
  /\ UNCHANGED <<startVars, manifestVars, sessionVars, kernelVars>>
KernelStep ==
  /\ part = "kernels" /\ KernelNext
  /\ UNCHANGED <<startVars, manifestVars, sessionVars, trunkVars>>

MCNext ==
  /\ StartupStep \/ ManifestStep \/ SessionStep \/ TrunkStep \/ KernelStep
  /\ UNCHANGED part

MCSpec == MCInit /\ [][MCNext]_allVars

=============================================================================
