------------------------------ MODULE Manifest ------------------------------
(***************************************************************************)
(* ModelManifest::load and TensorStore (model_manifest.cpp): the checks of *)
(* config.json, the weight index, and the sidecars that are found beside   *)
(* the shards and add tensors and quantization overrides of their own.     *)
(* Then tensors are looked up in a store that opens shards lazily, under a *)
(* lock of its own: the class allows several threads, although the program *)
(* looks tensors up on one (NgramTable, and the tools).                    *)
(*                                                                         *)
(* The files are read once each, in the order of the code; what they hold  *)
(* is chosen when they are read.  A tensor name is a module with or        *)
(* without the wrapper "language_model." and a field.                      *)
(***************************************************************************)
EXTENDS Integers, Sequences, FiniteSets

CONSTANTS
  Configs,       \* contents of config.json
  IndexFiles,    \* contents of the index: [tensor name |-> shard]
  QmetaFiles,    \* sets of tensors of the compact-metadata sidecars
  MtpFiles,      \* sets of tensors of the MTP sidecar
  HeadFiles,     \* sets of tensors of the Q4 language head
  Required,      \* tensors that the MTP sidecar must hold
  RequiredHead,  \* tensors that the language head must hold, in their shapes
  FileBytes,     \* sizes of a sidecar
  MostBytes,     \* 2^64 - 1
  StoreThreads,  \* threads that look tensors up
  MaxOpened      \* bound: files opened

\* "nobody" stands for a mutex that no thread holds.
ASSUME StoreAssumption == "nobody" \notin StoreThreads

\* What the JSON reader accepts as a size is an unsigned number.
ASSUME ConfigAssumption ==
  \A c \in Configs :
    /\ {c.layers, c.experts, c.topk} \subseteq Nat
    /\ c.masks \in Seq([layer : Nat, experts : Seq(Nat)])

VARIABLES
  config,        \* config.json as read
  retained,      \* retained_experts_by_layer
  indexed,       \* the index as read
  weight_map,    \* tensor name |-> file
  overrides,     \* quantization_overrides_: module |-> width
  sidecarNames,  \* tensors that sidecars have added
  declared,      \* declared_weight_bytes_
  loadStage,     \* the file that is read next, or how load has ended
  store,         \* file name |-> the mapping that the store holds
  opened,        \* mappings made
  locked,        \* the thread that holds mutex_
  lookups        \* per thread: what it looks up and where it is

manifestVars == <<config, retained, indexed, weight_map, overrides, sidecarNames,
                  declared, loadStage, store, opened, locked, lookups>>
loaded == <<config, retained, indexed, weight_map, overrides, sidecarNames, declared>>

Empty == <<>>
NameOf(wrapped, module, field) == [wrapped |-> wrapped, module |-> module, field |-> field]
Q6 == 6
Q4 == 4

\* Two maps; entries of the first stay (emplace) or are replaced.
Joined(f, g) == [x \in DOMAIN f \cup DOMAIN g |-> IF x \in DOMAIN f THEN f[x] ELSE g[x]]

-----------------------------------------------------------------------------
(* config.json.  A check accepts, refuses, or divides by zero.             *)

Divides(d, n) == IF d = 0 THEN "trap" ELSE IF n % d = 0 THEN "ok" ELSE "refused"
Holds(p) == IF p THEN "ok" ELSE "refused"

QsaGeometry(c) ==
  IF c.indexer_heads = 0 \/ c.indexer_kv_heads # 1 \/ c.ratio = 0 \/ c.budget = 0
  THEN "refused" ELSE Divides(c.ratio, c.budget)

\* The paired n-gram table of a Niwaki checkpoint, before the geometry of the
\* n-grams is checked.
NiwakiPair(c) ==
  IF c.pair = 0 THEN "ok"
  ELSE IF c.heads_per_ngram = 0 THEN "trap"
  ELSE LET physical == (c.pair * c.ple_dimension) \div (c.heads_per_ngram * 2) IN
       IF c.pair < 2 \/ c.pair_bits \notin 2..8 \/ c.pair_group = 0 THEN "refused"
       ELSE IF Divides(c.pair_group, physical) # "ok" THEN Divides(c.pair_group, physical)
       ELSE Divides(32, physical * c.pair_bits)

PleGeometry(c) == Holds(c.heads_per_ngram = 8 /\ c.ple_dimension = c.hidden)

\* Every layer has a type, and the one-based n-gram layers exist.
LayerTypes(c) ==
  Holds(Len(c.layer_types) = c.layers /\ \A i \in c.ple_ids : i \in 1..c.layers)

QuantizationOverrides(c) == Holds(\A m \in DOMAIN c.overrides : c.overrides[m] \in 2..8)

\* vq_modules.
VqModules(c) ==
  IF c.vq = Empty THEN "ok"
  ELSE IF c.vq.experts # c.experts \/ c.vq.input = 0 \/ c.vq.dim = 0 \/ c.vq.group = 0
  THEN "refused"
  ELSE IF Divides(c.vq.dim, c.vq.input) # "ok" THEN Divides(c.vq.dim, c.vq.input)
  ELSE Divides(c.vq.group, c.vq.input)

\* Indices of layers or experts: in range and not repeated.
Indices(s, n) ==
  /\ \A i \in DOMAIN s : s[i] < n
  /\ Cardinality({s[i] : i \in DOMAIN s}) = Len(s)

SharedOnlyLayers(c) == Holds(Indices(c.shared_only, c.layers))

\* qwen38_streaming: layers and a budget, or neither.
Streaming(c) ==
  Holds(c.streaming # Empty =>
          /\ Indices(c.streaming.layers, c.layers)
          /\ c.streaming.bytes > 0 /\ c.streaming.layers # <<>>)

\* The experts retained in the layers, entry by entry of the object.  The
\* keys are texts: 1 and 01 are two of them and name one layer.
Sorted(s) ==
  LET at(i) == CHOOSE k \in DOMAIN s :
        LET below == {j \in DOMAIN s : s[j] < s[k] \/ (s[j] = s[k] /\ j < k)}
        IN  Cardinality(below) = i - 1
  IN  [i \in DOMAIN s |-> s[at(i)]]

MaskRefuses(c, entry, kept) ==
  \/ entry.layer >= c.layers
  \/ ~Indices(entry.experts, c.experts)
  \/ Len(kept) < c.topk \/ Len(kept) = c.experts

Kept(before, entry) == Sorted(before \o entry.experts)

ExpertMask(c) ==
  LET after[i \in 0..Len(c.masks)] ==
        IF i = 0 THEN [l \in 0..(c.layers - 1) |-> <<>>]
        ELSE IF after[i - 1] = Empty THEN Empty
        ELSE LET entry == c.masks[i] IN
             IF MaskRefuses(c, entry, IF entry.layer < c.layers
                                      THEN Kept(after[i - 1][entry.layer], entry) ELSE <<>>)
             THEN Empty
             ELSE [after[i - 1] EXCEPT ![entry.layer] = Kept(@, entry)]
  IN  after[Len(c.masks)]

\* The checks in their order: the first that does not accept ends load.
\* Those that only refuse and divide nothing are not all told apart: the
\* n-gram size, the rotary and norm parameters, the order and bits of
\* vq_modules and the quantization group sizes are taken as accepted.
Checks(c) ==
  <<QsaGeometry(c), NiwakiPair(c), PleGeometry(c), LayerTypes(c), QuantizationOverrides(c),
    VqModules(c), SharedOnlyLayers(c), Holds(ExpertMask(c) # Empty), Streaming(c)>>
Verdict(c) ==
  IF \A i \in DOMAIN Checks(c) : Checks(c)[i] = "ok" THEN "ok"
  ELSE Checks(c)[CHOOSE i \in DOMAIN Checks(c) :
         Checks(c)[i] # "ok" /\ \A j \in 1..(i - 1) : Checks(c)[j] = "ok"]

ManifestInit ==
  /\ config = Empty /\ retained = Empty /\ indexed = Empty /\ weight_map = Empty
  /\ overrides = Empty /\ sidecarNames = {} /\ declared = 0
  /\ loadStage = "config"
  /\ store = Empty /\ opened = 0 /\ locked = "nobody"
  /\ lookups = [t \in StoreThreads |-> [at |-> "idle"]]

unloaded == <<store, opened, locked, lookups>>

\* config.json with its quantization section.
ReadConfig ==
  /\ loadStage = "config"
  /\ \E c \in Configs :
       /\ config' = c
       /\ loadStage' = IF Verdict(c) = "ok" THEN "index" ELSE Verdict(c)
       /\ retained' = IF Verdict(c) = "ok" THEN ExpertMask(c) ELSE Empty
       /\ overrides' = c.overrides
  /\ UNCHANGED <<indexed, weight_map, sidecarNames, declared, unloaded>>

\* The index; a shard that is missing, or a mapping out of the directory,
\* ends load.
ReadIndex ==
  /\ loadStage = "index"
  /\ \/ \E index \in IndexFiles \ {Empty}, n \in FileBytes :
          /\ indexed' = index /\ weight_map' = index /\ declared' = n
          /\ loadStage' = "qmeta"
     \/ loadStage' = "refused" /\ UNCHANGED <<indexed, weight_map, declared>>
  /\ UNCHANGED <<config, retained, overrides, sidecarNames, unloaded>>

\* Tensors of a sidecar that are already mapped refuse it.
Duplicates(names) == names \cap DOMAIN weight_map # {}

\* Mutation: a later file takes a tensor over.
MappedOver(map, names, file) ==
  [n \in DOMAIN map \cup names |-> IF n \in names THEN file ELSE map[n]]
Mapped(map, names, file) == Joined(map, [n \in names |-> file])

\* Mutation: duplicates are not noticed.
AddedUnchecked(names, file, next) ==
  /\ weight_map' = MappedOver(weight_map, names, file)
  /\ loadStage' = next

\* A sidecar's tensors are entered one by one; one that is there throws.
Added(names, file, next) ==
  IF Duplicates(names) THEN loadStage' = "refused" /\ UNCHANGED weight_map
  ELSE weight_map' = Mapped(weight_map, names, file) /\ loadStage' = next

\* The three compact-metadata sidecars; their bytes are not counted.
ReadQmeta ==
  /\ loadStage \in {"qmeta", "qmeta2", "qmeta3"}
  /\ LET next == [qmeta |-> "qmeta2", qmeta2 |-> "qmeta3", qmeta3 |-> "mtp"][loadStage]
     IN  \/ loadStage' = next /\ UNCHANGED <<weight_map, sidecarNames>>
         \/ \E names \in QmetaFiles :
              /\ Added(names, loadStage, next)
              /\ sidecarNames' = sidecarNames \cup names
  /\ UNCHANGED <<config, retained, indexed, overrides, declared, unloaded>>

\* Every .scales of the sidecar sets the width of its module.
ScalesOverrides(names) ==
  Joined([m \in {[wrapped |-> n.wrapped, module |-> n.module] :
                   n \in {x \in names : x.field = "scales"}} |-> Q6], overrides)

\* The MTP sidecar.  Without it a Q4 language head refuses the model.
ReadMtp ==
  /\ loadStage = "mtp"
  /\ \/ /\ loadStage' \in {"done", "refused"}
        /\ UNCHANGED <<weight_map, overrides, sidecarNames, declared>>
     \/ \E names \in MtpFiles, n \in FileBytes :
          IF Required \subseteq names /\ n <= MostBytes - declared
          THEN /\ Added(names, "mtp", "head")
               /\ overrides' = ScalesOverrides(names)
               /\ sidecarNames' = sidecarNames \cup names
               /\ declared' = declared + n
          ELSE loadStage' = "refused"
               /\ UNCHANGED <<weight_map, overrides, sidecarNames, declared>>
  /\ UNCHANGED <<config, retained, indexed, unloaded>>

\* The Q4 language head beside the MTP sidecar.
ReadHead ==
  /\ loadStage = "head"
  /\ \/ loadStage' = "done" /\ UNCHANGED <<weight_map, overrides, sidecarNames, declared>>
     \/ \E names \in HeadFiles, n \in FileBytes :
          IF config.hidden % 64 = 0 /\ RequiredHead \subseteq names /\ n <= MostBytes - declared
          THEN /\ Added(names, "head", "done")
               /\ overrides' = Joined([m \in {[wrapped |-> FALSE, module |-> "mtp_lm_head"]} |-> Q4],
                                      overrides)
               /\ sidecarNames' = sidecarNames \cup names
               /\ declared' = declared + n
          ELSE loadStage' = "refused"
               /\ UNCHANGED <<weight_map, overrides, sidecarNames, declared>>
  /\ UNCHANGED <<config, retained, indexed, unloaded>>

-----------------------------------------------------------------------------
(* The queries.                                                            *)

Flat(m) == [m EXCEPT !.wrapped = FALSE]

\* Width of a module: its own override, that of its flat name, the default.
quantization_for(table, m) ==
  IF m \in DOMAIN table THEN table[m]
  ELSE IF m.wrapped /\ Flat(m) \in DOMAIN table THEN table[Flat(m)] ELSE config.bits

resolve_tensor_name(map, n) ==
  IF n \in DOMAIN map THEN n
  ELSE IF n.wrapped /\ Flat(n) \in DOMAIN map THEN Flat(n) ELSE n

-----------------------------------------------------------------------------
(* TensorStore::tensor, under mutex_.                                      *)

Names == DOMAIN weight_map \cup {[n EXCEPT !.wrapped = TRUE] : n \in DOMAIN weight_map}

\* Mutation: the store is not locked.
MutexNot(t) == UNCHANGED locked

\* The lock, the name and its file; an unknown name throws.
Mutex(t) == locked = "nobody" /\ locked' = t

Lookup(t) ==
  /\ loadStage = "done" /\ lookups[t].at = "idle" /\ opened < MaxOpened
  /\ Mutex(t)
  /\ \E n \in Names :
       LET file == weight_map[resolve_tensor_name(weight_map, n)] IN
       lookups' = [lookups EXCEPT ![t] =
         IF file \in DOMAIN store THEN [at |-> "view", file |-> file, of |-> store[file]]
         ELSE [at |-> "open", file |-> file]]
  /\ UNCHANGED <<loaded, loadStage, store, opened>>

\* The file is mapped, which may fail.
OpenShard(t) ==
  /\ lookups[t].at = "open"
  /\ \/ /\ opened' = opened + 1
        /\ lookups' = [lookups EXCEPT ![t] =
             [at |-> "insert", file |-> @.file, of |-> opened + 1]]
        /\ UNCHANGED locked
     \/ /\ lookups' = [lookups EXCEPT ![t] = [at |-> "threw"]]
        /\ locked' = "nobody" /\ UNCHANGED opened
  /\ UNCHANGED <<loaded, loadStage, store>>

\* The mapping enters the store, unless one is there; the view is of what is
\* there then.
InsertShard(t) ==
  /\ lookups[t].at = "insert"
  /\ store' = Joined(store, [f \in {lookups[t].file} |-> lookups[t].of])
  /\ lookups' = [lookups EXCEPT ![t] =
       [at |-> "view", file |-> @.file, of |-> store'[@.file]]]
  /\ UNCHANGED <<loaded, loadStage, opened, locked>>

\* The view leaves with the lock released.
ReturnView(t) ==
  /\ lookups[t].at = "view"
  /\ locked' = "nobody"
  /\ lookups' = [lookups EXCEPT ![t].at = "held"]
  /\ UNCHANGED <<loaded, loadStage, store, opened>>

ManifestNext ==
  \/ ReadConfig \/ ReadIndex \/ ReadQmeta \/ ReadMtp \/ ReadHead
  \/ \E t \in StoreThreads : Lookup(t) \/ OpenShard(t) \/ InsertShard(t) \/ ReturnView(t)

ManifestSpec == ManifestInit /\ [][ManifestNext]_manifestVars

-----------------------------------------------------------------------------
(* Properties.                                                             *)

\* "It deliberately stays outside the upstream weight index": no sidecar,
\* in whatever order they are read, moves a tensor of the checkpoint to
\* another file (model_manifest.cpp:344).
SidecarsOnlyAdd ==
  \A n \in DOMAIN indexed : n \in DOMAIN weight_map /\ weight_map[n] = indexed[n]

\* A sidecar that names a module of the checkpoint: the MTP sidecar with
\* scales under its own or its flat name, or the language head.
NamesTarget(m) ==
  \/ m.module = "mtp_lm_head"
  \/ \E n \in sidecarNames : /\ n.field = "scales" /\ n.module = m.module
                             /\ n.wrapped => m.wrapped
                             /\ weight_map[n] = "mtp"

\* "recording exact module overrides keeps the target checkpoint's selective
\* Q8 metadata intact" (model_manifest.cpp:372): the width of each module of
\* the checkpoint is what its config.json says, NamesTarget aside.
TargetQuantization ==
  loadStage = "done" =>
    \A n \in DOMAIN indexed :
      LET m == [wrapped |-> n.wrapped, module |-> n.module] IN
      \/ quantization_for(overrides, m) = quantization_for(config.overrides, m)
      \/ NamesTarget(m)

\* One layer named by two texts (model_manifest.cpp:271).
SpelledTwice ==
  \E i, j \in DOMAIN config.masks : i # j /\ config.masks[i].layer = config.masks[j].layer

\* "expert mask must retain between top-k and expert_count - 1 experts"
\* (model_manifest.cpp:291): as the router uses the list, of distinct
\* experts in increasing order, a layer spelled twice aside.
RetainedUsable ==
  (loadStage = "done" /\ ~SpelledTwice) =>
    \A l \in DOMAIN retained :
      LET r == retained[l] IN
      r # <<>> => /\ \A i \in 2..Len(r) : r[i - 1] < r[i]
                  /\ Len(r) \in config.topk..(config.experts - 1)

\* The pair is divided by the heads before they are checked
\* (model_manifest.cpp:147).
PairWithoutHeads == config.pair # 0 /\ config.heads_per_ngram = 0

\* No config.json makes load divide by zero, PairWithoutHeads aside.
NeverDividesByZero == loadStage = "trap" => PairWithoutHeads

\* Shards are mapped once, whoever looks them up together: every
\* mapping made is in the store, about to enter it as the first of its file,
\* and every view is of a mapping that the store keeps (TensorStore::tensor).
ShardsMappedOnce ==
  LET entering == {t \in StoreThreads : lookups[t].at = "insert"} IN
  /\ opened = Cardinality(DOMAIN store \cup {lookups[t].file : t \in entering})
  /\ \A t \in entering : lookups[t].file \notin DOMAIN store
  /\ \A t \in StoreThreads :
       lookups[t].at = "held" => store[lookups[t].file] = lookups[t].of

\* What load accepts is the checkpoint that its files describe, in whatever
\* combination they come.
ManifestFaithful ==
  SidecarsOnlyAdd /\ TargetQuantization /\ RetainedUsable /\ NeverDividesByZero

=============================================================================
