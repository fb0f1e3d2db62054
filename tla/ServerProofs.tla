---------------------------- MODULE ServerProofs ----------------------------
(***************************************************************************)
(* Proofs about the server process around its engine: the start of the     *)
(* process, the HTTP server (for every number of clients, workers and      *)
(* signals and every length of the queue), the manifest with its store of  *)
(* mapped shards, and the sessions of the persistent Metal backend.        *)
(***************************************************************************)
EXTENDS HttpServer, MetalSession, Manifest, Startup, Sums, FiniteSetTheorems, TLAPS

(***************************************************************************)
(* The start of a process.  The precedence of the settings is about the    *)
(* stage in which the engine reads them; the invariant says stage by stage *)
(* what main has made of the environment so far.                           *)
(***************************************************************************)

\* The environment as the user gave it.
AsGiven(v) == env[v] = IF v \in given THEN "user" ELSE "unset"

\* A variable that only the user or a default may have set.
UserWins(v) == v \in given => env[v] = "user"

\* A variable with an option of its own that has been applied.
OptionWins(v, option) == IF option THEN env[v] = "option" ELSE UserWins(v)

EnvOfStage ==
  /\ startStage = "companion" => \A v \in Settings : AsGiven(v)
  /\ startStage = "defaults" =>
       /\ OptionWins("NGRAM_TABLE_DIR", options.ngram)
       /\ UserWins("MTP_MODEL_DIR")
       /\ \A v \in Settings \ {"NGRAM_TABLE_DIR", "MTP_MODEL_DIR"} : AsGiven(v)
  /\ startStage = "explicit" =>
       /\ OptionWins("NGRAM_TABLE_DIR", options.ngram)
       /\ OptionWins("TOKENIZER_DIR", options.tokenizer)
       /\ \A v \in Settings \ {"NGRAM_TABLE_DIR", "TOKENIZER_DIR"} : UserWins(v)
       /\ \A v \in {"RESIDENT_EXPERT_RANGE", "AUTOMATIC"} : env[v] # "unset"

StartStages ==
  {"companion", "defaults", "explicit", "tool", "load", "server", "serving",
   "teardown", "unwind", "exit"}

\* The model's state and the engine, from the first stage on.
ModelOfStage ==
  /\ startStage \in {"companion", "defaults", "explicit", "tool"} =>
       modelState = [state |-> "not_loaded", error |-> FALSE] /\ engine = NoEngine
  /\ startStage = "load" =>
       modelState = [state |-> "loading", error |-> FALSE] /\ engine = NoEngine
  /\ startStage \in {"server", "serving"} =>
       \/ modelState = [state |-> "ready", error |-> FALSE] /\ engine # NoEngine
       \/ modelState = [state |-> "failed", error |-> TRUE] /\ engine = NoEngine
       \/ modelState = [state |-> "not_loaded", error |-> FALSE] /\ engine = NoEngine

EngineFits == engine \in Nat /\ (engine > 1024 => packedVq)

ServerOfStage ==
  /\ startStage = "serving" => active_server = "live"
  /\ startStage = "teardown" => active_server = "null"
  /\ active_server = "dangling" => startStage \in {"unwind", "exit"}

StartType ==
  /\ startStage \in StartStages
  /\ program \in {"server"} \cup Profiles
  /\ options \in Options
  /\ DOMAIN env = Settings
  /\ packedVq \in BOOLEAN

StartInv ==
  /\ StartType /\ EnvOfStage /\ ModelOfStage /\ EngineFits /\ ServerOfStage
  /\ SettingsRank /\ SignalFindsServer

LEMMA StartInitInv == StartInit => StartInv
  <1> SUFFICES ASSUME StartInit PROVE StartInv
    OBVIOUS
  <1>1. StartType
    BY DEF StartInit, StartType, StartStages, Options
  <1>2. EnvOfStage
    BY DEF StartInit, EnvOfStage, AsGiven
  <1>3. ModelOfStage /\ EngineFits /\ ServerOfStage
    BY DEF StartInit, ModelOfStage, EngineFits, ServerOfStage, NoEngine
  <1>4. SettingsRank /\ SignalFindsServer
    BY DEF StartInit, SettingsRank, Precedence, ProfileSurvives, SignalFindsServer, NoSignal
  <1> QED
    BY <1>1, <1>2, <1>3, <1>4 DEF StartInv

\* What the two ways of setting a variable leave.
LEMMA SetFacts ==
  ASSUME NEW e, NEW vs, NEW x
  PROVE  /\ DOMAIN Set(e, vs, x) = Settings
         /\ DOMAIN set_environment_default(e, vs, x) = Settings
         /\ \A v \in Settings : /\ v \in vs => Set(e, vs, x)[v] = x
                                /\ v \notin vs => Set(e, vs, x)[v] = e[v]
         /\ \A v \in Settings :
              LET d == set_environment_default(e, vs, x)[v] IN
              /\ v \in vs /\ e[v] = "unset" => d = x
              /\ ~(v \in vs /\ e[v] = "unset") => d = e[v]
  BY DEF Set, set_environment_default

\* The stages that leave the environment and the options alone.
Unset == UNCHANGED <<program, options, given, env>>

LEMMA UnsetKeeps ==
  ASSUME StartInv, Unset, startStage' \in StartStages, packedVq' \in BOOLEAN,
         startStage' \in {"companion", "defaults", "explicit", "load", "tool"}
           => startStage' = startStage,
         startStage' \in {"server", "serving"} => startStage \in {"load", "server", "serving"}
  PROVE  StartType' /\ EnvOfStage' /\ SettingsRank'
  <1>1. StartType'
    BY DEF StartInv, StartType, Unset
  <1>2. EnvOfStage'
    BY DEF StartInv, EnvOfStage, Unset, AsGiven, UserWins, OptionWins
  <1>3. Precedence'
    BY DEF StartInv, SettingsRank, Precedence, Unset, HasOption
  <1>4. ProfileSurvives'
    BY DEF StartInv, SettingsRank, ProfileSurvives, Unset
  <1> QED
    BY <1>1, <1>2, <1>3, <1>4 DEF SettingsRank

LEMMA ToolStep == ASSUME StartInv, RunTool PROVE StartInv'
  <1> DEFINE r == set_environment_default(env, {"RESIDENT_EXPERT_RANGE"}, program)
             a == apply_automatic_runtime_config(r)
             v == "RESIDENT_EXPERT_RANGE"
  <1>1. /\ program \in Profiles /\ startStage = "companion" /\ startStage' = "tool"
        /\ env' = apply_runtime_profile(env, program)
        /\ UNCHANGED <<program, options, given, modelState, engine, packedVq,
                       active_server, signalled>>
    BY DEF RunTool, StartInv, StartType
  <1>2. v \in Settings
    BY DEF Settings
  <1>3. env[v] = IF v \in given THEN "user" ELSE "unset"
    BY <1>1, <1>2 DEF StartInv, EnvOfStage, AsGiven
  <1>4. r[v] = IF v \in given THEN "user" ELSE program
    BY <1>2, <1>3, SetFacts
  <1>5. r[v] # "unset"
    BY <1>1, <1>4 DEF Profiles
  <1>6. a[v] = r[v]
    BY <1>2, <1>5, SetFacts DEF apply_automatic_runtime_config
  <1>7. v \notin ProfileOnly(program)
    BY <1>1 DEF ProfileOnly, Profiles
  <1>8. program # "safe" =>
          /\ env' = set_environment_default(a, ProfileOnly(program), program)
          /\ env'[v] = a[v]
    BY <1>1, <1>2, <1>7, SetFacts DEF apply_runtime_profile
  <1>9. DOMAIN env' = Settings
    BY <1>1, SetFacts DEF apply_runtime_profile, StartInv, StartType
  <1>10. StartType'
    BY <1>1, <1>9 DEF StartInv, StartType, StartStages
  <1>11. EnvOfStage' /\ ModelOfStage' /\ EngineFits' /\ ServerOfStage' /\ SignalFindsServer'
    BY <1>1 DEF StartInv, EnvOfStage, ModelOfStage, EngineFits, ServerOfStage, SignalFindsServer
  <1>12. SettingsRank'
    BY <1>1, <1>4, <1>6, <1>8 DEF SettingsRank, Precedence, ProfileSurvives
  <1> QED
    BY <1>10, <1>11, <1>12 DEF StartInv

LEMMA CompanionStep == ASSUME StartInv, Companion PROVE StartInv'
  <1> DEFINE e == IF options.ngram THEN Set(env, {"NGRAM_TABLE_DIR"}, "option") ELSE env
             probes == ~options.depth /\ options.ngram /\ e["MTP_MODEL_DIR"] = "unset"
  <1>1. /\ program = "server" /\ startStage = "companion"
        /\ UNCHANGED <<program, options, given, modelState, engine, packedVq,
                       active_server, signalled>>
        /\ startStage' \in {"defaults", "exit"}
    BY DEF Companion, Exit
  <1>2. \/ env' = e
        \/ probes /\ env' = Set(e, {"MTP_MODEL_DIR"}, "companion")
    BY DEF Companion
  <1>3. /\ DOMAIN e = Settings
        /\ "NGRAM_TABLE_DIR" \in Settings /\ "MTP_MODEL_DIR" \in Settings
        /\ options.ngram => e["NGRAM_TABLE_DIR"] = "option"
        /\ ~options.ngram => e["NGRAM_TABLE_DIR"] = env["NGRAM_TABLE_DIR"]
        /\ \A v \in Settings \ {"NGRAM_TABLE_DIR"} : e[v] = env[v]
    BY SetFacts DEF Settings, StartInv, StartType
  <1>4. \A v \in Settings : AsGiven(v)
    BY <1>1 DEF StartInv, EnvOfStage
  <1> HIDE DEF e
  <1>5. /\ DOMAIN env' = Settings
        /\ env'["NGRAM_TABLE_DIR"] = e["NGRAM_TABLE_DIR"]
        /\ \A v \in Settings \ {"NGRAM_TABLE_DIR", "MTP_MODEL_DIR"} : env'[v] = e[v]
        /\ env'["MTP_MODEL_DIR"] = e["MTP_MODEL_DIR"] \/ e["MTP_MODEL_DIR"] = "unset"
    BY <1>2, <1>3, SetFacts
  <1>6. StartType'
    BY <1>1, <1>5 DEF StartInv, StartType, StartStages
  <1>7. EnvOfStage'
    <2>1. OptionWins("NGRAM_TABLE_DIR", options.ngram)'
      BY <1>1, <1>3, <1>4, <1>5 DEF OptionWins, UserWins, AsGiven
    <2>2. UserWins("MTP_MODEL_DIR")'
      BY <1>1, <1>3, <1>4, <1>5 DEF UserWins, AsGiven
    <2>3. \A v \in Settings \ {"NGRAM_TABLE_DIR", "MTP_MODEL_DIR"} : AsGiven(v)'
      BY <1>1, <1>3, <1>4, <1>5 DEF AsGiven
    <2> QED
      BY <1>1, <2>1, <2>2, <2>3 DEF EnvOfStage
  <1>8. ModelOfStage' /\ EngineFits' /\ ServerOfStage' /\ SignalFindsServer' /\ SettingsRank'
    BY <1>1 DEF StartInv, ModelOfStage, EngineFits, ServerOfStage, SignalFindsServer,
                SettingsRank, Precedence, ProfileSurvives
  <1> QED
    BY <1>6, <1>7, <1>8 DEF StartInv

LEMMA DefaultsStep == ASSUME StartInv, Defaults PROVE StartInv'
  <1> DEFINE e == IF options.tokenizer THEN Set(env, {"TOKENIZER_DIR"}, "option") ELSE env
             a == apply_automatic_runtime_config(e)
             c == set_environment_default(a, {"COMPACT_QMETA"}, "found")
  <1>1. /\ startStage = "defaults" /\ startStage' = "explicit"
        /\ env' = a \/ env' = c
        /\ UNCHANGED <<program, options, given, modelState, engine, packedVq,
                       active_server, signalled>>
    BY DEF Defaults
  <1>2. /\ OptionWins("NGRAM_TABLE_DIR", options.ngram)
        /\ UserWins("MTP_MODEL_DIR")
        /\ \A v \in Settings \ {"NGRAM_TABLE_DIR", "MTP_MODEL_DIR"} : AsGiven(v)
    BY <1>1 DEF StartInv, EnvOfStage
  <1>3. {"NGRAM_TABLE_DIR", "MTP_MODEL_DIR", "TOKENIZER_DIR", "COMPACT_QMETA",
         "RESIDENT_EXPERT_RANGE", "AUTOMATIC"} \subseteq Settings
    BY DEF Settings
  <1>4. /\ options.tokenizer => e["TOKENIZER_DIR"] = "option"
        /\ ~options.tokenizer => e["TOKENIZER_DIR"] = env["TOKENIZER_DIR"]
        /\ \A v \in Settings \ {"TOKENIZER_DIR"} : e[v] = env[v]
    BY <1>3, SetFacts
  <1> HIDE DEF e
  <1>5. /\ DOMAIN a = Settings
        /\ \A v \in Settings : a[v] = e[v] \/ e[v] = "unset"
        /\ \A v \in Settings \ {"RESIDENT_EXPERT_RANGE", "AUTOMATIC"} : a[v] = e[v]
        /\ \A v \in {"RESIDENT_EXPERT_RANGE", "AUTOMATIC"} : a[v] # "unset"
    BY <1>3, SetFacts DEF apply_automatic_runtime_config
  <1> HIDE DEF a
  <1>6. /\ DOMAIN c = Settings
        /\ \A v \in Settings : c[v] = a[v] \/ a[v] = "unset"
        /\ \A v \in Settings \ {"COMPACT_QMETA"} : c[v] = a[v]
    BY <1>3, SetFacts
  <1> HIDE DEF c
  <1>7. /\ DOMAIN env' = Settings
        /\ \A v \in Settings : env'[v] = e[v] \/ e[v] = "unset"
        /\ \A v \in {"NGRAM_TABLE_DIR", "TOKENIZER_DIR"} : env'[v] = e[v]
        /\ \A v \in {"RESIDENT_EXPERT_RANGE", "AUTOMATIC"} : env'[v] # "unset"
    <2>1. DOMAIN env' = Settings
      BY <1>1, <1>5, <1>6
    <2>2. \A v \in Settings : env'[v] = e[v] \/ e[v] = "unset"
      BY <1>1, <1>5, <1>6
    <2>3. \A v \in {"NGRAM_TABLE_DIR", "TOKENIZER_DIR"} : env'[v] = e[v]
      BY <1>1, <1>3, <1>5, <1>6
    <2>4. \A v \in {"RESIDENT_EXPERT_RANGE", "AUTOMATIC"} : env'[v] # "unset"
      BY <1>1, <1>3, <1>5, <1>6
    <2> QED BY <2>1, <2>2, <2>3, <2>4
  <1>8. StartType'
    BY <1>1, <1>7 DEF StartInv, StartType, StartStages
  <1>9. EnvOfStage'
    <2>1. OptionWins("NGRAM_TABLE_DIR", options.ngram)'
      BY <1>1, <1>2, <1>3, <1>4, <1>7 DEF OptionWins, UserWins
    <2>2. OptionWins("TOKENIZER_DIR", options.tokenizer)'
      BY <1>1, <1>2, <1>3, <1>4, <1>7 DEF OptionWins, UserWins, AsGiven
    <2>3. ASSUME NEW v \in Settings \ {"NGRAM_TABLE_DIR", "TOKENIZER_DIR"} PROVE UserWins(v)'
      BY <1>1, <1>2, <1>4, <1>7 DEF UserWins, AsGiven
    <2> QED
      BY <1>1, <1>7, <2>1, <2>2, <2>3 DEF EnvOfStage
  <1>10. ModelOfStage' /\ EngineFits' /\ ServerOfStage' /\ SignalFindsServer' /\ SettingsRank'
    BY <1>1 DEF StartInv, ModelOfStage, EngineFits, ServerOfStage, SignalFindsServer,
                SettingsRank, Precedence, ProfileSurvives
  <1> QED
    BY <1>8, <1>9, <1>10 DEF StartInv

LEMMA ExplicitStep == ASSUME StartInv, Explicit PROVE StartInv'
  <1> DEFINE layers == IF options.layers
                       THEN {"QMETA_PREFILL_CACHE", "QMETA_PREFILL_CACHE_LAYERS"} ELSE {}
             qsa == IF options.qsa THEN {"QSA_PACKED_MIN_TOKENS", "QSA_SHARED_ROWS"} ELSE {}
             e == Set(env, layers \cup qsa, "option")
             kv == IF options.kv THEN "option" ELSE "main"
  <1>1. /\ startStage = "explicit" /\ startStage' \in {"load", "server"}
        /\ env' = Set(e, KvVariables, kv)
        /\ startStage' = "load" =>
             modelState' = [state |-> "loading", error |-> FALSE]
        /\ startStage' = "server" => UNCHANGED modelState
        /\ UNCHANGED <<program, options, given, engine, packedVq, active_server, signalled>>
    BY DEF Explicit
  <1>2. /\ OptionWins("NGRAM_TABLE_DIR", options.ngram)
        /\ OptionWins("TOKENIZER_DIR", options.tokenizer)
        /\ \A v \in Settings \ {"NGRAM_TABLE_DIR", "TOKENIZER_DIR"} : UserWins(v)
        /\ \A v \in {"RESIDENT_EXPERT_RANGE", "AUTOMATIC"} : env[v] # "unset"
    BY <1>1 DEF StartInv, EnvOfStage
  <1>3. /\ DOMAIN env' = Settings
        /\ \A v \in Settings : /\ v \in KvVariables => env'[v] = kv
                               /\ v \notin KvVariables => env'[v] = e[v]
        /\ \A v \in Settings : /\ v \in layers \cup qsa => e[v] = "option"
                               /\ v \notin layers \cup qsa => e[v] = env[v]
    BY <1>1, SetFacts
  <1> HIDE DEF e
  <1>4. StartType'
    BY <1>1, <1>3 DEF StartInv, StartType, StartStages
  <1>5. ASSUME NEW v \in Settings
        PROVE  /\ HasOption(v)' => env'[v] = "option"
               /\ (~HasOption(v) /\ v \in given /\ v \notin KvVariables)' => env'[v] = "user"
               /\ v \in {"RESIDENT_EXPERT_RANGE", "AUTOMATIC"} => env'[v] # "unset"
    <2>1. CASE v \in KvVariables
      BY <1>1, <1>3, <2>1 DEF HasOption, KvVariables
    <2>2. CASE v \in {"QMETA_PREFILL_CACHE", "QMETA_PREFILL_CACHE_LAYERS"}
      BY <1>1, <1>2, <1>3, <2>2 DEF HasOption, KvVariables, UserWins
    <2>3. CASE v \in {"QSA_PACKED_MIN_TOKENS", "QSA_SHARED_ROWS"}
      BY <1>1, <1>2, <1>3, <2>3 DEF HasOption, KvVariables, UserWins
    <2>4. CASE v \in {"NGRAM_TABLE_DIR", "TOKENIZER_DIR"}
      BY <1>1, <1>2, <1>3, <2>4 DEF HasOption, KvVariables, OptionWins, UserWins
    <2>5. CASE v \in {"MTP_MODEL_DIR", "RESIDENT_EXPERT_RANGE", "AUTOMATIC", "COMPACT_QMETA",
                      "PROFILE"}
      BY <1>1, <1>2, <1>3, <2>5 DEF HasOption, KvVariables, UserWins
    <2> QED
      BY <2>1, <2>2, <2>3, <2>4, <2>5 DEF Settings
  <1>6. SettingsRank'
    BY <1>1, <1>5 DEF SettingsRank, Precedence, ProfileSurvives
  <1>7. EnvOfStage' /\ EngineFits' /\ ServerOfStage' /\ SignalFindsServer'
    BY <1>1 DEF StartInv, EnvOfStage, EngineFits, ServerOfStage, SignalFindsServer
  <1>8. ModelOfStage'
    BY <1>1 DEF StartInv, ModelOfStage
  <1> QED
    BY <1>4, <1>6, <1>7, <1>8 DEF StartInv

LEMMA LoadStep == ASSUME StartInv, Load PROVE StartInv'
  <1>1. /\ startStage = "load" /\ startStage' = "server" /\ packedVq' \in BOOLEAN
        /\ \/ ChunkRows(packedVq') # 0 /\ engine' = ChunkRows(packedVq') /\ mark_ready
           \/ UNCHANGED engine /\ mark_failed
        /\ Unset /\ UNCHANGED <<active_server, signalled>>
    BY DEF Load, Unset
  <1>2. StartType' /\ EnvOfStage' /\ SettingsRank'
    BY <1>1, UnsetKeeps DEF StartStages
  <1>3. options.chunk \in Nat
    BY StartAssumption DEF StartInv, StartType, Options
  <1>4. ChunkRows(packedVq') \in Nat /\ (ChunkRows(packedVq') > 1024 => packedVq')
    BY <1>1, <1>3 DEF ChunkRows
  <1>5. engine = 0
    BY <1>1 DEF StartInv, ModelOfStage, NoEngine
  <1>6. ModelOfStage'
    BY <1>1, <1>5 DEF ModelOfStage, mark_ready, mark_failed, NoEngine
  <1>7. EngineFits'
    BY <1>1, <1>4, <1>5 DEF EngineFits
  <1>8. ServerOfStage' /\ SignalFindsServer'
    BY <1>1 DEF StartInv, ServerOfStage, SignalFindsServer
  <1> QED
    BY <1>2, <1>6, <1>7, <1>8 DEF StartInv

LEMMA ServingSteps ==
  ASSUME StartInv, Serve \/ RunReturns \/ RunThrows \/ Teardown \/ Signal
  PROVE  StartInv'
  <1>1. /\ Unset /\ packedVq' = packedVq /\ modelState' = modelState
        /\ engine' \in {engine, NoEngine}
        /\ \/ startStage = "server" /\ startStage' = "serving" /\ active_server' = "live"
                /\ UNCHANGED <<signalled, engine>>
           \/ startStage = "serving" /\ startStage' = "teardown" /\ active_server' = "null"
                /\ UNCHANGED <<signalled, engine>>
           \/ startStage = "serving" /\ startStage' = "unwind" /\ active_server' = "dangling"
                /\ UNCHANGED <<signalled, engine>>
           \/ startStage \in {"teardown", "unwind"} /\ startStage' = "exit"
                /\ UNCHANGED <<signalled, active_server>>
           \/ /\ startStage \in {"serving", "teardown", "unwind"} /\ startStage' = startStage
              /\ signalled' = [server |-> active_server, during |-> startStage]
              /\ UNCHANGED <<active_server, engine>>
    BY DEF Serve, RunReturns, RunThrows, Teardown, Signal, Exit, Unset
  <1>2. StartType' /\ EnvOfStage' /\ SettingsRank'
    <2>1. packedVq' \in BOOLEAN
      BY <1>1 DEF StartInv, StartType
    <2> QED BY <1>1, <2>1, UnsetKeeps DEF StartStages
  <1>3. ModelOfStage'
    BY <1>1 DEF StartInv, ModelOfStage
  <1>4. EngineFits'
    BY <1>1 DEF StartInv, EngineFits, NoEngine
  <1>5. ServerOfStage'
    BY <1>1 DEF StartInv, ServerOfStage
  <1>6. SignalFindsServer'
    BY <1>1 DEF StartInv, ServerOfStage, SignalFindsServer
  <1> QED
    BY <1>2, <1>3, <1>4, <1>5, <1>6 DEF StartInv

LEMMA StartStutters == ASSUME StartInv, UNCHANGED startVars PROVE StartInv'
  <1>1. StartType' /\ EnvOfStage' /\ SettingsRank'
    <2>1. packedVq' \in BOOLEAN /\ Unset
      BY DEF StartInv, StartType, startVars, Unset
    <2> QED BY <2>1, UnsetKeeps DEF StartInv, StartType, startVars
  <1>2. ModelOfStage' /\ EngineFits' /\ ServerOfStage' /\ SignalFindsServer'
    BY DEF StartInv, startVars, ModelOfStage, EngineFits, ServerOfStage, SignalFindsServer
  <1> QED
    BY <1>1, <1>2 DEF StartInv

LEMMA StartInductive == StartSpec => []StartInv
  <1>1. StartInv /\ [StartNext]_startVars => StartInv'
    BY ToolStep, CompanionStep, DefaultsStep, ExplicitStep, LoadStep, ServingSteps,
       StartStutters DEF StartNext
  <1> QED
    BY StartInitInv, <1>1, PTL DEF StartSpec

\* The rows of a chunk for a prompt of any length: what main has checked of the
\* configured rows is enough for select_prefill_chunk_rows.
LEMMA ChunkForPrompt ==
  ASSUME NEW n \in Nat \ {0}, NEW p \in Nat, NEW q \in Nat, p <= q
  PROVE  /\ select_prefill_chunk_rows(n, p) \in 1..n
         /\ select_prefill_chunk_rows(n, q) <= select_prefill_chunk_rows(n, p)
  BY DEF select_prefill_chunk_rows

\* Whatever the user's environment holds, whichever options, profile and
\* sidecars are there: an option wins over the environment and that over every
\* default (main.cpp, runtime_profile.cpp).
THEOREM SettingsRanked == StartSpec => []SettingsRank
  <1>1. StartInv => SettingsRank
    BY DEF StartInv
  <1> QED
    BY StartInductive, <1>1, PTL

\* The server says it is ready exactly when there is an engine, the engine's
\* chunks fit every prompt, and only a run() that threw leaves a destroyed
\* server to a signal (main.cpp, runtime.cpp).
THEOREM ServesWhatItSays == StartSpec => []ServerTruthful
  <1>1. ASSUME StartInv PROVE ServerTruthful
    <2>1. ReadyHasEngine
      BY <1>1 DEF StartInv, ModelOfStage, ReadyHasEngine
    <2>2. ChunksFit
      BY <1>1, ChunkForPrompt, StartAssumption DEF StartInv, EngineFits, ChunksFit, NoEngine
    <2> QED
      BY <1>1, <2>1, <2>2 DEF StartInv, ServerTruthful
  <1> QED
    BY StartInductive, <1>1, PTL

-----------------------------------------------------------------------------
(***************************************************************************)
(* The store of mapped shards.  A thread that is past the lock and has not *)
(* returned its view holds the mutex, so at most one of them is about to   *)
(* enter a mapping, and what it found out about the store is still true.   *)
(***************************************************************************)

\* What a thread has found or made, as a record of these fields.
Mapping(r) == r = [at |-> r.at, file |-> r.file, of |-> r.of]

LookupShape(r) ==
  /\ r.at \in {"idle", "open", "insert", "view", "held", "threw"}
  /\ r.at \in {"insert", "view", "held"} => Mapping(r)

InLock == {t \in StoreThreads : lookups[t].at \in {"open", "insert", "view"}}

\* What each thread may rely on.
LookupHolds(t) ==
  /\ LookupShape(lookups[t])
  /\ t \in InLock => locked = t
  /\ lookups[t].at \in {"open", "insert"} => lookups[t].file \notin DOMAIN store
  /\ lookups[t].at \in {"view", "held"} =>
       lookups[t].file \in DOMAIN store /\ store[lookups[t].file] = lookups[t].of

Entering == {t \in StoreThreads : lookups[t].at = "insert"}
MappedFiles == DOMAIN store \cup {lookups[t].file : t \in Entering}

StoreInv ==
  /\ DOMAIN lookups = StoreThreads
  /\ locked \in StoreThreads \cup {"nobody"}
  /\ IsFiniteSet(MappedFiles) /\ opened = Cardinality(MappedFiles)
  /\ \A t \in StoreThreads : LookupHolds(t)

LEMMA StoreInit == ManifestInit => StoreInv
  <1> SUFFICES ASSUME ManifestInit PROVE StoreInv
    OBVIOUS
  <1>1. MappedFiles = {}
    BY DEF ManifestInit, MappedFiles, Entering, Empty
  <1>2. \A t \in StoreThreads : LookupHolds(t)
    BY DEF ManifestInit, LookupHolds, LookupShape, InLock
  <1> QED
    BY <1>1, <1>2, FS_EmptySet DEF ManifestInit, StoreInv

LEMMA StoreKept == ASSUME StoreInv, UNCHANGED <<store, opened, locked, lookups>> PROVE StoreInv'
  <1>1. MappedFiles' = MappedFiles
    BY DEF MappedFiles, Entering
  <1>2. \A t \in StoreThreads : LookupHolds(t)'
    BY DEF StoreInv, LookupHolds, LookupShape, Mapping, InLock
  <1> QED
    BY <1>1, <1>2 DEF StoreInv

\* With one thread in the lock, the files about to enter are its own.
LEMMA OthersOutside ==
  ASSUME StoreInv, NEW t \in StoreThreads, locked \in {t, "nobody"},
         NEW u \in StoreThreads, u # t
  PROVE  u \notin InLock
  BY StoreAssumption DEF StoreInv, LookupHolds

\* Another thread is not concerned by a step that keeps its lookup, the
\* mappings in the store and, if it is in the lock, the lock.
LEMMA OtherHolds ==
  ASSUME StoreInv, NEW u \in StoreThreads, lookups'[u] = lookups[u], u \notin InLock,
         \A f \in DOMAIN store : f \in DOMAIN store' /\ store'[f] = store[f]
  PROVE  LookupHolds(u)'
  <1>1. LookupHolds(u)
    BY DEF StoreInv
  <1>2. lookups[u].at \notin {"open", "insert", "view"}
    BY DEF InLock
  <1> QED
    BY <1>1, <1>2 DEF LookupHolds, LookupShape, Mapping, InLock

LEMMA LookupStep ==
  ASSUME StoreInv, NEW t \in StoreThreads, Lookup(t)
  PROVE  StoreInv'
  <1>1. PICK n \in Names :
          LET file == weight_map[resolve_tensor_name(weight_map, n)] IN
          lookups' = [lookups EXCEPT ![t] =
            IF file \in DOMAIN store THEN [at |-> "view", file |-> file, of |-> store[file]]
            ELSE [at |-> "open", file |-> file]]
    BY DEF Lookup
  <1> DEFINE file == weight_map[resolve_tensor_name(weight_map, n)]
  <1>2. /\ locked = "nobody" /\ locked' = t /\ lookups[t].at = "idle"
        /\ UNCHANGED <<store, opened>>
    BY DEF Lookup, Mutex
  <1> HIDE DEF file
  <1>3. /\ DOMAIN lookups' = StoreThreads
        /\ \A u \in StoreThreads \ {t} : lookups'[u] = lookups[u]
        /\ lookups'[t] = IF file \in DOMAIN store
                         THEN [at |-> "view", file |-> file, of |-> store[file]]
                         ELSE [at |-> "open", file |-> file]
    BY <1>1 DEF StoreInv, file
  <1>4. \A u \in StoreThreads \ {t} : LookupHolds(u)'
    BY <1>2, <1>3, OthersOutside, OtherHolds
  <1>5. LookupHolds(t)'
    BY <1>2, <1>3 DEF LookupHolds, LookupShape, Mapping, InLock
  <1>6. MappedFiles' = MappedFiles
    <2>1. Entering' = Entering
      BY <1>2, <1>3 DEF Entering
    <2>2. \A u \in Entering : lookups'[u] = lookups[u]
      BY <1>2, <1>3 DEF Entering
    <2> QED BY <1>2, <2>1, <2>2 DEF MappedFiles
  <1> QED
    BY <1>2, <1>3, <1>4, <1>5, <1>6 DEF StoreInv

LEMMA OpenShardStep ==
  ASSUME StoreInv, NEW t \in StoreThreads, OpenShard(t)
  PROVE  StoreInv'
  <1> DEFINE file == lookups[t].file
  <1>1. /\ lookups[t].at = "open" /\ store' = store /\ locked = t
        /\ file \notin DOMAIN store /\ t \in InLock
    BY DEF OpenShard, StoreInv, LookupHolds, InLock
  <1>2. DOMAIN lookups' = StoreThreads /\ \A u \in StoreThreads \ {t} : lookups'[u] = lookups[u]
    BY DEF OpenShard, StoreInv
  <1>3. \A u \in StoreThreads \ {t} : LookupHolds(u)' /\ u \notin Entering
    BY <1>1, <1>2, OthersOutside, OtherHolds DEF Entering, InLock
  <1>4. Entering = {} /\ MappedFiles = DOMAIN store
    BY <1>1, <1>3 DEF Entering, MappedFiles
  <1>5. CASE /\ opened' = opened + 1 /\ locked' = locked
             /\ lookups' = [lookups EXCEPT ![t] =
                  [at |-> "insert", file |-> @.file, of |-> opened + 1]]
    <2>1. lookups'[t] = [at |-> "insert", file |-> file, of |-> opened + 1]
      BY <1>5 DEF StoreInv
    <2>2. LookupHolds(t)'
      BY <1>1, <1>5, <2>1 DEF LookupHolds, LookupShape, Mapping, InLock
    <2>3. Entering' = {t} /\ MappedFiles' = MappedFiles \cup {file}
      <3>1. Entering' = {t}
        BY <1>2, <1>3, <2>1 DEF Entering
      <3> QED BY <1>1, <1>4, <2>1, <3>1 DEF MappedFiles
    <2>4. IsFiniteSet(MappedFiles') /\ Cardinality(MappedFiles') = opened + 1
      BY <1>1, <1>4, <2>3, FS_AddElement DEF StoreInv
    <2> QED
      BY <1>1, <1>2, <1>3, <1>5, <2>2, <2>4 DEF StoreInv
  <1>6. CASE /\ lookups' = [lookups EXCEPT ![t] = [at |-> "threw"]]
             /\ locked' = "nobody" /\ opened' = opened
    <2>1. lookups'[t] = [at |-> "threw"]
      BY <1>6 DEF StoreInv
    <2>2. LookupHolds(t)'
      BY <2>1 DEF LookupHolds, LookupShape, InLock
    <2>3. Entering' = {} /\ MappedFiles' = MappedFiles
      BY <1>1, <1>2, <1>3, <1>4, <2>1 DEF Entering, MappedFiles
    <2> QED
      BY <1>2, <1>3, <1>6, <2>2, <2>3 DEF StoreInv
  <1> QED
    BY <1>5, <1>6 DEF OpenShard

LEMMA InsertShardStep ==
  ASSUME StoreInv, NEW t \in StoreThreads, InsertShard(t)
  PROVE  StoreInv'
  <1> DEFINE file == lookups[t].file
             of == lookups[t].of
  <1>1. /\ lookups[t].at = "insert" /\ locked = t /\ UNCHANGED <<opened, locked>>
        /\ file \notin DOMAIN store /\ t \in InLock
        /\ store' = Joined(store, [f \in {file} |-> of])
    BY DEF InsertShard, StoreInv, LookupHolds, InLock
  <1>2. /\ DOMAIN store' = DOMAIN store \cup {file} /\ store'[file] = of
        /\ \A f \in DOMAIN store : store'[f] = store[f]
    BY <1>1 DEF Joined
  <1>3. /\ DOMAIN lookups' = StoreThreads
        /\ \A u \in StoreThreads \ {t} : lookups'[u] = lookups[u]
        /\ lookups'[t] = [at |-> "view", file |-> file, of |-> of]
    BY <1>2 DEF InsertShard, StoreInv
  <1>4. \A u \in StoreThreads \ {t} : LookupHolds(u)' /\ u \notin Entering
    BY <1>1, <1>2, <1>3, OthersOutside, OtherHolds DEF Entering, InLock
  <1>5. LookupHolds(t)'
    BY <1>1, <1>2, <1>3 DEF LookupHolds, LookupShape, Mapping, InLock
  <1>6. MappedFiles' = MappedFiles
    <2>1. Entering = {t} /\ Entering' = {}
      BY <1>1, <1>3, <1>4 DEF Entering
    <2> QED BY <1>2, <2>1 DEF MappedFiles
  <1> QED
    BY <1>1, <1>3, <1>4, <1>5, <1>6 DEF StoreInv

LEMMA ReturnViewStep ==
  ASSUME StoreInv, NEW t \in StoreThreads, ReturnView(t)
  PROVE  StoreInv'
  <1>1. /\ lookups[t].at = "view" /\ locked = t /\ locked' = "nobody" /\ t \in InLock
        /\ UNCHANGED <<store, opened>> /\ LookupHolds(t)
    BY DEF ReturnView, StoreInv, LookupHolds, InLock
  <1>2. /\ DOMAIN lookups' = StoreThreads
        /\ \A u \in StoreThreads \ {t} : lookups'[u] = lookups[u]
        /\ lookups'[t] = [lookups[t] EXCEPT !.at = "held"]
    BY DEF ReturnView, StoreInv
  <1>3. lookups'[t] = [at |-> "held", file |-> lookups[t].file, of |-> lookups[t].of]
    BY <1>1, <1>2 DEF LookupHolds, LookupShape, Mapping
  <1>4. \A u \in StoreThreads \ {t} : LookupHolds(u)' /\ u \notin Entering
    BY <1>1, <1>2, OthersOutside, OtherHolds DEF Entering, InLock
  <1>5. LookupHolds(t)'
    BY <1>1, <1>3 DEF LookupHolds, LookupShape, Mapping, InLock
  <1>6. MappedFiles' = MappedFiles
    BY <1>1, <1>2, <1>3, <1>4 DEF MappedFiles, Entering
  <1> QED
    BY <1>1, <1>2, <1>4, <1>5, <1>6 DEF StoreInv

LEMMA StoreInductive == ManifestSpec => []StoreInv
  <1>1. ASSUME StoreInv, [ManifestNext]_manifestVars PROVE StoreInv'
    <2>1. CASE ReadConfig \/ ReadIndex \/ ReadQmeta \/ ReadMtp \/ ReadHead
               \/ UNCHANGED manifestVars
      BY <1>1, <2>1, StoreKept
         DEF ReadConfig, ReadIndex, ReadQmeta, ReadMtp, ReadHead, unloaded, manifestVars
    <2> QED
      BY <1>1, <2>1, LookupStep, OpenShardStep, InsertShardStep, ReturnViewStep
         DEF ManifestNext
  <1> QED
    BY StoreInit, <1>1, PTL DEF ManifestSpec

\* Any number of threads that look up any tensors map each shard once, and
\* every view they hold is of the mapping that the store keeps
\* (TensorStore::tensor).
THEOREM MapsShardsOnce == ManifestSpec => []ShardsMappedOnce
  <1>1. ASSUME StoreInv PROVE ShardsMappedOnce
    BY <1>1 DEF StoreInv, ShardsMappedOnce, MappedFiles, Entering, LookupHolds
  <1> QED
    BY StoreInductive, <1>1, PTL

-----------------------------------------------------------------------------
(***************************************************************************)
(* The checks of load.  An index sorted by counting what is below it: the  *)
(* ranks of distinct indices are distinct, so every place is taken.        *)
(***************************************************************************)

\* The order of the places of s by their values.
Precedes(s, j, k) == s[j] < s[k] \/ (s[j] = s[k] /\ j < k)
Below(s, k) == {j \in DOMAIN s : Precedes(s, j, k)}
Rank(s, k) == Cardinality(Below(s, k))

LEMMA PrecedesOrder ==
  ASSUME NEW s \in Seq(Nat)
  PROVE  /\ \A k \in DOMAIN s : ~Precedes(s, k, k)
         /\ \A j, k \in DOMAIN s : j # k => Precedes(s, j, k) \/ Precedes(s, k, j)
         /\ \A i, j, k \in DOMAIN s :
              Precedes(s, i, j) /\ Precedes(s, j, k) => Precedes(s, i, k)
  <1>1. \A k \in DOMAIN s : k \in Nat /\ s[k] \in Nat
    BY ElementOfSeq
  <1> QED BY <1>1 DEF Precedes

LEMMA CountUpTo ==
  ASSUME NEW n \in Nat
  PROVE  /\ IsFiniteSet(1..n) /\ Cardinality(1..n) = n
         /\ IsFiniteSet(0..(n - 1)) /\ Cardinality(0..(n - 1)) = n
  <1>1. n \in Int /\ n - 1 \in Int /\ 0 \in Int /\ 1 \in Int
    OBVIOUS
  <1>2. /\ IsFiniteSet(1..n) /\ Cardinality(1..n) = IF 1 > n THEN 0 ELSE n - 1 + 1
    BY <1>1, FS_Interval
  <1>3. /\ IsFiniteSet(0..(n - 1))
        /\ Cardinality(0..(n - 1)) = IF 0 > n - 1 THEN 0 ELSE (n - 1) - 0 + 1
    BY <1>1, FS_Interval
  <1> QED BY <1>2, <1>3

LEMMA RankGrows ==
  ASSUME NEW s \in Seq(Nat), NEW j \in DOMAIN s, NEW k \in DOMAIN s, Precedes(s, j, k)
  PROVE  /\ Rank(s, j) \in 0..(Len(s) - 1) /\ Rank(s, k) \in 0..(Len(s) - 1)
         /\ Rank(s, j) < Rank(s, k)
  <1>1. DOMAIN s = 1..Len(s) /\ Len(s) \in Nat
    BY LenProperties
  <1>2. IsFiniteSet(DOMAIN s) /\ Cardinality(DOMAIN s) = Len(s)
    BY <1>1, CountUpTo
  <1>3. \A i \in DOMAIN s : /\ IsFiniteSet(Below(s, i)) /\ Rank(s, i) \in Nat
                            /\ Below(s, i) \subseteq DOMAIN s \ {i}
    <2> TAKE i \in DOMAIN s
    <2>1. Below(s, i) \subseteq DOMAIN s \ {i}
      BY PrecedesOrder DEF Below
    <2>2. IsFiniteSet(Below(s, i))
      BY <1>2, <2>1, FS_Subset
    <2> QED BY <2>1, <2>2, FS_CardinalityType DEF Rank
  <1>4. \A i \in DOMAIN s : Rank(s, i) <= Len(s) - 1
    <2> TAKE i \in DOMAIN s
    <2>1. IsFiniteSet(DOMAIN s \ {i}) /\ Cardinality(DOMAIN s \ {i}) = Len(s) - 1
      BY <1>2, FS_RemoveElement
    <2> QED BY <1>3, <2>1, FS_Subset DEF Rank
  <1>5. Below(s, j) \cup {j} \subseteq Below(s, k) /\ j \notin Below(s, j)
    BY PrecedesOrder DEF Below
  <1>6. Cardinality(Below(s, j) \cup {j}) = Rank(s, j) + 1
    BY <1>3, <1>5, FS_AddElement DEF Rank
  <1>7. Rank(s, j) + 1 <= Rank(s, k)
    BY <1>3, <1>5, <1>6, FS_Subset DEF Rank
  <1> QED
    BY <1>1, <1>3, <1>4, <1>7

\* Every place has an index of its rank.
LEMMA RankedPlace ==
  ASSUME NEW s \in Seq(Nat), NEW i \in DOMAIN s
  PROVE  \E k \in DOMAIN s : Rank(s, k) = i - 1
  <1> DEFINE n == Len(s)
             f == [k \in DOMAIN s |-> Rank(s, k)]
             T == 0..(n - 1)
  <1>1. DOMAIN s = 1..n /\ n \in Nat
    BY LenProperties
  <1>2. \A k \in DOMAIN s : Rank(s, k) \in T
    <2> TAKE k \in DOMAIN s
    <2>1. CASE \E j \in DOMAIN s : j # k
      BY <2>1, PrecedesOrder, RankGrows
    <2>2. CASE DOMAIN s = {k}
      <3>1. Below(s, k) = {}
        BY <2>2, PrecedesOrder DEF Below
      <3>2. Rank(s, k) = 0
        BY <3>1, FS_EmptySet DEF Rank
      <3>3. n >= 1
        BY <1>1
      <3> QED BY <1>1, <3>2, <3>3
    <2> QED BY <2>1, <2>2
  <1>3. \A j, k \in DOMAIN s : j # k => Rank(s, j) # Rank(s, k)
    <2>1. SUFFICES ASSUME NEW j \in DOMAIN s, NEW k \in DOMAIN s, j # k
                   PROVE  Rank(s, j) # Rank(s, k)
      OBVIOUS
    <2>2. Precedes(s, j, k) \/ Precedes(s, k, j)
      BY <2>1, PrecedesOrder
    <2>3. Rank(s, j) \in Nat /\ Rank(s, k) \in Nat
      BY <1>1, <1>2
    <2>4. Rank(s, j) < Rank(s, k) \/ Rank(s, k) < Rank(s, j)
      BY <2>2, RankGrows
    <2> QED BY <2>3, <2>4
  <1>4. f \in Injection(DOMAIN s, T)
    <2>1. f \in [DOMAIN s -> T]
      BY <1>2
    <2> QED BY <1>3, <2>1 DEF Injection, IsInjective
  <1>5. IsFiniteSet(T) /\ Cardinality(T) = n
    BY <1>1, CountUpTo
  <1>6. Cardinality(DOMAIN s) = n
    BY <1>1, CountUpTo
  <1>7. f \in Surjection(DOMAIN s, T)
    <2> HIDE DEF f, T
    <2> QED BY <1>4, <1>5, <1>6, FS_Injection
  <1>8. i - 1 \in T
    BY <1>1
  <1> QED
    BY <1>7, <1>8 DEF Surjection

\* Indices that are not repeated, as Indices counts them.
Distinct(s) == Cardinality({s[i] : i \in DOMAIN s}) = Len(s)

LEMMA DistinctInjective ==
  ASSUME NEW s \in Seq(Nat), Distinct(s), NEW j \in DOMAIN s, NEW k \in DOMAIN s, s[j] = s[k]
  PROVE  j = k
  <1> DEFINE T == {s[i] : i \in DOMAIN s}
             n == Len(s)
             D == DOMAIN s
  <1>1. D = 1..n /\ n \in Nat
    BY LenProperties
  <1>2. IsFiniteSet(D) /\ Cardinality(D) = n
    BY <1>1, CountUpTo
  <1>3. s = [i \in D |-> s[i]]
    OBVIOUS
  <1>4. s \in [D -> T]
    BY <1>3
  <1>5. s \in Surjection(D, T)
    BY <1>4 DEF Surjection
  <1>6. Cardinality(T) = n
    BY DEF Distinct
  <1> HIDE DEF T, n, D
  <1>7. s \in Injection(D, T)
    BY <1>2, <1>5, <1>6, FS_SurjSameCardinalityImpliesInj
  <1> QED
    BY <1>7 DEF Injection, IsInjective, D

\* What a list of distinct indices becomes in the mask.
LEMMA SortedDistinct ==
  ASSUME NEW s \in Seq(Nat), Distinct(s)
  PROVE  /\ Len(Sorted(s)) = Len(s) /\ DOMAIN Sorted(s) = 1..Len(s)
         /\ \A i \in 2..Len(s) : Sorted(s)[i - 1] < Sorted(s)[i]
  <1> DEFINE at == [i \in DOMAIN s |-> CHOOSE k \in DOMAIN s : Rank(s, k) = i - 1]
  <1>1. DOMAIN s = 1..Len(s) /\ Len(s) \in Nat /\ \A k \in DOMAIN s : s[k] \in Nat
    BY LenProperties, ElementOfSeq
  <1>2. \A i \in DOMAIN s : at[i] \in DOMAIN s /\ Rank(s, at[i]) = i - 1
    BY RankedPlace
  <1>3. Sorted(s) = [i \in DOMAIN s |-> s[at[i]]]
    BY DEF Sorted, Rank, Below, Precedes
  <1>5. \A j, k \in DOMAIN s : s[j] = s[k] => j = k
    BY DistinctInjective
  <1>6. ASSUME NEW i \in 2..Len(s) PROVE s[at[i - 1]] < s[at[i]]
    <2> DEFINE a == at[i - 1]
               b == at[i]
    <2>1. i \in DOMAIN s /\ i - 1 \in DOMAIN s /\ i \in Nat
      <3> HIDE DEF at
      <3> QED BY <1>1
    <2>2. a \in DOMAIN s /\ b \in DOMAIN s /\ Rank(s, a) = i - 2 /\ Rank(s, b) = i - 1
      BY <1>2, <2>1
    <2> HIDE DEF a, b
    <2>3. a # b
      BY <2>1, <2>2
    <2>4. ~Precedes(s, b, a)
      BY <2>1, <2>2, RankGrows
    <2>5. Precedes(s, a, b) /\ s[a] # s[b]
      BY <1>5, <2>2, <2>3, <2>4, PrecedesOrder
    <2>6. s[a] < s[b]
      BY <2>5 DEF Precedes
    <2> QED BY <2>6 DEF a, b
  <1> HIDE DEF at
  <1>7. Sorted(s) \in [1..Len(s) -> Nat]
    BY <1>1, <1>2, <1>3
  <1>8. DOMAIN Sorted(s) = 1..Len(s) /\ Len(Sorted(s)) = Len(s)
    BY <1>1, <1>7
  <1>9. \A i \in 2..Len(s) : i \in DOMAIN s /\ i - 1 \in DOMAIN s
    BY <1>1
  <1>10. \A i \in 2..Len(s) : Sorted(s)[i - 1] < Sorted(s)[i]
    BY <1>3, <1>6, <1>9
  <1> QED
    BY <1>8, <1>10

-----------------------------------------------------------------------------
(***************************************************************************)
(* The expert mask, entry by entry.  Without a layer that is spelled twice *)
(* every entry finds its layer as it was at first.                         *)
(***************************************************************************)

MaskStep(c, before, i) ==
  IF before = Empty THEN Empty
  ELSE LET entry == c.masks[i] IN
       IF MaskRefuses(c, entry, IF entry.layer < c.layers
                                THEN Kept(before[entry.layer], entry) ELSE <<>>)
       THEN Empty
       ELSE [before EXCEPT ![entry.layer] = Kept(@, entry)]

NoMask(c) == [l \in 0..(c.layers - 1) |-> <<>>]

Masked(f, c, n) ==
  f = [i \in 0..n |-> IF i = 0 THEN NoMask(c) ELSE MaskStep(c, f[i - 1], i)]

LEMMA MaskUnfold ==
  ASSUME NEW c
  PROVE  ExpertMask(c) = (CHOOSE f : Masked(f, c, Len(c.masks)))[Len(c.masks)]
  BY DEF ExpertMask, Masked, MaskStep, NoMask

LEMMA MasksExist ==
  ASSUME NEW c, NEW n \in Nat
  PROVE  \E f : Masked(f, c, n)
  <1> DEFINE P == {k \in Nat : \E f : Masked(f, c, k)}
  <1>1. 0 \in P
    <2> DEFINE f == [i \in 0..0 |-> NoMask(c)]
    <2>1. f = [i \in 0..0 |-> IF i = 0 THEN NoMask(c) ELSE MaskStep(c, f[i - 1], i)]
      <3>1. \A i \in 0..0 : i = 0
        OBVIOUS
      <3> QED BY <3>1
    <2>2. Masked(f, c, 0)
      BY <2>1 DEF Masked
    <2> QED BY <2>2
  <1>2. ASSUME NEW k \in Nat, k \in P PROVE k + 1 \in P
    <2>1. PICK f : Masked(f, c, k)
      BY <1>2
    <2> DEFINE g == [i \in 0..(k + 1) |-> IF i <= k THEN f[i] ELSE MaskStep(c, f[k], k + 1)]
    <2>2. \A i \in 0..k : f[i] = IF i = 0 THEN NoMask(c) ELSE MaskStep(c, f[i - 1], i)
      BY <2>1 DEF Masked
    <2>3. ASSUME NEW i \in 0..(k + 1)
          PROVE  g[i] = IF i = 0 THEN NoMask(c) ELSE MaskStep(c, g[i - 1], i)
      <3>1. CASE i = 0
        BY <2>2, <3>1
      <3>2. CASE i # 0 /\ i <= k
        <4>1. i \in 0..k /\ i - 1 \in 0..(k + 1) /\ i - 1 <= k
          BY <3>2
        <4>2. g[i] = f[i] /\ g[i - 1] = f[i - 1]
          BY <3>2, <4>1
        <4> HIDE DEF g
        <4> QED BY <2>2, <3>2, <4>1, <4>2
      <3>3. CASE i = k + 1
        <4>1. ~(i <= k) /\ i # 0 /\ i - 1 = k /\ k \in 0..(k + 1)
          BY <3>3
        <4>2. g[i] = MaskStep(c, f[k], k + 1) /\ g[k] = f[k]
          BY <4>1
        <4> HIDE DEF g
        <4> QED BY <3>3, <4>1, <4>2
      <3>4. i = 0 \/ (i # 0 /\ i <= k) \/ i = k + 1
        OBVIOUS
      <3> QED BY <3>1, <3>2, <3>3, <3>4
    <2>4. Masked(g, c, k + 1)
      <3>1. g = [i \in 0..(k + 1) |-> g[i]]
        OBVIOUS
      <3> HIDE DEF g
      <3> QED BY <2>3, <3>1 DEF Masked
    <2> HIDE DEF g
    <2> QED BY <2>4
  <1> HIDE DEF P
  <1>3. n \in P
    BY <1>1, <1>2, NatInduct
  <1> QED BY <1>3 DEF P

KeptOnce(c, r, entry) == r = Kept(<<>>, entry) /\ ~MaskRefuses(c, entry, r)

SpelledOnce(c) ==
  \A i, j \in DOMAIN c.masks : i # j => c.masks[i].layer # c.masks[j].layer

\* After i entries a layer is as it was at first, or it is what one of them gave.
MaskOf(c, m, i) ==
  /\ DOMAIN m = 0..(c.layers - 1)
  /\ \A l \in 0..(c.layers - 1) :
       \/ m[l] = <<>>
       \/ \E j \in 1..i : c.masks[j].layer = l /\ KeptOnce(c, m[l], c.masks[j])

LEMMA MaskStepKeeps ==
  ASSUME NEW c, c.layers \in Nat, c.masks \in Seq([layer : Nat, experts : Seq(Nat)]),
         SpelledOnce(c), NEW i \in 1..Len(c.masks), NEW m,
         MaskOf(c, m, i - 1), MaskStep(c, m, i) # Empty
  PROVE  MaskOf(c, MaskStep(c, m, i), i)
  <1> DEFINE entry == c.masks[i]
             kept == Kept(m[entry.layer], entry)
             L == 0..(c.layers - 1)
  <1>1. Len(c.masks) \in Nat /\ DOMAIN c.masks = 1..Len(c.masks) /\ i \in Nat
    BY LenProperties
  <1>2. entry \in [layer : Nat, experts : Seq(Nat)]
    BY <1>1, ElementOfSeq
  <1>3. entry.layer \in Nat
    BY <1>2
  <1> HIDE DEF entry
  <1>4. /\ ~MaskRefuses(c, entry, IF entry.layer < c.layers THEN kept ELSE <<>>)
        /\ MaskStep(c, m, i) = [m EXCEPT ![entry.layer] = kept]
    BY DEF MaskStep, entry
  <1>5. entry.layer < c.layers /\ entry.layer \in L
    BY <1>3, <1>4 DEF MaskRefuses
  <1>6. m[entry.layer] = <<>>
    <2>1. SUFFICES ASSUME m[entry.layer] # <<>> PROVE FALSE
      OBVIOUS
    <2>2. PICK j \in 1..(i - 1) : c.masks[j].layer = entry.layer
      BY <1>5, <2>1 DEF MaskOf
    <2>3. j \in DOMAIN c.masks /\ i \in DOMAIN c.masks /\ j # i
      BY <1>1
    <2> QED BY <2>2, <2>3 DEF SpelledOnce, entry
  <1>7. KeptOnce(c, kept, entry)
    BY <1>4, <1>5, <1>6 DEF KeptOnce
  <1> DEFINE r == MaskStep(c, m, i)
  <1>8. DOMAIN r = L /\ r[entry.layer] = kept /\ \A l \in L : l # entry.layer => r[l] = m[l]
    BY <1>4, <1>5 DEF MaskOf
  <1> HIDE DEF r, kept
  <1>9. ASSUME NEW l \in L
        PROVE  r[l] = <<>> \/ \E j \in 1..i : c.masks[j].layer = l /\ KeptOnce(c, r[l], c.masks[j])
    <2>1. CASE l = entry.layer
      <3>1. i \in 1..i /\ c.masks[i] = entry
        BY <1>1 DEF entry
      <3> QED BY <1>7, <1>8, <2>1, <3>1
    <2>2. CASE l # entry.layer
      <3>1. \A j \in 1..(i - 1) : j \in 1..i
        BY <1>1
      <3>2. m[l] = <<>> \/ \E j \in 1..(i - 1) : c.masks[j].layer = l /\ KeptOnce(c, m[l], c.masks[j])
        BY DEF MaskOf
      <3> QED BY <1>8, <2>2, <3>1, <3>2
    <2> QED BY <2>1, <2>2
  <1> QED
    BY <1>8, <1>9 DEF MaskOf, r

LEMMA MaskHolds ==
  ASSUME NEW c, c.layers \in Nat, c.masks \in Seq([layer : Nat, experts : Seq(Nat)]),
         SpelledOnce(c), ExpertMask(c) # Empty
  PROVE  MaskOf(c, ExpertMask(c), Len(c.masks))
  <1> DEFINE n == Len(c.masks)
             f == CHOOSE x : Masked(x, c, n)
             P == {i \in Nat : i <= n /\ f[i] # Empty => MaskOf(c, f[i], i)}
  <1>1. n \in Nat
    BY LenProperties
  <1>2. Masked(f, c, n) /\ ExpertMask(c) = f[n]
    BY <1>1, MasksExist, MaskUnfold
  <1> HIDE DEF n, f
  <1>3. \A i \in 0..n : f[i] = IF i = 0 THEN NoMask(c) ELSE MaskStep(c, f[i - 1], i)
    BY <1>2 DEF Masked
  <1>4. 0 \in P
    <2>1. f[0] = NoMask(c)
      BY <1>1, <1>3
    <2>2. MaskOf(c, NoMask(c), 0)
      BY DEF MaskOf, NoMask
    <2> QED BY <2>1, <2>2
  <1>5. ASSUME NEW i \in Nat, i \in P PROVE i + 1 \in P
    <2> SUFFICES ASSUME i + 1 <= n, f[i + 1] # Empty PROVE MaskOf(c, f[i + 1], i + 1)
      OBVIOUS
    <2>1. i + 1 \in 0..n /\ i + 1 \in 1..n /\ i + 1 # 0 /\ (i + 1) - 1 = i /\ i <= n
      BY <1>1
    <2>2. f[i + 1] = MaskStep(c, f[i], i + 1)
      <3>1. f[i + 1] = MaskStep(c, f[(i + 1) - 1], i + 1)
        BY <1>3, <2>1
      <3> QED BY <2>1, <3>1
    <2>3. f[i] # Empty
      BY <2>2 DEF MaskStep
    <2>4. MaskOf(c, f[i], i)
      BY <1>5, <2>1, <2>3
    <2>5. MaskOf(c, f[i], (i + 1) - 1)
      BY <2>1, <2>4
    <2>6. i + 1 \in 1..Len(c.masks) /\ MaskStep(c, f[i], i + 1) # Empty
      BY <2>1, <2>2 DEF n
    <2> QED BY <2>2, <2>5, <2>6, MaskStepKeeps
  <1> HIDE DEF P
  <1>6. n \in P
    BY <1>1, <1>4, <1>5, NatInduct
  <1> QED
    BY <1>1, <1>2, <1>6 DEF P, n

\* What the router is given for a layer.
Usable(c, r) ==
  /\ \A i \in 2..Len(r) : r[i - 1] < r[i]
  /\ Len(r) \in c.topk..(c.experts - 1)

LEMMA KeptUsable ==
  ASSUME NEW c, c.experts \in Nat, c.topk \in Nat,
         NEW entry \in [layer : Nat, experts : Seq(Nat)], NEW r, KeptOnce(c, r, entry)
  PROVE  Usable(c, r)
  <1> DEFINE e == entry.experts
             T == {e[i] : i \in DOMAIN e}
  <1>1. e \in Seq(Nat)
    OBVIOUS
  <1>2. r = Sorted(e)
    <2>1. <<>> \o e = e
      BY <1>1, ConcatEmptySeq
    <2> QED BY <2>1 DEF KeptOnce, Kept
  <1>3. /\ \A i \in DOMAIN e : e[i] < c.experts
        /\ Cardinality(T) = Len(e)
        /\ ~(Len(r) < c.topk) /\ Len(r) # c.experts
    BY DEF KeptOnce, MaskRefuses, Indices
  <1>4. Len(e) \in Nat /\ \A i \in DOMAIN e : e[i] \in Nat
    BY <1>1, LenProperties, ElementOfSeq
  <1>5. T \subseteq 0..(c.experts - 1)
    <2> HIDE DEF e
    <2> QED BY <1>3, <1>4
  <1>6. Distinct(e)
    BY <1>3 DEF Distinct
  <1> HIDE DEF e
  <1>7. Len(r) = Len(e) /\ \A i \in 2..Len(e) : r[i - 1] < r[i]
    BY <1>1, <1>2, <1>6, SortedDistinct
  <1> HIDE DEF T
  <1>8. Len(e) <= c.experts
    <2> DEFINE U == 0..(c.experts - 1)
    <2>1. IsFiniteSet(U) /\ Cardinality(U) = c.experts
      BY CountUpTo
    <2> HIDE DEF U
    <2>2. T \in SUBSET U
      BY <1>5 DEF U
    <2>3. Cardinality(T) <= Cardinality(U)
      BY <2>1, <2>2, FS_Subset
    <2> QED BY <1>3, <2>1, <2>3
  <1> QED
    BY <1>3, <1>4, <1>7, <1>8 DEF Usable

LEMMA MaskUsable ==
  ASSUME NEW c \in Configs, SpelledOnce(c), NEW l \in DOMAIN ExpertMask(c),
         ExpertMask(c)[l] # <<>>
  PROVE  Usable(c, ExpertMask(c)[l])
  <1> DEFINE m == ExpertMask(c)
  <1>1. /\ c.layers \in Nat /\ c.experts \in Nat /\ c.topk \in Nat
        /\ c.masks \in Seq([layer : Nat, experts : Seq(Nat)])
    BY ConfigAssumption
  <1>2. m # Empty
    BY DEF Empty
  <1>3. MaskOf(c, m, Len(c.masks))
    BY <1>1, <1>2, MaskHolds
  <1> HIDE DEF m
  <1>4. PICK j \in 1..Len(c.masks) : KeptOnce(c, m[l], c.masks[j])
    BY <1>3 DEF MaskOf, m
  <1>5. c.masks[j] \in [layer : Nat, experts : Seq(Nat)]
    BY <1>1, LenProperties, ElementOfSeq
  <1>6. Usable(c, m[l])
    BY <1>1, <1>4, <1>5, KeptUsable
  <1> QED BY <1>6 DEF m

\* The only check that divides by zero is the one before the heads are checked.
LEMMA VerdictOfChecks ==
  ASSUME NEW c
  PROVE  /\ Verdict(c) \in {"ok", "refused", "trap"}
         /\ Verdict(c) = "trap" => c.pair # 0 /\ c.heads_per_ngram = 0
  <1> DEFINE w == Checks(c)
             bad == {i \in 1..9 : w[i] # "ok"}
  <1>1. DOMAIN w = 1..9
    BY DEF Checks
  <1>2. \A i \in 1..9 : w[i] \in {"ok", "refused", "trap"}
    <2>1. /\ QsaGeometry(c) \in {"ok", "refused", "trap"}
          /\ NiwakiPair(c) \in {"ok", "refused", "trap"}
          /\ VqModules(c) \in {"ok", "refused", "trap"}
      BY DEF QsaGeometry, NiwakiPair, VqModules, Divides
    <2>2. /\ PleGeometry(c) \in {"ok", "refused"} /\ LayerTypes(c) \in {"ok", "refused"}
          /\ QuantizationOverrides(c) \in {"ok", "refused"}
          /\ SharedOnlyLayers(c) \in {"ok", "refused"}
          /\ Holds(ExpertMask(c) # Empty) \in {"ok", "refused"}
          /\ Streaming(c) \in {"ok", "refused"}
      BY DEF PleGeometry, LayerTypes, QuantizationOverrides, SharedOnlyLayers, Streaming, Holds
    <2> QED BY <2>1, <2>2 DEF Checks
  <1>3. \A i \in 1..9 : w[i] = "trap" => c.pair # 0 /\ c.heads_per_ngram = 0
    <2>1. QsaGeometry(c) # "trap" /\ VqModules(c) # "trap"
      BY DEF QsaGeometry, VqModules, Divides
    <2>2. /\ PleGeometry(c) # "trap" /\ LayerTypes(c) # "trap"
          /\ QuantizationOverrides(c) # "trap" /\ SharedOnlyLayers(c) # "trap"
          /\ Holds(ExpertMask(c) # Empty) # "trap" /\ Streaming(c) # "trap"
      BY DEF PleGeometry, LayerTypes, QuantizationOverrides, SharedOnlyLayers, Streaming, Holds
    <2>3. NiwakiPair(c) = "trap" => c.pair # 0 /\ c.heads_per_ngram = 0
      BY DEF NiwakiPair, Divides
    <2> QED BY <2>1, <2>2, <2>3 DEF Checks
  <1>4. CASE bad = {}
    <2>1. Verdict(c) = "ok"
      <3> HIDE DEF w
      <3>1. \A i \in DOMAIN w : w[i] = "ok"
        BY <1>1, <1>4
      <3> QED BY <3>1 DEF Verdict, w
    <2> QED BY <2>1
  <1>5. CASE bad # {}
    <2> DEFINE first(i) == w[i] # "ok" /\ \A j \in 1..(i - 1) : w[j] = "ok"
               i == CHOOSE k \in DOMAIN w : first(k)
    <2>1. PICK m \in bad : \A n \in bad : m <= n
      <3>1. bad \subseteq Nat
        OBVIOUS
      <3> HIDE DEF bad
      <3> QED BY <1>5, <3>1, NatMinimum
    <2> HIDE DEF w
    <2>2. m \in DOMAIN w /\ first(m)
      BY <1>1, <2>1
    <2>3. i \in 1..9 /\ w[i] # "ok"
      BY <1>1, <2>2
    <2>4. ~(\A k \in DOMAIN w : w[k] = "ok")
      BY <2>2
    <2>5. Verdict(c) = w[i]
      BY <2>4 DEF Verdict, w
    <2> HIDE DEF i
    <2> QED BY <1>2, <1>3, <2>3, <2>5
  <1> QED
    BY <1>4, <1>5

-----------------------------------------------------------------------------
(***************************************************************************)
(* What load has read.  Files that are read later only add to the map, and *)
(* a width that is not that of config.json comes from a sidecar that names *)
(* the module.                                                             *)
(***************************************************************************)

LoadStages ==
  {"config", "index", "qmeta", "qmeta2", "qmeta3", "mtp", "head", "done", "refused", "trap"}

ModuleOf(n) == [wrapped |-> n.wrapped, module |-> n.module]

SameWidth(m) ==
  /\ m \in DOMAIN overrides <=> m \in DOMAIN config.overrides
  /\ m \in DOMAIN overrides => overrides[m] = config.overrides[m]

\* The width of every module of the checkpoint, and of its flat name.
WidthsOf ==
  \A n \in DOMAIN indexed :
    \/ SameWidth(ModuleOf(n)) /\ SameWidth(Flat(ModuleOf(n)))
    \/ NamesTarget(ModuleOf(n))

LoadInv ==
  /\ loadStage \in LoadStages
  /\ loadStage \in {"config", "index"} => indexed = Empty /\ sidecarNames = {}
  /\ loadStage \in {"index", "qmeta", "qmeta2", "qmeta3", "mtp"} => overrides = config.overrides
  /\ loadStage \notin {"refused", "trap"} => sidecarNames \subseteq DOMAIN weight_map
  /\ loadStage \in {"head", "done"} => WidthsOf
  /\ retained = Empty \/ (config \in Configs /\ retained = ExpertMask(config))
  /\ SidecarsOnlyAdd /\ NeverDividesByZero

LEMMA LoadInit == ManifestInit => LoadInv
  BY DEF ManifestInit, LoadInv, LoadStages, SidecarsOnlyAdd, NeverDividesByZero, Empty

LEMMA ReadConfigStep == ASSUME LoadInv, ReadConfig PROVE LoadInv'
  <1>1. PICK c \in Configs :
          /\ config' = c /\ loadStage' = IF Verdict(c) = "ok" THEN "index" ELSE Verdict(c)
          /\ retained' = IF Verdict(c) = "ok" THEN ExpertMask(c) ELSE Empty
          /\ overrides' = c.overrides
    BY DEF ReadConfig
  <1>2. loadStage = "config" /\ UNCHANGED <<indexed, weight_map, sidecarNames>>
    BY DEF ReadConfig
  <1>3. loadStage' \in {"index", "refused", "trap"}
    BY <1>1, VerdictOfChecks
  <1>4. NeverDividesByZero'
    BY <1>1, VerdictOfChecks DEF NeverDividesByZero, PairWithoutHeads
  <1>5. SidecarsOnlyAdd'
    BY <1>2 DEF LoadInv, SidecarsOnlyAdd
  <1> QED
    BY <1>1, <1>2, <1>3, <1>4, <1>5 DEF LoadInv, LoadStages

LEMMA ReadIndexStep == ASSUME LoadInv, ReadIndex PROVE LoadInv'
  <1>1. /\ loadStage = "index" /\ loadStage' \in {"qmeta", "refused"}
        /\ UNCHANGED <<config, retained, overrides, sidecarNames>>
        /\ indexed' = weight_map' \/ UNCHANGED <<indexed, weight_map>>
    BY DEF ReadIndex
  <1>2. SidecarsOnlyAdd'
    BY <1>1 DEF LoadInv, SidecarsOnlyAdd
  <1> QED
    BY <1>1, <1>2 DEF LoadInv, LoadStages, NeverDividesByZero

\* The map after a sidecar: what was there stays, the new names are of the file.
LEMMA MappedFacts ==
  ASSUME NEW map, NEW names, NEW file
  PROVE  /\ DOMAIN Mapped(map, names, file) = DOMAIN map \cup names
         /\ \A n \in DOMAIN map : Mapped(map, names, file)[n] = map[n]
         /\ \A n \in names : n \notin DOMAIN map => Mapped(map, names, file)[n] = file
  BY DEF Mapped, Joined

LEMMA AddedFacts ==
  ASSUME NEW names, NEW file, NEW next, Added(names, file, next)
  PROVE  /\ DOMAIN weight_map \subseteq DOMAIN weight_map'
         /\ \A n \in DOMAIN weight_map : weight_map'[n] = weight_map[n]
         /\ loadStage' \in {next, "refused"}
         /\ loadStage' # "refused" =>
              names \subseteq DOMAIN weight_map' /\ \A n \in names : weight_map'[n] = file
  <1>1. CASE Duplicates(names)
    BY <1>1 DEF Added
  <1>2. CASE ~Duplicates(names)
    <2> DEFINE map == Mapped(weight_map, names, file)
    <2>1. weight_map' = map /\ loadStage' = next /\ names \cap DOMAIN weight_map = {}
      BY <1>2 DEF Added, Duplicates
    <2>2. /\ DOMAIN map = DOMAIN weight_map \cup names
          /\ \A n \in DOMAIN weight_map : map[n] = weight_map[n]
          /\ \A n \in names : n \notin DOMAIN weight_map => map[n] = file
      BY MappedFacts
    <2> HIDE DEF map
    <2> QED BY <2>1, <2>2
  <1> QED BY <1>1, <1>2

\* Steps that add to the map and leave the checkpoint alone.
LEMMA AddingKeeps ==
  ASSUME LoadInv, UNCHANGED <<config, retained, indexed>>,
         DOMAIN weight_map \subseteq DOMAIN weight_map',
         \A n \in DOMAIN weight_map : weight_map'[n] = weight_map[n],
         loadStage' # "trap"
  PROVE  /\ SidecarsOnlyAdd' /\ NeverDividesByZero'
         /\ retained' = Empty \/ (config' \in Configs /\ retained' = ExpertMask(config'))
  <1>1. SidecarsOnlyAdd'
    BY DEF LoadInv, SidecarsOnlyAdd
  <1> QED
    BY <1>1 DEF LoadInv, NeverDividesByZero

LEMMA ReadQmetaStep == ASSUME LoadInv, ReadQmeta PROVE LoadInv'
  <1> DEFINE next == [qmeta |-> "qmeta2", qmeta2 |-> "qmeta3", qmeta3 |-> "mtp"][loadStage]
  <1>1. /\ loadStage \in {"qmeta", "qmeta2", "qmeta3"}
        /\ UNCHANGED <<config, retained, indexed, overrides>>
        /\ \/ loadStage' = next /\ UNCHANGED <<weight_map, sidecarNames>>
           \/ \E names \in QmetaFiles :
                Added(names, loadStage, next) /\ sidecarNames' = sidecarNames \cup names
    BY DEF ReadQmeta
  <1>2. next \in {"qmeta2", "qmeta3", "mtp"}
    BY <1>1
  <1> HIDE DEF next
  <1>3. sidecarNames \subseteq DOMAIN weight_map
    BY <1>1 DEF LoadInv
  <1>4. /\ DOMAIN weight_map \subseteq DOMAIN weight_map'
        /\ \A n \in DOMAIN weight_map : weight_map'[n] = weight_map[n]
        /\ loadStage' \in {next, "refused"}
        /\ loadStage' # "refused" => sidecarNames' \subseteq DOMAIN weight_map'
    <2>1. CASE loadStage' = next /\ UNCHANGED <<weight_map, sidecarNames>>
      BY <1>3, <2>1
    <2>2. ASSUME NEW names \in QmetaFiles, Added(names, loadStage, next),
                 sidecarNames' = sidecarNames \cup names
          PROVE  <1>4!:
      BY <1>3, <2>2, AddedFacts
    <2> QED BY <1>1, <2>1, <2>2
  <1>5. /\ SidecarsOnlyAdd' /\ NeverDividesByZero'
        /\ retained' = Empty \/ (config' \in Configs /\ retained' = ExpertMask(config'))
    BY <1>1, <1>2, <1>4, AddingKeeps
  <1> QED
    BY <1>1, <1>2, <1>4, <1>5 DEF LoadInv, LoadStages

\* A module that a sidecar names stays named while the map only grows.
LEMMA NamedStays ==
  ASSUME NEW m, NamesTarget(m), sidecarNames \subseteq DOMAIN weight_map,
         sidecarNames \subseteq sidecarNames',
         \A n \in DOMAIN weight_map : weight_map'[n] = weight_map[n]
  PROVE  NamesTarget(m)'
  BY DEF NamesTarget

\* Widths set on top of others.
LEMMA JoinedFacts ==
  ASSUME NEW f, NEW g, NEW m
  PROVE  /\ m \in DOMAIN Joined(f, g) <=> m \in DOMAIN f \/ m \in DOMAIN g
         /\ m \in DOMAIN f => Joined(f, g)[m] = f[m]
         /\ m \notin DOMAIN f /\ m \in DOMAIN g => Joined(f, g)[m] = g[m]
  BY DEF Joined

\* A width that is set for other modules only leaves this one's alone.
LEMMA WidthKept ==
  ASSUME NEW m, NEW S, NEW f, DOMAIN f = S, m \notin S, SameWidth(m),
         config' = config, overrides' = Joined(f, overrides)
  PROVE  SameWidth(m)'
  <1>1. m \in DOMAIN overrides' <=> m \in DOMAIN overrides
    BY JoinedFacts
  <1>2. m \in DOMAIN overrides => overrides'[m] = overrides[m]
    BY JoinedFacts
  <1> QED BY <1>1, <1>2 DEF SameWidth

LEMMA ReadMtpStep == ASSUME LoadInv, ReadMtp PROVE LoadInv'
  <1>1. /\ loadStage = "mtp" /\ UNCHANGED <<config, retained, indexed>>
        /\ overrides = config.overrides /\ sidecarNames \subseteq DOMAIN weight_map
    BY DEF ReadMtp, LoadInv
  <1>2. \A m : SameWidth(m)
    BY <1>1 DEF SameWidth
  <1>3. CASE loadStage' \in {"done", "refused"} /\ UNCHANGED <<weight_map, overrides, sidecarNames>>
    <2>1. /\ SidecarsOnlyAdd' /\ NeverDividesByZero'
          /\ retained' = Empty \/ (config' \in Configs /\ retained' = ExpertMask(config'))
      BY <1>1, <1>3, AddingKeeps
    <2>2. WidthsOf'
      BY <1>1, <1>2, <1>3 DEF WidthsOf, SameWidth
    <2> QED BY <1>1, <1>3, <2>1, <2>2 DEF LoadInv, LoadStages
  <1>4. ASSUME NEW names \in MtpFiles, Added(names, "mtp", "head"),
               overrides' = ScalesOverrides(names), sidecarNames' = sidecarNames \cup names
        PROVE  LoadInv'
    <2>1. /\ DOMAIN weight_map \subseteq DOMAIN weight_map'
          /\ \A n \in DOMAIN weight_map : weight_map'[n] = weight_map[n]
          /\ loadStage' \in {"head", "refused"}
          /\ loadStage' # "refused" =>
               names \subseteq DOMAIN weight_map' /\ \A n \in names : weight_map'[n] = "mtp"
      BY <1>4, AddedFacts
    <2>2. /\ SidecarsOnlyAdd' /\ NeverDividesByZero'
          /\ retained' = Empty \/ (config' \in Configs /\ retained' = ExpertMask(config'))
      BY <1>1, <2>1, AddingKeeps
    <2> DEFINE S == {[wrapped |-> n.wrapped, module |-> n.module] :
                       n \in {x \in names : x.field = "scales"}}
               f == [m \in S |-> Q6]
    <2>3. DOMAIN f = S /\ overrides' = Joined(f, overrides)
      BY <1>4 DEF ScalesOverrides
    <2>4. \A m \in S : \E n \in names : n.field = "scales" /\ m.wrapped = n.wrapped
                                         /\ m.module = n.module
      OBVIOUS
    <2> HIDE DEF S, f
    <2>5. ASSUME loadStage' # "refused", NEW n \in DOMAIN indexed
          PROVE  \/ SameWidth(ModuleOf(n))' /\ SameWidth(Flat(ModuleOf(n)))'
                 \/ NamesTarget(ModuleOf(n))'
      <3> DEFINE m == ModuleOf(n)
                 k == Flat(ModuleOf(n))
      <3>1. m.wrapped = n.wrapped /\ m.module = n.module /\ k.wrapped = FALSE /\ k.module = n.module
        BY DEF ModuleOf, Flat
      <3> HIDE DEF m, k
      <3>2. CASE m \in S \/ k \in S
        <4>1. PICK x \in names : x.field = "scales" /\ x.module = n.module
                                  /\ (x.wrapped = n.wrapped \/ x.wrapped = FALSE)
          BY <2>4, <3>1, <3>2
        <4>2. x \in sidecarNames' /\ weight_map'[x] = "mtp"
          BY <1>4, <2>1, <2>5
        <4>3. x.wrapped => m.wrapped
          BY <3>1, <4>1
        <4>4. NamesTarget(m)'
          BY <3>1, <4>1, <4>2, <4>3 DEF NamesTarget
        <4> QED BY <4>4 DEF m
      <3>3. CASE m \notin S /\ k \notin S
        <4>1. SameWidth(m)' /\ SameWidth(k)'
          BY <1>1, <1>2, <2>3, <3>3, WidthKept
        <4> QED BY <4>1 DEF m, k
      <3> QED BY <3>2, <3>3
    <2>6. loadStage' # "refused" => WidthsOf'
      BY <1>1, <2>5 DEF WidthsOf
    <2> QED
      BY <1>1, <1>4, <2>1, <2>2, <2>6 DEF LoadInv, LoadStages
  <1>5. CASE loadStage' = "refused" /\ UNCHANGED <<weight_map, overrides, sidecarNames>>
    BY <1>3, <1>5
  <1> QED
    BY <1>3, <1>4, <1>5 DEF ReadMtp

LEMMA ReadHeadStep == ASSUME LoadInv, ReadHead PROVE LoadInv'
  <1>1. /\ loadStage = "head" /\ UNCHANGED <<config, retained, indexed>>
        /\ WidthsOf /\ sidecarNames \subseteq DOMAIN weight_map
    BY DEF ReadHead, LoadInv
  <1>2. CASE loadStage' \in {"done", "refused"} /\ UNCHANGED <<weight_map, overrides, sidecarNames>>
    <2>1. /\ SidecarsOnlyAdd' /\ NeverDividesByZero'
          /\ retained' = Empty \/ (config' \in Configs /\ retained' = ExpertMask(config'))
      BY <1>1, <1>2, AddingKeeps
    <2>2. WidthsOf'
      BY <1>1, <1>2 DEF WidthsOf, SameWidth, NamesTarget
    <2> QED BY <1>1, <1>2, <2>1, <2>2 DEF LoadInv, LoadStages
  <1>3. ASSUME NEW names \in HeadFiles, Added(names, "head", "done"),
               overrides' = Joined([m \in {[wrapped |-> FALSE, module |-> "mtp_lm_head"]} |-> Q4],
                                   overrides),
               sidecarNames' = sidecarNames \cup names
        PROVE  LoadInv'
    <2>1. /\ DOMAIN weight_map \subseteq DOMAIN weight_map'
          /\ \A n \in DOMAIN weight_map : weight_map'[n] = weight_map[n]
          /\ loadStage' \in {"done", "refused"}
          /\ loadStage' # "refused" => names \subseteq DOMAIN weight_map'
      BY <1>3, AddedFacts
    <2>2. /\ SidecarsOnlyAdd' /\ NeverDividesByZero'
          /\ retained' = Empty \/ (config' \in Configs /\ retained' = ExpertMask(config'))
      BY <1>1, <2>1, AddingKeeps
    <2> DEFINE S == {[wrapped |-> FALSE, module |-> "mtp_lm_head"]}
               f == [m \in S |-> Q4]
    <2>3. DOMAIN f = S /\ overrides' = Joined(f, overrides) /\ \A m \in S : m.module = "mtp_lm_head"
      BY <1>3
    <2> HIDE DEF S, f
    <2>4. ASSUME NEW n \in DOMAIN indexed
          PROVE  \/ SameWidth(ModuleOf(n))' /\ SameWidth(Flat(ModuleOf(n)))'
                 \/ NamesTarget(ModuleOf(n))'
      <3> DEFINE m == ModuleOf(n)
                 k == Flat(ModuleOf(n))
      <3>1. m.module = n.module /\ k.module = n.module
        BY DEF ModuleOf, Flat
      <3>2. (SameWidth(m) /\ SameWidth(k)) \/ NamesTarget(m)
        BY <1>1 DEF WidthsOf
      <3> HIDE DEF m, k
      <3>3. CASE n.module = "mtp_lm_head"
        <4>1. NamesTarget(m)'
          BY <3>1, <3>3 DEF NamesTarget
        <4> QED BY <4>1 DEF m
      <3>4. CASE NamesTarget(m)
        <4>1. NamesTarget(m)'
          BY <1>1, <1>3, <2>1, <3>4, NamedStays
        <4> QED BY <4>1 DEF m
      <3>5. CASE n.module # "mtp_lm_head" /\ SameWidth(m) /\ SameWidth(k)
        <4>1. m \notin S /\ k \notin S
          BY <2>3, <3>1, <3>5
        <4>2. SameWidth(m)' /\ SameWidth(k)'
          BY <1>1, <2>3, <3>5, <4>1, WidthKept
        <4> QED BY <4>2 DEF m, k
      <3> QED BY <3>2, <3>3, <3>4, <3>5
    <2>5. WidthsOf'
      BY <1>1, <2>4 DEF WidthsOf
    <2> QED
      BY <1>1, <1>3, <2>1, <2>2, <2>5 DEF LoadInv, LoadStages
  <1> QED
    BY <1>2, <1>3 DEF ReadHead

LEMMA LoadKept ==
  ASSUME LoadInv, UNCHANGED <<loaded, loadStage>>
  PROVE  LoadInv'
  <1>1. WidthsOf => WidthsOf'
    BY DEF WidthsOf, SameWidth, NamesTarget, loaded
  <1>2. SidecarsOnlyAdd' /\ NeverDividesByZero'
    BY DEF LoadInv, SidecarsOnlyAdd, NeverDividesByZero, PairWithoutHeads, loaded
  <1> QED
    BY <1>1, <1>2 DEF LoadInv, loaded

LEMMA LoadInductive == ManifestSpec => []LoadInv
  <1>1. ASSUME LoadInv, [ManifestNext]_manifestVars PROVE LoadInv'
    <2>1. CASE \E t \in StoreThreads : Lookup(t) \/ OpenShard(t) \/ InsertShard(t) \/ ReturnView(t)
      BY <1>1, <2>1, LoadKept DEF Lookup, OpenShard, InsertShard, ReturnView
    <2>2. CASE UNCHANGED manifestVars
      BY <1>1, <2>2, LoadKept DEF manifestVars, loaded
    <2> QED
      BY <1>1, <2>1, <2>2, ReadConfigStep, ReadIndexStep, ReadQmetaStep, ReadMtpStep,
         ReadHeadStep DEF ManifestNext
  <1> QED
    BY LoadInit, <1>1, PTL DEF ManifestSpec

\* Whatever config.json, index and sidecars hold: an accepted checkpoint keeps
\* its tensors and widths, its masks are usable, and only a pair without heads
\* divides by zero (ModelManifest::load).
THEOREM LoadsFaithfully == ManifestSpec => []ManifestFaithful
  <1>1. ASSUME LoadInv PROVE ManifestFaithful
    <2>1. TargetQuantization
      <3>1. SUFFICES ASSUME loadStage = "done", NEW n \in DOMAIN indexed
                     PROVE  \/ quantization_for(overrides, ModuleOf(n))
                                 = quantization_for(config.overrides, ModuleOf(n))
                            \/ NamesTarget(ModuleOf(n))
        BY DEF TargetQuantization, ModuleOf
      <3>2. \/ SameWidth(ModuleOf(n)) /\ SameWidth(Flat(ModuleOf(n)))
            \/ NamesTarget(ModuleOf(n))
        BY <1>1, <3>1 DEF LoadInv, WidthsOf
      <3> QED BY <3>2 DEF SameWidth, quantization_for
    <2>2. RetainedUsable
      <3>1. SUFFICES ASSUME ~SpelledTwice, NEW l \in DOMAIN retained, retained[l] # <<>>
                     PROVE  Usable(config, retained[l])
        BY DEF RetainedUsable, Usable
      <3>2. config \in Configs /\ retained = ExpertMask(config)
        BY <1>1, <3>1 DEF LoadInv, Empty
      <3>3. SpelledOnce(config)
        BY <3>1 DEF SpelledTwice, SpelledOnce
      <3> QED BY <3>1, <3>2, <3>3, MaskUsable
    <2> QED
      BY <1>1, <2>1, <2>2 DEF LoadInv, ManifestFaithful
  <1> QED
    BY LoadInductive, <1>1, PTL

-----------------------------------------------------------------------------
(* The persistent backend.  What its buffers hold of a context, and what   *)
(* is on its way to them while a step is encoded and run.                  *)

Row == [of : Int, at : Int]
Block == [rows : Seq(Row), rotated : Int]

\* The slabs of an attention layer hold a context.  Beyond it they may hold
\* anything.
SlabHolds(s, rows, base, cold) ==
  /\ s = [cold |-> s.cold, hot |-> s.hot, pending |-> s.pending, pooled |-> s.pooled]
  /\ s.cold = SubSeq(KeysOf(rows, base), 1, cold)
  /\ s.hot = [i \in 0..(HotCapacity - 1) |-> s.hot[i]]
  /\ \A i \in 0..(Len(rows) - cold - 1) :
       s.hot[i] = Keyed(rows[cold + i + 1], base + cold + i)
  /\ s.pending = [i \in 0..(Compress - 1) |-> s.pending[i]]
  /\ \A i \in 0..((Len(rows) % Compress) - 1) :
       s.pending[i] = rows[Len(rows) - (Len(rows) % Compress) + i + 1]
  /\ s.pooled \in Seq(Block)
  /\ Len(rows) \div Compress <= Len(s.pooled)
  /\ \A b \in 0..((Len(rows) \div Compress) - 1) :
       s.pooled[b + 1] = PoolOf(rows, base, b)

CountsOf(n, base, cold) ==
  [token_count |-> n, position_base |-> base, cold_count |-> cold]

\* All layers hold a context, and the host counts its rows.
Context(rows, base, cold) ==
  /\ counts = [l \in Attention |-> CountsOf(Len(rows), base, cold)]
  /\ gdn = [l \in Linear |-> rows]
  /\ \A l \in Attention : SlabHolds(slabs[l], rows, base, cold)
  /\ ngram = rows /\ pleRows = rows

\* There is room for one more row.
RoomAfter(n, base, cold) ==
  /\ cold <= n /\ n - cold < HotCapacity
  /\ n < ContextLimit /\ base < PositionLimit - n

\* The context that a step begins with.
Prior == IF step.reset THEN <<>>
         ELSE [i \in 1..(request.rows - 1) |-> [of |-> request.id, at |-> i]]
PriorBase == IF step.reset THEN 0 ELSE request.base
PriorCold == IF step.reset THEN 0 ELSE request.cold
Posterior == Append(Prior, step.token)

\* The operation of a layer, whenever it is encoded within the step.
OpAt(l, last) ==
  IF l \in Linear THEN [layer |-> l, token |-> step.token, last |-> last]
  ELSE [layer |-> l, token |-> step.token, last |-> last,
        hot |-> Len(Prior) - PriorCold, slot |-> Len(Prior) % Compress,
        block |-> Len(Prior) \div Compress,
        complete |-> (Len(Prior) + 1) \div Compress > Len(Prior) \div Compress]
Ops == {OpAt(l, last) : l \in AllLayers, last \in BOOLEAN}

GpuHolds(l, rows) ==
  IF l \in Linear THEN gdn[l] = rows
  ELSE SlabHolds(slabs[l], rows, PriorBase, PriorCold)

RequestTyped ==
  /\ sharing \in BOOLEAN /\ prepared \in BOOLEAN /\ fresh \in BOOLEAN
  /\ broken \in BOOLEAN
  /\ group \in 1..LayerCount
  /\ request \in [id : Nat, rows : Nat, cold : Nat, base : Nat, steps : Nat]
  /\ request.cold <= request.rows
  /\ slabs = [l \in Attention |-> slabs[l]]
  /\ \A l \in Attention : slabs[l].pooled \in Seq(Block)
  /\ fresh => request.rows = 0 /\ request.base = 0 /\ request.steps = 0

\* The step is one of the request, or the one that warms the weights up.
StepTyped ==
  phase \in {"start", "encode", "wait", "drain"} =>
    /\ step = [token |-> step.token, reset |-> step.reset, then |-> step.then]
    /\ step.reset \in BOOLEAN /\ step.then \in {"import", "ready"}
    /\ step.token \in Row
    /\ ~step.reset => request.rows >= 1 /\ request.cold <= request.rows - 1
    /\ \/ step.reset /\ step.then = "import" /\ ~fresh
       \/ step.reset /\ step.then = "ready" /\ fresh
       \/ /\ step.then = "ready" /\ ~fresh
          /\ step.token = [of |-> request.id, at |-> request.rows]
          /\ step.reset => request.rows = 1 /\ request.base = 0 /\ request.cold = 0

\* Outside a step the layers hold the context.
Settled ==
  /\ phase = "ready" /\ ~fresh =>
       /\ Context(Rows(request), request.base, request.cold)
       /\ request.rows - request.cold <= HotCapacity
  /\ phase = "start" /\ ~step.reset =>
       /\ Context(Prior, PriorBase, PriorCold)
       /\ RoomAfter(Len(Prior), PriorBase, PriorCold)

\* The host's side of a step: the layers before the next one are counted.
HostAhead ==
  phase \in {"encode", "wait"} =>
    /\ phase = "wait" => layer = LayerCount /\ open = <<>>
    /\ counts = [l \in Attention |->
         CountsOf(Len(Prior) + (IF l < layer THEN 1 ELSE 0), PriorBase, PriorCold)]
    /\ ngram = IF PleLayer < layer THEN Posterior ELSE Prior
    /\ RoomAfter(Len(Prior), PriorBase, PriorCold)

\* Operations in the order of their layers, one for each from a layer on.
Runs(ops, from) == \A i \in 1..Len(ops) : ops[i].layer = from + i - 1

\* What the operations of the layers before next will read.
TablesReady(next) ==
  /\ tables = [rope |-> tables.rope, pool |-> tables.pool, embedding |-> tables.embedding]
  /\ \A l \in Attention : l < next =>
       /\ tables.rope = PriorBase + Len(Prior)
       /\ tables.pool = PriorBase + (Len(Prior) \div Compress) * Compress
  /\ PleLayer < next => tables.embedding = step.token

\* The GPU's side: the layers from due on still hold what the step began
\* with, the queue has their operations in order, and the host's tables say
\* what these operations will read.
GpuBehind(due) ==
  /\ due \in 0..LayerCount /\ layer \in 0..LayerCount
  /\ queue \in Seq(Ops) /\ Runs(queue, due)
  /\ open \in Seq(Ops) /\ Runs(open, due + Len(queue))
  /\ queue # <<>> => queue[Len(queue)].last
  /\ due + Len(queue) + Len(open) <= layer
  /\ phase # "drain" => due + Len(queue) + Len(open) = layer
  /\ Len(Prior) - PriorCold < HotCapacity
  /\ gdn = [l \in Linear |-> gdn[l]]
  /\ \A l \in AllLayers : due <= l => GpuHolds(l, Prior)
  /\ ~broken => \A l \in AllLayers : l < due => GpuHolds(l, Posterior)
  /\ due <= PleLayer => pleRows = Prior
  /\ ~broken /\ PleLayer < due => pleRows = Posterior
  /\ TablesReady(layer)

GpuRuns == phase \in {"encode", "wait", "drain"} => \E due \in 0..LayerCount : GpuBehind(due)

\* The end of a request, and what it has handed over.
Leaving ==
  /\ GpuQuiet /\ CapacityNeverThrows
  /\ sharing /\ phase \in {"import", "ready", "start", "encode", "wait"} => prepared
  /\ handed # NoState =>
       /\ phase \in {"mlx", "idle"}
       /\ handed = Image(Rows(request), request.base, request.cold)
  /\ tables = [rope |-> tables.rope, pool |-> tables.pool, embedding |-> tables.embedding]

SessionInv ==
  RequestTyped /\ StepTyped /\ Settled /\ HostAhead /\ GpuRuns /\ Leaving

LEMMA ModOf ==
  ASSUME NEW c \in Nat \ {0}, NEW n \in Nat, NEW q \in Nat, NEW r \in 0..(c - 1),
         n = c * q + r
  PROVE  n % c = r
  OBVIOUS

LEMMA DivParts ==
  ASSUME NEW c \in Nat \ {0}, NEW n \in Nat
  PROVE  /\ n \div c \in Nat /\ n % c \in 0..(c - 1)
         /\ n = (n \div c) * c + (n % c)
<1> DEFINE q == n \div c
           r == n - c * q
<1>1. q \in Nat
  OBVIOUS
<1>2. r \in 0..(c - 1)
  OBVIOUS
<1> HIDE DEF q
<1>3. n = c * q + r
  BY <1>1
<1> HIDE DEF r
<1>4. n % c = r
  BY <1>1, <1>2, <1>3, ModOf
<1>5. n = q * c + r
  BY <1>1, <1>2, <1>3
<1> QED
  BY <1>1, <1>2, <1>4, <1>5 DEF q

LEMMA Product == ASSUME NEW c \in Nat \ {0}, NEW d \in Int, d >= 1 PROVE d * c >= c
  OBVIOUS

LEMMA DivUnique ==
  ASSUME NEW c \in Nat \ {0}, NEW q \in Nat, NEW r \in 0..(c - 1), NEW n \in Nat, n = q * c + r
  PROVE  n \div c = q /\ n % c = r
<1> DEFINE p == n \div c
           t == n % c
<1>1. p \in Nat /\ t \in 0..(c-1) /\ n = p * c + t
  BY DivParts
<1> HIDE DEF p, t
<1>2. (p - q) * c = r - t
  BY <1>1
<1>3. ~ (p - q >= 1)
  <2> SUFFICES ASSUME p - q >= 1 PROVE FALSE
    OBVIOUS
  <2>1. (p - q) * c >= c
    BY <1>1, Product
  <2> QED
    BY <1>1, <1>2, <2>1
<1>4. ~ (q - p >= 1)
  <2> SUFFICES ASSUME q - p >= 1 PROVE FALSE
    OBVIOUS
  <2>1. (q - p) * c >= c
    BY <1>1, Product
  <2>2. (q - p) * c = t - r
    BY <1>1
  <2> QED
    BY <1>1, <2>1, <2>2
<1>5. p = q
  BY <1>1, <1>3, <1>4
<1> QED
  BY <1>1, <1>5 DEF p, t

LEMMA DivNext ==
  ASSUME NEW c \in Nat \ {0}, NEW n \in Nat
  PROVE  \/ n % c = c - 1 /\ (n + 1) % c = 0 /\ (n + 1) \div c = n \div c + 1
         \/ n % c < c - 1 /\ (n + 1) % c = (n % c) + 1 /\ (n + 1) \div c = n \div c
<1> DEFINE q == n \div c
           r == n % c
<1>1. q \in Nat /\ r \in 0..(c - 1) /\ n = q * c + r
  BY DivParts
<1> HIDE DEF q, r
<1>2. CASE r = c - 1
  <2>1. n + 1 = (q + 1) * c + 0
    BY <1>1, <1>2
  <2>2. (n + 1) \div c = q + 1 /\ (n + 1) % c = 0
    BY <1>1, <2>1, DivUnique
  <2> QED
    BY <1>2, <2>2 DEF q, r
<1>3. CASE r < c - 1
  <2>1. n + 1 = q * c + (r + 1) /\ r + 1 \in 0..(c - 1)
    BY <1>1, <1>3
  <2>2. (n + 1) \div c = q /\ (n + 1) % c = r + 1
    BY <1>1, <2>1, DivUnique
  <2> QED
    BY <1>3, <2>2 DEF q, r
<1> QED
  BY <1>1, <1>2, <1>3

LEMMA DivZero == ASSUME NEW c \in Nat \ {0} PROVE 0 \div c = 0 /\ 0 % c = 0
  OBVIOUS

LEMMA SessionNumbers ==
  /\ LayerCount \in Nat \ {0} /\ Period \in Nat /\ 2 <= Period /\ Period <= LayerCount
  /\ PleLayer \in AllLayers
  /\ Compress \in Nat \ {0} /\ HotCapacity \in Nat \ {0}
  /\ ContextLimit \in Nat \ {0} /\ PositionLimit \in Nat \ {0}
  /\ GroupSizes \subseteq 1..LayerCount
  BY SessionAssumption DEF AllLayers

LEMMA AttentionLayers == Attention \subseteq AllLayers /\ Linear \subseteq AllLayers
  BY DEF Attention, Linear

LEMMA FirstAttends == First \in Attention
<1>1. First \in AllLayers /\ First = Period * 0 + First /\ First \in 0..(Period - 1)
  BY SessionNumbers DEF First, AllLayers
<1>2. First % Period = Period - 1
  BY <1>1, SessionNumbers, ModOf DEF First
<1> QED
  BY <1>1, <1>2 DEF Attention

LEMMA KeysFacts ==
  ASSUME NEW rows \in Seq(Row), NEW base \in Nat
  PROVE  /\ DOMAIN KeysOf(rows, base) = 1..Len(rows)
         /\ KeysOf(rows, base) \in Seq([of : Int, at : Int, rotated : Int])
         /\ Len(KeysOf(rows, base)) = Len(rows)
         /\ \A i \in 1..Len(rows) :
              KeysOf(rows, base)[i] = Keyed(rows[i], base + i - 1)
<1>1. \A i \in 1..Len(rows) :
        Keyed(rows[i], base + i - 1) \in [of : Int, at : Int, rotated : Int]
  <2> TAKE i \in 1..Len(rows)
  <2>1. rows[i] \in Row /\ base + i - 1 \in Int
    OBVIOUS
  <2> QED
    BY <2>1 DEF Keyed, Row
<1> QED
  BY <1>1 DEF KeysOf

\* The keys of a context do not change when it grows.
LEMMA KeysGrow ==
  ASSUME NEW rows \in Seq(Row), NEW token \in Row, NEW base \in Nat,
         NEW cold \in 0..Len(rows)
  PROVE  SubSeq(KeysOf(Append(rows, token), base), 1, cold)
           = SubSeq(KeysOf(rows, base), 1, cold)
<1> DEFINE more == Append(rows, token)
<1>1. more \in Seq(Row) /\ Len(more) = Len(rows) + 1
      /\ \A i \in 1..Len(rows) : more[i] = rows[i]
  OBVIOUS
<1> HIDE DEF more
<1>2. \A i \in 1..cold : KeysOf(more, base)[i] = KeysOf(rows, base)[i]
  <2> TAKE i \in 1..cold
  <2>1. i \in 1..Len(rows) /\ i \in 1..Len(more)
    BY <1>1
  <2>2. KeysOf(more, base)[i] = Keyed(more[i], base + i - 1)
    BY <1>1, <2>1, KeysFacts
  <2>3. KeysOf(rows, base)[i] = Keyed(rows[i], base + i - 1)
    BY <2>1, KeysFacts
  <2> QED
    BY <1>1, <2>1, <2>2, <2>3
<1>3. KeysOf(more, base) \in Seq([of : Int, at : Int, rotated : Int])
      /\ KeysOf(rows, base) \in Seq([of : Int, at : Int, rotated : Int])
      /\ Len(KeysOf(more, base)) = Len(rows) + 1 /\ Len(KeysOf(rows, base)) = Len(rows)
  BY <1>1, KeysFacts
<1>4. SubSeq(KeysOf(more, base), 1, cold) = SubSeq(KeysOf(rows, base), 1, cold)
  BY <1>2, <1>3
<1> QED
  BY <1>4 DEF more

LEMMA PoolFacts ==
  ASSUME NEW rows \in Seq(Row), NEW base \in Nat, NEW b \in Nat,
         (b + 1) * Compress <= Len(rows)
  PROVE  /\ PoolOf(rows, base, b) \in Block
         /\ PoolOf(rows, base, b).rotated = base + b * Compress
         /\ PoolOf(rows, base, b).rows
              = [i \in 1..Compress |-> rows[b * Compress + i]]
<1> DEFINE from == b * Compress
<1>1. from \in Nat /\ (b + 1) * Compress = from + Compress
  BY SessionNumbers
<1> HIDE DEF from
<1>2. SubSeq(rows, from + 1, from + Compress) = [i \in 1..Compress |-> rows[from + i]]
  BY <1>1, SessionNumbers
<1>3. SubSeq(rows, from + 1, from + Compress) \in Seq(Row)
  BY <1>1, SessionNumbers
<1>4. PoolOf(rows, base, b)
        = [rows |-> SubSeq(rows, from + 1, from + Compress), rotated |-> base + from]
  BY <1>1 DEF PoolOf, from
<1> QED
  BY <1>1, <1>2, <1>3, <1>4 DEF Block, from

LEMMA PoolGrows ==
  ASSUME NEW rows \in Seq(Row), NEW token \in Row, NEW base \in Nat, NEW b \in Nat,
         (b + 1) * Compress <= Len(rows)
  PROVE  PoolOf(Append(rows, token), base, b) = PoolOf(rows, base, b)
<1> DEFINE from == b * Compress
           more == Append(rows, token)
<1>1. from \in Nat /\ (b + 1) * Compress = from + Compress
  BY SessionNumbers
<1>2. more \in Seq(Row) /\ Len(more) = Len(rows) + 1
      /\ \A i \in 1..Len(rows) : more[i] = rows[i]
  OBVIOUS
<1> HIDE DEF from, more
<1>3. SubSeq(rows, from + 1, from + Compress) = [i \in 1..Compress |-> rows[from + i]]
  BY <1>1, SessionNumbers
<1>4. SubSeq(more, from + 1, from + Compress) = [i \in 1..Compress |-> more[from + i]]
  BY <1>1, <1>2, SessionNumbers
<1>5. [i \in 1..Compress |-> more[from + i]] = [i \in 1..Compress |-> rows[from + i]]
  BY <1>1, <1>2, SessionNumbers
<1>6. SubSeq(more, from + 1, from + Compress) = SubSeq(rows, from + 1, from + Compress)
  BY <1>3, <1>4, <1>5
<1>7. PoolOf(more, base, b)
        = [rows |-> SubSeq(more, from + 1, from + Compress), rotated |-> base + from]
  BY <1>1 DEF PoolOf, from
<1>8. PoolOf(rows, base, b)
        = [rows |-> SubSeq(rows, from + 1, from + Compress), rotated |-> base + from]
  BY <1>1 DEF PoolOf, from
<1> QED
  BY <1>6, <1>7, <1>8 DEF more

LEMMA PoolUpdate ==
  ASSUME NEW s, NEW cold, NEW hot, NEW pending, NEW old, NEW pooled,
         s = [cold |-> cold, hot |-> hot, pending |-> pending, pooled |-> old]
  PROVE  [s EXCEPT !.pooled = pooled]
           = [cold |-> cold, hot |-> hot, pending |-> pending, pooled |-> pooled]
  OBVIOUS

LEMMA ProductMonotone ==
  ASSUME NEW c \in Nat, NEW a \in Nat, NEW b \in Nat, a <= b
  PROVE  a * c <= b * c
  OBVIOUS

LEMMA ClearedHolds ==
  ASSUME NEW s, s.pooled \in Seq(Block)
  PROVE  SlabHolds(Cleared(s), <<>>, 0, 0)
<1> DEFINE t == Cleared(s)
<1>1. t = [cold |-> <<>>, hot |-> [i \in 0..(HotCapacity - 1) |-> Nothing],
           pending |-> [i \in 0..(Compress - 1) |-> Nothing], pooled |-> s.pooled]
  <2> DEFINE hot == [i \in 0..(HotCapacity - 1) |-> Nothing]
             pending == [i \in 0..(Compress - 1) |-> Nothing]
  <2>1. EmptySlabs = [cold |-> <<>>, hot |-> hot, pending |-> pending, pooled |-> <<>>]
    BY DEF EmptySlabs
  <2> HIDE DEF hot, pending
  <2>2. [EmptySlabs EXCEPT !.pooled = s.pooled]
          = [cold |-> <<>>, hot |-> hot, pending |-> pending, pooled |-> s.pooled]
    BY <2>1, PoolUpdate
  <2> QED
    BY <2>2 DEF Cleared, hot, pending
<1> HIDE DEF t
<1>2. /\ t = [cold |-> t.cold, hot |-> t.hot, pending |-> t.pending, pooled |-> t.pooled]
      /\ t.cold = <<>> /\ t.pooled = s.pooled
      /\ t.hot = [i \in 0..(HotCapacity - 1) |-> t.hot[i]]
      /\ t.pending = [i \in 0..(Compress - 1) |-> t.pending[i]]
  BY <1>1
<1>3. <<>> \in Seq(Row) /\ Len(<<>>) = 0
  OBVIOUS
<1>4. SubSeq(KeysOf(<<>>, 0), 1, 0) = <<>>
  BY <1>3, KeysFacts
<1>5. 0 \div Compress = 0 /\ 0 % Compress = 0
  BY SessionNumbers, DivZero
<1>6. Len(s.pooled) \in Nat
  OBVIOUS
<1>7. SlabHolds(t, <<>>, 0, 0)
  BY <1>2, <1>3, <1>4, <1>5, <1>6 DEF SlabHolds
<1> QED
  BY <1>7 DEF t

\* Where an operation writes, and what the tables say of its row.
Places(op, n, cold) ==
  /\ op.hot = n - cold /\ op.slot = n % Compress /\ op.block = n \div Compress
  /\ op.complete <=> (n + 1) \div Compress > n \div Compress
TablesAt(n, base) ==
  /\ tables.rope = base + n
  /\ tables.pool = base + (n \div Compress) * Compress

\* Appending a row to the slabs of a context, the tables being those of the
\* position: only the row's own places change.
LEMMA AppendedHolds ==
  ASSUME NEW s, NEW rows \in Seq(Row), NEW base \in Nat, NEW cold \in 0..Len(rows),
         NEW op, op.token \in Row,
         SlabHolds(s, rows, base, cold),
         Len(rows) - cold < HotCapacity,
         Places(op, Len(rows), cold), TablesAt(Len(rows), base)
  PROVE  SlabHolds(Appended(s, op), Append(rows, op.token), base, cold)
<1> DEFINE more == Append(rows, op.token)
           n == Len(rows)
           q == n \div Compress
           r == n % Compress
           t == Appended(s, op)
           pending == [s.pending EXCEPT ![op.slot] = op.token]
           block == [rows |-> Taken(pending, Compress), rotated |-> tables.pool]
           key == Keyed(op.token, tables.rope)
           k == (n + 1) \div Compress
           m == (n + 1) % Compress
<1>1. /\ n \in Nat /\ more \in Seq(Row) /\ Len(more) = n + 1
      /\ \A i \in 1..n : more[i] = rows[i]
      /\ more[n + 1] = op.token
  OBVIOUS
<1>2. /\ q \in Nat /\ r \in 0..(Compress - 1) /\ n = q * Compress + r
      /\ \/ r = Compress - 1 /\ m = 0 /\ k = q + 1
         \/ r < Compress - 1 /\ m = r + 1 /\ k = q
  BY <1>1, SessionNumbers, DivParts, DivNext
<1>3. /\ op.hot = n - cold /\ op.slot = r /\ op.block = q
      /\ op.complete <=> k > q
      /\ tables.rope = base + n /\ tables.pool = base + q * Compress
  BY DEF Places, TablesAt
<1>4. /\ s = [cold |-> s.cold, hot |-> s.hot, pending |-> s.pending, pooled |-> s.pooled]
      /\ s.cold = SubSeq(KeysOf(rows, base), 1, cold)
      /\ s.hot = [i \in 0..(HotCapacity - 1) |-> s.hot[i]]
      /\ \A i \in 0..(n - cold - 1) : s.hot[i] = Keyed(rows[cold + i + 1], base + cold + i)
      /\ s.pending = [i \in 0..(Compress - 1) |-> s.pending[i]]
      /\ \A i \in 0..(r - 1) : s.pending[i] = rows[n - r + i + 1]
      /\ s.pooled \in Seq(Block)
      /\ q <= Len(s.pooled)
      /\ \A b \in 0..(q - 1) : s.pooled[b + 1] = PoolOf(rows, base, b)
  BY DEF SlabHolds
<1>5. t = [cold |-> s.cold, hot |-> [s.hot EXCEPT ![op.hot] = key], pending |-> pending,
           pooled |-> IF op.complete
                      THEN SubSeq(s.pooled, 1, op.block) \o <<block>>
                             \o SubSeq(s.pooled, op.block + 2, Len(s.pooled))
                      ELSE s.pooled]
  BY DEF Appended
<1>6. SubSeq(KeysOf(more, base), 1, cold) = SubSeq(KeysOf(rows, base), 1, cold)
  BY KeysGrow
<1>7. \A b \in 0..(q - 1) : PoolOf(more, base, b) = PoolOf(rows, base, b)
  <2> TAKE b \in 0..(q - 1)
  <2> HIDE DEF n, q, r, more, k, m
  <2>1. b \in Nat /\ b + 1 \in Nat /\ b + 1 <= q /\ Compress \in Nat
    BY <1>2, SessionNumbers
  <2>2. (b + 1) * Compress <= q * Compress
    BY <1>2, <2>1, ProductMonotone
  <2>3. (b + 1) * Compress \in Nat /\ q * Compress \in Nat
    BY <1>2, <2>1
  <2>4. (b + 1) * Compress <= n
    <3> DEFINE x == (b + 1) * Compress
               y == q * Compress
    <3>1. x \in Nat /\ y \in Nat /\ x <= y /\ n = y + r /\ r \in Int /\ 0 <= r
      BY <1>2, <2>2, <2>3, SessionNumbers
    <3> HIDE DEF x, y
    <3>2. x <= n
      BY <3>1
    <3> QED
      BY <3>2 DEF x
  <2>5. (b + 1) * Compress <= Len(rows)
    BY <2>4 DEF n
  <2>6. PoolOf(Append(rows, op.token), base, b) = PoolOf(rows, base, b)
    BY <2>1, <2>5, PoolGrows
  <2> QED
    BY <2>6 DEF more
<1> HIDE DEF n, q, r, more, t, k, m
<1>8. t.cold = SubSeq(KeysOf(more, base), 1, cold)
  BY <1>4, <1>5, <1>6
<1>9. /\ t.hot = [i \in 0..(HotCapacity - 1) |-> t.hot[i]]
      /\ \A i \in 0..(n + 1 - cold - 1) :
           t.hot[i] = Keyed(more[cold + i + 1], base + cold + i)
  <2> DEFINE hot == [s.hot EXCEPT ![op.hot] = key]
  <2>1. op.hot \in 0..(HotCapacity - 1)
    BY <1>1, <1>3, SessionNumbers DEF n
  <2>2. /\ hot = [i \in 0..(HotCapacity - 1) |-> hot[i]]
        /\ hot[op.hot] = key
        /\ \A i \in 0..(HotCapacity - 1) : i # op.hot => hot[i] = s.hot[i]
    BY <1>4, <2>1
  <2>3. t.hot = hot
    BY <1>5
  <2> HIDE DEF hot
  <2>sizes. /\ n \in Nat /\ cold \in Nat /\ cold <= n
        /\ HotCapacity \in Nat /\ n - cold < HotCapacity
    BY <1>1, SessionNumbers DEF n
  <2>4. ASSUME NEW i \in 0..(n - cold)
        PROVE  hot[i] = Keyed(more[cold + i + 1], base + cold + i)
    <3>1. CASE i = n - cold
      <4>1. cold + i + 1 = n + 1 /\ base + cold + i = base + n
        BY <1>1, <3>1
      <4> QED
        BY <1>1, <1>3, <2>2, <3>1, <4>1
    <3>2. CASE i # n - cold
      <4>1. i \in 0..(n - cold - 1) /\ i \in 0..(HotCapacity - 1) /\ cold + i + 1 \in 1..n
        BY <2>sizes, <3>2
      <4>2. hot[i] = s.hot[i]
        BY <1>3, <2>2, <3>2, <4>1
      <4> QED
        BY <1>1, <1>4, <4>1, <4>2
    <3> QED
      BY <3>1, <3>2
  <2>5. n + 1 - cold - 1 = n - cold
    BY <1>1
  <2> QED
    BY <2>2, <2>3, <2>4, <2>5
<1>10. /\ t.pending = pending
       /\ pending = [i \in 0..(Compress - 1) |-> pending[i]]
       /\ \A i \in 0..r : pending[i] = more[n - r + i + 1]
  <2>0. t.pending = pending
    BY <1>5
  <2>1. /\ pending = [i \in 0..(Compress - 1) |-> pending[i]]
        /\ pending[r] = op.token
        /\ \A i \in 0..(Compress - 1) : i # r => pending[i] = s.pending[i]
    BY <1>2, <1>3, <1>4
  <2> HIDE DEF pending
  <2>2. ASSUME NEW i \in 0..r
        PROVE  pending[i] = more[n - r + i + 1]
    <3>1. CASE i = r
      <4>1. n - r + i + 1 = n + 1
        BY <1>1, <1>2, <3>1
      <4> QED
        BY <1>1, <2>1, <3>1, <4>1
    <3>2. CASE i # r
      <4>1. PICK whole \in Nat : n = whole + r
        BY <1>2, SessionNumbers
      <4>2. i \in 0..(r - 1) /\ i \in 0..(Compress - 1) /\ n - r + i + 1 \in 1..n
        BY <1>2, <3>2, <4>1, SessionNumbers
      <4> QED
        BY <1>1, <1>4, <2>1, <3>2, <4>2
    <3> QED
      BY <3>1, <3>2
  <2> QED
    BY <2>0, <2>1, <2>2
<1>11. /\ t.pooled \in Seq(Block)
       /\ k <= Len(t.pooled)
       /\ \A b \in 0..(k - 1) :
            t.pooled[b + 1] = PoolOf(more, base, b)
  <2>1. CASE r = Compress - 1
    <3>1. k = q + 1
      BY <1>2, <2>1, SessionNumbers
    <3>2. op.complete
      BY <1>2, <1>3, <3>1
    <3>3. (q + 1) * Compress = n + 1 /\ n - r = q * Compress /\ q * Compress \in Nat
      BY <1>2, <2>1, SessionNumbers
    <3>4. /\ PoolOf(more, base, q) \in Block
          /\ PoolOf(more, base, q).rotated = base + q * Compress
          /\ PoolOf(more, base, q).rows = [i \in 1..Compress |-> more[q * Compress + i]]
      <4>1. (q + 1) * Compress <= Len(more) /\ q \in Nat /\ more \in Seq(Row)
        BY <1>1, <1>2, <3>3
      <4> QED
        BY <4>1, PoolFacts
    <3>5. Taken(pending, Compress) = [i \in 1..Compress |-> more[q * Compress + i]]
      <4> HIDE DEF pending
      <4>1. ASSUME NEW i \in 1..Compress
            PROVE  pending[i - 1] = more[q * Compress + i]
        <5>1. i - 1 \in 0..r /\ n - r + (i - 1) + 1 = q * Compress + i
          BY <1>1, <1>2, <2>1, <3>3, SessionNumbers
        <5> QED
          BY <1>10, <5>1
      <4> QED
        BY <4>1 DEF Taken
    <3>6. block = PoolOf(more, base, q)
      <4>1. PoolOf(more, base, q)
              = [rows |-> PoolOf(more, base, q).rows, rotated |-> PoolOf(more, base, q).rotated]
        BY <3>4 DEF Block
      <4> QED
        BY <1>3, <3>4, <3>5, <4>1
    <3> HIDE DEF block, pending
    <3>7. t.pooled = SubSeq(s.pooled, 1, q) \o <<block>>
                       \o SubSeq(s.pooled, q + 2, Len(s.pooled))
      BY <1>3, <1>5, <3>2
    <3> DEFINE left == SubSeq(s.pooled, 1, q)
               right == SubSeq(s.pooled, q + 2, Len(s.pooled))
    <3>8. /\ left \in Seq(Block) /\ Len(left) = q
          /\ \A b \in 1..q : left[b] = s.pooled[b]
      BY <1>2, <1>4
    <3>9. right \in Seq(Block)
      <4>1. \A b \in (q + 2)..Len(s.pooled) : s.pooled[b] \in Block
        BY <1>2, <1>4
      <4> QED
        BY <1>2, <1>4, <4>1
    <3>10. <<block>> \in Seq(Block) /\ Len(<<block>>) = 1 /\ <<block>>[1] = block
      BY <3>4, <3>6
    <3> HIDE DEF left, right
    <3> DEFINE front == left \o <<block>>
    <3>11. /\ front \in Seq(Block) /\ Len(front) = q + 1
           /\ \A b \in 1..q : front[b] = left[b]
           /\ front[q + 1] = block
      BY <1>2, <3>8, <3>10
    <3> HIDE DEF front
    <3>12. /\ front \o right \in Seq(Block)
           /\ q + 1 <= Len(front \o right)
           /\ \A b \in 1..(q + 1) : (front \o right)[b] = front[b]
      BY <1>2, <3>9, <3>11
    <3>13. t.pooled = front \o right
      BY <3>7 DEF front, left, right
    <3>14. ASSUME NEW b \in 0..q
           PROVE  t.pooled[b + 1] = PoolOf(more, base, b)
      <4>1. t.pooled[b + 1] = front[b + 1]
        BY <1>2, <3>12, <3>13
      <4>2. CASE b = q
        BY <3>6, <3>11, <4>1, <4>2
      <4>3. CASE b # q
        <5>1. b \in 0..(q - 1) /\ b + 1 \in 1..q
          BY <1>2, <4>3
        <5> QED
          BY <1>4, <1>7, <3>8, <3>11, <4>1, <5>1
      <4> QED
        BY <4>2, <4>3
    <3>15. k - 1 = q
      BY <1>2, <3>1
    <3> QED
      BY <3>1, <3>12, <3>13, <3>14, <3>15
  <2>2. CASE r # Compress - 1
    <3>1. k = q
      BY <1>2, <2>2, SessionNumbers
    <3>2. ~op.complete
      BY <1>2, <1>3, <3>1
    <3>3. t.pooled = s.pooled
      BY <1>5, <3>2
    <3> QED
      BY <1>4, <1>7, <3>1, <3>3
  <2> QED
    BY <2>1, <2>2
<1>12. \A i \in 0..(m - 1) :
         t.pending[i] = more[n + 1 - m + i + 1]
  <2>1. CASE r = Compress - 1
    <3>1. m = 0
      BY <1>2, <2>1, SessionNumbers
    <3> QED
      BY <3>1
  <2>2. CASE r # Compress - 1
    <3>1. m = r + 1
      BY <1>2, <2>2, SessionNumbers
    <3>2. (r + 1) - 1 = r /\ n + 1 - (r + 1) = n - r
      BY <1>1, <1>2
    <3> HIDE DEF pending
    <3> QED
      BY <1>10, <3>1, <3>2
  <2> QED
    BY <2>1, <2>2
<1>13. t = [cold |-> t.cold, hot |-> t.hot, pending |-> t.pending, pooled |-> t.pooled]
  BY <1>5
<1>14. t.pending = [i \in 0..(Compress - 1) |-> t.pending[i]]
  <2> HIDE DEF pending
  <2> QED
    BY <1>10
<1> HIDE DEF pending, block, key
<1>15. SlabHolds(t, more, base, cold)
  <2>1. Len(more) = n + 1 /\ Len(more) \div Compress = k /\ Len(more) % Compress = m
    BY <1>1 DEF k, m
  <2>2. \A i \in 0..(Len(more) - cold - 1) :
          t.hot[i] = Keyed(more[cold + i + 1], base + cold + i)
    <3> TAKE i \in 0..(Len(more) - cold - 1)
    <3>1. i \in 0..(n + 1 - cold - 1)
      BY <1>1, <2>1
    <3> QED
      BY <1>9, <3>1
  <2>3. \A i \in 0..((Len(more) % Compress) - 1) :
          t.pending[i] = more[Len(more) - (Len(more) % Compress) + i + 1]
    <3> TAKE i \in 0..((Len(more) % Compress) - 1)
    <3>1. i \in 0..(m - 1)
      BY <2>1
    <3>2. t.pending[i] = more[n + 1 - m + i + 1]
      BY <1>12, <3>1
    <3>3. Len(more) - (Len(more) % Compress) + i + 1 = n + 1 - m + i + 1
      <4>1. m \in Int
        BY <1>2
      <4> QED
        BY <1>1, <2>1, <4>1
    <3> QED
      BY <3>2, <3>3
  <2>4. /\ Len(more) \div Compress <= Len(t.pooled)
        /\ \A b \in 0..((Len(more) \div Compress) - 1) :
             t.pooled[b + 1] = PoolOf(more, base, b)
    BY <1>11, <2>1
  <2> QED
    BY <1>8, <1>9, <1>11, <1>13, <1>14, <2>2, <2>3, <2>4 DEF SlabHolds
<1> QED
  BY <1>15 DEF t, more

\* What import_state writes is the context it was given.
LEMMA ImportedHolds ==
  ASSUME NEW rows \in Seq(Row), NEW base \in Nat, NEW cold \in 0..Len(rows),
         NEW l \in Attention, NEW old, old.pooled \in Seq(Block),
         Len(Image(rows, base, cold).attention[l].hot) <= HotCapacity
  PROVE  SlabHolds(ImportedSlabs(Image(rows, base, cold).attention[l], old), rows, base, cold)
<1> DEFINE a == Image(rows, base, cold).attention[l]
           t == ImportedSlabs(a, old)
           n == Len(rows)
           q == n \div Compress
           r == n % Compress
           keys == KeysOf(rows, base)
           pool == [b \in 1..q |-> PoolOf(rows, base, b - 1)]
           raw == SubSeq(rows, n - r + 1, n)
           hot == SubSeq(keys, cold + 1, n)
<1>1. /\ a.cold = SubSeq(keys, 1, cold) /\ a.hot = hot
      /\ a.raw = raw /\ a.pooled = pool
  BY DEF Image, PendingOf
<1>2. /\ t.cold = a.cold
      /\ t.hot = [i \in 0..(HotCapacity - 1) |-> IF i < Len(hot) THEN hot[i + 1] ELSE Nothing]
      /\ t.pending = [i \in 0..(Compress - 1) |-> IF i < Len(raw) THEN raw[i + 1] ELSE Nothing]
      /\ t.pooled = pool \o SubSeq(old.pooled, Len(pool) + 1, Len(old.pooled))
      /\ t = [cold |-> t.cold, hot |-> t.hot, pending |-> t.pending, pooled |-> t.pooled]
  BY <1>1 DEF ImportedSlabs, EmptySlabs, Filled, Overwritten
<1>3. n \in Nat /\ q \in Nat /\ r \in 0..(Compress - 1) /\ n = q * Compress + r
  <2>1. n \in Nat
    OBVIOUS
  <2> HIDE DEF n
  <2> QED
    BY <2>1, SessionNumbers, DivParts
<1>4. /\ keys \in Seq([of : Int, at : Int, rotated : Int]) /\ Len(keys) = n
      /\ \A i \in 1..n : keys[i] = Keyed(rows[i], base + i - 1)
  BY KeysFacts
<1>5. Len(hot) <= HotCapacity
  BY <1>1
<1> HIDE DEF a, t, q, r, keys
<1>sizes. n \in Nat /\ cold \in Nat /\ cold <= n /\ HotCapacity \in Nat
  BY <1>3, SessionNumbers
<1>6. /\ t.hot = [i \in 0..(HotCapacity - 1) |-> t.hot[i]]
      /\ \A i \in 0..(n - cold - 1) : t.hot[i] = Keyed(rows[cold + i + 1], base + cold + i)
  <2> HIDE DEF n
  <2>1. /\ Len(hot) = n - cold
        /\ \A i \in 1..(n - cold) : hot[i] = keys[cold + i]
    <3>1. hot = [i \in 1..(n - cold) |-> keys[cold + i]]
      BY <1>4, <1>sizes
    <3> HIDE DEF hot
    <3> QED
      BY <1>sizes, <3>1
  <2> HIDE DEF hot
  <2>2. \A i \in 0..(HotCapacity - 1) :
          t.hot[i] = IF i < Len(hot) THEN hot[i + 1] ELSE Nothing
    BY <1>2
  <2>3. ASSUME NEW i \in 0..(n - cold - 1)
        PROVE  t.hot[i] = Keyed(rows[cold + i + 1], base + cold + i)
    <3>1. /\ i \in 0..(HotCapacity - 1) /\ i < Len(hot)
          /\ i + 1 \in 1..(n - cold) /\ cold + (i + 1) = cold + i + 1
          /\ cold + i + 1 \in 1..n /\ base + (cold + i + 1) - 1 = base + cold + i
      <4>1. i \in Int /\ 0 <= i /\ i < n - cold
        BY <1>sizes
      <4>2. i < Len(hot) /\ i < HotCapacity
        BY <1>5, <1>sizes, <2>1, <4>1
      <4> QED
        BY <1>sizes, <4>1, <4>2
    <3>2. t.hot[i] = keys[cold + i + 1]
      BY <2>1, <2>2, <3>1
    <3> QED
      BY <1>4, <3>1, <3>2
  <2> QED
    BY <1>2, <2>3
<1>7. /\ t.pending = [i \in 0..(Compress - 1) |-> t.pending[i]]
      /\ \A i \in 0..(r - 1) : t.pending[i] = rows[n - r + i + 1]
  <2>1. PICK whole \in Nat : n = whole + r
    BY <1>3, SessionNumbers
  <2>2. /\ Len(raw) = r
        /\ \A i \in 1..r : raw[i] = rows[n - r + i]
    BY <1>3, <2>1, SessionNumbers
  <2> HIDE DEF raw, n
  <2>3. \A i \in 0..(Compress - 1) :
          t.pending[i] = IF i < Len(raw) THEN raw[i + 1] ELSE Nothing
    BY <1>2
  <2>4. ASSUME NEW i \in 0..(r - 1)
        PROVE  t.pending[i] = rows[n - r + i + 1]
    <3>1. /\ i \in 0..(Compress - 1) /\ i < Len(raw) /\ i + 1 \in 1..r
          /\ n - r + (i + 1) = n - r + i + 1
      BY <1>3, <2>2, SessionNumbers
    <3> QED
      BY <2>2, <2>3, <3>1
  <2> QED
    BY <1>2, <2>4
<1>8. /\ t.pooled \in Seq(Block) /\ q <= Len(t.pooled)
      /\ \A b \in 0..(q - 1) : t.pooled[b + 1] = PoolOf(rows, base, b)
  <2>1. \A b \in 1..q : PoolOf(rows, base, b - 1) \in Block
    <3> TAKE b \in 1..q
    <3>1. b - 1 \in Nat /\ (b - 1) + 1 = b /\ b \in Nat /\ b <= q /\ Compress \in Nat
      BY <1>3, SessionNumbers
    <3>2. b * Compress <= q * Compress
      BY <1>3, <3>1, ProductMonotone
    <3>3. b * Compress <= n
      <4> DEFINE x == b * Compress
                 y == q * Compress
      <4>1. x \in Nat /\ y \in Nat /\ x <= y /\ n = y + r /\ r \in Int /\ 0 <= r
        BY <1>3, <3>1, <3>2, SessionNumbers
      <4> HIDE DEF x, y, n
      <4>2. x <= n
        BY <4>1
      <4> QED
        BY <4>2 DEF x
    <3>4. ((b - 1) + 1) * Compress <= Len(rows)
      BY <3>1, <3>3
    <3> QED
      BY <3>1, <3>4, PoolFacts
  <2>2. pool \in Seq(Block) /\ Len(pool) = q
    BY <1>3, <2>1
  <2>3. \A b \in 1..q : pool[b] = PoolOf(rows, base, b - 1)
    OBVIOUS
  <2> DEFINE rest == SubSeq(old.pooled, Len(pool) + 1, Len(old.pooled))
  <2>4. rest \in Seq(Block)
    <3> HIDE DEF pool
    <3>1. \A b \in (Len(pool) + 1)..Len(old.pooled) : old.pooled[b] \in Block
      BY <1>3, <2>2
    <3> QED
      BY <1>3, <2>2, <3>1
  <2>5. t.pooled = pool \o rest
    BY <1>2
  <2> HIDE DEF rest, pool
  <2>6. /\ pool \o rest \in Seq(Block) /\ q <= Len(pool \o rest)
        /\ \A b \in 1..q : (pool \o rest)[b] = pool[b]
    BY <1>3, <2>2, <2>4
  <2>7. \A b \in 0..(q - 1) : b + 1 \in 1..q /\ (b + 1) - 1 = b
    BY <1>3
  <2>8. \A b \in 0..(q - 1) : t.pooled[b + 1] = PoolOf(rows, base, b)
    BY <2>3, <2>5, <2>6, <2>7
  <2> QED
    BY <2>5, <2>6, <2>8
<1> HIDE DEF pool, raw, hot
<1>9. SlabHolds(t, rows, base, cold)
  BY <1>1, <1>2, <1>6, <1>7, <1>8 DEF SlabHolds, n, q, r, keys
<1> QED
  BY <1>9 DEF t, a

\* What export_state reads of a context is the context.
LEMMA ExportedImage ==
  ASSUME NEW rows \in Seq(Row), NEW base \in Nat, NEW cold \in 0..Len(rows),
         Len(rows) - cold <= HotCapacity,
         Context(rows, base, cold)
  PROVE  export_state = Image(rows, base, cold)
<1> DEFINE n == Len(rows)
           q == n \div Compress
           r == n % Compress
           keys == KeysOf(rows, base)
           exported(l) ==
             LET c == counts[l] IN
             [token_count |-> c.token_count, position_base |-> c.position_base,
              cold |-> slabs[l].cold,
              hot |-> Taken(slabs[l].hot, HotRows(c)),
              raw |-> Taken(slabs[l].pending, c.token_count % Compress),
              pooled |-> SubSeq(slabs[l].pooled, 1, c.token_count \div Compress)]
           wanted ==
             [token_count |-> n, position_base |-> base,
              cold |-> SubSeq(keys, 1, cold),
              hot |-> SubSeq(keys, cold + 1, n),
              raw |-> PendingOf(rows),
              pooled |-> [b \in 1..q |-> PoolOf(rows, base, b - 1)]]
<1>0. n \in Nat
  OBVIOUS
<1>1. n \in Nat /\ q \in Nat /\ r \in 0..(Compress - 1) /\ n = q * Compress + r
  <2> HIDE DEF n
  <2> QED
    BY <1>0, SessionNumbers, DivParts
<1>2. /\ keys \in Seq([of : Int, at : Int, rotated : Int]) /\ Len(keys) = n
      /\ \A i \in 1..n : keys[i] = Keyed(rows[i], base + i - 1)
  BY KeysFacts
<1>3. /\ counts = [l \in Attention |-> CountsOf(n, base, cold)]
      /\ gdn = [l \in Linear |-> rows] /\ ngram = rows /\ pleRows = rows
      /\ \A l \in Attention : SlabHolds(slabs[l], rows, base, cold)
  BY DEF Context
<1>4. PICK whole \in Nat : n = whole + r
  <2> HIDE DEF n, q, r
  <2>1. q * Compress \in Nat
    BY <1>1, SessionNumbers
  <2> QED
    BY <1>1, <2>1
<1>5. ASSUME NEW l \in Attention
      PROVE  exported(l) = wanted
  <2>1. /\ counts[l].token_count = n /\ counts[l].position_base = base
        /\ HotRows(counts[l]) = n - cold
    BY <1>3 DEF CountsOf, HotRows
  <2>2. /\ slabs[l].cold = SubSeq(keys, 1, cold)
        /\ \A i \in 0..(n - cold - 1) :
             slabs[l].hot[i] = Keyed(rows[cold + i + 1], base + cold + i)
        /\ \A i \in 0..(r - 1) : slabs[l].pending[i] = rows[n - r + i + 1]
        /\ slabs[l].pooled \in Seq(Block)
        /\ q <= Len(slabs[l].pooled)
        /\ \A b \in 0..(q - 1) : slabs[l].pooled[b + 1] = PoolOf(rows, base, b)
    BY <1>3 DEF SlabHolds
  <2> HIDE DEF q, r, keys
  <2>3. Taken(slabs[l].hot, n - cold) = SubSeq(keys, cold + 1, n)
    <3>1. SubSeq(keys, cold + 1, n) = [i \in 1..(n - cold) |-> keys[cold + i]]
      BY <1>1, <1>2
    <3> HIDE DEF n
    <3>2. ASSUME NEW i \in 1..(n - cold)
          PROVE  slabs[l].hot[i - 1] = keys[cold + i]
      <4>1. /\ i - 1 \in 0..(n - cold - 1) /\ cold + (i - 1) + 1 = cold + i
            /\ cold + i \in 1..n /\ base + cold + (i - 1) = base + (cold + i) - 1
        BY <1>1 DEF n
      <4>2. slabs[l].hot[i - 1] = Keyed(rows[cold + i], base + (cold + i) - 1)
        BY <2>2, <4>1
      <4> QED
        BY <1>2, <4>1, <4>2
    <3> QED
      BY <3>1, <3>2 DEF Taken
  <2>4. Taken(slabs[l].pending, r) = PendingOf(rows)
    <3>1. PendingOf(rows) = SubSeq(rows, n - r + 1, n)
      BY DEF PendingOf, r
    <3>2. SubSeq(rows, n - r + 1, n) = [i \in 1..r |-> rows[n - r + i]]
      BY <1>1, <1>4, SessionNumbers
    <3> HIDE DEF n
    <3>3. ASSUME NEW i \in 1..r
          PROVE  slabs[l].pending[i - 1] = rows[n - r + i]
      <4>1. i - 1 \in 0..(r - 1) /\ n - r + (i - 1) + 1 = n - r + i
        BY <1>1, SessionNumbers
      <4> QED
        BY <2>2, <4>1
    <3> QED
      BY <3>1, <3>2, <3>3 DEF Taken
  <2>5. SubSeq(slabs[l].pooled, 1, q) = [b \in 1..q |-> PoolOf(rows, base, b - 1)]
    <3>1. SubSeq(slabs[l].pooled, 1, q) = [b \in 1..q |-> slabs[l].pooled[b]]
      BY <1>1, <2>2
    <3>2. ASSUME NEW b \in 1..q
          PROVE  slabs[l].pooled[b] = PoolOf(rows, base, b - 1)
      <4>1. b - 1 \in 0..(q - 1) /\ (b - 1) + 1 = b
        BY <1>1
      <4> QED
        BY <2>2, <4>1
    <3> QED
      BY <3>1, <3>2
  <2>6. counts[l].token_count % Compress = r /\ counts[l].token_count \div Compress = q
    BY <2>1 DEF q, r
  <2> QED
    BY <2>1, <2>2, <2>3, <2>4, <2>5, <2>6
<1>6. counts[First].token_count = n
  BY <1>3, FirstAttends DEF CountsOf
<1>7. export_state
        = [token_count |-> counts[First].token_count, linear |-> gdn,
           attention |-> [l \in Attention |-> exported(l)],
           ngram |-> ngram, convolution |-> pleRows]
  BY DEF export_state
<1>8. Image(rows, base, cold)
        = [token_count |-> n, linear |-> [l \in Linear |-> rows],
           attention |-> [l \in Attention |-> wanted],
           ngram |-> rows, convolution |-> rows]
  BY DEF Image
<1>9. [l \in Attention |-> exported(l)] = [l \in Attention |-> wanted]
  <2> HIDE DEF exported, wanted
  <2> QED
    BY <1>5
<1> HIDE DEF exported, wanted, n
<1> QED
  BY <1>3, <1>6, <1>7, <1>8, <1>9

LEMMA RowsFacts ==
  ASSUME NEW r, r.rows \in Nat, r.id \in Nat
  PROVE  /\ Rows(r) \in Seq(Row) /\ Len(Rows(r)) = r.rows
         /\ \A i \in 1..r.rows : Rows(r)[i] = [of |-> r.id, at |-> i]
<1>1. \A i \in 1..r.rows : [of |-> r.id, at |-> i] \in Row
  BY DEF Row
<1>2. Rows(r) = [i \in 1..r.rows |-> [of |-> r.id, at |-> i]]
  BY DEF Rows
<1> QED
  BY <1>1, <1>2

\* A step extends the context by the row of its token.
LEMMA PriorFacts ==
  ASSUME RequestTyped, StepTyped, phase \in {"start", "encode", "wait", "drain"}
  PROVE  /\ Prior \in Seq(Row) /\ PriorBase \in Nat /\ PriorCold \in 0..Len(Prior)
         /\ step.token \in Row
         /\ Posterior \in Seq(Row) /\ Len(Posterior) = Len(Prior) + 1
<1>1. /\ request.rows \in Nat /\ request.id \in Nat /\ request.base \in Nat
      /\ request.cold \in Nat
      /\ step.token \in Row /\ step.reset \in BOOLEAN
      /\ ~step.reset => request.rows >= 1 /\ request.cold <= request.rows - 1
  BY DEF RequestTyped, StepTyped
<1>2. Prior \in Seq(Row) /\ PriorBase \in Nat /\ PriorCold \in 0..Len(Prior)
  <2>1. CASE step.reset
    BY <1>1, <2>1 DEF Prior, PriorBase, PriorCold
  <2>2. CASE ~step.reset
    <3>1. request.rows - 1 \in Nat
      BY <1>1, <2>2
    <3>2. \A i \in 1..(request.rows - 1) : [of |-> request.id, at |-> i] \in Row
      BY <1>1 DEF Row
    <3>3. Prior = [i \in 1..(request.rows - 1) |-> [of |-> request.id, at |-> i]]
      BY <2>2 DEF Prior
    <3>4. Prior \in Seq(Row) /\ Len(Prior) = request.rows - 1
      BY <3>1, <3>2, <3>3
    <3> QED
      BY <1>1, <2>2, <3>1, <3>4 DEF PriorBase, PriorCold
  <2> QED
    BY <2>1, <2>2
<1> QED
  BY <1>1, <1>2 DEF Posterior

\* A step of the request leaves the rows of the request.
LEMMA StepCompletes ==
  ASSUME RequestTyped, StepTyped, phase \in {"start", "encode", "wait", "drain"},
         step.then = "ready", ~fresh
  PROVE  /\ Posterior = Rows(request)
         /\ PriorBase = request.base /\ PriorCold = request.cold
<1>1. /\ request.rows \in Nat /\ request.id \in Nat
      /\ step.token = [of |-> request.id, at |-> request.rows]
      /\ step.reset => request.rows = 1 /\ request.base = 0 /\ request.cold = 0
      /\ ~step.reset => request.rows >= 1
  BY DEF RequestTyped, StepTyped
<1>2. CASE step.reset
  <2>1. Prior = <<>> /\ PriorBase = 0 /\ PriorCold = 0
    BY <1>2 DEF Prior, PriorBase, PriorCold
  <2>2. Rows(request) = [i \in 1..1 |-> [of |-> request.id, at |-> i]]
    BY <1>1, <1>2 DEF Rows
  <2>3. Append(<<>>, step.token) = [i \in 1..1 |-> [of |-> request.id, at |-> i]]
    BY <1>1, <1>2
  <2> QED
    BY <1>1, <1>2, <2>1, <2>2, <2>3 DEF Posterior
<1>3. CASE ~step.reset
  <2> DEFINE n == request.rows - 1
             one == [i \in 1..n |-> [of |-> request.id, at |-> i]]
  <2>1. Prior = one /\ PriorBase = request.base /\ PriorCold = request.cold
    BY <1>3 DEF Prior, PriorBase, PriorCold
  <2>2. n \in Nat /\ request.rows = n + 1
    BY <1>1, <1>3
  <2>3. \A i \in 1..n : [of |-> request.id, at |-> i] \in Row
    BY <1>1 DEF Row
  <2>4. one \in Seq(Row) /\ Len(one) = n
    BY <2>2, <2>3
  <2>5. Append(one, step.token) = [i \in 1..(n + 1) |-> [of |-> request.id, at |-> i]]
    <3>1. \A i \in 1..n : one[i] = [of |-> request.id, at |-> i]
      OBVIOUS
    <3> HIDE DEF one, n
    <3>2. Append(one, step.token)
            = [i \in 1..(n + 1) |-> IF i \in 1..n THEN one[i] ELSE step.token]
      BY <2>2, <2>4
    <3>3. ASSUME NEW i \in 1..(n + 1)
          PROVE  (IF i \in 1..n THEN one[i] ELSE step.token) = [of |-> request.id, at |-> i]
      <4>1. CASE i \in 1..n
        BY <3>1, <4>1
      <4>2. CASE i \notin 1..n
        <5>1. i = request.rows
          BY <2>2, <4>2
        <5> QED
          BY <1>1, <4>2, <5>1
      <4> QED
        BY <4>1, <4>2
    <3> QED
      BY <3>2, <3>3
  <2> HIDE DEF n, one
  <2> QED
    BY <2>1, <2>2, <2>5 DEF Posterior, Rows
<1> QED
  BY <1>2, <1>3, <1>1 DEF StepTyped

LEMMA RoomToDecode ==
  ASSUME NEW n \in Nat, NEW base \in Nat, NEW cold \in Nat,
         NEW cs, cs = [l \in Attention |-> CountsOf(n, base, cold)]
  PROVE  can_decode(cs) <=> RoomAfter(n, base, cold)
<1>1. \A l \in Attention :
        /\ cs[l].cold_count = cold /\ cs[l].token_count = n
        /\ cs[l].position_base = base /\ HotRows(cs[l]) = n - cold
  BY DEF CountsOf, HotRows
<1> QED
  BY <1>1, FirstAttends DEF can_decode, RoomAfter

LEMMA WholeContext ==
  ASSUME NEW n, NEW base, NEW cold, counts = [l \in Attention |-> CountsOf(n, base, cold)]
  PROVE  ~Partial
  BY FirstAttends DEF CountsOf, Partial

LEMMA SessionParts ==
  ASSUME SessionInv
  PROVE  RequestTyped /\ StepTyped /\ Settled /\ HostAhead /\ GpuRuns /\ Leaving
  BY DEF SessionInv

LEMMA SessionStarts == SessionInit => SessionInv
<1> SUFFICES ASSUME SessionInit PROVE SessionInv
  OBVIOUS
<1>1. RequestTyped
  <2>1. slabs = [l \in Attention |-> EmptySlabs]
    BY DEF SessionInit
  <2>2. EmptySlabs.pooled = <<>>
    BY DEF EmptySlabs
  <2>3. group \in 1..LayerCount
    BY SessionNumbers DEF SessionInit
  <2> HIDE DEF EmptySlabs
  <2>4. slabs = [l \in Attention |-> slabs[l]]
    BY <2>1
  <2>5. \A l \in Attention : slabs[l].pooled \in Seq(Block)
    <3>1. \A l \in Attention : slabs[l] = EmptySlabs
      BY <2>1
    <3>2. <<>> \in Seq(Block)
      OBVIOUS
    <3> QED
      BY <3>1, <3>2, <2>2
  <2>6. /\ request \in [id : Nat, rows : Nat, cold : Nat, base : Nat, steps : Nat]
        /\ request.cold <= request.rows
    BY DEF SessionInit
  <2>7. /\ sharing \in BOOLEAN /\ prepared \in BOOLEAN /\ fresh \in BOOLEAN
        /\ broken \in BOOLEAN /\ fresh = FALSE
    BY Zenon DEF SessionInit
  <2> QED
    BY <2>3, <2>4, <2>5, <2>6, <2>7 DEF RequestTyped
<1>2. StepTyped /\ Settled /\ HostAhead /\ GpuRuns
  BY DEF SessionInit, StepTyped, Settled, HostAhead, GpuRuns
<1>3. Leaving
  BY DEF SessionInit, Leaving, GpuQuiet, CapacityNeverThrows
<1> QED
  BY <1>1, <1>2, <1>3 DEF SessionInv

LEMMA BeginKeeps == ASSUME SessionInv, Begin PROVE SessionInv'
<1>1. /\ phase' \in {"prepare", "mlx", "import"} /\ phase = "idle"
      /\ sharing' => phase' = "prepare"
      /\ prepared' = FALSE /\ handed' = NoState /\ outcome' = "none"
  <2>1. sharing \in BOOLEAN /\ fresh' \in BOOLEAN
    BY SessionParts DEF Begin, RequestTyped
  <2> QED
    BY <2>1 DEF Begin
<1>2. RequestTyped'
  <2>1. PICK p \in Prompts :
          request' = [id |-> request.id + 1, rows |-> p.rows, cold |-> p.cold,
                      base |-> p.base, steps |-> 0]
    BY DEF Begin
  <2>2. p.rows \in Nat /\ p.cold \in 0..p.rows /\ p.base \in Nat /\ (p.rows = 0 => p.base = 0)
    BY <2>1, SessionAssumption DEF SessionAssumption
  <2>3. request.id \in Nat
    BY SessionParts DEF RequestTyped
  <2>4. /\ request' \in [id : Nat, rows : Nat, cold : Nat, base : Nat, steps : Nat]
        /\ request'.cold <= request'.rows
        /\ request'.rows = 0 => request'.base = 0
        /\ request'.steps = 0
    BY <2>1, <2>2, <2>3
  <2>5. fresh' = (request'.rows = 0)
    BY DEF Begin
  <2>6. /\ sharing' = sharing /\ prepared' = FALSE /\ broken' = broken
        /\ group' = group /\ slabs' = slabs
    BY DEF Begin, state
  <2> QED
    BY <2>4, <2>5, <2>6, SessionParts DEF RequestTyped
<1>3. StepTyped' /\ Settled' /\ HostAhead' /\ GpuRuns'
  BY <1>1 DEF StepTyped, Settled, HostAhead, GpuRuns
<1>4. Leaving'
  BY <1>1, SessionParts DEF Begin, Leaving, GpuQuiet, CapacityNeverThrows
<1> QED
  BY <1>2, <1>3, <1>4 DEF SessionInv

\* A step of complete_impl between the decodes leaves the types alone.
LEMMA RequestStays ==
  ASSUME RequestTyped, prepared' \in BOOLEAN, slabs' = slabs,
         fresh' = fresh \/ fresh' = FALSE,
         UNCHANGED <<sharing, broken, group, request>>
  PROVE  RequestTyped'
<1>1. fresh' \in BOOLEAN /\ (fresh' => fresh)
  <2>1. fresh \in BOOLEAN
    BY DEF RequestTyped
  <2>2. CASE fresh' = fresh
    BY <2>1, <2>2
  <2>3. CASE fresh' = FALSE
    BY <2>3
  <2> QED
    BY <2>2, <2>3
<1>2. /\ slabs' = [l \in Attention |-> slabs'[l]]
      /\ \A l \in Attention : slabs'[l].pooled \in Seq(Block)
  BY DEF RequestTyped
<1>3. /\ sharing' \in BOOLEAN /\ broken' \in BOOLEAN /\ group' \in 1..LayerCount
      /\ request' \in [id : Nat, rows : Nat, cold : Nat, base : Nat, steps : Nat]
      /\ request'.cold <= request'.rows
      /\ fresh => request'.rows = 0 /\ request'.base = 0 /\ request'.steps = 0
  BY DEF RequestTyped
<1> QED
  BY <1>1, <1>2, <1>3 DEF RequestTyped

\* A request that leaves takes nothing along.
LEMMA EndKeeps ==
  ASSUME SessionInv, NEW why, End(why), why \notin {"capacity", "slab"},
         slabs' = slabs, broken' = broken, tables' = tables, queue' = <<>>,
         handed' # NoState => handed' = Image(Rows(request), request.base, request.cold)
  PROVE  SessionInv'
<1>1. /\ phase' = "idle" /\ prepared' = FALSE /\ outcome' = why
      /\ UNCHANGED <<sharing, group, request, fresh, step>>
  BY DEF End
<1>2. RequestTyped'
  BY <1>1, SessionParts, RequestStays
<1>3. StepTyped' /\ Settled' /\ HostAhead' /\ GpuRuns'
  BY <1>1 DEF StepTyped, Settled, HostAhead, GpuRuns
<1>4. Leaving'
  <2>1. handed' # NoState => handed' = Image(Rows(request)', request'.base, request'.cold)
    BY <1>1 DEF Rows
  <2> QED
    BY <1>1, <2>1, SessionParts DEF Leaving, GpuQuiet, CapacityNeverThrows
<1> QED
  BY <1>2, <1>3, <1>4 DEF SessionInv

LEMMA PrepareKeeps == ASSUME SessionInv, PrepareStep PROVE SessionInv'
<1>1. /\ phase = "prepare" /\ queue = <<>> /\ handed = NoState
  BY SessionParts DEF PrepareStep, Prepare, Leaving, GpuQuiet
<1>2. UNCHANGED <<slabs, broken, tables, queue, handed>>
  BY DEF PrepareStep, state
<1>3. CASE End("rejected")
  BY <1>1, <1>2, <1>3, EndKeeps
<1>4. CASE /\ prepared' = TRUE
           /\ step' = [token |-> WarmToken, reset |-> TRUE,
                       then |-> IF fresh THEN "ready" ELSE "import"]
           /\ phase' = "start"
           /\ UNCHANGED <<sharing, group, request, fresh, outcome>>
  <2>1. RequestTyped'
    BY <1>2, <1>4, SessionParts, RequestStays
  <2>2. StepTyped'
    <3>1. WarmToken \in Row
      BY DEF WarmToken, Row
    <3>2. fresh \in BOOLEAN /\ fresh' = fresh
      BY <1>4, SessionParts DEF RequestTyped
    <3> HIDE DEF WarmToken
    <3>3. /\ step' = [token |-> step'.token, reset |-> step'.reset, then |-> step'.then]
          /\ step'.reset = TRUE /\ step'.token = WarmToken
          /\ step'.then = IF fresh THEN "ready" ELSE "import"
      BY <1>4
    <3> QED
      BY <3>1, <3>2, <3>3 DEF StepTyped
  <2>3. Settled' /\ HostAhead' /\ GpuRuns'
    BY <1>4 DEF Settled, HostAhead, GpuRuns
  <2>4. Leaving'
    BY <1>1, <1>2, <1>4, SessionParts DEF Leaving, GpuQuiet, CapacityNeverThrows
  <2> QED
    BY <2>1, <2>2, <2>3, <2>4 DEF SessionInv
<1> QED
  BY <1>3, <1>4 DEF PrepareStep, Prepare

\* Taking over the context of a prompt: every layer of the backend holds it.
LEMMA ImportKeeps == ASSUME SessionInv, Import PROVE SessionInv'
<1> DEFINE rows == Rows(request)
           image == Image(rows, request.base, request.cold)
<1>1. phase = "import" /\ queue = <<>> /\ handed = NoState
  BY SessionParts DEF Import, Leaving, GpuQuiet
<1>2. UNCHANGED <<tables, layer, open, queue, broken, handed>>
  BY DEF Import
<1>3. /\ request.rows \in Nat /\ request.id \in Nat /\ request.base \in Nat
      /\ request.cold \in 0..request.rows
  BY SessionParts DEF RequestTyped
<1>4. rows \in Seq(Row) /\ Len(rows) = request.rows
  BY <1>3, RowsFacts
<1>5. CASE ~Importable(image)
  <2>1. End("refused") /\ UNCHANGED state
    BY <1>5 DEF Import
  <2> QED
    BY <1>1, <1>2, <2>1, EndKeeps DEF state
<1>6. CASE Importable(image)
  <2>1. /\ import_state(image)
        /\ phase' = "ready" /\ fresh' = FALSE
        /\ UNCHANGED <<sharing, prepared, group, request, step, outcome>>
    BY <1>6 DEF Import
  <2>2. \A l \in Attention : Len(image.attention[l].hot) <= HotCapacity
    BY <1>6 DEF Importable
  <2>3. slabs' = [l \in Attention |-> ImportedSlabs(image.attention[l], slabs[l])]
    BY <2>1 DEF import_state
  <2>4. \A l \in Attention : SlabHolds(slabs'[l], rows, request.base, request.cold)
    <3> SUFFICES ASSUME NEW l \in Attention
                 PROVE  SlabHolds(slabs'[l], rows, request.base, request.cold)
      OBVIOUS
    <3>1. slabs[l].pooled \in Seq(Block)
      BY SessionParts DEF RequestTyped
    <3>2. slabs'[l] = ImportedSlabs(image.attention[l], slabs[l])
      BY <2>3
    <3> QED
      BY <1>3, <1>4, <2>2, <3>1, <3>2, ImportedHolds
  <2>5. Context(rows, request.base, request.cold)'
    <3>1. /\ gdn' = image.linear /\ ngram' = image.ngram /\ pleRows' = image.convolution
          /\ counts' = [l \in Attention |->
               [token_count |-> image.attention[l].token_count,
                position_base |-> image.attention[l].position_base,
                cold_count |-> Len(image.attention[l].cold)]]
      BY <2>1 DEF import_state
    <3>2. /\ image.linear = [l \in Linear |-> rows]
          /\ image.ngram = rows /\ image.convolution = rows
      BY DEF Image
    <3>3. ASSUME NEW l \in Attention
          PROVE  /\ image.attention[l].token_count = Len(rows)
                 /\ image.attention[l].position_base = request.base
                 /\ Len(image.attention[l].cold) = request.cold
      <4>1. /\ image.attention[l].token_count = Len(rows)
            /\ image.attention[l].position_base = request.base
            /\ image.attention[l].cold
                 = SubSeq(KeysOf(rows, request.base), 1, request.cold)
        BY DEF Image
      <4>2. /\ KeysOf(rows, request.base) \in Seq([of : Int, at : Int, rotated : Int])
            /\ Len(KeysOf(rows, request.base)) = Len(rows)
        BY <1>3, <1>4, KeysFacts
      <4> QED
        BY <1>3, <1>4, <4>1, <4>2
    <3>4. counts' = [l \in Attention |-> CountsOf(Len(rows), request.base, request.cold)]
      BY <3>1, <3>3 DEF CountsOf
    <3>5. rows' = rows /\ request' = request
      BY <2>1 DEF Rows
    <3> HIDE DEF rows, image
    <3> QED
      BY <2>4, <3>1, <3>2, <3>4, <3>5 DEF Context
  <2>6. RequestTyped'
    <3>1. slabs' = [l \in Attention |-> slabs'[l]]
      BY <2>3
    <3>2. \A l \in Attention : slabs'[l].pooled \in Seq(Block)
      BY <2>4 DEF SlabHolds
    <3> QED
      BY <1>2, <2>1, <3>1, <3>2, SessionParts DEF RequestTyped
  <2>7. StepTyped' /\ HostAhead' /\ GpuRuns'
    BY <2>1 DEF StepTyped, HostAhead, GpuRuns
  <2>8. Settled'
    <3>1. request.rows - request.cold <= HotCapacity
      <4>1. image.attention[First].hot
              = SubSeq(KeysOf(rows, request.base), request.cold + 1, Len(rows))
        BY FirstAttends DEF Image
      <4>2. /\ KeysOf(rows, request.base) \in Seq([of : Int, at : Int, rotated : Int])
            /\ Len(KeysOf(rows, request.base)) = Len(rows)
        BY <1>3, <1>4, KeysFacts
      <4>3. Len(image.attention[First].hot) <= HotCapacity
        BY <2>2, FirstAttends
      <4> DEFINE keys == KeysOf(rows, request.base)
      <4> HIDE DEF image, rows, keys
      <4> DEFINE n == request.rows
                 c == request.cold
      <4>4. n \in Nat /\ c \in 0..n /\ Len(keys) = n
        BY <1>3, <1>4, <4>2 DEF keys
      <4>5. keys \in Seq([of : Int, at : Int, rotated : Int])
        BY <4>2 DEF keys
      <4> HIDE DEF n, c
      <4>6. SubSeq(keys, c + 1, n) = [i \in 1..(n - c) |-> keys[c + i]]
        BY <4>4, <4>5
      <4>7. Len(SubSeq(keys, c + 1, n)) = n - c
        BY <4>4, <4>6
      <4> QED
        BY <1>3, <1>4, <4>1, <4>3, <4>7 DEF keys, n, c
    <3>2. request' = request
      BY <2>1
    <3> QED
      BY <2>1, <2>5, <3>1, <3>2 DEF Settled
  <2>9. Leaving'
    BY <1>1, <1>2, <2>1, SessionParts DEF Leaving, GpuQuiet, CapacityNeverThrows
  <2> QED
    BY <2>6, <2>7, <2>8, <2>9 DEF SessionInv
<1> QED
  BY <1>5, <1>6

\* What is handed over is the context, for all the layers hold it.
LEMMA ReadyExports ==
  ASSUME SessionInv, phase = "ready", ~fresh
  PROVE  /\ ~Partial
         /\ export_state = Image(Rows(request), request.base, request.cold)
<1> DEFINE rows == Rows(request)
<1>1. /\ request.rows \in Nat /\ request.id \in Nat /\ request.base \in Nat
      /\ request.cold \in 0..request.rows
  BY SessionParts DEF RequestTyped
<1>2. rows \in Seq(Row) /\ Len(rows) = request.rows
  BY <1>1, RowsFacts
<1>3. Context(rows, request.base, request.cold)
  BY SessionParts DEF Settled
<1>4. ~Partial
  BY <1>3, WholeContext DEF Context
<1>5. Len(rows) - request.cold <= HotCapacity
  BY <1>2, SessionParts DEF Settled
<1> HIDE DEF rows
<1>6. export_state = Image(rows, request.base, request.cold)
  BY <1>1, <1>2, <1>3, <1>5, ExportedImage
<1> QED
  BY <1>4, <1>6 DEF rows

LEMMA ExportKeeps == ASSUME SessionInv, Export PROVE SessionInv'
<1>1. /\ phase = "ready" /\ ~fresh
      /\ UNCHANGED <<state, tables, layer, open, queue, broken>>
  BY DEF Export
<1>2. ~Partial /\ export_state = Image(Rows(request), request.base, request.cold)
  BY <1>1, ReadyExports
<1>3. /\ handed' = export_state /\ prepared' = FALSE /\ phase' = "mlx"
      /\ UNCHANGED <<sharing, group, request, fresh, step, outcome>>
  BY <1>2 DEF Export
<1>4. RequestTyped'
  BY <1>1, <1>3, SessionParts, RequestStays DEF state
<1>5. StepTyped' /\ Settled' /\ HostAhead' /\ GpuRuns'
  BY <1>3 DEF StepTyped, Settled, HostAhead, GpuRuns
<1>6. Leaving'
  <2>1. handed' = Image(Rows(request)', request'.base, request'.cold)
    BY <1>2, <1>3 DEF Rows
  <2> QED
    BY <1>1, <1>3, <2>1, SessionParts DEF Leaving, GpuQuiet, CapacityNeverThrows
<1> QED
  BY <1>4, <1>5, <1>6 DEF SessionInv

LEMMA FinishKeeps == ASSUME SessionInv, Finish PROVE SessionInv'
<1>1. /\ phase \in {"ready", "mlx"} /\ End("done")
      /\ UNCHANGED <<state, tables, layer, open, queue, broken>>
  BY DEF Finish
<1>2. queue' = <<>>
  BY <1>1, SessionParts DEF Leaving, GpuQuiet
<1>3. ASSUME handed' # NoState
      PROVE  handed' = Image(Rows(request), request.base, request.cold)
  <2>1. CASE phase = "ready" /\ request.steps > 0 /\ handed' = export_state
    <3>1. ~fresh
      BY <2>1, SessionParts DEF RequestTyped
    <3> QED
      BY <2>1, <3>1, ReadyExports
  <2>2. CASE handed' = handed
    BY <1>3, <2>2, SessionParts DEF Leaving
  <2> QED
    BY <2>1, <2>2 DEF Finish
<1> QED
  BY <1>1, <1>2, <1>3, EndKeeps DEF state

LEMMA DrainKeeps == ASSUME SessionInv, Drain PROVE SessionInv'
<1>1. /\ phase = "drain" /\ queue = <<>> /\ End(outcome)
      /\ UNCHANGED <<state, tables, layer, open, queue, broken, handed>>
  BY DEF Drain
<1>2. outcome \notin {"capacity", "slab"} /\ handed = NoState
  BY <1>1, SessionParts DEF Leaving, CapacityNeverThrows
<1> QED
  BY <1>1, <1>2, EndKeeps DEF state

LEMMA DecodeTokenKeeps == ASSUME SessionInv, DecodeToken PROVE SessionInv'
<1> DEFINE n == request.rows
<1>1. /\ phase = "ready" /\ (fresh \/ can_decode(counts))
      /\ request' = [request EXCEPT !.rows = @ + 1, !.steps = @ + 1]
      /\ step' = [token |-> [of |-> request.id, at |-> request.rows + 1],
                  reset |-> fresh, then |-> "ready"]
      /\ fresh' = FALSE /\ phase' = "start"
      /\ UNCHANGED <<sharing, prepared, group, state, tables, layer, open, queue,
                     broken, handed, outcome>>
  BY DEF DecodeToken
<1>2. /\ n \in Nat /\ request.id \in Nat /\ request.base \in Nat
      /\ request.cold \in Nat /\ request.cold <= n /\ request.steps \in Nat
      /\ fresh \in BOOLEAN
      /\ fresh => n = 0 /\ request.base = 0 /\ request.cold = 0
  BY SessionParts DEF RequestTyped
<1>3. /\ request' \in [id : Nat, rows : Nat, cold : Nat, base : Nat, steps : Nat]
      /\ request'.id = request.id /\ request'.rows = n + 1
      /\ request'.cold = request.cold /\ request'.base = request.base
  <2>1. request \in [id : Nat, rows : Nat, cold : Nat, base : Nat, steps : Nat]
    BY SessionParts DEF RequestTyped
  <2>2. request' = [id |-> request.id, rows |-> n + 1, cold |-> request.cold,
                    base |-> request.base, steps |-> request.steps + 1]
    BY <1>1, <2>1
  <2> QED
    BY <1>2, <2>2
<1>4. /\ step' = [token |-> step'.token, reset |-> step'.reset, then |-> step'.then]
      /\ step'.token = [of |-> request.id, at |-> n + 1]
      /\ step'.then = "ready"
  BY <1>1
<1>5. step'.reset = fresh
  BY <1>1
<1>6. UNCHANGED <<slabs, broken, tables, queue, handed, outcome, sharing, prepared, group,
                  counts, gdn, ngram, pleRows>>
  BY <1>1 DEF state
<1>7. RequestTyped'
  <2>1. request'.cold <= request'.rows
    BY <1>2, <1>3
  <2> QED
    BY <1>1, <1>3, <1>6, <2>1, SessionParts DEF RequestTyped
<1>8. StepTyped'
  <2>1. step'.token \in Row
    BY <1>2, <1>4 DEF Row
  <2>2. step'.reset \in BOOLEAN
    BY <1>2, <1>5
  <2>3. ~step'.reset => request'.rows >= 1 /\ request'.cold <= request'.rows - 1
    BY <1>2, <1>3
  <2>4. step'.reset => request'.rows = 1 /\ request'.base = 0 /\ request'.cold = 0
    BY <1>2, <1>3, <1>5
  <2>5. step'.token = [of |-> request'.id, at |-> request'.rows]
    BY <1>3, <1>4
  <2>6. ~fresh'
    BY <1>1
  <2> QED
    BY <1>4, <2>1, <2>2, <2>3, <2>4, <2>5, <2>6 DEF StepTyped
<1>9. ASSUME ~step'.reset
      PROVE  /\ Context(Prior, PriorBase, PriorCold)'
             /\ RoomAfter(Len(Prior), PriorBase, PriorCold)'
  <2>1. ~fresh
    BY <1>5, <1>9
  <2>2. Context(Rows(request), request.base, request.cold)
    BY <1>1, <2>1, SessionParts DEF Settled
  <2>3. Prior' = Rows(request) /\ PriorBase' = request.base /\ PriorCold' = request.cold
    <3>1. Prior' = [i \in 1..(request'.rows - 1) |-> [of |-> request'.id, at |-> i]]
      BY <1>9 DEF Prior
    <3>2. request'.rows - 1 = n
      BY <1>2, <1>3
    <3> QED
      BY <1>3, <1>9, <3>1, <3>2 DEF PriorBase, PriorCold, Rows
  <2>4. Len(Rows(request)) = n
    BY <1>2, RowsFacts
  <2>5. RoomAfter(n, request.base, request.cold)
    <3>1. counts = [l \in Attention |-> CountsOf(n, request.base, request.cold)]
      BY <2>2, <2>4 DEF Context
    <3> QED
      BY <1>1, <1>2, <2>1, <3>1, RoomToDecode
  <2>6. Context(Prior', PriorBase', PriorCold') <=> Context(Prior, PriorBase, PriorCold)'
    BY <1>6 DEF Context
  <2>7. RoomAfter(Len(Prior)', PriorBase', PriorCold')
    BY <2>3, <2>4, <2>5
  <2> QED
    BY <2>2, <2>3, <2>6, <2>7 DEF RoomAfter
<1>10. Settled'
  BY <1>1, <1>9 DEF Settled
<1>11. HostAhead' /\ GpuRuns'
  BY <1>1 DEF HostAhead, GpuRuns
<1>12. Leaving'
  BY <1>1, <1>6, SessionParts DEF Leaving, GpuQuiet, CapacityNeverThrows
<1> QED
  BY <1>7, <1>8, <1>10, <1>11, <1>12 DEF SessionInv

\* A step begins: the backend holds the context it extends, and has room.
LEMMA StartKeeps == ASSUME SessionInv, Start PROVE SessionInv'
<1> DEFINE n == Len(Prior)
<1>1. /\ phase = "start" /\ queue = <<>> /\ queue' = <<>> /\ handed = NoState
      /\ layer' = 0 /\ open' = <<>> /\ broken' = FALSE
      /\ UNCHANGED <<tables, handed>>
  BY SessionParts DEF Start, Leaving, GpuQuiet
<1>2. /\ Prior \in Seq(Row) /\ PriorBase \in Nat /\ PriorCold \in 0..n /\ n \in Nat
      /\ step.token \in Row /\ step.reset \in BOOLEAN
  BY <1>1, SessionParts, PriorFacts DEF StepTyped
<1>3. /\ slabs' = [l \in Attention |-> slabs'[l]]
      /\ counts' = [l \in Attention |-> CountsOf(n, PriorBase, PriorCold)]
      /\ gdn' = [l \in Linear |-> Prior]
      /\ \A l \in Attention : SlabHolds(slabs'[l], Prior, PriorBase, PriorCold)
      /\ ngram' = Prior /\ pleRows' = Prior
      /\ RoomAfter(n, PriorBase, PriorCold)
  <2>1. CASE step.reset
    <3>1. Prior = <<>> /\ PriorBase = 0 /\ PriorCold = 0 /\ n = 0
      BY <2>1 DEF Prior, PriorBase, PriorCold
    <3>2. /\ gdn' = [l \in Linear |-> <<>>]
          /\ counts' = [l \in Attention |-> EmptyCounts]
          /\ slabs' = [l \in Attention |-> Cleared(slabs[l])]
          /\ ngram' = <<>> /\ pleRows' = <<>>
      BY <2>1 DEF Start, reset_all_state
    <3>3. \A l \in Attention : SlabHolds(slabs'[l], <<>>, 0, 0)
      <4>1. \A l \in Attention : slabs[l].pooled \in Seq(Block)
        BY SessionParts DEF RequestTyped
      <4> QED
        BY <3>2, <4>1, ClearedHolds
    <3>4. RoomAfter(0, 0, 0)
      BY SessionNumbers DEF RoomAfter
    <3>5. EmptyCounts = CountsOf(0, 0, 0)
      BY DEF EmptyCounts, CountsOf
    <3>6. slabs' = [l \in Attention |-> slabs'[l]]
      BY <3>2
    <3> HIDE DEF n
    <3> QED
      BY <3>1, <3>2, <3>3, <3>4, <3>5, <3>6
  <2>2. CASE ~step.reset
    <3>1. Context(Prior, PriorBase, PriorCold) /\ RoomAfter(n, PriorBase, PriorCold)
      BY <1>1, <2>2, SessionParts DEF Settled
    <3>2. UNCHANGED state
      BY <2>2 DEF Start
    <3>3. slabs = [l \in Attention |-> slabs[l]]
      BY SessionParts DEF RequestTyped
    <3> QED
      BY <3>1, <3>2, <3>3 DEF Context, state
  <2> QED
    BY <2>1, <2>2
<1>4. can_decode(counts')
  BY <1>2, <1>3, RoomToDecode
<1>5. /\ phase' = "encode"
      /\ UNCHANGED <<sharing, prepared, group, request, fresh, step, outcome>>
  BY <1>4 DEF Start
<1>6. Prior' = Prior /\ PriorBase' = PriorBase /\ PriorCold' = PriorCold /\ n' = n
  BY <1>5 DEF Prior, PriorBase, PriorCold
<1>7. RequestTyped'
  <2>1. \A l \in Attention : slabs'[l].pooled \in Seq(Block)
    BY <1>3 DEF SlabHolds
  <2>2. broken' \in BOOLEAN
    BY <1>1
  <2> QED
    BY <1>3, <1>5, <2>1, <2>2, SessionParts DEF RequestTyped
<1>8. StepTyped'
  BY <1>1, <1>5, SessionParts DEF StepTyped
<1>9. Settled'
  BY <1>5 DEF Settled
<1>10. HostAhead'
  <2>1. counts' = [l \in Attention |->
          CountsOf(n + (IF l < 0 THEN 1 ELSE 0), PriorBase, PriorCold)]
    <3>1. \A l \in Attention : ~(l < 0)
      BY SessionNumbers DEF Attention, AllLayers
    <3>2. n + 0 = n
      BY <1>2
    <3> HIDE DEF n
    <3> QED
      BY <1>3, <3>1, <3>2
  <2>2. ~(PleLayer < 0)
    BY SessionNumbers DEF AllLayers
  <2>3. RoomAfter(n, PriorBase, PriorCold)' <=> RoomAfter(n, PriorBase, PriorCold)
    BY <1>6 DEF RoomAfter
  <2> HIDE DEF n
  <2> QED
    BY <1>1, <1>3, <1>5, <1>6, <2>1, <2>2, <2>3 DEF HostAhead, n
<1>11. GpuRuns'
  <2>1. GpuBehind(0)'
    <3>1. 0 \in 0..LayerCount /\ \A l \in AllLayers : ~(l < 0) /\ 0 <= l
      BY SessionNumbers DEF AllLayers
    <3>2. PleLayer \in AllLayers
      BY SessionNumbers
    <3>3. \A l \in AllLayers : GpuHolds(l, Prior)'
      BY <1>3, <1>6 DEF GpuHolds, Attention, Linear
    <3>4. gdn' = [l \in Linear |-> gdn'[l]]
      BY <1>3
    <3>5. Attention \subseteq AllLayers
      BY DEF Attention
    <3>6. n - PriorCold < HotCapacity
      BY <1>3 DEF RoomAfter
    <3>7. tables' = [rope |-> tables'.rope, pool |-> tables'.pool,
                     embedding |-> tables'.embedding]
      BY <1>1, SessionParts DEF Leaving
    <3>8. /\ (queue \in Seq(Ops))' /\ (open \in Seq(Ops))'
          /\ Len(queue') = 0 /\ Len(open') = 0
      BY <1>1
    <3> QED
      BY <1>1, <1>3, <1>6, <3>1, <3>2, <3>3, <3>4, <3>5, <3>6, <3>7, <3>8
         DEF GpuBehind, Runs, TablesReady
  <2> QED
    BY <2>1, SessionNumbers DEF GpuRuns
<1>12. Leaving'
  BY <1>1, <1>5, SessionParts DEF Leaving, GpuQuiet, CapacityNeverThrows
<1> QED
  BY <1>7, <1>8, <1>9, <1>10, <1>11, <1>12 DEF SessionInv

\* The step is over: what the host counted and what the GPU wrote is one
\* context, the rows of the request.
LEMMA FinishCommandsKeeps == ASSUME SessionInv, FinishCommands PROVE SessionInv'
<1>1. /\ phase = "wait" /\ queue = <<>> /\ handed = NoState
      /\ UNCHANGED <<state, tables, layer, open, queue, broken, handed>>
  BY SessionParts DEF FinishCommands, Leaving
<1>2. CASE broken
  <2>1. End("gpu")
    BY <1>2 DEF FinishCommands
  <2> QED
    BY <1>1, <2>1, EndKeeps DEF state
<1>3. CASE ~broken
  <2>1. /\ phase' = step.then
        /\ UNCHANGED <<sharing, prepared, group, request, fresh, step, outcome>>
    BY <1>3 DEF FinishCommands
  <2>2. phase' \in {"import", "ready"}
    BY <1>1, <2>1, SessionParts DEF StepTyped
  <2>3. RequestTyped'
    BY <1>1, <2>1, SessionParts DEF RequestTyped, state
  <2>4. StepTyped' /\ HostAhead' /\ GpuRuns'
    BY <2>2 DEF StepTyped, HostAhead, GpuRuns
  <2>5. ASSUME phase' = "ready", ~fresh'
        PROVE  /\ Context(Rows(request), request.base, request.cold)'
               /\ request.rows - request.cold <= HotCapacity
    <3> DEFINE n == Len(Prior)
    <3>1. step.then = "ready" /\ ~fresh
      BY <2>1, <2>5
    <3>2. /\ Posterior = Rows(request)
          /\ PriorBase = request.base /\ PriorCold = request.cold
      BY <1>1, <3>1, SessionParts, StepCompletes
    <3>3. /\ n \in Nat /\ PriorCold \in 0..n /\ Posterior \in Seq(Row)
          /\ Len(Posterior) = n + 1
      BY <1>1, SessionParts, PriorFacts
    <3>4. PICK due \in 0..LayerCount : GpuBehind(due)
      BY <1>1, SessionParts DEF GpuRuns
    <3>5. /\ layer = LayerCount /\ open = <<>>
          /\ counts = [l \in Attention |->
               CountsOf(n + (IF l < layer THEN 1 ELSE 0), PriorBase, PriorCold)]
          /\ ngram = (IF PleLayer < layer THEN Posterior ELSE Prior)
          /\ RoomAfter(n, PriorBase, PriorCold)
      BY <1>1, SessionParts DEF HostAhead
    <3>6. due + Len(queue) + Len(open) = layer
      BY <1>1, <3>4 DEF GpuBehind
    <3>7. due = LayerCount
      BY <1>1, <3>5, <3>6
    <3>8. \A l \in AllLayers : l < LayerCount
      BY SessionNumbers DEF AllLayers
    <3>9. /\ gdn = [l \in Linear |-> gdn[l]] /\ pleRows = Posterior
          /\ \A l \in AllLayers : GpuHolds(l, Posterior)
      BY <1>3, <3>4, <3>7, <3>8, SessionNumbers DEF GpuBehind
    <3>10. gdn = [l \in Linear |-> Posterior]
      <4>1. \A l \in Linear : gdn[l] = Posterior
        BY <3>9 DEF GpuHolds, Linear
      <4> QED
        BY <3>9, <4>1
    <3>11. \A l \in Attention : SlabHolds(slabs[l], Posterior, PriorBase, PriorCold)
      BY <3>9 DEF GpuHolds, Linear, Attention
    <3>12. counts = [l \in Attention |-> CountsOf(n + 1, PriorBase, PriorCold)]
      <4>1. \A l \in Attention : l < layer
        BY <3>5, <3>8 DEF Attention
      <4> HIDE DEF n
      <4> QED
        BY <3>5, <4>1
    <3>13. ngram = Posterior
      BY <3>5, <3>8, SessionNumbers
    <3>14. Context(Rows(request), request.base, request.cold)
      <4> HIDE DEF n
      <4> QED
        BY <3>2, <3>3, <3>9, <3>10, <3>11, <3>12, <3>13 DEF Context
    <3>15. request.rows = n + 1
      <4>1. request.rows \in Nat /\ request.id \in Nat
        BY SessionParts DEF RequestTyped
      <4> QED
        BY <3>2, <3>3, <4>1, RowsFacts
    <3>16. n - request.cold < HotCapacity
      BY <3>2, <3>5 DEF RoomAfter
    <3>17. Context(Rows(request), request.base, request.cold)'
      BY <1>1, <2>1, <3>14 DEF Context, state, Rows
    <3> QED
      BY <3>2, <3>3, <3>15, <3>16, <3>17, SessionNumbers
  <2>6. Settled'
    BY <2>1, <2>2, <2>5 DEF Settled
  <2>7. Leaving'
    BY <1>1, <2>1, <2>2, SessionParts DEF Leaving, GpuQuiet, CapacityNeverThrows
  <2> QED
    BY <2>3, <2>4, <2>6, <2>7 DEF SessionInv
<1> QED
  <2>1. broken \in BOOLEAN
    BY SessionParts DEF RequestTyped
  <2> QED
    BY <1>2, <1>3

\* The host's part of a layer: the tables keep the values the step needs, and
\* the layer is counted.
LEMMA HostFacts ==
  ASSUME SessionInv, phase = "encode", EncodeHost(layer), layer \in AllLayers,
         TablesReady(layer), UNCHANGED <<step, request>>,
         NEW next, next = layer + 1
  PROVE  /\ TablesReady(next)'
         /\ counts' = [l \in Attention |->
              CountsOf(Len(Prior) + (IF l < next THEN 1 ELSE 0), PriorBase, PriorCold)]
         /\ ngram' = IF PleLayer < next THEN Posterior ELSE Prior
<1> DEFINE n == Len(Prior)
           q == n \div Compress
           at == PriorBase + n
           block == PriorBase + q * Compress
<1>1. /\ n \in Nat /\ PriorBase \in Nat
      /\ Prior' = Prior /\ PriorBase' = PriorBase
  <2>1. Prior' = Prior /\ PriorBase' = PriorBase
    BY DEF Prior, PriorBase
  <2> QED
    BY <2>1, SessionParts, PriorFacts
<1>2. /\ next = layer + 1 /\ layer \in Int /\ PleLayer \in Int /\ \A l \in Attention : l \in Int
  BY SessionNumbers DEF AllLayers, Attention
<1>3. /\ counts = [l \in Attention |->
            CountsOf(n + (IF l < layer THEN 1 ELSE 0), PriorBase, PriorCold)]
      /\ ngram = IF PleLayer < layer THEN Posterior ELSE Prior
  BY SessionParts DEF HostAhead
<1>4. layer \in Attention => counts[layer] = CountsOf(n, PriorBase, PriorCold)
  <2> HIDE DEF n
  <2> QED
    BY <1>1, <1>2, <1>3
<1>5. /\ tables' = [rope |-> tables'.rope, pool |-> tables'.pool,
                    embedding |-> tables'.embedding]
      /\ tables'.embedding = IF layer = PleLayer THEN step.token ELSE tables.embedding
      /\ layer \notin Attention => tables'.rope = tables.rope /\ tables'.pool = tables.pool
  BY DEF EncodeHost, TablesReady
<1>6. layer \in Attention => tables'.rope = at /\ tables'.pool = block
  <2> SUFFICES ASSUME layer \in Attention PROVE tables'.rope = at /\ tables'.pool = block
    OBVIOUS
  <2>1. /\ counts[layer].token_count = n /\ counts[layer].position_base = PriorBase
    BY <1>4 DEF CountsOf
  <2>2. /\ tables'.rope = counts[layer].position_base + counts[layer].token_count
        /\ tables'.pool = counts[layer].position_base
                            + (counts[layer].token_count \div Compress) * Compress
    BY DEF EncodeHost, TablesReady
  <2> QED
    BY <2>1, <2>2
<1>7. \A l \in Attention : l < layer => tables.rope = at /\ tables.pool = block
  BY DEF TablesReady
<1>8. PleLayer < layer => tables.embedding = step.token
  BY DEF TablesReady
<1>9. TablesReady(next)'
  <2>1. \A l \in Attention : l < next => tables'.rope = at /\ tables'.pool = block
    <3> HIDE DEF at, block
    <3> SUFFICES ASSUME NEW l \in Attention, l < next
                 PROVE  tables'.rope = at /\ tables'.pool = block
      OBVIOUS
    <3>1. l = layer \/ l < layer
      BY <1>2
    <3> QED
      BY <1>5, <1>6, <1>7, <3>1
  <2>2. PleLayer < next => tables'.embedding = step.token
    BY <1>2, <1>5, <1>8
  <2>3. /\ at = PriorBase' + Len(Prior') /\ block = PriorBase' + (Len(Prior') \div Compress) * Compress
    BY <1>1
  <2> HIDE DEF at, block
  <2>4. /\ \A l \in Attention : l < next =>
             /\ tables'.rope = PriorBase' + Len(Prior')
             /\ tables'.pool = PriorBase' + (Len(Prior') \div Compress) * Compress
    BY <2>1, <2>3
  <2> QED
    BY <1>5, <2>2, <2>4 DEF TablesReady
<1>10. counts' = [l \in Attention |->
          CountsOf(n + (IF l < next THEN 1 ELSE 0), PriorBase, PriorCold)]
  <2> HIDE DEF n
  <2>1. CASE layer \in Attention
    <3>1. counts' = [counts EXCEPT ![layer].token_count = @ + 1]
      BY <2>1 DEF EncodeHost
    <3>2. [counts[layer] EXCEPT !.token_count = @ + 1] = CountsOf(n + 1, PriorBase, PriorCold)
      BY <1>4, <2>1 DEF CountsOf
    <3>3. counts' = [counts EXCEPT ![layer] = CountsOf(n + 1, PriorBase, PriorCold)]
      BY <3>1, <3>2
    <3>4. ASSUME NEW l \in Attention
          PROVE  counts'[l]
                   = CountsOf(n + (IF l < next THEN 1 ELSE 0), PriorBase, PriorCold)
      <4>1. CASE l = layer
        BY <1>2, <1>3, <2>1, <3>3, <4>1
      <4>2. CASE l # layer
        <5>1. l < next <=> l < layer
          BY <1>2, <4>2
        <5> QED
          BY <1>3, <3>3, <4>2, <5>1
      <4> QED
        BY <4>1, <4>2
    <3> QED
      BY <1>3, <3>3, <3>4
  <2>2. CASE layer \notin Attention
    <3>1. \A l \in Attention : l < next <=> l < layer
      BY <1>2, <2>2
    <3>2. counts' = counts
      BY <2>2 DEF EncodeHost
    <3> QED
      BY <1>3, <3>1, <3>2
  <2> QED
    BY <2>1, <2>2
<1>11. ngram' = IF PleLayer < next THEN Posterior ELSE Prior
  <2>1. ngram' = IF layer = PleLayer THEN Append(ngram, step.token) ELSE ngram
    BY DEF EncodeHost
  <2>2. Posterior = Append(Prior, step.token)
    BY DEF Posterior
  <2>3. CASE layer = PleLayer
    BY <1>2, <1>3, <2>1, <2>2, <2>3
  <2>4. CASE layer # PleLayer
    <3>1. PleLayer < next <=> PleLayer < layer
      BY <1>2, <2>4
    <3> QED
      BY <1>3, <2>1, <2>4, <3>1
  <2> QED
    BY <2>3, <2>4
<1> QED
  BY <1>9, <1>10, <1>11

\* A layer that cannot be encoded is lost with its group; what is committed
\* still finds what it needs.
LEMMA EncodeThrowsKeeps == ASSUME SessionInv, EncodeThrows PROVE SessionInv'
<1> DEFINE n == Len(Prior)
<1>1. /\ phase = "encode" /\ layer < LayerCount /\ phase' = "drain" /\ open' = <<>>
      /\ EncodeHost(layer) \/ UNCHANGED <<tables, ngram, counts>>
      /\ UNCHANGED <<sharing, prepared, group, request, fresh, step, gdn, slabs,
                     pleRows, layer, queue, broken, handed>>
  BY DEF EncodeThrows
<1>2. PICK due \in 0..LayerCount : GpuBehind(due)
  BY <1>1, SessionParts DEF GpuRuns
<1>3. layer \in AllLayers /\ layer \in Nat
  <2>1. layer \in 0..LayerCount
    BY <1>2 DEF GpuBehind
  <2>2. LayerCount \in Nat
    BY SessionNumbers
  <2> QED
    BY <1>1, <2>1, <2>2 DEF AllLayers
<1>4. TablesReady(layer)'
  <2>1. TablesReady(layer)
    BY <1>2 DEF GpuBehind
  <2>2. CASE EncodeHost(layer)
    <3>1. PICK next : next = layer + 1
      OBVIOUS
    <3>2. TablesReady(next)'
      BY <1>1, <1>3, <2>1, <2>2, <3>1, HostFacts
    <3>3. /\ \A l \in Attention : l < layer => l < next
          /\ PleLayer < layer => PleLayer < next
      BY <1>3, <3>1, SessionNumbers DEF Attention, AllLayers
    <3> QED
      BY <1>1, <3>2, <3>3 DEF TablesReady
  <2>3. CASE UNCHANGED <<tables, ngram, counts>>
    BY <1>1, <2>1, <2>3 DEF TablesReady, Prior, PriorBase
  <2> QED
    BY <1>1, <2>2, <2>3
<1>5. RequestTyped'
  BY <1>1, SessionParts DEF RequestTyped
<1>6. StepTyped'
  BY <1>1, SessionParts DEF StepTyped
<1>7. Settled' /\ HostAhead'
  BY <1>1 DEF Settled, HostAhead
<1>8. GpuRuns'
  <2>1. GpuBehind(due)'
    <3>1. /\ Prior' = Prior /\ PriorBase' = PriorBase /\ PriorCold' = PriorCold
          /\ Posterior' = Posterior /\ Ops' = Ops
      BY <1>1 DEF Prior, PriorBase, PriorCold, Posterior, Ops, OpAt
    <3>2. /\ \A l \in AllLayers : due <= l => GpuHolds(l, Prior)'
          /\ ~broken => \A l \in AllLayers : l < due => GpuHolds(l, Posterior)'
      BY <1>1, <1>2, <3>1 DEF GpuBehind, GpuHolds
    <3>3. /\ due <= PleLayer => pleRows = Prior
          /\ ~broken /\ PleLayer < due => pleRows = Posterior
          /\ gdn = [l \in Linear |-> gdn[l]]
          /\ n - PriorCold < HotCapacity
          /\ queue # <<>> => queue[Len(queue)].last
      BY <1>2 DEF GpuBehind
    <3>4. /\ queue \in Seq(Ops) /\ Runs(queue, due) /\ layer \in 0..LayerCount
      BY <1>2 DEF GpuBehind
    <3>5. due + Len(queue) + Len(<<>>) <= layer
      <4>1. /\ due + Len(queue) + Len(open) <= layer /\ open \in Seq(Ops)
        BY <1>2 DEF GpuBehind
      <4>2. Len(open) \in Nat /\ Len(queue) \in Nat /\ Len(<<>>) = 0
        BY <3>4, <4>1
      <4> QED
        BY <1>3, <4>1, <4>2
    <3>6. /\ (queue \in Seq(Ops))' /\ Runs(queue, due)'
          /\ (open \in Seq(Ops))' /\ Runs(open, due + Len(queue))'
      <4>1. (queue \in Seq(Ops))' /\ Runs(queue, due)'
        BY <1>1, <3>1, <3>4 DEF Runs
      <4>2. (open \in Seq(Ops))'
        BY <1>1
      <4>3. 1..Len(open') = {}
        BY <1>1
      <4>4. Runs(open, due + Len(queue))'
        BY <4>3 DEF Runs
      <4> QED
        BY <4>1, <4>2, <4>4
    <3> HIDE DEF n
    <3> QED
      BY <1>1, <1>4, <3>1, <3>2, <3>3, <3>4, <3>5, <3>6 DEF GpuBehind, n
  <2> QED
    BY <2>1 DEF GpuRuns
<1>9. Leaving'
  <2>1. outcome' \notin {"capacity", "slab"}
    <3>1. ~(layer \in Attention /\ HotRows(counts[layer]) >= HotCapacity)
      <4> SUFFICES ASSUME layer \in Attention PROVE ~(HotRows(counts[layer]) >= HotCapacity)
        OBVIOUS
      <4>1. /\ counts[layer]
                 = CountsOf(n + (IF layer < layer THEN 1 ELSE 0), PriorBase, PriorCold)
            /\ RoomAfter(n, PriorBase, PriorCold)
        BY <1>1, SessionParts DEF HostAhead
      <4>2. n \in Nat /\ PriorCold \in Nat
        BY <1>1, SessionParts, PriorFacts
      <4> HIDE DEF n
      <4> QED
        BY <1>3, <4>1, <4>2, SessionNumbers DEF CountsOf, HotRows, RoomAfter
    <3> QED
      BY <3>1 DEF EncodeThrows
  <2>2. tables' = [rope |-> tables'.rope, pool |-> tables'.pool,
                   embedding |-> tables'.embedding]
    BY <1>4 DEF TablesReady
  <2> QED
    BY <1>1, <2>1, <2>2, SessionParts DEF Leaving, GpuQuiet, CapacityNeverThrows
<1> QED
  BY <1>5, <1>6, <1>7, <1>8, <1>9 DEF SessionInv

\* The group's operations, marked at its end.
LEMMA OperationMarked ==
  ASSUME NEW l \in AllLayers, NEW a \in BOOLEAN, NEW b \in BOOLEAN
  PROVE  /\ [OpAt(l, a) EXCEPT !.last = b] = OpAt(l, b)
         /\ OpAt(l, b) \in Ops
         /\ OpAt(l, b).layer = l /\ OpAt(l, b).token = step.token
<1>1. OpAt(l, b) \in Ops
  BY DEF Ops
<1>2. [OpAt(l, a) EXCEPT !.last = b] = OpAt(l, b)
  <2>1. CASE l \in Linear
    BY <2>1 DEF OpAt
  <2>2. CASE l \notin Linear
    BY <2>2 DEF OpAt
  <2> QED
    BY <2>1, <2>2
<1>3. OpAt(l, b).layer = l /\ OpAt(l, b).token = step.token
  BY DEF OpAt
<1> QED
  BY <1>1, <1>2, <1>3

LEMMA GroupMarked ==
  ASSUME NEW ops \in Seq(Ops)
  PROVE  /\ LastOf(ops) \in Seq(Ops) /\ Len(LastOf(ops)) = Len(ops)
         /\ \A i \in 1..Len(ops) : LastOf(ops)[i].layer = ops[i].layer
         /\ ops # <<>> => LastOf(ops)[Len(ops)].last
<1>1. ASSUME NEW i \in 1..Len(ops)
      PROVE  /\ [ops[i] EXCEPT !.last = (i = Len(ops))] \in Ops
             /\ [ops[i] EXCEPT !.last = (i = Len(ops))].layer = ops[i].layer
             /\ i = Len(ops) => [ops[i] EXCEPT !.last = (i = Len(ops))].last
  <2>1. PICK l \in AllLayers, a \in BOOLEAN : ops[i] = OpAt(l, a)
    BY DEF Ops
  <2>2. PICK b \in BOOLEAN : b <=> i = Len(ops)
    OBVIOUS
  <2>3. b = (i = Len(ops))
    BY <2>2
  <2>4. /\ [OpAt(l, a) EXCEPT !.last = b] = OpAt(l, b) /\ OpAt(l, b) \in Ops
        /\ OpAt(l, b).layer = l /\ OpAt(l, a).layer = l
    BY OperationMarked
  <2>5. OpAt(l, b).last = b
    BY DEF OpAt
  <2> QED
    BY <2>1, <2>2, <2>3, <2>4, <2>5
<1>2. LastOf(ops) = [i \in 1..Len(ops) |-> [ops[i] EXCEPT !.last = (i = Len(ops))]]
  BY DEF LastOf
<1>3. LastOf(ops) \in Seq(Ops) /\ Len(LastOf(ops)) = Len(ops)
  BY <1>1, <1>2
<1>4. \A i \in 1..Len(ops) : LastOf(ops)[i] = [ops[i] EXCEPT !.last = (i = Len(ops))]
  BY <1>2
<1>5. ops # <<>> => Len(ops) \in 1..Len(ops)
  OBVIOUS
<1> QED
  BY <1>1, <1>3, <1>4, <1>5

\* What is encoded of a layer does not depend on how far the GPU is.
LEMMA OperationIs ==
  ASSUME SessionInv, phase = "encode", layer \in AllLayers
  PROVE  Operation(layer) = OpAt(layer, FALSE)
<1> DEFINE n == Len(Prior)
<1>1. CASE layer \in Linear
  BY <1>1 DEF Operation, OpAt
<1>2. CASE layer \notin Linear
  <2>1. layer \in Attention /\ layer \in Int
    BY <1>2 DEF Linear, AllLayers
  <2>2. counts[layer] = CountsOf(n + (IF layer < layer THEN 1 ELSE 0), PriorBase, PriorCold)
    BY <2>1, SessionParts DEF HostAhead
  <2>3. n \in Nat /\ PriorCold \in Nat
    BY SessionParts, PriorFacts
  <2>4. counts[layer] = CountsOf(n, PriorBase, PriorCold)
    <3> HIDE DEF n
    <3> QED
      BY <2>1, <2>2, <2>3
  <2>5. counts[layer].token_count = n /\ HotRows(counts[layer]) = n - PriorCold
    BY <2>4 DEF CountsOf, HotRows
  <2> QED
    BY <1>2, <2>5 DEF Operation, OpAt
<1> QED
  BY <1>1, <1>2

\* Joining two runs of operations.
LEMMA RunsJoin ==
  ASSUME NEW S, NEW s \in Seq(S), NEW t \in Seq(S), NEW from \in Nat,
         Runs(s, from), Runs(t, from + Len(s))
  PROVE  /\ s \o t \in Seq(S) /\ Len(s \o t) = Len(s) + Len(t)
         /\ Runs(s \o t, from)
         /\ t # <<>> => (s \o t)[Len(s \o t)] = t[Len(t)]
<1> DEFINE both == s \o t
<1>1. /\ both \in Seq(S) /\ Len(both) = Len(s) + Len(t)
      /\ Len(s) \in Nat /\ Len(t) \in Nat
      /\ \A i \in 1..Len(s) : both[i] = s[i]
      /\ \A i \in 1..Len(t) : both[Len(s) + i] = t[i]
  OBVIOUS
<1> HIDE DEF both
<1>2. Runs(both, from)
  <2> SUFFICES ASSUME NEW i \in 1..Len(both) PROVE both[i].layer = from + i - 1
    BY DEF Runs
  <2>1. CASE i <= Len(s)
    <3>1. i \in 1..Len(s)
      BY <1>1, <2>1
    <3>2. s[i].layer = from + i - 1
      BY <3>1 DEF Runs
    <3> QED
      BY <1>1, <3>1, <3>2
  <2>2. CASE i > Len(s)
    <3>1. PICK k \in 1..Len(t) : i = Len(s) + k
      <4>1. i - Len(s) \in 1..Len(t) /\ i = Len(s) + (i - Len(s))
        BY <1>1, <2>2
      <4> QED
        BY <4>1
    <3>2. both[i] = t[k] /\ t[k].layer = (from + Len(s)) + k - 1
      BY <1>1, <3>1 DEF Runs
    <3> QED
      BY <1>1, <3>1, <3>2
  <2> QED
    BY <1>1, <2>1, <2>2
<1>3. t # <<>> => both[Len(both)] = t[Len(t)]
  <2>1. t # <<>> => Len(t) \in 1..Len(t)
    OBVIOUS
  <2> QED
    BY <1>1, <2>1
<1> QED
  BY <1>1, <1>2, <1>3 DEF both

LEMMA EncodeLayerKeeps == ASSUME SessionInv, EncodeLayer PROVE SessionInv'
<1> DEFINE n == Len(Prior)
           ops == Append(open, Operation(layer))
           full == (layer + 1) % group = 0 \/ layer + 1 = LayerCount
<1>1. /\ phase = "encode" /\ layer < LayerCount /\ EncodeHost(layer)
      /\ full => queue' = queue \o LastOf(ops) /\ open' = <<>>
      /\ ~full => open' = ops /\ queue' = queue
      /\ layer' = layer + 1
      /\ phase' = IF layer + 1 = LayerCount THEN "wait" ELSE "encode"
      /\ UNCHANGED <<sharing, prepared, group, request, fresh, step, gdn, slabs,
                     pleRows, broken, handed, outcome>>
  BY DEF EncodeLayer
<1>2. PICK due \in 0..LayerCount : GpuBehind(due)
  BY <1>1, SessionParts DEF GpuRuns
<1>3. layer \in AllLayers /\ layer \in Nat /\ due \in Nat
  <2>1. layer \in 0..LayerCount
    BY <1>2 DEF GpuBehind
  <2>2. LayerCount \in Nat
    BY SessionNumbers
  <2> QED
    BY <1>1, <2>1, <2>2 DEF AllLayers
<1>4. /\ TablesReady(layer)'
      /\ counts' = [l \in Attention |->
           CountsOf(n + (IF l < layer' THEN 1 ELSE 0), PriorBase, PriorCold)]
      /\ ngram' = IF PleLayer < layer' THEN Posterior ELSE Prior
  <2>1. TablesReady(layer)
    BY <1>2 DEF GpuBehind
  <2>2. PICK next : next = layer + 1
    OBVIOUS
  <2>3. /\ TablesReady(next)'
        /\ counts' = [l \in Attention |->
             CountsOf(n + (IF l < next THEN 1 ELSE 0), PriorBase, PriorCold)]
        /\ ngram' = IF PleLayer < next THEN Posterior ELSE Prior
    BY <1>1, <1>3, <2>1, <2>2, HostFacts
  <2>4. layer' = next
    BY <1>1, <2>2
  <2>5. TablesReady(layer)'
    BY <2>3, <2>4 DEF TablesReady
  <2> HIDE DEF n
  <2> QED
    BY <2>3, <2>4, <2>5
<1>5. /\ Prior' = Prior /\ PriorBase' = PriorBase /\ PriorCold' = PriorCold
      /\ Posterior' = Posterior /\ Ops' = Ops
  BY <1>1 DEF Prior, PriorBase, PriorCold, Posterior, Ops, OpAt
<1>6. phase' \in {"encode", "wait"}
  BY <1>1
<1>7. RequestTyped'
  BY <1>1, SessionParts DEF RequestTyped
<1>8. StepTyped'
  BY <1>1, <1>6, SessionParts DEF StepTyped
<1>9. Settled'
  BY <1>6 DEF Settled
<1>10. HostAhead'
  <2>1. phase' = "wait" => layer' = LayerCount /\ open' = <<>>
    BY <1>1
  <2>2. RoomAfter(n, PriorBase, PriorCold)
    BY <1>1, SessionParts DEF HostAhead
  <2>3. RoomAfter(Len(Prior), PriorBase, PriorCold)'
    BY <1>5, <2>2 DEF RoomAfter
  <2> HIDE DEF full, ops
  <2> QED
    BY <1>4, <1>5, <2>1, <2>3 DEF HostAhead
<1>11. GpuRuns'
  <2>1. /\ queue \in Seq(Ops) /\ Runs(queue, due)
        /\ open \in Seq(Ops) /\ Runs(open, due + Len(queue))
        /\ queue # <<>> => queue[Len(queue)].last
        /\ due + Len(queue) + Len(open) = layer
    BY <1>1, <1>2 DEF GpuBehind
  <2>2. Len(queue) \in Nat /\ Len(open) \in Nat
    BY <2>1
  <2>3. /\ ops \in Seq(Ops) /\ Len(ops) = Len(open) + 1
        /\ Runs(ops, due + Len(queue)) /\ ops # <<>>
    <3> DEFINE op == Operation(layer)
    <3>1. op \in Ops /\ op.layer = layer
      <4>1. op = OpAt(layer, FALSE)
        BY <1>1, <1>3, OperationIs
      <4> QED
        BY <1>3, <4>1, OperationMarked
    <3> HIDE DEF op
    <3>2. /\ Append(open, op) \in Seq(Ops) /\ Len(Append(open, op)) = Len(open) + 1
          /\ \A i \in 1..Len(open) : Append(open, op)[i] = open[i]
          /\ Append(open, op)[Len(open) + 1] = op
      BY <2>1, <3>1
    <3>3. Runs(Append(open, op), due + Len(queue))
      <4> SUFFICES ASSUME NEW i \in 1..(Len(open) + 1)
                   PROVE  Append(open, op)[i].layer = due + Len(queue) + i - 1
        BY <3>2 DEF Runs
      <4>1. CASE i <= Len(open)
        BY <2>1, <2>2, <3>2, <4>1 DEF Runs
      <4>2. CASE i > Len(open)
        <5>1. i = Len(open) + 1
          BY <2>2, <4>2
        <5> QED
          BY <1>3, <2>1, <2>2, <3>1, <3>2, <5>1
      <4> QED
        BY <2>2, <4>1, <4>2
    <3>4. Append(open, op) # <<>>
      BY <2>2, <3>2
    <3> QED
      BY <3>2, <3>3, <3>4 DEF op
  <2> HIDE DEF ops
  <2>4. /\ queue' \in Seq(Ops) /\ Runs(queue, due)'
        /\ open' \in Seq(Ops) /\ Runs(open, due + Len(queue))'
        /\ queue' # <<>> => queue'[Len(queue')].last
        /\ due + Len(queue') + Len(open') = layer'
    <3>1. CASE full
      <4> DEFINE group_ops == LastOf(ops)
      <4>1. /\ group_ops \in Seq(Ops) /\ Len(group_ops) = Len(ops)
            /\ \A i \in 1..Len(ops) : group_ops[i].layer = ops[i].layer
            /\ group_ops[Len(ops)].last
        BY <2>3, GroupMarked
      <4> HIDE DEF group_ops
      <4>2. Runs(group_ops, due + Len(queue))
        BY <2>3, <4>1 DEF Runs
      <4>3. group_ops # <<>>
        BY <2>2, <2>3, <4>1
      <4>4. /\ queue \o group_ops \in Seq(Ops)
            /\ Len(queue \o group_ops) = Len(queue) + Len(group_ops)
            /\ Runs(queue \o group_ops, due)
            /\ (queue \o group_ops)[Len(queue \o group_ops)] = group_ops[Len(group_ops)]
        BY <1>3, <2>1, <4>1, <4>2, <4>3, RunsJoin
      <4>5. queue' = queue \o group_ops /\ open' = <<>> /\ layer' = layer + 1
        BY <1>1, <3>1 DEF group_ops, ops
      <4>6. Len(open') = 0 /\ open' \in Seq(Ops) /\ Runs(open, due + Len(queue))'
        BY <4>5 DEF Runs
      <4>7. Runs(queue, due)'
        BY <4>4, <4>5 DEF Runs
      <4>8. due + Len(queue') + Len(open') = layer'
        BY <1>3, <2>1, <2>2, <2>3, <4>1, <4>4, <4>5, <4>6
      <4> QED
        BY <4>1, <4>4, <4>5, <4>6, <4>7, <4>8
    <3>2. CASE ~full
      <4>1. open' = ops /\ queue' = queue /\ layer' = layer + 1
        BY <1>1, <3>2 DEF ops
      <4>2. Runs(queue, due)' /\ Runs(open, due + Len(queue))'
        BY <2>1, <2>3, <4>1 DEF Runs
      <4>3. due + Len(queue') + Len(open') = layer'
        BY <1>3, <2>1, <2>2, <2>3, <4>1
      <4> QED
        BY <2>1, <2>3, <4>1, <4>2, <4>3
    <3> QED
      BY <3>1, <3>2
  <2>5. GpuBehind(due)'
    <3>1. /\ \A l \in AllLayers : due <= l => GpuHolds(l, Prior)'
          /\ ~broken => \A l \in AllLayers : l < due => GpuHolds(l, Posterior)'
      BY <1>1, <1>2, <1>5 DEF GpuBehind, GpuHolds
    <3>2. /\ due <= PleLayer => pleRows = Prior
          /\ ~broken /\ PleLayer < due => pleRows = Posterior
          /\ gdn = [l \in Linear |-> gdn[l]]
          /\ n - PriorCold < HotCapacity
      BY <1>2 DEF GpuBehind
    <3>3. layer' \in 0..LayerCount
      BY <1>1, <1>3, SessionNumbers
    <3>4. due + Len(queue') + Len(open') <= layer'
      BY <2>4, <3>3
    <3>5. (queue \in Seq(Ops))' /\ (open \in Seq(Ops))'
      BY <1>5, <2>4
    <3>6. UNCHANGED <<gdn, pleRows, broken>>
      BY <1>1
    <3> HIDE DEF n, full
    <3> QED
      BY <1>4, <1>5, <2>4, <3>1, <3>2, <3>3, <3>4, <3>5, <3>6 DEF GpuBehind, n
  <2> QED
    BY <2>5 DEF GpuRuns
<1>12. Leaving'
  <2>1. tables' = [rope |-> tables'.rope, pool |-> tables'.pool,
                   embedding |-> tables'.embedding]
    BY <1>4 DEF TablesReady
  <2> HIDE DEF full, ops
  <2> QED
    BY <1>1, <1>6, <2>1, SessionParts DEF Leaving, GpuQuiet, CapacityNeverThrows
<1> QED
  BY <1>7, <1>8, <1>9, <1>10, <1>11, <1>12 DEF SessionInv

\* The GPU runs the next operation: its layer now holds the row of the token.
LEMMA ExecuteKeeps == ASSUME SessionInv, Execute PROVE SessionInv'
<1> DEFINE n == Len(Prior)
           op == Head(queue)
<1>1. /\ queue # <<>> /\ queue' = Tail(queue)
      /\ op.layer \in Linear =>
           gdn' = [gdn EXCEPT ![op.layer] = Append(@, op.token)] /\ slabs' = slabs
      /\ op.layer \notin Linear =>
           slabs' = [slabs EXCEPT ![op.layer] = Appended(@, op)] /\ gdn' = gdn
      /\ pleRows' = IF op.layer = PleLayer THEN Append(pleRows, tables.embedding)
                    ELSE pleRows
      /\ UNCHANGED <<host, counts, ngram, tables, broken>>
  BY DEF Execute
<1>2. phase \in {"encode", "wait", "drain"} /\ handed = NoState
  BY <1>1, SessionParts DEF Leaving, GpuQuiet
<1>3. PICK due \in 0..LayerCount : GpuBehind(due)
  BY <1>2, SessionParts DEF GpuRuns
<1>4. /\ Prior \in Seq(Row) /\ PriorBase \in Nat /\ PriorCold \in 0..n /\ n \in Nat
      /\ step.token \in Row /\ Posterior = Append(Prior, step.token)
  BY <1>2, SessionParts, PriorFacts DEF Posterior
<1>5. /\ queue \in Seq(Ops) /\ Runs(queue, due) /\ open \in Seq(Ops)
      /\ Runs(open, due + Len(queue))
      /\ due + Len(queue) + Len(open) <= layer /\ layer \in 0..LayerCount
  BY <1>3 DEF GpuBehind
<1>6. /\ Len(queue) \in Nat /\ Len(queue) >= 1 /\ Len(open) \in Nat
      /\ op = queue[1] /\ op \in Ops /\ op.layer = due
      /\ due \in AllLayers /\ due < layer /\ due \in Nat
  <2>1. Len(queue) \in Nat /\ Len(queue) >= 1 /\ Len(open) \in Nat /\ op = queue[1]
    BY <1>1, <1>5
  <2>2. op \in Ops /\ op.layer = due + 1 - 1
    BY <1>5, <2>1 DEF Runs
  <2> HIDE DEF op
  <2>3. op.layer = due
    BY <2>2
  <2>4. due < layer /\ due \in Nat
    BY <1>5, <2>1, SessionNumbers
  <2> QED
    BY <1>5, <2>1, <2>2, <2>3, <2>4, SessionNumbers DEF AllLayers
<1>7. PICK last \in BOOLEAN : op = OpAt(due, last)
  <2>1. PICK l \in AllLayers, last \in BOOLEAN : op = OpAt(l, last)
    BY <1>6 DEF Ops
  <2>2. l = due
    BY <1>6, <2>1, OperationMarked
  <2> QED
    BY <2>1, <2>2
<1>8. op.token = step.token
  BY <1>6, <1>7, OperationMarked
<1>9. /\ UNCHANGED <<sharing, prepared, group, request, phase, fresh, step, layer,
                     open, handed, outcome>>
      /\ UNCHANGED <<counts, ngram, tables, broken>>
  BY <1>1 DEF host
<1>10. /\ Prior' = Prior /\ PriorBase' = PriorBase /\ PriorCold' = PriorCold
       /\ Posterior' = Posterior /\ Ops' = Ops
  BY <1>9 DEF Prior, PriorBase, PriorCold, Posterior, Ops, OpAt
<1>11. /\ gdn = [l \in Linear |-> gdn[l]] /\ slabs = [l \in Attention |-> slabs[l]]
       /\ \A l \in Attention : slabs[l].pooled \in Seq(Block)
  BY <1>3, SessionParts DEF GpuBehind, RequestTyped
<1>12. /\ gdn' = [l \in Linear |-> gdn'[l]] /\ slabs' = [l \in Attention |-> slabs'[l]]
       /\ \A l \in AllLayers : l # due => GpuHolds(l, Prior)' = GpuHolds(l, Prior)
       /\ \A l \in AllLayers : l # due => GpuHolds(l, Posterior)' = GpuHolds(l, Posterior)
       /\ \A l \in Attention : l # due => slabs'[l] = slabs[l]
  <2> HIDE DEF op
  <2>1. CASE due \in Linear
    <3>1. gdn' = [gdn EXCEPT ![due] = Append(@, op.token)] /\ slabs' = slabs
      BY <1>1, <1>6, <2>1
    <3>2. gdn' = [l \in Linear |-> gdn'[l]] /\ \A l \in Linear : l # due => gdn'[l] = gdn[l]
      BY <1>11, <3>1
    <3>3. \A l \in AllLayers : l # due =>
            /\ l \in Linear => gdn'[l] = gdn[l]
            /\ slabs'[l] = slabs[l]
      BY <3>1, <3>2
    <3>4. slabs' = [l \in Attention |-> slabs'[l]]
      BY <1>11, <3>1
    <3> QED
      BY <1>10, <3>2, <3>3, <3>4, AttentionLayers DEF GpuHolds
  <2>2. CASE due \notin Linear
    <3>1. slabs' = [slabs EXCEPT ![due] = Appended(@, op)] /\ gdn' = gdn
      BY <1>1, <1>6, <2>2
    <3>2. /\ slabs' = [l \in Attention |-> slabs'[l]]
          /\ \A l \in Attention : l # due => slabs'[l] = slabs[l]
      BY <1>11, <3>1
    <3>3. \A l \in AllLayers : l \notin Linear => l \in Attention
      BY DEF Linear
    <3> QED
      BY <1>10, <1>11, <3>1, <3>2, <3>3 DEF GpuHolds
  <2> QED
    BY <2>1, <2>2
<1>13. GpuHolds(due, Posterior)'
  <2>1. GpuHolds(due, Prior)
    BY <1>3, <1>6 DEF GpuBehind
  <2>2. CASE due \in Linear
    <3>1. gdn'[due] = Append(gdn[due], op.token)
      BY <1>1, <1>6, <1>11, <2>2
    <3> QED
      BY <1>4, <1>8, <1>10, <2>1, <2>2, <3>1 DEF GpuHolds
  <2>3. CASE due \notin Linear
    <3>1. due \in Attention
      BY <1>6, <2>3 DEF Linear
    <3>2. SlabHolds(slabs[due], Prior, PriorBase, PriorCold)
      BY <2>1, <2>3 DEF GpuHolds
    <3>3. slabs'[due] = Appended(slabs[due], op)
      BY <1>1, <1>6, <1>11, <2>3, <3>1
    <3>4. Places(op, n, PriorCold)
      <4>1. op = [layer |-> due, token |-> step.token, last |-> last,
                  hot |-> n - PriorCold, slot |-> n % Compress,
                  block |-> n \div Compress,
                  complete |-> (n + 1) \div Compress > n \div Compress]
        BY <1>7, <2>3 DEF OpAt
      <4> HIDE DEF op, n
      <4> QED
        BY <4>1 DEF Places
    <3>5. TablesAt(n, PriorBase)
      BY <1>3, <1>6, <3>1 DEF GpuBehind, TablesReady, TablesAt
    <3>6. n - PriorCold < HotCapacity
      BY <1>3 DEF GpuBehind
    <3>7. SlabHolds(Appended(slabs[due], op), Append(Prior, op.token), PriorBase, PriorCold)
      BY <1>4, <1>8, <3>2, <3>4, <3>5, <3>6, AppendedHolds
    <3>8. SlabHolds(slabs'[due], Posterior, PriorBase, PriorCold)
      BY <1>4, <1>8, <3>3, <3>7
    <3> QED
      BY <1>10, <2>3, <3>8 DEF GpuHolds
  <2> QED
    BY <2>2, <2>3
<1>14. RequestTyped'
  <2>1. \A l \in Attention : slabs'[l].pooled \in Seq(Block)
    <3> SUFFICES ASSUME NEW l \in Attention PROVE slabs'[l].pooled \in Seq(Block)
      OBVIOUS
    <3>1. CASE l = due
      <4>1. SlabHolds(slabs'[due], Posterior', PriorBase', PriorCold')
        BY <1>13, <3>1 DEF GpuHolds, Linear
      <4> QED
        BY <3>1, <4>1 DEF SlabHolds
    <3>2. CASE l # due
      BY <1>11, <1>12, <3>2
    <3> QED
      BY <3>1, <3>2
  <2> QED
    BY <1>9, <1>12, <2>1, SessionParts DEF RequestTyped
<1>15. StepTyped'
  BY <1>9, SessionParts DEF StepTyped
<1>16. Settled'
  BY <1>2, <1>9 DEF Settled
<1>17. HostAhead'
  <2> HIDE DEF n
  <2> QED
    BY <1>9, <1>10, SessionParts DEF HostAhead, RoomAfter
<1>18. GpuRuns'
  <2>1. /\ due + 1 \in 0..LayerCount /\ due + 1 \in Nat
        /\ \A l \in AllLayers : /\ due + 1 <= l => due <= l /\ l # due
                                /\ l < due + 1 => l = due \/ (l < due /\ l # due)
    BY <1>5, <1>6, SessionNumbers DEF AllLayers
  <2>2. /\ queue' \in Seq(Ops) /\ Len(queue') = Len(queue) - 1
        /\ \A i \in 1..Len(queue') : queue'[i] = queue[i + 1]
    BY <1>1, <1>5
  <2>3. /\ \A i \in 1..Len(queue') : queue'[i].layer = (due + 1) + i - 1
        /\ queue' # <<>> => queue'[Len(queue')].last
    <3>1. ASSUME NEW i \in 1..Len(queue')
          PROVE  queue'[i].layer = (due + 1) + i - 1
      <4>1. i + 1 \in 1..Len(queue)
        BY <1>6, <2>2
      <4>2. queue[i + 1].layer = due + (i + 1) - 1
        BY <1>5, <4>1 DEF Runs
      <4> QED
        BY <1>6, <2>2, <4>2
    <3>2. ASSUME queue' # <<>>
          PROVE  queue'[Len(queue')].last
      <4>1. Len(queue') \in 1..Len(queue')
        BY <2>2, <3>2
      <4>2. queue'[Len(queue')] = queue[Len(queue)]
        BY <1>6, <2>2, <4>1
      <4> QED
        BY <1>1, <1>3, <4>2 DEF GpuBehind
    <3> QED
      BY <3>1, <3>2
  <2>4. /\ \A i \in 1..Len(open) : open[i].layer = (due + 1) + Len(queue') + i - 1
    <3>1. (due + 1) + Len(queue') = due + Len(queue)
      BY <1>6, <2>2
    <3> QED
      BY <1>5, <3>1 DEF Runs
  <2>5. /\ (due + 1) + Len(queue') + Len(open') <= layer'
        /\ phase' # "drain" => (due + 1) + Len(queue') + Len(open') = layer'
    <3>1. phase # "drain" => due + Len(queue) + Len(open) = layer
      BY <1>3 DEF GpuBehind
    <3>2. (due + 1) + Len(queue') + Len(open') = due + Len(queue) + Len(open)
      BY <1>6, <1>9, <2>2
    <3> QED
      BY <1>5, <1>9, <3>1, <3>2
  <2>6. PICK next : next = due + 1
    OBVIOUS
  <2>7. /\ \A l \in AllLayers : next <= l => GpuHolds(l, Prior)'
        /\ ~broken => \A l \in AllLayers : l < next => GpuHolds(l, Posterior)'
    <3>1. /\ \A l \in AllLayers : due <= l => GpuHolds(l, Prior)
          /\ ~broken => \A l \in AllLayers : l < due => GpuHolds(l, Posterior)
      BY <1>3 DEF GpuBehind
    <3>2. ASSUME NEW l \in AllLayers, next <= l PROVE GpuHolds(l, Prior)'
      BY <1>12, <2>1, <2>6, <3>1, <3>2
    <3>3. ASSUME NEW l \in AllLayers, ~broken, l < next PROVE GpuHolds(l, Posterior)'
      <4>1. CASE l = due
        BY <1>13, <4>1
      <4>2. CASE l < due /\ l # due
        BY <1>12, <3>1, <3>3, <4>2
      <4> QED
        BY <2>1, <2>6, <3>3, <4>1, <4>2
    <3> QED
      BY <3>2, <3>3
  <2>8. /\ next <= PleLayer => pleRows' = Prior
        /\ ~broken /\ PleLayer < next => pleRows' = Posterior
    <3>1. /\ due <= PleLayer => pleRows = Prior
          /\ ~broken /\ PleLayer < due => pleRows = Posterior
          /\ PleLayer < layer => tables.embedding = step.token
      BY <1>3 DEF GpuBehind, TablesReady
    <3>2. PleLayer \in Int
      BY SessionNumbers DEF AllLayers
    <3>3. CASE due = PleLayer
      <4>1. pleRows' = Append(Prior, step.token)
        BY <1>1, <1>6, <3>1, <3>2, <3>3
      <4>2. ~(next <= PleLayer)
        BY <1>6, <2>6, <3>3
      <4> QED
        BY <1>4, <4>1, <4>2
    <3>4. CASE due # PleLayer
      <4>1. pleRows' = pleRows
        BY <1>1, <1>6, <3>4
      <4>2. /\ next <= PleLayer => due <= PleLayer
            /\ PleLayer < next => PleLayer < due
        BY <1>6, <2>6, <3>2, <3>4
      <4> QED
        BY <3>1, <4>1, <4>2
    <3> QED
      BY <3>3, <3>4
  <2>9. GpuBehind(next)'
    <3>1. (queue \in Seq(Ops))' /\ (open \in Seq(Ops))'
      BY <1>5, <1>9, <1>10, <2>2
    <3>2. Runs(queue, next)' /\ Runs(open, next + Len(queue))'
      BY <1>9, <2>3, <2>4, <2>6 DEF Runs
    <3>3. TablesReady(layer)'
      BY <1>3, <1>9, <1>10 DEF GpuBehind, TablesReady
    <3>4. n - PriorCold < HotCapacity
      BY <1>3 DEF GpuBehind
    <3>5. layer' \in 0..LayerCount
      BY <1>5, <1>9
    <3> HIDE DEF n, op
    <3> QED
      BY <1>9, <1>10, <1>12, <2>1, <2>3, <2>5, <2>6, <2>7, <2>8, <3>1, <3>2, <3>3,
         <3>4, <3>5 DEF GpuBehind, n
  <2> QED
    BY <2>1, <2>6, <2>9 DEF GpuRuns
<1>19. Leaving'
  BY <1>2, <1>9, SessionParts DEF Leaving, GpuQuiet, CapacityNeverThrows
<1> QED
  BY <1>14, <1>15, <1>16, <1>17, <1>18, <1>19 DEF SessionInv

\* A failed command buffer is a whole group of the queue.
LEMMA GroupEnds ==
  ASSUME NEW S, NEW q \in Seq(S), q # <<>>, q[Len(q)].last
  PROVE  GroupLen(q) \in 1..Len(q)
<1> DEFINE Ends(n) == n \in 1..Len(q) /\ q[n].last
<1>1. Len(q) \in Nat /\ Ends(Len(q))
  OBVIOUS
<1>2. {n \in Nat : Ends(n)} # {} /\ {n \in Nat : Ends(n)} \subseteq Nat
  BY <1>1
<1>3. PICK n \in {m \in Nat : Ends(m)} : \A m \in {k \in Nat : Ends(k)} : n <= m
  BY <1>2, NatMinimum
<1>4. n \in 1..Len(q) /\ q[n].last /\ \A m \in 1..(n - 1) : ~q[m].last
  <2>1. n \in 1..Len(q) /\ q[n].last
    BY <1>3
  <2>2. \A m \in 1..(n - 1) : m \in Nat /\ m \in 1..Len(q) /\ ~(n <= m)
    BY <1>1, <2>1
  <2> QED
    BY <1>3, <2>1, <2>2
<1> QED
  BY <1>4 DEF GroupLen

LEMMA CommandFailsKeeps == ASSUME SessionInv, CommandFails PROVE SessionInv'
<1> DEFINE n == Len(Prior)
           lost == GroupLen(queue)
<1>1. /\ queue # <<>> /\ phase \in {"encode", "wait", "drain"}
      /\ queue' = SubSeq(queue, lost + 1, Len(queue)) /\ broken' = TRUE
      /\ UNCHANGED <<host, state, tables>>
  BY DEF CommandFails
<1>2. /\ UNCHANGED <<sharing, prepared, group, request, phase, fresh, step, layer,
                     open, handed, outcome>>
      /\ UNCHANGED <<gdn, counts, slabs, ngram, pleRows, tables>>
  BY <1>1 DEF host, state
<1>3. PICK due \in 0..LayerCount : GpuBehind(due)
  BY <1>1, SessionParts DEF GpuRuns
<1>4. /\ queue \in Seq(Ops) /\ Runs(queue, due) /\ open \in Seq(Ops)
      /\ Runs(open, due + Len(queue))
      /\ due + Len(queue) + Len(open) <= layer /\ layer \in 0..LayerCount
      /\ queue[Len(queue)].last
  BY <1>1, <1>3 DEF GpuBehind
<1>5. lost \in 1..Len(queue) /\ Len(queue) \in Nat /\ Len(open) \in Nat
  BY <1>1, <1>4, GroupEnds
<1>6. /\ Prior' = Prior /\ PriorBase' = PriorBase /\ PriorCold' = PriorCold
      /\ Posterior' = Posterior /\ Ops' = Ops
  BY <1>2 DEF Prior, PriorBase, PriorCold, Posterior, Ops, OpAt
<1> HIDE DEF lost
<1>7. /\ queue' \in Seq(Ops) /\ Len(queue') = Len(queue) - lost
      /\ \A i \in 1..Len(queue') : queue'[i] = queue[i + lost]
  <2>1. SubSeq(queue, lost + 1, Len(queue))
          = [i \in 1..(Len(queue) - lost) |-> queue[lost + i]]
    BY <1>4, <1>5
  <2>2. \A i \in 1..(Len(queue) - lost) : queue[lost + i] \in Ops
    BY <1>4, <1>5
  <2>3. queue' = [i \in 1..(Len(queue) - lost) |-> queue[lost + i]]
    BY <1>1, <2>1
  <2>4. Len(queue) - lost \in Nat
    BY <1>5
  <2> DEFINE m == Len(queue) - lost
  <2> HIDE DEF m
  <2>5. queue' \in Seq(Ops) /\ Len(queue') = m /\ \A i \in 1..m : queue'[i] = queue[lost + i]
    BY <2>2, <2>3, <2>4 DEF m
  <2>6. \A i \in 1..m : lost + i = i + lost
    BY <1>5, <2>4 DEF m
  <2> QED
    BY <2>5, <2>6 DEF m
<1>8. RequestTyped'
  <2>1. broken' \in BOOLEAN
    BY <1>1
  <2> QED
    BY <1>2, <2>1, SessionParts DEF RequestTyped
<1>9. StepTyped'
  BY <1>2, SessionParts DEF StepTyped
<1>10. Settled'
  BY <1>1, <1>2 DEF Settled
<1>11. HostAhead'
  <2> HIDE DEF n
  <2> QED
    BY <1>2, <1>6, SessionParts DEF HostAhead, RoomAfter
<1>12. GpuRuns'
  <2>1. PICK next : next = due + lost
    OBVIOUS
  <2>2. /\ next \in 0..LayerCount /\ due \in Nat /\ next \in Nat
        /\ due <= next
    BY <1>4, <1>5, <2>1, SessionNumbers
  <2>3. /\ \A i \in 1..Len(queue') : queue'[i].layer = next + i - 1
        /\ queue' # <<>> => queue'[Len(queue')].last
    <3>1. ASSUME NEW i \in 1..Len(queue')
          PROVE  queue'[i].layer = next + i - 1
      <4>1. i + lost \in 1..Len(queue)
        BY <1>5, <1>7
      <4>2. queue[i + lost].layer = due + (i + lost) - 1
        BY <1>4, <4>1 DEF Runs
      <4>3. i \in Int /\ lost \in Int
        BY <1>5
      <4>4. due + (i + lost) - 1 = next + i - 1
        BY <2>1, <2>2, <4>3
      <4> QED
        BY <1>7, <4>2, <4>4
    <3>2. ASSUME queue' # <<>>
          PROVE  queue'[Len(queue')].last
      <4>1. Len(queue') \in 1..Len(queue')
        BY <1>7, <3>2
      <4>2. queue'[Len(queue')] = queue[Len(queue)]
        BY <1>5, <1>7, <4>1
      <4> QED
        BY <1>4, <4>2
    <3> QED
      BY <3>1, <3>2
  <2>4. next + Len(queue') = due + Len(queue)
    BY <1>5, <1>7, <2>1, <2>2
  <2>5. /\ next + Len(queue') + Len(open') <= layer'
        /\ phase' # "drain" => next + Len(queue') + Len(open') = layer'
    BY <1>2, <1>3, <2>4 DEF GpuBehind
  <2>6. \A l \in AllLayers : next <= l => GpuHolds(l, Prior)'
    <3>1. ASSUME NEW l \in AllLayers, next <= l PROVE GpuHolds(l, Prior)'
      <4>1. due <= l
        BY <2>2, <3>1 DEF AllLayers
      <4>2. GpuHolds(l, Prior)
        BY <1>3, <4>1 DEF GpuBehind
      <4> QED
        BY <1>2, <1>6, <4>2 DEF GpuHolds
    <3> QED
      BY <3>1
  <2>7. next <= PleLayer => pleRows' = Prior
    <3>1. next <= PleLayer => due <= PleLayer
      BY <2>2, SessionNumbers DEF AllLayers
    <3> QED
      BY <1>2, <1>3, <3>1 DEF GpuBehind
  <2>8. (queue \in Seq(Ops))' /\ (open \in Seq(Ops))'
    BY <1>2, <1>4, <1>6, <1>7
  <2>9. Runs(queue, next)' /\ Runs(open, next + Len(queue))'
    BY <1>2, <1>4, <2>3, <2>4 DEF Runs
  <2>10. TablesReady(layer)'
    BY <1>2, <1>3, <1>6 DEF GpuBehind, TablesReady
  <2>11. n - PriorCold < HotCapacity /\ gdn = [l \in Linear |-> gdn[l]]
    BY <1>3 DEF GpuBehind
  <2>12. layer' \in 0..LayerCount
    BY <1>2, <1>4
  <2>13. GpuBehind(next)'
    <3> HIDE DEF n
    <3> QED
      BY <1>1, <1>2, <1>6, <2>2, <2>3, <2>5, <2>6, <2>7, <2>8, <2>9, <2>10, <2>11,
         <2>12 DEF GpuBehind, n
  <2> QED
    BY <2>2, <2>13 DEF GpuRuns
<1>13. Leaving'
  BY <1>1, <1>2, SessionParts DEF Leaving, GpuQuiet, CapacityNeverThrows
<1> QED
  BY <1>8, <1>9, <1>10, <1>11, <1>12, <1>13 DEF SessionInv

LEMMA SessionStutters == ASSUME SessionInv, UNCHANGED sessionVars PROVE SessionInv'
<1>1. /\ Prior' = Prior /\ PriorBase' = PriorBase /\ PriorCold' = PriorCold
      /\ Posterior' = Posterior /\ Ops' = Ops
  BY DEF sessionVars, Prior, PriorBase, PriorCold, Posterior, Ops, OpAt
<1>2. RequestTyped' /\ StepTyped' /\ Leaving'
  BY SessionParts DEF sessionVars, RequestTyped, StepTyped, Leaving, GpuQuiet,
                      CapacityNeverThrows, Rows
<1>3. Settled'
  BY <1>1, SessionParts DEF sessionVars, Settled, Context, RoomAfter, Rows
<1>4. HostAhead'
  BY <1>1, SessionParts DEF sessionVars, HostAhead, RoomAfter
<1>5. GpuRuns'
  <2>1. ASSUME NEW due \in 0..LayerCount, GpuBehind(due) PROVE GpuBehind(due)'
    BY <1>1, <2>1 DEF sessionVars, GpuBehind, GpuHolds, TablesReady, Runs
  <2> QED
    BY <2>1, SessionParts DEF sessionVars, GpuRuns
<1> QED
  BY <1>2, <1>3, <1>4, <1>5 DEF SessionInv

LEMMA SessionStep == ASSUME SessionInv, [SessionNext]_sessionVars PROVE SessionInv'
<1>1. CASE Begin
  BY <1>1, BeginKeeps
<1>2. CASE PrepareStep
  BY <1>2, PrepareKeeps
<1>3. CASE Import
  BY <1>3, ImportKeeps
<1>4. CASE Export
  BY <1>4, ExportKeeps
<1>5. CASE DecodeToken
  BY <1>5, DecodeTokenKeeps
<1>6. CASE Finish
  BY <1>6, FinishKeeps
<1>7. CASE Start
  BY <1>7, StartKeeps
<1>8. CASE EncodeLayer
  BY <1>8, EncodeLayerKeeps
<1>9. CASE EncodeThrows
  BY <1>9, EncodeThrowsKeeps
<1>10. CASE Drain
  BY <1>10, DrainKeeps
<1>11. CASE FinishCommands
  BY <1>11, FinishCommandsKeeps
<1>12. CASE Execute
  BY <1>12, ExecuteKeeps
<1>13. CASE CommandFails
  BY <1>13, CommandFailsKeeps
<1>14. CASE UNCHANGED sessionVars
  BY <1>14, SessionStutters
<1> QED
  BY <1>1, <1>2, <1>3, <1>4, <1>5, <1>6, <1>7, <1>8, <1>9, <1>10, <1>11, <1>12,
     <1>13, <1>14 DEF SessionNext

LEMMA SessionSays == SessionInv => SessionSound
<1> SUFFICES ASSUME SessionInv PROVE SessionSound
  OBVIOUS
<1>1. HoldsContext
  BY SessionParts, ReadyExports DEF HoldsContext, RequestTyped
<1>2. HandOverWhole /\ CapacityNeverThrows /\ GpuQuiet /\ WeightsInPlace
  BY SessionParts DEF HandOverWhole, Leaving, WeightsInPlace
<1> QED
  BY <1>1, <1>2 DEF SessionSound

\* The persistent backend, for any number of layers, groups, requests and
\* steps and any sizes of its buffers: when a step is over, every layer holds
\* the rows of the current request, each key rotated for its own position;
\* what is handed back to MLX is the whole context; the slab is never found
\* full while a layer is encoded; nothing runs on the GPU outside a step; and
\* shared weights are bound while layers are encoded (import_state,
\* reset_all_state, encode_attention, greedy_decode, finish_commands).
THEOREM SessionStaysSound == SessionSpec => []SessionSound
<1>1. SessionInit => SessionInv
  BY SessionStarts
<1>2. SessionInv /\ [SessionNext]_sessionVars => SessionInv'
  BY SessionStep
<1>3. SessionInv => SessionSound
  BY SessionSays
<1> QED
  BY <1>1, <1>2, <1>3, PTL DEF SessionSpec

-----------------------------------------------------------------------------
(***************************************************************************)
(* The inductive invariant.  OneHolder counts the places a connection is   *)
(* in; the invariant says which place each state of a connection stands    *)
(* for, and that no place lists a connection twice.                        *)
(***************************************************************************)

\* The thread in run() holds the connection between accept and the queue.
MainHolds ==
  /\ current # NoClient <=> pc \in {"accepted", "refusing"}
  /\ \A c \in Clients : client[c] = "accepted" <=> current = c

\* The queue lists the queued connections, each once.
QueueHolds ==
  /\ \A i, j \in DOMAIN pending_clients : pending_clients[i] = pending_clients[j] => i = j
  /\ \A c \in Clients :
       client[c] = "queued" <=> \E i \in DOMAIN pending_clients : pending_clients[i] = c

\* A worker inside handle_client, and no other, has a connection, its own.
WorkersHold ==
  /\ \A w \in Workers : worker[w] = "handling" <=> serving[w] # NoClient
  /\ \A v, w \in Workers : serving[v] = serving[w] /\ serving[v] # NoClient => v = w
  /\ \A c \in Clients : client[c] = "handling" <=> \E w \in Workers : serving[w] = c

Unborn == {"installed", "listening", "publishing"}
Drained == {"waking", "joining", "returned", "destroyed"}

\* Nothing is queued before the workers start or after the queue was drained,
\* and none of them runs before it is started or after it was joined.
Phases ==
  /\ pc \in Unborn \cup Drained => pending_clients = <<>>
  /\ pc \in Unborn => \A w \in Workers : worker[w] = "none"
  /\ pc \in {"returned", "destroyed"} =>
       \A w \in Workers : worker[w] \in {"none", "exited"}

\* A stop() that obtained the listening descriptor and has not closed it.
Took(s) == handler[s] \in {"taken", "shut"}

\* Unless run() is on its error path, the descriptor is open while it is
\* published and while a stop() holds it, and there is only one of these.
Descriptor ==
  /\ pc \in Unborn => ~published /\ \A s \in Signals : ~Took(s)
  /\ pc \in {"listening", "publishing"} => descriptor = "listener"
  /\ published => \A s \in Signals : ~Took(s)
  /\ \A s, t \in Signals : Took(s) /\ Took(t) => s = t
  /\ ~threw /\ published => descriptor = "listener"
  /\ ~threw => \A s \in Signals : Took(s) => descriptor \in {"listener", "shut"}
  /\ pc \in {"unpublishing", "closing"} => threw

HInv ==
  /\ TypeOK
  /\ MainHolds
  /\ QueueHolds
  /\ WorkersHold
  /\ Phases
  /\ Descriptor
  /\ OnlyErrorPathMiscloses

-----------------------------------------------------------------------------
(* The queue.                                                              *)

LEMMA PendingFacts ==
  ASSUME TypeOK
  PROVE  /\ pending_clients \in Seq(Clients) /\ Len(pending_clients) \in Nat
         /\ DOMAIN pending_clients = 1..Len(pending_clients)
         /\ \A i \in DOMAIN pending_clients : pending_clients[i] \in Clients /\ pending_clients[i] # NoClient
  BY LenProperties, ElementOfSeq, NoClientAssumption DEF TypeOK

LEMMA AppendPending ==
  ASSUME TypeOK, NEW c \in Clients
  PROVE  /\ Append(pending_clients, c) \in Seq(Clients)
         /\ Len(Append(pending_clients, c)) = Len(pending_clients) + 1
         /\ DOMAIN Append(pending_clients, c) = DOMAIN pending_clients \cup {Len(pending_clients) + 1}
         /\ Len(pending_clients) + 1 \notin DOMAIN pending_clients
         /\ \A i \in DOMAIN pending_clients : Append(pending_clients, c)[i] = pending_clients[i]
         /\ Append(pending_clients, c)[Len(pending_clients) + 1] = c
<1>1. /\ Append(pending_clients, c) \in Seq(Clients)
      /\ Len(Append(pending_clients, c)) = Len(pending_clients) + 1
      /\ \A i \in 1..Len(pending_clients) : Append(pending_clients, c)[i] = pending_clients[i]
      /\ Append(pending_clients, c)[Len(pending_clients) + 1] = c
  BY AppendProperties DEF TypeOK
<1>2. DOMAIN Append(pending_clients, c) = 1..(Len(pending_clients) + 1)
  BY <1>1, LenProperties
<1> QED BY <1>1, <1>2, PendingFacts

LEMMA TailPending ==
  ASSUME TypeOK, pending_clients # <<>>
  PROVE  /\ Tail(pending_clients) \in Seq(Clients) /\ Len(Tail(pending_clients)) <= MaxPending
         /\ Head(pending_clients) = pending_clients[1] /\ 1 \in DOMAIN pending_clients
         /\ \A i \in DOMAIN Tail(pending_clients) :
               i + 1 \in DOMAIN pending_clients /\ Tail(pending_clients)[i] = pending_clients[i + 1]
         /\ \A j \in DOMAIN pending_clients :
               j # 1 => j - 1 \in DOMAIN Tail(pending_clients) /\ Tail(pending_clients)[j - 1] = pending_clients[j]
<1>1. /\ Tail(pending_clients) \in Seq(Clients)
      /\ Len(Tail(pending_clients)) = Len(pending_clients) - 1
      /\ \A i \in 1..Len(Tail(pending_clients)) : Tail(pending_clients)[i] = pending_clients[i + 1]
      /\ Len(pending_clients) > 0 /\ Head(pending_clients) = pending_clients[1]
  BY PendingFacts, HeadTailProperties, EmptySeq
<1>2. DOMAIN Tail(pending_clients) = 1..(Len(pending_clients) - 1)
  BY <1>1, LenProperties
<1> QED BY <1>1, <1>2, PendingFacts, HttpServerAssumption DEF TypeOK

-----------------------------------------------------------------------------
(* Type correctness.                                                       *)

LEMMA TypeStep == TypeOK /\ MainHolds /\ [Next]_vars => TypeOK'
<1> SUFFICES ASSUME TypeOK, MainHolds, [Next]_vars PROVE TypeOK'
  OBVIOUS
<1> USE DEF TypeOK, mainVars, socketVars, queueVars, workerVars
<1>1. CASE Listen
  BY <1>1 DEF Listen, MainPcs
<1>2. CASE ResetStopping
  BY <1>2 DEF ResetStopping, MainPcs
<1>3. CASE Publish
  BY <1>3 DEF Publish, MainPcs
<1>4. CASE \E w \in Workers : StartWorker(w)
  BY <1>4 DEF StartWorker
<1>5. CASE Started
  BY <1>5 DEF Started, MainPcs
<1>6. CASE StartFails
  BY <1>6 DEF StartFails, CloseDescriptor, MainPcs
<1>7. CASE CheckStopping
  BY <1>7 DEF CheckStopping, MainPcs
<1>8. CASE \E c \in Clients : Accept(c)
  BY <1>8 DEF Accept, MainPcs
<1>9. CASE AcceptEnds \/ AcceptDisturbed
  BY <1>9 DEF AcceptEnds, AcceptDisturbed, AcceptInterrupted, AcceptFaults, FailedAccept,
     MainPcs
<1>10. CASE Enqueue
  <2>1. current \in Clients
    BY <1>10 DEF Enqueue, MainHolds
  <2>2. pending_clients' \in Seq(Clients) /\ Len(pending_clients') <= MaxPending
    BY <1>10, <2>1, AppendPending, PendingFacts, HttpServerAssumption DEF Enqueue
  <2> QED BY <1>10, <2>1, <2>2 DEF Enqueue, MainPcs
<1>11. CASE QueueFull
  BY <1>11 DEF QueueFull, MainPcs
<1>12. CASE Refuse
  BY <1>12 DEF Refuse, MainPcs
<1>13. CASE NotifyOne
  BY <1>13 DEF NotifyOne, Asleep, MainPcs
<1>14. CASE Leave
  BY <1>14 DEF Leave, MainPcs
<1>15. CASE Fail
  BY <1>15 DEF Fail, MainPcs
<1>16. CASE Unpublish
  BY <1>16 DEF Unpublish, MainPcs
<1>17. CASE CloseListener
  BY <1>17 DEF CloseListener, CloseDescriptor, MainPcs
<1>18. CASE CloseQueued
  <2>1. pending_clients' \in Seq(Clients) /\ Len(pending_clients') <= MaxPending
    BY <1>18, EmptySeq, HttpServerAssumption DEF CloseQueued
  <2> QED BY <1>18, <2>1 DEF CloseQueued, MainPcs
<1>19. CASE NotifyAll
  BY <1>19 DEF NotifyAll, Asleep, MainPcs
<1>20. CASE Join
  BY <1>20 DEF Join, MainPcs
<1>21. CASE Destroy
  BY <1>21 DEF Destroy, MainPcs
<1>22. ASSUME NEW w \in Workers, Take(w) PROVE TypeOK'
  <2>1. pending_clients' \in Seq(Clients) /\ Len(pending_clients') <= MaxPending /\ Head(pending_clients) \in Clients
    BY <1>22, TailPending, PendingFacts DEF Take
  <2> QED BY <1>22, <2>1 DEF Take
<1>23. ASSUME NEW w \in Workers, WorkerExits(w) \/ Test(w) \/ Sleep(w) \/ WakeSpuriously(w)
       PROVE  TypeOK'
  BY <1>23 DEF WorkerExits, Test, Sleep, WakeSpuriously
<1>24. ASSUME NEW w \in Workers, Handle(w) PROVE TypeOK'
  BY <1>24 DEF Handle
<1>25. ASSUME NEW s \in Signals, Raise(s) PROVE TypeOK'
  BY <1>25 DEF Raise
<1>26. ASSUME NEW s \in Signals, Exchange(s) PROVE TypeOK'
  BY <1>26 DEF Exchange
<1>27. ASSUME NEW s \in Signals, Shutdown(s) PROVE TypeOK'
  BY <1>27 DEF Shutdown
<1>28. ASSUME NEW s \in Signals, Close(s) PROVE TypeOK'
  BY <1>28 DEF Close, CloseDescriptor
<1>29. CASE \E c \in Clients : Connect(c)
  BY <1>29 DEF Connect
<1>30. CASE OpenOther \/ CloseOther
  BY <1>30 DEF OpenOther, CloseOther
<1>31. CASE UNCHANGED vars
  BY <1>31 DEF vars
<1> QED
  BY <1>1, <1>2, <1>3, <1>4, <1>5, <1>6, <1>7, <1>8, <1>9, <1>10, <1>11, <1>12,
     <1>13, <1>14, <1>15, <1>16, <1>17, <1>18, <1>19, <1>20, <1>21, <1>22, <1>23,
     <1>24, <1>25, <1>26, <1>27, <1>28, <1>29, <1>30, <1>31
     DEF Next, Main, Work, Handler, Terminated

-----------------------------------------------------------------------------
(* Who holds a connection.                                                 *)

HoldInv == TypeOK /\ MainHolds /\ QueueHolds /\ WorkersHold /\ Phases

HoldNext == MainHolds' /\ QueueHolds' /\ WorkersHold' /\ Phases'

\* Steps of the thread in run() that move no connection.
LEMMA MainMoves ==
  ASSUME HoldInv, UNCHANGED <<pending_clients, worker, serving, client, current>>,
         \/ Listen \/ ResetStopping \/ Publish \/ Started \/ StartFails
         \/ CheckStopping \/ AcceptEnds \/ AcceptDisturbed \/ QueueFull \/ Leave
         \/ Fail \/ Unpublish \/ CloseListener \/ Join \/ Destroy
  PROVE  HoldNext
<1>1. QueueHolds' /\ WorkersHold'
  BY DEF HoldInv, QueueHolds, WorkersHold
<1>2. MainHolds'
  BY DEF HoldInv, MainHolds, Listen, ResetStopping, Publish, Started, StartFails,
     CheckStopping, AcceptEnds, AcceptDisturbed, AcceptInterrupted, AcceptFaults,
     FailedAccept, QueueFull, Leave, Fail, Unpublish, CloseListener, Join, Destroy
<1>3. Phases'
  BY DEF HoldInv, Phases, Unborn, Drained, Listen, ResetStopping, Publish, Started,
     StartFails, CheckStopping, AcceptEnds, AcceptDisturbed, AcceptInterrupted, AcceptFaults,
     FailedAccept, QueueFull, Leave, Fail, Unpublish, CloseListener, Join, Destroy
<1> QED BY <1>1, <1>2, <1>3 DEF HoldNext

\* Steps that concern the descriptor or nothing at all.
LEMMA OthersMove ==
  ASSUME HoldInv, UNCHANGED <<pc, pending_clients, worker, serving, client, current>>
  PROVE  HoldNext
  BY DEF HoldInv, HoldNext, MainHolds, QueueHolds, WorkersHold, Phases

\* Threads start, wait, wake and end without a connection.
LEMMA ThreadsMove ==
  ASSUME HoldInv, UNCHANGED <<pending_clients, serving, client, current>>,
         \/ /\ UNCHANGED pc
            /\ \E w \in Workers : \/ StartWorker(w) \/ WorkerExits(w) \/ Test(w)
                                  \/ Sleep(w) \/ WakeSpuriously(w)
         \/ NotifyOne \/ NotifyAll
  PROVE  HoldNext
<1>1. worker \in [Workers -> {"none", "ready", "tested", "asleep", "handling", "exited"}]
  BY DEF HoldInv, TypeOK
<1>2. /\ worker' \in [Workers -> {"none", "ready", "tested", "asleep", "handling", "exited"}]
      /\ \A w \in Workers :
           /\ worker'[w] = "handling" <=> worker[w] = "handling"
           /\ worker[w] = "exited" => worker'[w] = "exited"
           /\ worker[w] = "none" => worker'[w] = "none" \/ pc = "spawning"
  BY <1>1 DEF StartWorker, WorkerExits, Test, Sleep, WakeSpuriously, NotifyOne,
     NotifyAll, Asleep
<1>3. pc' = pc \/ pc' = "checking" \/ (pc' = "joining" /\ pc = "waking")
  BY DEF NotifyOne, NotifyAll
<1>4. pc \notin {"accepted", "refusing"} \/ pc' = pc
  BY DEF NotifyOne, NotifyAll
<1>5. QueueHolds' /\ WorkersHold'
  BY <1>2 DEF HoldInv, QueueHolds, WorkersHold
<1>6. MainHolds'
  BY <1>3, <1>4 DEF HoldInv, MainHolds
<1>7. Phases'
  BY <1>2, <1>3 DEF HoldInv, Phases, Unborn, Drained
<1> QED BY <1>5, <1>6, <1>7 DEF HoldNext

\* A connection arrives, is accepted, is refused.
LEMMA ConnectionMoves ==
  ASSUME HoldInv, UNCHANGED <<pending_clients, worker, serving>>,
         \/ \E c \in Clients : Accept(c) \/ (Connect(c) /\ UNCHANGED <<pc, current>>)
         \/ Refuse
  PROVE  HoldNext
<1>1. /\ current \in Clients \cup {NoClient} /\ NoClient \notin Clients
      /\ client \in [Clients -> {"none", "backlog", "accepted", "queued", "handling",
                                 "served", "busy", "dropped"}]
      /\ \A i \in DOMAIN pending_clients : pending_clients[i] \in Clients
  BY NoClientAssumption, PendingFacts DEF HoldInv, TypeOK
<1>2. CASE \E c \in Clients : Accept(c)
  <2>1. PICK c \in Clients : Accept(c)
    BY <1>2
  <2>2. /\ pc = "accepting" /\ pc' = "accepted" /\ current' = c
        /\ client[c] = "backlog" /\ client' = [client EXCEPT ![c] = "accepted"]
    BY <2>1 DEF Accept
  <2>3. current = NoClient
    BY <2>2 DEF HoldInv, MainHolds
  <2>4. MainHolds'
    BY <1>1, <2>2, <2>3 DEF HoldInv, MainHolds
  <2>5. QueueHolds'
    BY <1>1, <2>2 DEF HoldInv, QueueHolds
  <2>6. WorkersHold'
    BY <1>1, <2>2 DEF HoldInv, WorkersHold
  <2>7. Phases'
    BY <2>2 DEF HoldInv, Phases, Unborn, Drained
  <2> QED BY <2>4, <2>5, <2>6, <2>7 DEF HoldNext
<1>3. CASE \E c \in Clients : Connect(c) /\ UNCHANGED <<pc, current>>
  <2>1. PICK c \in Clients : /\ client[c] = "none" /\ pc' = pc /\ current' = current
                             /\ client' = [client EXCEPT ![c] = "backlog"]
    BY <1>3 DEF Connect
  <2>4. MainHolds'
    BY <1>1, <2>1 DEF HoldInv, MainHolds
  <2>5. QueueHolds'
    BY <1>1, <2>1 DEF HoldInv, QueueHolds
  <2>6. WorkersHold'
    BY <1>1, <2>1 DEF HoldInv, WorkersHold
  <2>7. Phases'
    BY <2>1 DEF HoldInv, Phases
  <2> QED BY <2>4, <2>5, <2>6, <2>7 DEF HoldNext
<1>4. CASE Refuse
  <2>2. /\ pc = "refusing" /\ pc' = "checking" /\ current' = NoClient
        /\ client' = [client EXCEPT ![current] = "busy"]
    BY <1>4 DEF Refuse
  <2>3. current \in Clients /\ client[current] = "accepted"
    BY <1>1, <2>2 DEF HoldInv, MainHolds
  <2>4. MainHolds'
    BY <1>1, <2>2, <2>3 DEF HoldInv, MainHolds
  <2>5. QueueHolds'
    BY <1>1, <2>2, <2>3 DEF HoldInv, QueueHolds
  <2>6. WorkersHold'
    BY <1>1, <2>2, <2>3 DEF HoldInv, WorkersHold
  <2>7. Phases'
    BY <2>2 DEF HoldInv, Phases, Unborn, Drained
  <2> QED BY <2>4, <2>5, <2>6, <2>7 DEF HoldNext
<1> QED BY <1>2, <1>3, <1>4

\* The accepted connection goes to the end of the queue.
LEMMA EnqueueMoves == ASSUME HoldInv, Enqueue PROVE HoldNext
<1>1. /\ current \in Clients \cup {NoClient} /\ NoClient \notin Clients
      /\ client \in [Clients -> {"none", "backlog", "accepted", "queued", "handling",
                                 "served", "busy", "dropped"}]
      /\ \A i \in DOMAIN pending_clients : pending_clients[i] \in Clients
  BY NoClientAssumption, PendingFacts DEF HoldInv, TypeOK
<1>2. /\ pc = "accepted" /\ pc' = "notifying" /\ current' = NoClient
      /\ pending_clients' = Append(pending_clients, current)
      /\ client' = [client EXCEPT ![current] = "queued"]
      /\ UNCHANGED <<worker, serving>>
  BY DEF Enqueue, workerVars
<1>3. current \in Clients /\ client[current] = "accepted"
  BY <1>1, <1>2 DEF HoldInv, MainHolds
<1>4. /\ DOMAIN pending_clients' = DOMAIN pending_clients \cup {Len(pending_clients) + 1}
      /\ Len(pending_clients) + 1 \notin DOMAIN pending_clients
      /\ \A i \in DOMAIN pending_clients : pending_clients'[i] = pending_clients[i]
      /\ pending_clients'[Len(pending_clients) + 1] = current
  BY <1>2, <1>3, AppendPending DEF HoldInv
<1>5. MainHolds'
  BY <1>1, <1>2, <1>3 DEF HoldInv, MainHolds
<1>6. QueueHolds'
  <2>1. \A i \in DOMAIN pending_clients : pending_clients[i] # current
    BY <1>3 DEF HoldInv, QueueHolds
  <2>2. \A i, j \in DOMAIN pending_clients' : pending_clients'[i] = pending_clients'[j] => i = j
    BY <1>4, <2>1 DEF HoldInv, QueueHolds
  <2>3. ASSUME NEW c \in Clients
        PROVE  client'[c] = "queued" <=> \E i \in DOMAIN pending_clients' : pending_clients'[i] = c
    BY <1>1, <1>2, <1>3, <1>4 DEF HoldInv, QueueHolds
  <2> QED BY <2>2, <2>3 DEF QueueHolds
<1>7. WorkersHold'
  BY <1>1, <1>2, <1>3 DEF HoldInv, WorkersHold
<1>8. Phases'
  BY <1>2 DEF Phases, Unborn, Drained
<1> QED BY <1>5, <1>6, <1>7, <1>8 DEF HoldNext

\* stop_workers closes what the queue still lists.
LEMMA CloseQueuedMoves == ASSUME HoldInv, CloseQueued PROVE HoldNext
<1>1. /\ client \in [Clients -> {"none", "backlog", "accepted", "queued", "handling",
                                 "served", "busy", "dropped"}]
      /\ \A i \in DOMAIN pending_clients : pending_clients[i] \in Clients
  BY PendingFacts DEF HoldInv, TypeOK
<1>2. /\ pc = "draining" /\ pc' = "waking" /\ current' = current
      /\ pending_clients' = <<>>
      /\ client' = [c \in Clients |->
                      IF \E i \in DOMAIN pending_clients : pending_clients[i] = c THEN "dropped"
                      ELSE client[c]]
      /\ UNCHANGED <<worker, serving>>
  BY DEF CloseQueued, workerVars
<1>3. DOMAIN pending_clients' = {}
  BY <1>2
<1>4. \A c \in Clients : /\ client[c] = "queued" => client'[c] = "dropped"
                         /\ client[c] # "queued" => client'[c] = client[c]
  BY <1>2 DEF HoldInv, QueueHolds
<1>5. MainHolds'
  BY <1>1, <1>2, <1>4 DEF HoldInv, MainHolds
<1>6. QueueHolds'
  BY <1>3, <1>4 DEF QueueHolds
<1>7. WorkersHold'
  BY <1>2, <1>4 DEF HoldInv, WorkersHold
<1>8. Phases'
  BY <1>2 DEF Phases, Unborn, Drained
<1> QED BY <1>5, <1>6, <1>7, <1>8 DEF HoldNext

\* A worker takes the head of the queue.
LEMMA TakeMoves == ASSUME HoldInv, NEW w \in Workers, Take(w) PROVE HoldNext
<1> DEFINE c == Head(pending_clients)
<1>1. /\ client \in [Clients -> {"none", "backlog", "accepted", "queued", "handling",
                                 "served", "busy", "dropped"}]
      /\ serving \in [Workers -> Clients \cup {NoClient}]
      /\ worker \in [Workers -> {"none", "ready", "tested", "asleep", "handling", "exited"}]
      /\ \A i \in DOMAIN pending_clients : pending_clients[i] \in Clients /\ pending_clients[i] # NoClient
  BY PendingFacts DEF HoldInv, TypeOK
<1>2. /\ worker[w] = "ready" /\ pending_clients # <<>>
      /\ serving' = [serving EXCEPT ![w] = c]
      /\ client' = [client EXCEPT ![c] = "handling"]
      /\ pending_clients' = Tail(pending_clients)
      /\ worker' = [worker EXCEPT ![w] = "handling"]
      /\ pc' = pc /\ current' = current
  BY DEF Take, mainVars
<1>3. /\ c = pending_clients[1] /\ 1 \in DOMAIN pending_clients
      /\ \A i \in DOMAIN pending_clients' :
            i + 1 \in DOMAIN pending_clients /\ pending_clients'[i] = pending_clients[i + 1]
      /\ \A j \in DOMAIN pending_clients :
            j # 1 => j - 1 \in DOMAIN pending_clients' /\ pending_clients'[j - 1] = pending_clients[j]
      /\ DOMAIN pending_clients = 1..Len(pending_clients) /\ Len(pending_clients) \in Nat
      /\ DOMAIN pending_clients' \subseteq Nat \ {0}
  <2>1. TypeOK /\ pending_clients' \in Seq(Clients)
    BY <1>2, TailPending DEF HoldInv
  <2> QED BY <1>2, <2>1, TailPending, PendingFacts, LenProperties
<1> HIDE DEF c
<1>4. c \in Clients /\ c # NoClient /\ client[c] = "queued"
  BY <1>1, <1>3 DEF HoldInv, QueueHolds
<1>5. MainHolds'
  BY <1>1, <1>2, <1>4 DEF HoldInv, MainHolds
<1>6. QueueHolds'
  <2>1. \A i \in DOMAIN pending_clients' : pending_clients'[i] # c
    BY <1>3 DEF HoldInv, QueueHolds
  <2>2. \A i, j \in DOMAIN pending_clients' : pending_clients'[i] = pending_clients'[j] => i = j
    BY <1>3 DEF HoldInv, QueueHolds
  <2>3. ASSUME NEW d \in Clients
        PROVE  client'[d] = "queued" <=> \E i \in DOMAIN pending_clients' : pending_clients'[i] = d
    <3>1. CASE d = c
      BY <1>1, <1>2, <2>1, <3>1
    <3>2. CASE d # c
      <4>1. client'[d] = client[d]
        BY <1>1, <1>2, <3>2
      <4>2. (\E i \in DOMAIN pending_clients' : pending_clients'[i] = d)
              <=> (\E j \in DOMAIN pending_clients : pending_clients[j] = d)
        BY <1>3, <3>2
      <4> QED BY <4>1, <4>2 DEF HoldInv, QueueHolds
    <3> QED BY <3>1, <3>2
  <2> QED BY <2>2, <2>3 DEF QueueHolds
<1>7. WorkersHold'
  <2>1. serving[w] = NoClient /\ \A v \in Workers : serving[v] # c
    BY <1>2, <1>4 DEF HoldInv, WorkersHold
  <2>2. /\ serving'[w] = c /\ worker'[w] = "handling" /\ client'[c] = "handling"
        /\ \A v \in Workers \ {w} : serving'[v] = serving[v] /\ worker'[v] = worker[v]
        /\ \A d \in Clients \ {c} : client'[d] = client[d]
    BY <1>1, <1>2, <1>4
  <2>3. \A v \in Workers : worker'[v] = "handling" <=> serving'[v] # NoClient
    BY <1>4, <2>2 DEF HoldInv, WorkersHold
  <2>4. \A u, v \in Workers :
           serving'[u] = serving'[v] /\ serving'[u] # NoClient => u = v
    BY <2>1, <2>2 DEF HoldInv, WorkersHold
  <2>5. \A d \in Clients :
           client'[d] = "handling" <=> \E v \in Workers : serving'[v] = d
    BY <1>4, <2>1, <2>2, NoClientAssumption DEF HoldInv, WorkersHold
  <2> QED BY <2>3, <2>4, <2>5 DEF WorkersHold
<1>8. Phases'
  BY <1>1, <1>2 DEF HoldInv, Phases, Unborn, Drained
<1> QED BY <1>5, <1>6, <1>7, <1>8 DEF HoldNext

\* handle_client returns.
LEMMA HandleMoves == ASSUME HoldInv, NEW w \in Workers, Handle(w) PROVE HoldNext
<1>1. /\ client \in [Clients -> {"none", "backlog", "accepted", "queued", "handling",
                                 "served", "busy", "dropped"}]
      /\ serving \in [Workers -> Clients \cup {NoClient}]
      /\ worker \in [Workers -> {"none", "ready", "tested", "asleep", "handling", "exited"}]
      /\ NoClient \notin Clients
  BY NoClientAssumption DEF HoldInv, TypeOK
<1>2. /\ worker[w] = "handling"
      /\ client' = [client EXCEPT ![serving[w]] = "served"]
      /\ serving' = [serving EXCEPT ![w] = NoClient]
      /\ worker' = [worker EXCEPT ![w] = "ready"]
      /\ pc' = pc /\ current' = current /\ pending_clients' = pending_clients
  BY DEF Handle, mainVars, queueVars
<1>3. serving[w] \in Clients /\ client[serving[w]] = "handling"
  BY <1>1, <1>2 DEF HoldInv, WorkersHold
<1>4. MainHolds'
  BY <1>1, <1>2, <1>3 DEF HoldInv, MainHolds
<1>5. QueueHolds'
  BY <1>1, <1>2, <1>3 DEF HoldInv, QueueHolds
<1>6. WorkersHold'
  BY <1>1, <1>2, <1>3 DEF HoldInv, WorkersHold
<1>7. Phases'
  BY <1>1, <1>2 DEF HoldInv, Phases, Unborn
<1> QED BY <1>4, <1>5, <1>6, <1>7 DEF HoldNext

LEMMA HoldStep == HoldInv /\ [Next]_vars => HoldNext
<1> SUFFICES ASSUME HoldInv, [Next]_vars PROVE HoldNext
  OBVIOUS
<1> USE DEF mainVars, socketVars, queueVars, workerVars
<1>1. CASE \/ Listen \/ ResetStopping \/ Publish \/ Started \/ StartFails
           \/ CheckStopping \/ AcceptEnds \/ AcceptDisturbed \/ QueueFull \/ Leave \/ Fail
           \/ Unpublish \/ CloseListener \/ Join \/ Destroy
  <2>1. UNCHANGED <<pending_clients, worker, serving, client, current>>
    BY <1>1 DEF Listen, ResetStopping, Publish, Started, StartFails, CheckStopping,
       AcceptEnds, AcceptDisturbed, AcceptInterrupted, AcceptFaults, FailedAccept,
       QueueFull, Leave, Fail, Unpublish, CloseListener, Join, Destroy
  <2> QED BY <1>1, <2>1, MainMoves
<1>2. CASE (\E w \in Workers : StartWorker(w)) \/ NotifyOne \/ NotifyAll
  BY <1>2, ThreadsMove DEF StartWorker, NotifyOne, NotifyAll
<1>3. CASE (\E c \in Clients : Accept(c) \/ Connect(c)) \/ Refuse
  BY <1>3, ConnectionMoves DEF Accept, Connect, Refuse
<1>4. CASE Enqueue \/ CloseQueued
  BY <1>4, EnqueueMoves, CloseQueuedMoves
<1>5. ASSUME NEW w \in Workers, Work(w) \/ WakeSpuriously(w) PROVE HoldNext
  <2>1. CASE Take(w) \/ Handle(w)
    BY <2>1, TakeMoves, HandleMoves
  <2>2. CASE WorkerExits(w) \/ Test(w) \/ Sleep(w) \/ WakeSpuriously(w)
    BY <2>2, ThreadsMove DEF WorkerExits, Test, Sleep, WakeSpuriously
  <2> QED BY <1>5, <2>1, <2>2 DEF Work
<1>6. CASE \/ \E s \in Signals : Raise(s) \/ Handler(s)
           \/ OpenOther \/ CloseOther \/ UNCHANGED vars
  <2>1. UNCHANGED <<pc, pending_clients, worker, serving, client, current>>
    BY <1>6 DEF Raise, Handler, Exchange, Shutdown, Close, OpenOther, CloseOther, vars
  <2> QED BY <2>1, OthersMove
<1> QED BY <1>1, <1>2, <1>3, <1>4, <1>5, <1>6 DEF Next, Main, Terminated

-----------------------------------------------------------------------------
(* Who closes the listening descriptor.                                    *)

LEMMA DescriptorStep ==
  ASSUME TypeOK, Descriptor, OnlyErrorPathMiscloses, [Next]_vars
  PROVE  Descriptor' /\ OnlyErrorPathMiscloses'
<1> USE DEF Descriptor, OnlyErrorPathMiscloses, Took, Unborn, mainVars, socketVars
<1>1. CASE UNCHANGED <<pc, published, descriptor, threw, handler, misclosed>>
  BY <1>1
<1>2. CASE Listen \/ ResetStopping \/ Publish
  BY <1>2 DEF Listen, ResetStopping, Publish
<1>3. CASE StartFails
  BY <1>3 DEF StartFails, CloseDescriptor
<1>4. CASE \/ Started \/ CheckStopping \/ (\E c \in Clients : Accept(c))
           \/ AcceptEnds \/ AcceptDisturbed \/ Enqueue \/ QueueFull \/ Refuse \/ NotifyOne
           \/ CloseQueued \/ NotifyAll \/ Join
  <2>1. /\ UNCHANGED <<published, descriptor, threw, handler, misclosed>>
        /\ pc \notin Unborn /\ pc' \notin Unborn \cup {"unpublishing", "closing"}
    BY <1>4 DEF Started, CheckStopping, Accept, AcceptEnds, AcceptDisturbed,
       AcceptInterrupted, AcceptFaults, FailedAccept, Enqueue, QueueFull,
       Refuse, NotifyOne, CloseQueued, NotifyAll, Join
  <2> QED BY <2>1
<1>5. CASE Leave \/ Fail \/ Unpublish \/ Destroy
  BY <1>5 DEF Leave, Fail, Unpublish, Destroy
<1>6. CASE CloseListener
  BY <1>6 DEF CloseListener, CloseDescriptor
<1>7. ASSUME NEW s \in Signals, Raise(s) \/ Exchange(s) \/ Shutdown(s)
      PROVE  Descriptor' /\ OnlyErrorPathMiscloses'
  BY <1>7 DEF TypeOK, Raise, Exchange, Shutdown
<1>8. ASSUME NEW s \in Signals, Close(s)
      PROVE  Descriptor' /\ OnlyErrorPathMiscloses'
  BY <1>8 DEF TypeOK, Close, CloseDescriptor
<1>9. CASE OpenOther \/ CloseOther
  BY <1>9 DEF OpenOther, CloseOther
<1>10. CASE \/ (\E w \in Workers : StartWorker(w) \/ Work(w) \/ WakeSpuriously(w))
            \/ (\E c \in Clients : Connect(c)) \/ UNCHANGED vars
  BY <1>1, <1>10 DEF StartWorker, Work, Take, WorkerExits, Test, Sleep, Handle,
     WakeSpuriously, Connect, vars
<1> QED BY <1>2, <1>3, <1>4, <1>5, <1>6, <1>7, <1>8, <1>9, <1>10
       DEF Next, Main, Handler, Terminated

-----------------------------------------------------------------------------
(* The theorems.                                                           *)

LEMMA HttpInvariance == Spec => []HInv
<1>1. Init => HInv
  <2> SUFFICES ASSUME Init PROVE HInv
    OBVIOUS
  <2>1. TypeOK
    <3>1. pending_clients \in Seq(Clients) /\ Len(pending_clients) <= MaxPending
      BY EmptySeq, HttpServerAssumption DEF Init
    <3>2. {stopping, published, owned, threw, active, misclosed} \subseteq BOOLEAN
      BY Zenon DEF Init
    <3> QED BY <3>1, <3>2 DEF Init, TypeOK, MainPcs
  <2>2. DOMAIN pending_clients = {}
    BY DEF Init
  <2> QED
    BY <2>1, <2>2, NoClientAssumption DEF Init, HInv, MainHolds, QueueHolds,
       WorkersHold, Phases, Descriptor, Took, Unborn, Drained, OnlyErrorPathMiscloses
<1>2. HInv /\ [Next]_vars => HInv'
  BY TypeStep, HoldStep, DescriptorStep DEF HInv, HoldInv, HoldNext
<1> QED BY <1>1, <1>2, PTL DEF Spec

\* Connections have one holder: of the places that may list one, exactly one
\* does, and it does so once.
LEMMA HoldersCounted == HoldInv => OneHolder
<1> SUFFICES ASSUME HoldInv, NEW c \in Clients
             PROVE  Cardinality({i \in DOMAIN pending_clients : pending_clients[i] = c})
                      + Cardinality({w \in Workers : serving[w] = c})
                      + (IF current = c THEN 1 ELSE 0)
                    = IF client[c] \in {"accepted", "queued", "handling"} THEN 1 ELSE 0
  BY DEF OneHolder
<1> DEFINE Q == {i \in DOMAIN pending_clients : pending_clients[i] = c}
           W == {w \in Workers : serving[w] = c}
<1>1. IF client[c] = "queued" THEN Cardinality(Q) = 1 ELSE Cardinality(Q) = 0
  <2>1. CASE client[c] = "queued"
    <3>1. PICK i \in DOMAIN pending_clients : pending_clients[i] = c
      BY <2>1 DEF HoldInv, QueueHolds
    <3>2. Q = {i}
      BY <3>1 DEF HoldInv, QueueHolds
    <3> QED BY <2>1, <3>2, FS_Singleton
  <2>2. CASE client[c] # "queued"
    <3>1. Q = {}
      BY <2>2 DEF HoldInv, QueueHolds
    <3> QED BY <2>2, <3>1, FS_EmptySet
  <2> QED BY <2>1, <2>2
<1>2. IF client[c] = "handling" THEN Cardinality(W) = 1 ELSE Cardinality(W) = 0
  <2>1. CASE client[c] = "handling"
    <3>1. PICK w \in Workers : serving[w] = c
      BY <2>1 DEF HoldInv, WorkersHold
    <3>2. W = {w}
      BY <3>1, NoClientAssumption DEF HoldInv, WorkersHold
    <3> QED BY <2>1, <3>2, FS_Singleton
  <2>2. CASE client[c] # "handling"
    <3>1. W = {}
      BY <2>2 DEF HoldInv, WorkersHold
    <3> QED BY <2>2, <3>1, FS_EmptySet
  <2> QED BY <2>1, <2>2
<1>3. client[c] = "accepted" <=> current = c
  BY DEF HoldInv, MainHolds
<1> HIDE DEF Q, W
<1>4. Cardinality(Q) + Cardinality(W) + (IF current = c THEN 1 ELSE 0)
        = IF client[c] \in {"accepted", "queued", "handling"} THEN 1 ELSE 0
  BY <1>1, <1>2, <1>3
<1> QED BY <1>4 DEF Q, W

\* However the threads of the server and its signals interleave, and whichever
\* way run() ends, no two of them hold the same connection, none is out of
\* sight, and none outlives the server (worker_loop, run, stop_workers).
THEOREM SocketsAlwaysHeldOnce == Spec => []SocketsHeldOnce
<1>1. HInv => SocketsHeldOnce
  <2> SUFFICES ASSUME HInv PROVE SocketsHeldOnce
    OBVIOUS
  <2>1. OneHolder
    BY HoldersCounted DEF HInv, HoldInv
  <2>2. CleanDeath
    <3> SUFFICES ASSUME pc = "destroyed", NEW c \in Clients
                 PROVE  /\ \A w \in Workers : worker[w] \in {"none", "exited"}
                        /\ client[c] \notin {"accepted", "queued", "handling"}
      BY DEF CleanDeath, HInv, Phases
    <3>1. \A w \in Workers : worker[w] \in {"none", "exited"}
      BY DEF HInv, Phases
    <3>2. client[c] # "accepted"
      BY NoClientAssumption DEF HInv, MainHolds
    <3>3. client[c] # "queued"
      BY DEF HInv, QueueHolds, Phases, Drained
    <3>4. client[c] # "handling"
      BY <3>1, NoClientAssumption DEF HInv, WorkersHold
    <3> QED BY <3>1, <3>2, <3>3, <3>4
  <2> QED BY <2>1, <2>2 DEF HInv, SocketsHeldOnce
<1> QED BY <1>1, HttpInvariance, PTL

\* For any number of signals, at any moment: the listening descriptor is
\* closed by one stop() while it is still the server's, unless accept or the
\* creation of a thread failed (stop, run).
THEOREM ClosedByItsHolder == Spec => []OnlyErrorPathMiscloses
<1>1. HInv => OnlyErrorPathMiscloses
  BY DEF HInv
<1> QED BY <1>1, HttpInvariance, PTL

=============================================================================
