------------------------------ MODULE Startup ------------------------------
(***************************************************************************)
(* The start of a process: main.cpp with the environment defaults of       *)
(* runtime_profile.cpp and the model state of runtime.cpp.  main sets      *)
(* environment variables that the engine reads later, in an order that     *)
(* decides whether the user's environment, an option or a default wins;    *)
(* it loads the model, serves even when that fails, and takes the server   *)
(* away from the signal handler at the end.  The developer tools start     *)
(* with apply_runtime_profile instead.                                     *)
(*                                                                         *)
(* The value of a variable is where it comes from.                         *)
(***************************************************************************)
EXTENDS Integers

CONSTANTS
  UserSettings,   \* sets of variables that the user's environment may hold
  ChunkOptions,   \* values of --prefill-chunk that parse, 0 for none
  PromptRows      \* lengths of prompts

\* Unsigned numbers, as the parser of the options and the tokenizer give them.
ASSUME StartAssumption == ChunkOptions \subseteq Nat /\ PromptRows \subseteq Nat

VARIABLES
  program,      \* the server, or a tool with its profile
  options,      \* the parsed command line
  given,        \* variables set before main
  env,          \* variable |-> where its value comes from
  modelState,   \* RuntimeState: model_state_ and last_error_
  engine,       \* prefill_chunk_rows that the engine was built with
  packedVq,     \* the manifest's answer for layer 2
  active_server,\* what the signal handler's pointer points to
  signalled,    \* what a signal found there
  startStage

startVars == <<program, options, given, env, modelState, engine, packedVq,
               active_server, signalled, startStage>>

NoSignal == [server |-> "null", during |-> "none"]
NoEngine == 0

\* The variables that main, the automatic configuration and a profile set;
\* "AUTOMATIC" stands for the settings that only apply_automatic_runtime_config
\* touches, "PROFILE" for those that only a profile adds.
KvVariables == {"KV_CACHE", "KV_Q8_MIN_TOKENS", "KV_Q8_FLUSH_TOKENS"}
Settings == KvVariables \cup
  {"NGRAM_TABLE_DIR", "MTP_MODEL_DIR", "TOKENIZER_DIR", "RESIDENT_EXPERT_RANGE",
   "AUTOMATIC", "COMPACT_QMETA", "PROFILE", "QMETA_PREFILL_CACHE",
   "QMETA_PREFILL_CACHE_LAYERS", "QSA_PACKED_MIN_TOKENS", "QSA_SHARED_ROWS"}

\* setenv, with and without overwrite.
Set(e, vs, value) == [v \in Settings |-> IF v \in vs THEN value ELSE e[v]]

\* Mutation: a default replaces what is there.
SetAnyway(e, vs, value) == Set(e, vs, value)

set_environment_default(e, vs, value) ==
  [v \in Settings |-> IF v \in vs /\ e[v] = "unset" THEN value ELSE e[v]]

apply_automatic_runtime_config(e) ==
  set_environment_default(e, {"RESIDENT_EXPERT_RANGE", "AUTOMATIC"}, "automatic")

Profiles == {"safe", "speed", "turbo", "latency", "long-context", "memory"}
ProfileOnly(p) ==
  CASE p = "memory" -> {"COMPACT_QMETA", "QMETA_PREFILL_CACHE", "PROFILE"}
    [] p = "turbo" -> {"COMPACT_QMETA", "PROFILE", "QSA_PACKED_MIN_TOKENS"}
    [] OTHER -> {}

apply_runtime_profile(e, p) ==
  IF p = "safe" THEN e
  ELSE set_environment_default(
         apply_automatic_runtime_config(
           set_environment_default(e, {"RESIDENT_EXPERT_RANGE"}, p)),
         ProfileOnly(p), p)

\* Chunks of a prompt; main has checked the configured rows.
select_prefill_chunk_rows(configured, prompt) ==
  IF configured <= 256 \/ prompt <= 32768 THEN configured
  ELSE IF configured <= 512 /\ prompt <= 66048 THEN configured
  ELSE IF configured > 512 THEN 512 ELSE 128

-----------------------------------------------------------------------------
\* The options that decide anything here, in any combination; a value that
\* does not parse ends the process before anything is set.
Options ==
  [model : BOOLEAN, ngram : BOOLEAN, tokenizer : BOOLEAN, depth : BOOLEAN,
   chunk : ChunkOptions, layers : BOOLEAN, qsa : BOOLEAN, kv : BOOLEAN]

StartInit ==
  /\ program \in {"server"} \cup Profiles
  /\ options \in {o \in Options : program # "server" =>
                    o = [model |-> FALSE, ngram |-> FALSE, tokenizer |-> FALSE,
                         depth |-> FALSE, chunk |-> 0, layers |-> FALSE,
                         qsa |-> FALSE, kv |-> FALSE]}
  /\ given \in UserSettings
  /\ env = [v \in Settings |-> IF v \in given THEN "user" ELSE "unset"]
  /\ modelState = [state |-> "not_loaded", error |-> FALSE]
  /\ engine = NoEngine /\ packedVq = FALSE
  /\ active_server = "null" /\ signalled = NoSignal
  /\ startStage = "companion"

Exit == startStage' = "exit"

\* A tool applies its profile; what it does then is not the server's matter.
RunTool ==
  /\ program # "server" /\ startStage = "companion"
  /\ env' = apply_runtime_profile(env, program)
  /\ startStage' = "tool"
  /\ UNCHANGED <<program, options, given, modelState, engine, packedVq,
                 active_server, signalled>>

\* The n-gram directory, and the MTP weights that it may hold: its manifest
\* loads with or without them, fails, or fails with an exception that is no
\* runtime_error (a key missing in its config.json) and ends the process.
Companion ==
  /\ program = "server" /\ startStage = "companion"
  /\ LET e == IF options.ngram THEN Set(env, {"NGRAM_TABLE_DIR"}, "option") ELSE env
         probes == ~options.depth /\ options.ngram /\ e["MTP_MODEL_DIR"] = "unset"
     IN  \/ /\ \E has_mtp \in (IF probes THEN BOOLEAN ELSE {FALSE}) :
                 env' = IF has_mtp THEN Set(e, {"MTP_MODEL_DIR"}, "companion") ELSE e
            /\ startStage' = "defaults"
         \/ probes /\ env' = e /\ Exit
  /\ UNCHANGED <<program, options, given, modelState, engine, packedVq,
                 active_server, signalled>>

\* The tokenizer directory, the automatic settings, then the compact
\* metadata if the model directory has them.
Defaults ==
  /\ startStage = "defaults"
  /\ LET e == IF options.tokenizer THEN Set(env, {"TOKENIZER_DIR"}, "option") ELSE env
         a == apply_automatic_runtime_config(e)
     IN  \E sidecar \in BOOLEAN :
           env' = IF options.model /\ sidecar
                  THEN set_environment_default(a, {"COMPACT_QMETA"}, "found") ELSE a
  /\ startStage' = "explicit"
  /\ UNCHANGED <<program, options, given, modelState, engine, packedVq,
                 active_server, signalled>>

\* The options with a variable, and the KV settings whether given or not.
Explicit ==
  /\ startStage = "explicit"
  /\ LET layers == IF options.layers
                   THEN {"QMETA_PREFILL_CACHE", "QMETA_PREFILL_CACHE_LAYERS"} ELSE {}
         qsa == IF options.qsa THEN {"QSA_PACKED_MIN_TOKENS", "QSA_SHARED_ROWS"} ELSE {}
     IN  env' = Set(Set(env, layers \cup qsa, "option"), KvVariables,
                    IF options.kv THEN "option" ELSE "main")
  /\ startStage' = IF options.model THEN "load" ELSE "server"
  /\ modelState' = IF options.model THEN [state |-> "loading", error |-> FALSE]
                   ELSE modelState
  /\ UNCHANGED <<program, options, given, engine, packedVq, active_server, signalled>>

mark_failed == modelState' = [state |-> "failed", error |-> TRUE]
mark_ready == modelState' = [state |-> "ready", error |-> FALSE]

\* The rows of a chunk; 0 if the option is refused.
ChunkRows(packed) ==
  IF options.chunk = 0 THEN IF packed THEN 2048 ELSE 1024
  ELSE IF options.chunk > 1024 /\ ~packed THEN 0 ELSE options.chunk

\* Mutation: the model is announced before its engine exists.
ReadyThenLoad ==
  /\ startStage = "load"
  /\ packedVq' \in BOOLEAN
  /\ \/ engine' = 1024
     \/ UNCHANGED engine
  /\ mark_ready
  /\ startStage' = "server"
  /\ UNCHANGED <<program, options, given, env, active_server, signalled>>

\* The manifest may not load, the chunk may be refused, the engine may throw.
Load ==
  /\ startStage = "load"
  /\ packedVq' \in BOOLEAN
  /\ \/ /\ ChunkRows(packedVq') # 0
        /\ engine' = ChunkRows(packedVq')
        /\ mark_ready
     \/ UNCHANGED engine /\ mark_failed
  /\ startStage' = "server"
  /\ UNCHANGED <<program, options, given, env, active_server, signalled>>

\* The server is built and the signal handlers are installed.
Serve ==
  /\ startStage = "server"
  /\ active_server' = "live" /\ startStage' = "serving"
  /\ UNCHANGED <<program, options, given, env, modelState, engine, packedVq, signalled>>

\* run() returns, the pointer is taken back, and the server is destroyed.
RunReturns ==
  /\ startStage = "serving"
  /\ active_server' = "null" /\ startStage' = "teardown"
  /\ UNCHANGED <<program, options, given, env, modelState, engine, packedVq, signalled>>

\* run() throws (the port is taken): the server is destroyed as it is.
RunThrows ==
  /\ startStage = "serving"
  /\ active_server' = "dangling" /\ startStage' = "unwind"
  /\ UNCHANGED <<program, options, given, env, modelState, engine, packedVq, signalled>>

\* The engine goes after the server, which takes its time.
Teardown ==
  /\ startStage \in {"teardown", "unwind"}
  /\ engine' = NoEngine /\ Exit
  /\ UNCHANGED <<program, options, given, env, modelState, packedVq,
                 active_server, signalled>>

\* handle_signal; the handlers are installed from serving to the end.
Signal ==
  /\ startStage \in {"serving", "teardown", "unwind"} /\ signalled = NoSignal
  /\ signalled' = [server |-> active_server, during |-> startStage]
  /\ UNCHANGED <<program, options, given, env, modelState, engine, packedVq,
                 active_server, startStage>>

StartNext ==
  \/ RunTool \/ Companion \/ Defaults \/ Explicit \/ Load
  \/ Serve \/ RunReturns \/ RunThrows \/ Teardown \/ Signal

StartSpec == StartInit /\ [][StartNext]_startVars

-----------------------------------------------------------------------------
(* Properties.                                                             *)

\* The options that set a variable.
HasOption(v) ==
  CASE v = "NGRAM_TABLE_DIR" -> options.ngram
    [] v = "TOKENIZER_DIR" -> options.tokenizer
    [] v \in {"QMETA_PREFILL_CACHE", "QMETA_PREFILL_CACHE_LAYERS"} ->
         options.layers
    [] v \in {"QSA_PACKED_MIN_TOKENS", "QSA_SHARED_ROWS"} -> options.qsa
    [] v \in KvVariables -> options.kv
    [] OTHER -> FALSE

\* What the engine reads: an option wins over the user's environment, and
\* that over every default, whichever order main sets them in.  The KV
\* settings are main's own: it overwrites them in any case (main.cpp:285).
Precedence ==
  startStage \in {"load", "server", "serving"} =>
    \A v \in Settings :
      /\ HasOption(v) => env[v] = "option"
      /\ (~HasOption(v) /\ v \in given /\ v \notin KvVariables) => env[v] = "user"
      /\ v \in {"RESIDENT_EXPERT_RANGE", "AUTOMATIC"} => env[v] # "unset"

\* A profile's range of resident experts survives the automatic settings
\* that it applies afterwards, and the user's survives both
\* (runtime_profile.cpp:70).
ProfileSurvives ==
  (startStage = "tool" /\ program # "safe") =>
    env["RESIDENT_EXPERT_RANGE"] =
      IF "RESIDENT_EXPERT_RANGE" \in given THEN "user" ELSE program

\* /readyz "Returns 200 only when a model is ready" (docs/api.md:35): while
\* the server runs the model is ready exactly if there is an engine, it is
\* never left loading, and a failure has its error.
ReadyHasEngine ==
  startStage = "serving" =>
    /\ (modelState.state = "ready") <=> (engine # NoEngine)
    /\ modelState.state # "loading"
    /\ (modelState.state = "failed") <=> modelState.error

\* "prefill chunks above 1024 require a packed-VQ checkpoint" (main.cpp:307),
\* and the chunk chosen for a prompt is no larger than the engine's, no
\* smaller than one row, and never grows with the prompt
\* (select_prefill_chunk_rows).
ChunksFit ==
  engine # NoEngine =>
    LET rows(p) == select_prefill_chunk_rows(engine, p) IN
    /\ engine > 1024 => packedVq
    /\ \A p \in PromptRows : rows(p) \in 1..engine
    /\ \A p, q \in PromptRows : p <= q => rows(q) <= rows(p)

\* A signal that comes while the engine is torn down finds no server; if
\* run() has thrown it finds a destroyed one (main.cpp:363).
SignalFindsServer ==
  signalled.server = "dangling" => signalled.during = "unwind"

\* Options, environment, profiles and defaults rank in that order for the
\* server and for the tools.
SettingsRank == Precedence /\ ProfileSurvives

\* The process serves what it says it serves, from the load to the last signal.
ServerTruthful == ReadyHasEngine /\ ChunksFit /\ SignalFindsServer

=============================================================================
