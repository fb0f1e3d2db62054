# A TLA+ verification of qwen38-flash.cpp

qwen38-flash.cpp is a local inference server: one process that maps a quantized
model, decodes on the GPU through MLX or a persistent Metal backend, and answers
an OpenAI-style HTTP API. This directory models the parts of it where the order
of events, a boundary or a combination of settings decides correctness: threads,
queues and promises, continuous batching, speculative decoding, the state of
every kind of layer, paging and dispatch of experts, caches in RAM and on disk,
the command queue and the kernels of the Metal backend, start-up, shutdown,
kills and failing calls. TLC checks the models on small instances; TLAPS proves
the safety of most of them, and three refinements, for every instance (section 5).

Paths below are relative to the repository; line numbers are in
`PROJECT.json`, which maps every definition to the lines it models.

## 1. The system

A request goes through the parts in this order.

| part | state it keeps | operations | talks to |
|---|---|---|---|
| start-up (`main.cpp`, `runtime_profile.cpp`) | environment variables, model state, `active_server`, signal handlers | options, defaults, profiles, load, `handle_signal`, tear-down | manifest, engine, HttpServer |
| manifest (`model_manifest.cpp`) | config, map of tensors, quantization overrides, opened shards | `load`, queries, `TensorStore::tensor` | every weight lookup |
| HTTP server (`http_server.cpp`) | `stopping_`, `listen_fd_`, queue of accepted sockets, worker threads | `run`, `worker_loop`, `handle_client`, `stop` | Api (one call per request) |
| API (`api.cpp`) | none of its own; a stream's carries and `connected` flag | routes, option checks, SSE stream closure | runtime counters, engine interface |
| Runtime state (`runtime.cpp`) | model state, atomic counters | `request_started`, `request_finished`, `snapshot` | read by `/status` |
| Executor (`native_engine.cpp`, `NativeEngineExecutor`) | task queue, `stopping`, promises, `resolved` flags | `generate`, `clear`, worker loop, `stop` | engine, on one thread |
| Batch scheduler (`NativeEngine::complete_batch`) | sessions, `live_capacity`, deferred requests | validate, admit, prefill by barriers, decode, refill, defer | target model |
| Serial engine (`NativeEngine::complete_impl`) | decode state, draft-head state, RAM prefix entry, backend ownership | cache lookup, prefill, decode loop, speculation, saving | model, MTP head, Metal backend, SSD store |
| Target model (`model.cpp`, `decoder_layer.cpp`, `self_attention.cpp`, `gated_delta_net.cpp`, `ple.cpp`) | per layer: keys, Q8 cache, pooled index, convolution, recurrent state, deferred rows, n-gram context | prefill, decode, batch decode, verify with checkpoints, rollback | every engine path |
| Speculation (`mtp_*.cpp`, `history_draft.cpp`) | head rows, depth and profitability policy, draft caches | draft, verify, accept, rebuild, commit | target model |
| Experts (`sparse_moe.cpp`, expert pages in `mlx_backend.cpp`) | settings of a layer, slots and leases, route plans | decode, batch, verify, prefill, paging | kernels, expert cache |
| Metal backend (`persistent_metal_backend.mm` and its kernels) | slabs, counts, scratch buffers, command queue, shared weights | `import_state`, `greedy_decode`, `export_state`, `reset_all_state` | serial engine |
| Decode-state files (`decode_state_io.cpp`) | one file per prefix | save, load | prefix store |
| Prefix store (`prefix_cache_store.cpp`) | files in one directory | `load_longest`, `save`, `clear`, `evict_to_limit` | file system |
| Expert cache (`expert_cache.hpp`) | entries, history, budget, leases | `acquire`, `set_budget`, `trim`, `clear` | loader callback, GPU leases |
| Other arithmetic, kernels of the MLX graph, tokenizer, templates | tensors, tables | pure or numeric functions | - |

What is hard here, and hardly reached by the repository's tests:

* *interleaving*: client threads, one inference thread, HTTP workers and signal
  handlers share a queue, a descriptor number and promises;
* *partial failure*: any engine call may throw in the middle of a batch, a
  prefill, a save or a load, and what is left must serve the next request;
* *speculation*: several tokens are consumed before it is known how many are
  right; states, heads and caches must be cut back to what was committed;
* *ownership of the decode state*: it moves between MLX and the Metal backend,
  leaving an empty shell with its old length behind;
* *the GPU behind the host*: command buffers run later than they are encoded,
  read buffers that the host writes again, and fail one by one;
* *duplicated logic*: one operation is written several times (dense and packed
  attention, serial and batched verification, two routers, two searches, the
  MLX graph and the Metal backend) and settings choose between the copies;
* *crashes*: two files make one cache entry and no operation writes both;
* *limits*: batch capacity, queue length, byte budgets, clocks that wrap,
  unsigned subtraction.

`PROJECT.json` lists every hazard at its line with the properties aimed at it.

What makes each part correct: a client gets exactly one answer, or a closed
connection, and shutdown ends (HTTP server, executor); a batch stays within its
limits and loses nobody (scheduler); a greedy request gets the model's own
greedy continuation and a cache entry is the state of its tokens (engine,
speculation); a loaded state belongs to its tokens after any crash (store); a
leased value stays and the byte counts are exact (expert cache); every layer and
the head hold exactly the committed tokens, however they got there (target
model, Metal backend); every row is computed by a kernel that takes its shape,
from the weights of its own experts (experts); a sidecar adds and never changes,
an option beats the environment and that beats a default (start-up); a stream says
what the whole text says, ends with `[DONE]` and settles its counters (API).

## 2. Modules

| module | models | state and actions |
|---|---|---|
| `TaskService` | abstract: what callers of the executor see | calls, their order and answers; `clear_cache` is a barrier |
| `Executor` | `NativeEngineExecutor` and `complete_batch` | queue, promises, rows, deferred list; the worker's position is `pc`, one action per stretch of its loop between two points at which another thread may act or a call may throw; `Enqueue` and `Stop` are the other threads |
| `HttpServer` | `HttpServer` and the end of `main` | `run()` by `pc`, workers with their mutex and condition variable, each signal handler's progress through `stop()`, what the descriptor's number denotes |
| `ApiStream` | a completion request in `Api::handle`, its SSE closure and the request counters | the closure's locals as one record that `on_delta` and the final flush map to the next; the client leaves between any two steps |
| `GreedyDecode` | abstract: what a caller of one generation sees | request, tokens, finish reason |
| `Generation` | `complete_impl`, one speculative round, hand-over to the Metal backend, RAM entry and the SSD as the engine uses it | a decode state is the sequence of tokens it has consumed; a head row is a stream and a token |
| `Filters` | the elements of a sequence that belong to a set, in their order; the sum of a sequence | operators of the two stores and of the policies |
| `PrefixStore` | abstract: a bounded LRU list of prefixes | entries and answers |
| `PrefixCacheStore` | the SSD store | files; every write, rename and removal is a step |
| `ExpertCache` | the expert cache | entries, history, leases, byte counters; every eviction is a step |
| `LayerState` | what one layer remembers and what each forward pass does to it | operators from a layer's record to the next; a row is its token, a key its token and rope position; `err` records a consistency check that threw |
| `DecodeState` | the states of the target and the draft head, and every operation on them | prefill by barrier groups and several chunks at once, decode alone and in a batch, rounds, catching up, restore, files |
| `DraftPolicy` | `MtpDepthPolicy`, `MtpProfitabilityGuard`, `HistoryDraftPolicy`, suspension of context copies | the counters of each, one action per round |
| `DraftCaches` | `HistoryDraftCache`, `ContextCopyCache` | the tables and all searches |
| `ThinkingBudget` | the forced end of thinking | one action per turn of the loop |
| `MoeDispatch` | which path of `SparseMoe` and which kernel serves a batch | one step per C++ function of one call |
| `RoutePlan` | the two routers and the plans that sort, tile and restore routes | one action per stage |
| `ExpertPaging` | paged experts: slots, leases, lazy reads, parallel readers | one action per lease, fill, evaluation, release and reader |
| `MetalSession` | `PersistentMetalBackend` over several requests | the host's encoding and the GPU's execution are separate steps; groups fail, encoders throw |
| `TrunkGraph` | every dispatch of every call of the backend | ranges each kernel reads and writes for its grid, with the real sizes; who wrote each element last |
| `MetalKernels` | selection, head reduction, code extraction and block attention kernels | one action per pass, compared with what the kernel should compute |
| `Manifest` | `ModelManifest::load`, its queries, `TensorStore` | one action per file read; lookups under the store's lock, by several threads as the class allows (the program uses one) |
| `Startup` | `main`, the automatic settings and profiles, the model state, the end of the process | one action per stretch of `main` |
| `ExecutorProofs`, `GenerationProofs`, `PrefixCacheStoreProofs` | theorems about the component they are named after | inductive invariants |
| `RequestProofs` | theorems about what serves one request: `ApiStream`, `ThinkingBudget`, `DraftPolicy` | inductive invariants |
| `ExpertProofs` | theorems about `ExpertCache`, `ExpertPaging`, `MoeDispatch` | inductive invariants |
| `DecodeStateProofs` | theorems about `DecodeState` and every path through `LayerState` | inductive invariant |
| `ServerProofs` | theorems about the process around its engine: `HttpServer`, `Startup`, `Manifest`, `MetalSession` | inductive invariants |
| `Sums` | induction; sums and filters of sequences, sums over finite sets | lemmas of the proof modules |
| `MC*` | instances for TLC | values of the constants, symmetry (`HttpServer` needs none and is run directly) |

The API, the executor, the serial engine and the store meet in three
interfaces. In `ApiStream` the engine is whatever cuts a text into deltas, stops
when `on_delta` answers false, and may throw at any time. In
`Executor` a serial generation is one step with any outcome (`RunSingle`,
`RunDeferred`): the worker thread is alone inside it, and `Generation` says what
it does. In `Generation` the SSD is a set of entries from which a save may evict
any other or refuse (`Persisted`, `DiskKeeps`); `PrefixCacheStore` says how the
directory implements that. `Generation` treats a decode state as the tokens that
it has consumed; `DecodeState` over `LayerState` says that each layer really is
that, and `MetalSession` says the same of the Metal backend's slabs.

Abstractions, the same everywhere: tokens, requests and clients are model values
or small integers; logits are an operator (`Greedy`) in `Generation` and a
nondeterministic choice in `Executor`; floating-point values are left out, and
what is kept of them is where they come from (the token of a row, the writer of
an element, the expert and row of a result); draft proposals, draft depth and the
profitability fallback are arbitrary, because the code may use any policy and
must be right with each; the diagnostic minimum `QWEN38_PERSISTENT_MIN_TOKENS` is a
field of `Generation`'s configuration, and `GreedyDecode` says what it changes: below
it a stop token of the backend may give way to the model's second choice; texts,
statistics and logging are left out. A call that may throw has a failing outcome
wherever it is called.

## 3. Runs

| run | instance | what it shows |
|---|---|---|
| `executor` | 4 calls of 5 kinds, 2 slots, faults | one answer per call, no call lost, batch within limits, refinement of `TaskService` |
| `executor_live` | 3 clients that call again and again, faults, fairness | every accepted call is answered once calls cease; `stop` reaches the join; only the deferred list, or a stream of failing refills, can starve a call |
| `http_server` | 2 clients, 2 workers, queue of 1, 2 signals, failing calls, fairness | one holder per socket, clean death, one close, no lost wake-up, a visible stop ends `run()` |
| `http_server_signal` | 1 of each | **violation**: an early signal is forgotten |
| `generation` | 3 requests over 5 configurations | greedy output, true caches, head in step, exact hand-over |
| `generation_anchor` | head, backend and anchor tokens | **violation**: hand-over while anchor steps remain |
| `prefix_store` | nested prefixes, 2 kills, failing writes, a failing removal | an LRU list through crashes; exact answers; a failed save leaves nothing behind |
| `prefix_store_bound` | 1 kill | **violation**: leftovers escape the limit |
| `api_stream` | every kind of request, texts of up to 8 characters in many cuts | the stream splits exactly, agrees with the whole-text path, notices a lost client, settles and ends |
| `speculation` | 3 layers, 4 environments, 2 texts; 6 rounds; 9 tokens; budgets up to the limit | every layer, the head and a file hold the committed tokens; sparse selection leaves the same keys in all its forms; policies act on what happened; drafts continue what they claim; thinking ends |
| `experts` | 3 cached values; 4 paged experts in 1 hot and 2 cold slots; every kind of layer; all routings of up to 7 routes | leases pin, bytes exact, only leases refuse; a lazy read finds its expert; dispatch ends at a kernel that takes the rows; results return to their rows |
| `backend` | 2 requests of 2 steps over 6 layers; 2 calls over 12 layers with real sizes; all small inputs of the kernels; 34 configs with sidecars; all options | the backend holds the request's context through failures and hands it over whole; every read is of the right producer and within its buffer; kernels select, reduce, decode and attend exactly; sidecars only add; precedence of settings; readiness |

Every property of a passing run has a mutant, a plausible slip in the mapped
code under which TLC reports it violated. The mutated form stands before its
original in the module, marked "Mutation".

Several of the properties are conjunctions, one for each thing a component
promises; the parts are definitions of their own, with their comments:

| property | parts |
|---|---|
| `HttpServer!SocketsHeldOnce` | `TypeOK`, `OneHolder`, `CleanDeath` |
| `PrefixCacheStore!StoreTruthful` | `TypeOK`, `LoadedStateBelongs`, `FailedSaveCleansUp`, `SaveAnswersTheLimit` |
| `Generation!DecodersInStep` | `TypeOK`, `SpeculationInStep`, `MetalHoldsCommitted` |
| `Generation!CheckpointsKept` | `BackedIsOnDisk`, `DropsOnlyPersisted` |
| `ApiStream!StreamSettles` | `TypeOK`, `CountersSettle`, `EndsWithDone` |
| `DecodeState!StatesHold` | `TargetHolds`, `HeadHolds`, `FileHolds` |
| `DraftPolicy!PoliciesEarned` | `DepthEarned`, `FallbackEarned`, `HistoryEarned`, `CopyEarned` |
| `DraftCaches!DraftsContinue` | `DraftsFollow`, `DraftsLongest`, `CompletionAgrees` |
| `ThinkingBudget!ThinkingClosed` | `ThinkingEnds`, `SuffixLeavesAnswer` |
| `ExpertCache!AccountsTrue` | `TypeOK`, `BytesAccounted`, `HistoryBounded` |
| `ExpertCache!LeasesDecide` | `LeasedStay`, `LoadsWithinBudget`, `OnlyLeasesRefuse`, `LastTouchedIsNewest` |
| `ExpertPaging!PagesTruthful` | `ReadsFindTheirExpert`, `SlotsTruthful`, `PoolSuffices`, `BundleInOrder` |
| `MoeDispatch!DispatchSound` | `DispatchSettles`, `KernelFits`, `RowsServed` |
| `RoutePlan!PlansSound` | `RoutesRestored`, `SegmentsCover`, `RoutersAgree` |
| `MetalSession!SessionSound` | `HoldsContext`, `HandOverWhole`, `CapacityNeverThrows`, `GpuQuiet`, `WeightsInPlace` |
| `TrunkGraph!DispatchesFresh` | `ReadsAreFresh`, `WithinBuffers`, `KernelsFitCheckpoint` |
| `MetalKernels!KernelsExact` | `SelectionIsTop`, `HeadFindsTwo`, `CodesAgree`, `AttendsEachOnce` |
| `Manifest!ManifestFaithful` | `SidecarsOnlyAdd`, `TargetQuantization`, `RetainedUsable`, `NeverDividesByZero` |
| `Startup!SettingsRank` | `Precedence`, `ProfileSurvives` |
| `Startup!ServerTruthful` | `ReadyHasEngine`, `ChunksFit`, `SignalFindsServer` |

`speculation`, `experts` and `backend` each check several machines that do not
act on each other: the variable `part` chooses the one that runs, and the others
stay in an initial state, so that their state spaces add instead of multiplying.

### Bounds and why they are enough

* Executor: two slots already give a row that ends while the other goes on, a
  refill and a refill while another row prefills; four calls give a batch of
  two, one refill and one deferral or barrier behind it. The requests are two
  lengths (one-row prompt and multi-chunk prompt), an invalid one, a thinking
  one and a clear; `AggregateLimit` admits the short with the long one but not
  two long ones, so that admission, deferral and serial execution all happen.
  Chunk and barrier counts of 1 and 2 let a prefill be interrupted in both ways.
  With clients that return, three of them keep a batch alive, a call deferred
  and another one waiting for ever.
* HTTP server: a queue of one is full as soon as one client waits in it and the
  next is accepted, and two workers race for it and for the wake-ups; two
  signals can overlap each other and the error path. `Signals` and `Clients`
  are finite because each is used once.
* Generation: drafts of two and three tokens can be accepted not at all, partly,
  fully and beyond `max_tokens`; chunk size 2 cuts prompts in odd places; three
  requests reach a cached, extended and reused entry; one configuration has a
  diagnostic minimum of two tokens, which a stop token meets too early. `MCGreedy` hashes the
  whole sequence, so a state that lost, doubled or swapped a token shows.
* Prefix store: three nested prefixes, one over the limit alone; two kills, so
  that a process can be killed while it works on a killed process's leftovers.
  `MaxSaves` bounds the saves of one process; a removal fails at most once,
  which is enough to leave a pair, a half or a temporary behind at every place.
  The keys of the instance do not collide.
* API: the alphabet is four characters, with markers of two and three that begin
  alike as `</think>` and `<tool_call>` do, and a call of four; eight characters
  hold a thought, a marker, a call and something after it, and one more delta
  than `LateBounded` allows. Deltas are single characters, whole markers and
  pieces that end one marker and begin the next thing; none completes two
  markers at once. `KeepAlive` is 16 in the code and 2 here. One request at a
  time is enough, because the counters are atomic.
* Decode state: the layer kinds are the three of the model (sparse attention,
  recurrent with and without n-grams). `Ratio` 2 and `Budget` 4 put eight tokens
  below, at and above every threshold of the index, the Q8 cache (`Q8Min`,
  `Flush`) and the batched paths; the four environments switch every variable
  that changes a state. The end-of-sequence token is inside both texts, where
  the n-gram context restarts. `Stride` groups layers two at a time, so that a
  prefill can stop inside the stack.
* Policies: the windows and thresholds are the code's, scaled to two or three
  rounds; six rounds promote, demote, suspend, fall back and recover. Draft
  caches: nine tokens over two letters hold every overlap of n-grams of one to
  four; `MCKeyOf` has ten values, so lengths and contents collide.
* Thinking: limits on both sides of the suffix and of every budget.
* Experts: `RowCounts` are both sides of every limit of the dispatch; slots are
  fewer than a row's experts; tiles of four and three with remainders of two and
  one give full, short and empty groups on seven routes.
* Metal session: six layers with two attention layers, groups that divide them
  and groups that do not; slab, context and position limits are reached within
  two steps by some prompt. `TrunkGraph` keeps the real sizes and reduces the 48
  layers to twelve, which hold each kind of layer in each neighbourhood.
  `MetalKernels` sorts groups of four and eight rows instead of 256 and keeps
  the 14-bit codes, 32-bit words and forty groups of the code.
* Manifest: a config that loads and one for each way to fail; checkpoints with and
  without the wrapper or with a language head of their own; sidecars that keep to
  their names and ones that name a module of the checkpoint, flat or wrapped; `MostBytes` 6
  makes the byte count overflow; two threads and two files.
* Start-up: `ChunkOptions` and `PromptRows` are the limits and their successors.
* Expert cache: `MaxTick`, `MaxFrequency`, `DecayPeriod` and `HistoryLimit` are
  the code's limits scaled down so that wrap, saturation, decay and a full
  history occur; `MaxLeases` bounds the handles on one value.

Symmetry is used in `executor` and `experts`, which have no liveness
property, over constants that the specification does not tell apart.

`CHECK_DEADLOCK FALSE` is set where a model ends: at the bound on requests, rounds
or tokens (`generation`, `api_stream`, `speculation`), after the one call that a
behaviour consists of, or when the process has exited (`experts`, `backend`).
Elsewhere a final state is an explicit step (`Terminated`) and any other stop is
an error.

### Fairness

`Executor` (`RecurringSpec`) assumes weak fairness of the worker thread, whose
waits have a deadline or are notified and whose engine calls return or throw, and
that a caller whose future is ready returns from `get()`. Nobody is obliged to
call or to stop. `HttpServer` assumes weak fairness of the thread in `run()`, of
each worker and of a signal handler that has started; a worker inside
`handle_client` returns because reads and writes time out and the executor
answers every call (checked in `executor_live`). A blocked `accept` is not
obliged to return unless the socket was shut down or a client is there: a signal
that interrupts it and a network error are the action `AcceptDisturbed`, a disjunct
of `Next` outside every fairness condition. `StopEndsRun` therefore depends on the
`shutdown` in `stop()`; its mutant drops it and `run()` stays in `accept`. The 503
for a full queue is one step that succeeds at once, although `run()` writes it
without the time limits that workers set.

## 4. Findings

* **A signal before `run()` resets `stopping_` is lost** (`http_server_signal`).
* **Anchor tokens and the fallback** (`generation_anchor`): the fallback hands
  the state to the backend while anchor steps still decode on the emptied MLX
  state. It needs `QWEN38_PERSISTENT_ANCHOR_TOKENS` with a draft head.
* **Leftovers of a kill escape the limit** (`prefix_store_bound`): temporaries
  and half pairs are never counted or evicted.

Weaknesses that the passing runs delimit, each a named exception of a property
or an outcome of an action:

* `NoTaskLost` and not more: `complete_batch` validates all coalesced requests
  first and throws on the first bad one (`native_engine.cpp:571`), so a valid
  request can fail with its neighbour, although `README.md:55` speaks of
  "independent request slots"; the refill path does isolate the bad one.
* `StartDecoding` and `MlxStep` of `Generation`: the hand-over at the end of the
  anchor tokens (`native_engine.cpp:1475`) does not test whether the request is
  sampled, as the one before the loop does.
* `SendsBackAndForth` (`DispatchSettles`): with compact metadata, unfused
  experts, the device router and grouping, two to eight rows are handed from
  verification to prefill and back without end (`sparse_moe.cpp:2157`, `:2627`).
* `WideReducedVerify` (`KernelFits`): a compact layer with fewer than ten routes
  (`turbo` sets eight, `runtime_profile.cpp:79`) verifies more than eight rows
  with the kernel for ten (`sparse_moe.cpp:2102`).
* `PagedBranch` (`KernelFits`): the branch batch of paged VQ layers reads
  resident arrays that such a layer does not have (`sparse_moe.cpp:1811`).
* `TooWideFurtherDown` (`RowsServed`): paged layers, and ungrouped affine ones,
  refuse more than 1024 prefill rows, while `main.cpp:302` chooses 2048 for every
  packed-VQ checkpoint.
* `GeometryAssumption` of `LayerState`: the Q8 cache must not begin below the
  selection budget; the code does not relate the two variables.
* `StraddlingTail` (`AttendsEachOnce`): the tail loop of
  `qsa_attention_q8_blocks` has no branch for quantized rows
  (`persistent_metal_kernels.hpp:1215`).
* `AffineUnpruned` (`KernelsFitCheckpoint`): `supports` accepts an unpruned
  checkpoint without VQ that `create` runs with kernels of another shape
  (`persistent_metal_backend.mm:1674`; `docs/persistent-metal-backend.md:293`
  says it "fails closed").
* `NamesTarget` (`TargetQuantization`): the `.scales` of the MTP sidecar under the
  name of a module of the checkpoint, or the flat name of a wrapped one, change
  that module's width; so does the language head, which is written over. `SpelledTwice`
  (`RetainedUsable`): "1" and "01" both name layer 1 of `qwen38_expert_keep`.
  `PairWithoutHeads` (`NeverDividesByZero`): `model_manifest.cpp:147` divides by
  the n-gram heads before line 163 checks them. The bytes of compact-metadata
  sidecars are not part of `declared_weight_bytes`.
* `Companion` of `Startup`: an n-gram directory with an incomplete `config.json`
  ends the process, because the probe at `main.cpp:238` catches only
  `std::runtime_error` and a missing key is `std::out_of_range`.
* `Precedence`: the KV variables of the user's environment never count
  (`main.cpp:285`). `ChunksFit`: a prompt above 66 048 tokens is cut into chunks
  of 128 rows for a configured 512 and of 512 for a configured 513.
* `SignalFindsServer`: after `run()` has thrown, a signal finds the destroyed
  server (`main.cpp:363`).
* `QWEN38_TARGET_TOPK` is not part of the prefix cache's fingerprint
  (`native_engine.cpp:337`), although it changes the states; no run covers it.

* `OnlyErrorPathMiscloses`: the error path of `run()` may close a number that a
  signal handler already closed and another thread was given; nothing else may.
* `OnlyDeferredCallsWait`: a deferred request waits as long as refills keep the
  batch alive, and a stream of refills that fail keeps the live rows waiting.
* `LoadedStateBelongs` is checked for keys that do not collide. With two
  prefixes of one hash key a kill between the renames pairs the tokens of one
  with the state of the other.
* `StreamAgrees` has a condition: a thinking response that never reaches
  `</think>` is `reasoning_content` in a stream and `content` without one, and a
  tool call before `</think>` ends the thoughts only in a stream.
* `LateBounded`: `docs/api.md` says that closing a stream cancels "at the next
  committed-token boundary"; while text is held back or a call captured it takes
  up to two markers and sixteen deltas. A call completed by the very delta that
  fails to be announced makes the request count as finished, not cancelled.

## 5. Proofs

Eight modules hold theorems. Each is for every value of the constants that
satisfies the `ASSUME` of its component, and states a property that a run checks
on its small instance.

| theorem | module | what holds in every behaviour |
|---|---|---|
| `TypeCorrect`, `AtMostOneAnswer` | `ExecutorProofs` | `TypeOK`: no unsigned row count, offset or `live_capacity` wraps; `AnsweredAtMostOnce` |
| `NoCallLost` | `ExecutorProofs` | `NoTaskLost`: an unanswered call is where the worker still finds it |
| `ImplementsService` | `ExecutorProofs` | `ServiceSpec`: the refinement of `TaskService` |
| `RowsWithinLimits` | `ExecutorProofs` | `BatchWithinLimits` |
| `SocketsAlwaysHeldOnce`, `ClosedByItsHolder` | `ServerProofs` | `SocketsHeldOnce`, `OnlyErrorPathMiscloses` |
| `CacheAlwaysTrue`, `DecodersAlwaysInStep`, `CheckpointsAlwaysKept` | `GenerationProofs` | `CacheTrue`, `DecodersInStep`, `CheckpointsKept` |
| `ImplementsGreedy` | `GenerationProofs` | `GreedySpec`: the refinement of `GreedyDecode`, for any diagnostic minimum |
| `StateOfCommittedTokens` | `DecodeStateProofs` | `StatesHold`: target, head and files are the states of the committed tokens |
| `SelectionAlwaysSound` | `DecodeStateProofs` | `SelectionSound`: sparse attention in its packed and its dense form |
| `StoreAlwaysTruthful`, `NothingLostToInterruption` | `PrefixCacheStoreProofs` | `StoreTruthful`, `InterruptionLosesNothing` |
| `ImplementsLru` | `PrefixCacheStoreProofs` | `LruSpec`: the refinement of `PrefixStore` |
| `EveryStreamSettles`, `LeaversAreNoticed` | `RequestProofs` | `StreamSettles`, `LateBounded` |
| `StreamSplitsExactly` | `RequestProofs` | `SplitIsExact`: thought, answer and call as in the whole text, however it was cut |
| `ThinkingAlwaysClosed` | `RequestProofs` | `ThinkingClosed` |
| `PoliciesJudgeByRounds` | `RequestProofs` | `PoliciesEarned`: the four drafting policies act on rounds that took place |
| `AccountsAlwaysTrue`, `LeasesAlwaysDecide` | `ExpertProofs` | `AccountsTrue`, `LeasesDecide` |
| `PagesStayTruthful` | `ExpertProofs` | `PagesTruthful`: lazy reads, slots, the pool, the parallel readers |
| `DispatchStaysSound` | `ExpertProofs` | `DispatchSound`: every row at a kernel that takes it, once |
| `SettingsRanked`, `ServesWhatItSays` | `ServerProofs` | `SettingsRank`, `ServerTruthful` |
| `LoadsFaithfully` | `ServerProofs` | `ManifestFaithful`, for every config, index and sidecars |
| `MapsShardsOnce` | `ServerProofs` | `ShardsMappedOnce`, for any threads |
| `SessionStaysSound` | `ServerProofs` | `SessionSound`: host, queue and GPU of the Metal backend |

### Hypotheses beyond the assumptions on constants

* `NoAnchoredHead` (`GenerationProofs`): no configuration combines a draft head,
  the backend and anchor tokens. With that combination the properties are false:
  it is the finding `generation_anchor`.
* `ModelChooses` (`GenerationProofs`): the model's greedy choice and its second one
  are tokens; the code takes them from the vocabulary.
* `KeysDistinct` (`PrefixCacheStoreProofs`): `cache_key` does not collide on the
  prefixes that are saved. The key is a 64-bit FNV-1a hash and the length; section
  4 says what a collision does.
* `DeltasApart` (`StreamSplitsExactly` only): no single delta completes both a
  `<tool_call>` and, behind it, a `</think>`. `on_delta` looks for the end of the
  thought first, so such a delta would move the call into the thought. Deltas are
  what `emit_new_tokens` hands over, usually a token and never more than one round
  (`native_engine.cpp:1160`).

The assumptions on constants say only what the code's constants and checks
establish: rows, ratios and capacities are positive numbers
(`SessionAssumption`, `ExpertPagingAssumption`, `DraftPolicyAssumption`), the
limits of the dispatch are in the order of the source (`MoeDispatchAssumption`),
neither marker contains the other (`MarkersAssumption`), counts read from
`config.json` are unsigned (`ConfigAssumption`), and a free lock is no thread
(`StoreAssumption`). Two are about checkpoints and settings rather than about a
check in the code, and are weaker than what is deployed. `GeometryAssumption`: the
budget of sparse attention is at least the 512 rows of one attention call and no
more than the threshold of the Q8 cache less a block (2,048 tokens and 8,192 in the
shipped configurations). `DecodeStateAssumption`: a raw-key window, at least 16 rows
when it is set, keeps what is not yet a block (blocks have four rows).

### The arguments

None of these properties is inductive; each module defines the invariant that is,
as a conjunction of named and commented parts, and proves one lemma per action.

* **Executor.** `IInv` says who may still reach a task: a queued one is
  unanswered, queued once and in no other place (`QueueFresh`, `QueueApart`);
  what the batch, the rows or the deferred list hold carries a truthful flag
  (`HeldGuarded`); a batch being formed is unanswered (`FormingFresh`); rows and
  deferred requests exist only inside `complete_batch` (`IdleEmpty`); only
  validated generations become rows (`RowsValid`, which keeps the unsigned
  arithmetic sound). `AnsweredAtMostOnce` needs all of it, because most paths
  answer a promise without looking at it. `SInv` adds the converse (whatever is
  not held has its answer) and the order of the queue (`QueueOrder`: the queue is
  the end of the order of acceptance, so a call held elsewhere is earlier), from
  which every step that answers is an `Answer` of `TaskService` with
  `clear_cache` as a barrier. `CInv` keeps the code's running sum equal to the
  sum over the live rows (`LiveCounts`) through admission, refill and erasure.
* **HTTP server.** `OneHolder` counts the places a socket is in; `HInv` says
  which place each state of a connection stands for, and what may be queued or
  running in each phase of `run()` (`Phases`). `Descriptor` says that a published
  number and one taken by a `stop()` exclude each other and are the listener's,
  unless `run()` is on its error path.
* **Generation.** `GInv` relates every state to the tokens it has consumed: what
  has been emitted and why the loop ends (`Progress`), whether MLX or the backend is
  in charge (`Charge`) and what it then holds (`Holding`), the rows of the head
  (`HeadKept`), and the entries in RAM and on disk (`Entries`, `Backing`). A round is
  shown to commit a prefix of the greedy continuation by induction on the accepted
  drafts, whatever they are.
* **Decode states.** `Held` says that after n committed tokens of a text every layer
  holds them: its keys in cold and hot parts, the blocks that are pooled and the
  raw rows from which the next ones will be (`Attending`), a recurrent state that is
  either settled or a deferred rollback (`Settled`, `Deferred`), the n-gram window
  (`Embedded`). The lemmas say of each path (decode, the four forms of verification,
  prefill in pieces, checkpoint, snapshot, file) that it leads from n tokens to
  n + k of the same text, element by element, because the paths cut and join the
  same rows in different places. Inside a prefill `Prefilling` names the layers that
  are ahead. A verification checkpoints at every row; it is one lemma that the
  checkpoint of a batch is the state of the row it stands for. A text is whatever the
  tokens accepted so far begin: a rejected draft is another text with the same
  beginning (`Agree`).
* **Prefix store.** `PInv`: each file belongs to the prefix of its name
  (`Owned`); the order lists exactly the `.tokens` files (`Listed`); the only
  temporaries of a process that was never killed are those of the save in progress
  (`Temporaries`); `total` is the sum of the pairs that `evict_to_limit` has yet to
  visit (`Counted`). With removals that work these are all complete pairs, oldest
  first (`Exact`), the one being saved last (`Survives`): hence `save` answers
  false only when its own pair exceeds the limit. The abstract list is the
  filter of the order by the complete pairs; the refinement rests on how that
  filter changes when a key leaves (`EntryGoes`), becomes the newest (`OnlyTouch`)
  or appears in the middle (`OnlyInsert`, a save that completes the half left by
  an interrupted `clear`).
* **Expert cache.** `EInv` keeps the counters equal to sums over the entries
  (`Counted`), the history within its limit and every tick below the clock
  (`WellKept`), also when the clock is halved.
* **Stream.** `Carries` bounds what the closure holds back: a carry is shorter than a
  marker and contains none, a captured call is never longer silent than the
  keep-alive. As deltas are not empty, the number that may have passed without a write
  follows (`Silent`), so a client that left is noticed (`LateBounded`). `TextTold`
  says what a client that is still there was told of the text so far; the split
  never moves, because a marker that is first in a text stays first in what
  extends it (`FirstStays`).
* **Policies.** The guards of the code are thresholds on counters; `PoliciesEarned`
  says what the *rounds* were. `PolicyInv` ties them together: the probe counts all
  learned rounds; the watch of a depth the last rounds, all of that depth, and at
  depth three the lost window before them; the guard's ring holds the last rounds
  in the order its cursor gives; the tallies count from the round at which their
  source began; one lost copy leaves the average at most 0.7, two at most 0.49, so
  the third suspends. Two lemmas carry the sums: what one more round adds, and that
  the end of the history is all of the history that is asked about.
* **Expert pages.** `SlotInv`: a projection that is built and not evaluated reads
  through a leased slot (`LeasesHold`); a hot expert is in the slot of its number
  (`HotStay`); what a call may still lease fits (`CallFits`: distinct experts of a
  packed row, bounded leases of a group), hence a cold slot is free whenever one is
  asked for. `ReaderInv`: the bundle grows in the order of the projections,
  whichever reader ends or fails first.
* **Dispatch.** `MoeInv` says how rows may have come to the function that is about
  to run (`CameAlong`), which bounds their number there and rules out a cycle
  between `verify` and `prefill`; computed, running and remaining rows add up to
  the call's (`CallStage`).
* **Start-up and manifest.** One invariant per stage of `main` (`StartInv`) says
  where each variable can have its value from. `LoadInv` does the same for
  `ModelManifest::load`; that a sorted list of distinct experts is what the mask
  keeps is a lemma on ranks. `StoreInv`: each opened file is in the map or in the
  hand of the one thread that is in the lock.
* **Metal session.** `SessionInv` splits a step in two. The host is ahead: the layers
  it has encoded are counted (`HostAhead`). The GPU is behind: from some layer on
  the slabs still hold the context of the step before, the queue has the
  operations of exactly these layers in order, and the tables that the host writes
  still say what these operations will read (`GpuBehind`). A failed group loses its
  operations and, with them, the request. `Settled` is what both come to when the
  queue is empty.
* **Thinking budget.** `ThinkingInv`: while the suffix is forced the limit has
  room for the rest of it (`SuffixInProgress`); where budget and suffix fit, a
  thought still open is within the budget, or in a suffix that began within it
  (`OpenInTime`).

### Induction over data

The provers cannot instantiate an induction theorem that takes an operator. `Sums`
derives induction from the minimum of a non-empty set of naturals (`NatMinimum`,
`NatInduct`), with the property to be shown as a *set*; `SeqInduct` does the same
for sequences. On it rest the existence of the recursive functions (running sums,
`Only`) and what they compute: `SumAppend`, `SumOmit`, `SumOverRemove`, `OnlyType`,
`OnlyAgain`, `WithoutHead`. `Sums` and `Filters` are shared by the components.

### Only model-checked

* Liveness (`EveryCallAnswered`, `StopTerminates`, `OnlyDeferredCallsWait`,
  `QueuedIsSettled`, `StopEndsRun`): fairness and `ENABLED` are beyond this prover.
* `DraftsContinue`: the searches of the two draft caches over every text of nine
  tokens; a proof would be a proof of the searches.
* `PlansSound` and `KernelsExact`: the plans and the kernels sort with
  `SetToSortSeq` and `SortSeq`, which the provers cannot expand.
* `StreamAgrees`: it compares the stream with the whole-text path, which trims and
  splits recursively; `StreamSplitsExactly` proves the half about the markers.
* `DispatchesFresh` (`TrunkGraph`): the ranges of the real dispatches are data, and
  the run enumerates them.

## 6. Not modelled

* Floating-point arithmetic: attention, recurrences, hyper-connections, expert
  projections, quantization, sampling. It is represented by `Greedy`, by a free
  choice, or by where a value comes from.
* The kernels of the MLX graph (`*_metal_kernels.hpp`), which MLX schedules, and
  those of the persistent backend that are compiled and never dispatched.
* Tokenizer, JSON, chat template, the inside of a tool call, safetensors headers
  and file mapping: sequential functions on data, without state that outlives a
  call.
* Smoke tests, benches, probes and `devtools`.
* Inside the modelled parts: request parsing in `handle_client` is one step with
  every outcome; option validation and the status routes of the API; UTF-8
  assembly and statistics in `complete_impl`; calibration files and adapters of
  the draft head; power loss (`prefix_cache_store.hpp` promises no fsync).

## 7. Plan

In order of importance; the first five blocks are done.

1. Executor and batch scheduler with its abstract service and first proofs; HTTP
   server and shutdown; prefix store with its abstract list; serial generation
   with speculation against greedy decoding; expert cache.
2. `ApiStream`: the SSE closure and the request counters.
3. `LayerState` and `DecodeState`: prefill, verification, rollback and files.
4. Policies, draft caches and the thinking budget; experts from the pages to the
   results.
5. The Metal backend with its dispatches and kernels; manifest and start-up.
6. A composition of `HttpServer`, the API and `Executor`, for the liveness of a
   whole request through shutdown; request reading in `HttpServer` at its size
   limits.

Theorems worth proving next: `StreamAgrees` of `ApiStream`; `SegmentsCover` of
`RoutePlan`; `DraftsFollow` of `DraftCaches`.

## 8. Running it

    tlc -config MCExecutor.cfg MCExecutor
    for m in Sums ExecutorProofs GenerationProofs DecodeStateProofs \
             PrefixCacheStoreProofs ExpertProofs RequestProofs ServerProofs; do
      tlapm $m.tla; done

Every run of section 3 is a configuration named after its module; the three
marked violations are expected to fail.
