------------------------------ MODULE Executor ------------------------------
(***************************************************************************)
(* NativeEngineExecutor and the continuous-batching scheduler              *)
(* NativeEngine::complete_batch (src/native_engine.cpp).                   *)
(*                                                                         *)
(* HTTP threads enqueue tasks under a mutex and block on a future.  One    *)
(* worker thread pops them: a clear alone, a thinking generation alone,    *)
(* otherwise up to MaxBatch generations that arrive within 2 ms.  Two or   *)
(* more are decoded together; whenever a row leaves, the scheduler refills *)
(* the slot from the queue, or parks a request that does not fit in        *)
(* deferred, to be run serially once the batch is over.                    *)
(*                                                                         *)
(* The worker is sequential: pc says where it is.  Between two of its      *)
(* steps any other thread may enqueue or begin shutdown.  The engine's     *)
(* arithmetic is external: a decoded row yields a token, a stop token or a *)
(* cancelled stream, and every engine call may throw if EngineFaults.      *)
(***************************************************************************)
EXTENDS Naturals, Sequences

CONSTANTS
  Tasks,            \* identities of the calls
  Requests,         \* the requests a call may carry
  MaxBatch,         \* rows of a continuous batch (4 in the code)
  AggregateLimit,   \* QWEN38_BATCH_CONTEXT_TOKENS (131072 by default)
  ChunkRows,        \* prefill rows ingested per chunk
  Barriers,         \* evaluation barriers of one prefill chunk
  EngineFaults      \* may calls into the model, tokenizer, callbacks throw?

\* Everything the scheduler reads of a request.  valid abstracts the limits
\* on max_tokens, the sampling options, the prompt and the context window.
RequestType ==
  [kind : {"generate", "clear"}, thinking : BOOLEAN, valid : BOOLEAN,
   stream : BOOLEAN, prompt : Nat, max_tokens : Nat]

NoRequest ==
  [kind |-> "none", thinking |-> FALSE, valid |-> FALSE,
   stream |-> FALSE, prompt |-> 0, max_tokens |-> 0]

ASSUME ExecutorAssumption ==
  /\ Requests \subseteq RequestType
  /\ \A r \in Requests :
        r.kind = "generate" /\ r.valid => r.prompt > 0 /\ r.max_tokens > 0
  /\ MaxBatch \in Nat \ {0}
  /\ AggregateLimit \in Nat
  /\ ChunkRows \in Nat \ {0}
  /\ Barriers \in Nat \ {0}
  /\ EngineFaults \in BOOLEAN

VARIABLES
  request,    \* the request of each call, NoRequest before it is made
  accepted,   \* history: the calls that enqueue took, oldest first
  tasks,      \* Impl::tasks, the queue
  stopping,   \* Impl::stopping
  pc,         \* where the worker thread is
  batch,      \* the worker's vector batch
  slot,       \* loop index over batch or sessions
  sessions,   \* the rows of the live batch
  live,       \* live_capacity
  deferred,   \* requests left to run serially by this complete_batch
  resolved,   \* Task::resolved
  outcome     \* what was stored in each call's promise, in order

vars == <<request, accepted, tasks, stopping, pc, batch, slot, sessions,
          live, deferred, resolved, outcome>>

queueVars  == <<request, accepted, tasks, stopping>>
batchVars  == <<batch, slot, sessions, live, deferred>>
resultVars == <<resolved, outcome>>

Pcs == {"starting", "failed", "waiting", "coalescing", "clearing", "single",
        "validating", "serial", "initializing", "decoding", "finishing",
        "erasing", "refilling", "prefilling", "exited"}

SessionType ==
  [task : Tasks, tokens : Nat, offset : Nat, barrier : Nat,
   ready : BOOLEAN, active : BOOLEAN]

-----------------------------------------------------------------------------
(* Requests and promises.                                                  *)

\* prompt_tokens.size() + max_tokens, what a session reserves.
Reserved(t) == request[t].prompt + request[t].max_tokens

\* Mutation: the queue's head is tested for thinking only.
BatchableClears(t) == ~request[t].thinking

\* May this task share a batch?
Batchable(t) == request[t].kind = "generate" /\ ~request[t].thinking

\* Mutation: on_error forgets to consult resolved.
SettleAgain(S, v) ==
  /\ resolved' = [t \in Tasks |-> resolved[t] \/ t \in S]
  /\ outcome' = [t \in Tasks |-> IF t \in S THEN Append(outcome[t], v)
                                 ELSE outcome[t]]

\* on_complete and on_error of bind_completion: the first call that finds
\* resolved unset stores its answer, any later one does nothing.
Settle(S, v) ==
  /\ resolved' = [t \in Tasks |-> resolved[t] \/ t \in S]
  /\ outcome' = [t \in Tasks |-> IF t \in S /\ ~resolved[t]
                                 THEN Append(outcome[t], v)
                                 ELSE outcome[t]]

\* A promise satisfied directly, without consulting resolved.
SetDirectly(t, v) ==
  /\ outcome' = [outcome EXCEPT ![t] = Append(@, v)]
  /\ UNCHANGED resolved

SeqRange(s) == {s[i] : i \in DOMAIN s}

SessionTasks == {sessions[i].task : i \in DOMAIN sessions}

-----------------------------------------------------------------------------
(* The threads that use the executor.                                      *)

\* generate() / clear(): enqueue takes the task or, when stopping, throws.
Enqueue(t, r) ==
  /\ pc \notin {"starting", "failed", "exited"}
  /\ request[t] = NoRequest
  /\ request' = [request EXCEPT ![t] = r]
  /\ IF stopping
     THEN UNCHANGED <<accepted, tasks>>
     ELSE /\ tasks' = Append(tasks, t)
          /\ accepted' = Append(accepted, t)
  /\ UNCHANGED <<stopping, pc, batchVars, resultVars>>

\* stop(), called by the destructor; the join waits for pc = "exited".
Stop ==
  /\ pc \notin {"starting", "failed"}
  /\ ~stopping
  /\ stopping' = TRUE
  /\ UNCHANGED <<request, accepted, tasks, pc, batchVars, resultVars>>

-----------------------------------------------------------------------------
(* The worker's main loop.                                                 *)

\* The engine is built on the worker thread; the constructor rethrows.
StartEngine ==
  /\ pc = "starting"
  /\ \/ pc' = "waiting"
     \/ EngineFaults /\ pc' = "failed"
  /\ UNCHANGED <<queueVars, batchVars, resultVars>>

\* Mutation: shutdown does not drain the queue.
ExitAtOnce ==
  /\ pc = "waiting"
  /\ stopping
  /\ pc' = "exited"
  /\ UNCHANGED <<queueVars, batchVars, resultVars>>

\* The wait ends with an empty queue only when stopping.
Exit ==
  /\ pc = "waiting"
  /\ tasks = <<>> /\ stopping
  /\ pc' = "exited"
  /\ UNCHANGED <<queueVars, batchVars, resultVars>>

TakeFirst ==
  /\ pc = "waiting"
  /\ tasks # <<>>
  /\ batch' = <<Head(tasks)>>
  /\ tasks' = Tail(tasks)
  /\ pc' = IF request[Head(tasks)].kind = "clear" THEN "clearing"
           ELSE IF request[Head(tasks)].thinking THEN "single"
           ELSE "coalescing"
  /\ UNCHANGED <<request, accepted, stopping, slot, sessions, live, deferred,
                 resultVars>>

\* Another compatible generation joins within the 2 ms window.
Coalesce ==
  /\ pc = "coalescing"
  /\ Len(batch) < MaxBatch
  /\ tasks # <<>> /\ Batchable(Head(tasks))
  /\ batch' = Append(batch, Head(tasks))
  /\ tasks' = Tail(tasks)
  /\ UNCHANGED <<request, accepted, stopping, pc, slot, sessions, live,
                 deferred, resultVars>>

\* The batch is full, the deadline passed (or shutdown woke the wait) with
\* an empty queue, or the head of the queue must run alone.
EndCoalescing ==
  /\ pc = "coalescing"
  /\ \/ Len(batch) >= MaxBatch
     \/ tasks = <<>>
     \/ tasks # <<>> /\ ~Batchable(Head(tasks))
  /\ pc' = IF Len(batch) = 1 THEN "single" ELSE "validating"
  /\ UNCHANGED <<queueVars, batchVars, resultVars>>

\* clear_cache() on the engine thread.
RunClear ==
  /\ pc = "clearing"
  /\ \/ SetDirectly(Head(batch), "value")
     \/ EngineFaults /\ SetDirectly(Head(batch), "error")
  /\ batch' = <<>>
  /\ pc' = "waiting"
  /\ UNCHANGED <<queueVars, slot, sessions, live, deferred>>

\* A lone generation keeps the serial/MTP path.
RunSingle ==
  /\ pc = "single"
  /\ \/ request[Head(batch)].valid /\ SetDirectly(Head(batch), "value")
     \/ /\ ~request[Head(batch)].valid \/ EngineFaults
        /\ Settle({Head(batch)}, "error")
  /\ batch' = <<>>
  /\ pc' = "waiting"
  /\ UNCHANGED <<queueVars, slot, sessions, live, deferred>>

-----------------------------------------------------------------------------
(* complete_batch.                                                         *)

\* The sum of the capacities of a sequence of tasks.
Aggregate(ts) ==
  LET sum[n \in 0..Len(ts)] ==
        IF n = 0 THEN 0 ELSE sum[n - 1] + Reserved(ts[n])
  IN  sum[Len(ts)]

BatchValid == \A i \in DOMAIN batch : request[batch[i]].valid

\* One invalid request throws out of complete_batch, and the executor's
\* handler fails every task of the batch.
RejectBatch ==
  /\ pc = "validating"
  /\ ~BatchValid \/ EngineFaults
  /\ Settle(SeqRange(batch), "error")
  /\ batch' = <<>>
  /\ pc' = "waiting"
  /\ UNCHANGED <<queueVars, slot, sessions, live, deferred>>

\* Too much context to hold at once: every request runs serially.
SerializeBatch ==
  /\ pc = "validating"
  /\ BatchValid
  /\ Aggregate(batch) > AggregateLimit
  /\ deferred' = batch
  /\ pc' = "serial"
  /\ UNCHANGED <<queueVars, batch, slot, sessions, live, resultVars>>

AdmitBatch ==
  /\ pc = "validating"
  /\ BatchValid
  /\ Aggregate(batch) <= AggregateLimit
  /\ slot' = 1
  /\ pc' = "initializing"
  /\ UNCHANGED <<queueVars, batch, sessions, live, deferred, resultVars>>

\* Mutation: the token being decoded is subtracted twice.
PrefillRowsShort(t) == request[t].prompt - 2

\* prompt_tokens.size() - 1: the last prompt token is the first one decoded.
PrefillRows(t) == request[t].prompt - 1

\* A session whose prompt has been ingested up to rows.
NewSession(t, rows) ==
  [task |-> t, tokens |-> 0, offset |-> rows, barrier |-> 0,
   ready |-> rows = PrefillRows(t), active |-> TRUE]

\* initialize_session for the initial rows ingests the whole prompt; if it
\* throws the row gets the exception and is not added.
InitializeSlot ==
  /\ pc = "initializing"
  /\ slot <= Len(batch)
  /\ \/ /\ sessions' =
              Append(sessions, NewSession(batch[slot], PrefillRows(batch[slot])))
        /\ UNCHANGED resultVars
     \/ /\ EngineFaults
        /\ Settle({batch[slot]}, "error")
        /\ UNCHANGED sessions
  /\ slot' = slot + 1
  /\ UNCHANGED <<queueVars, pc, batch, live, deferred>>

\* while (!sessions.empty()), and what follows the loop.
LoopHead(rows) == IF rows = <<>> THEN "serial" ELSE "decoding"

StartLoop ==
  /\ pc = "initializing"
  /\ slot > Len(batch)
  /\ pc' = LoopHead(sessions)
  /\ UNCHANGED <<queueVars, batchVars, resultVars>>

\* What one row of a decode pass does: a stop token, a token whose delta the
\* client refused, or a token, after which the row may have its last one.
DecodedRow(s, result) ==
  IF ~s.ready THEN s
  ELSE IF result = "stop" THEN [s EXCEPT !.active = FALSE]
  ELSE [s EXCEPT !.tokens = @ + 1,
                 !.active = /\ result # "cancelled"
                            /\ s.tokens + 1 # request[s.task].max_tokens]

\* One pass of forward_decode_capture_multi over the ready rows.
Decode ==
  /\ pc = "decoding"
  /\ \E result \in [DOMAIN sessions -> {"token", "stop", "cancelled"}] :
       /\ \A i \in DOMAIN sessions :
            /\ ~sessions[i].ready => result[i] = "token"
            /\ result[i] = "cancelled" => request[sessions[i].task].stream
       /\ sessions' = [i \in DOMAIN sessions |->
                         DecodedRow(sessions[i], result[i])]
  /\ slot' = 1
  /\ live' = 0
  /\ pc' = "finishing"
  /\ UNCHANGED <<queueVars, batch, deferred, resultVars>>

\* The completion loop: an active row adds its reservation to live_capacity,
\* a finished one is answered.
FinishSlot ==
  /\ pc = "finishing"
  /\ slot <= Len(sessions)
  /\ \/ /\ sessions[slot].active
        /\ live' = live + Reserved(sessions[slot].task)
        /\ UNCHANGED resultVars
     \/ /\ ~sessions[slot].active
        /\ Settle({sessions[slot].task}, "value")
        /\ UNCHANGED live
  /\ slot' = slot + 1
  /\ UNCHANGED <<queueVars, pc, batch, sessions, deferred>>

\* Mutation: the handler forgets the deferred requests.
FailRowsOnly ==
  /\ EngineFaults
  /\ pc = "decoding"
  /\ Settle(SessionTasks, "error")
  /\ batch' = <<>>
  /\ sessions' = <<>>
  /\ deferred' = <<>>
  /\ pc' = "waiting"
  /\ UNCHANGED <<queueVars, slot, live>>

\* The handler around the loop: every row still listed, already answered or
\* not, and every deferred request gets the exception.
FailBatch ==
  /\ EngineFaults
  /\ \/ pc = "decoding"
     \/ pc = "finishing" /\ slot <= Len(sessions) /\ ~sessions[slot].active
  /\ Settle(SessionTasks \cup SeqRange(deferred), "error")
  /\ batch' = <<>>
  /\ sessions' = <<>>
  /\ deferred' = <<>>
  /\ pc' = "waiting"
  /\ UNCHANGED <<queueVars, slot, live>>

EndFinishing ==
  /\ pc = "finishing"
  /\ slot > Len(sessions)
  /\ pc' = "erasing"
  /\ UNCHANGED <<queueVars, batchVars, resultVars>>

\* rows with the i-th one gone.
RemoveRow(rows, i) ==
  SubSeq(rows, 1, i - 1) \o SubSeq(rows, i + 1, Len(rows))

\* std::erase_if drops the finished rows, front to back.
EraseRow ==
  /\ pc = "erasing"
  /\ \E i \in DOMAIN sessions :
       /\ ~sessions[i].active
       /\ \A j \in 1..(i - 1) : sessions[j].active
       /\ sessions' = RemoveRow(sessions, i)
  /\ UNCHANGED <<queueVars, pc, batch, slot, live, deferred, resultVars>>

EndErasing ==
  /\ pc = "erasing"
  /\ \A i \in DOMAIN sessions : sessions[i].active
  /\ pc' = IF sessions = <<>> THEN "serial" ELSE "refilling"
  /\ UNCHANGED <<queueVars, batchVars, resultVars>>

-----------------------------------------------------------------------------
(* Refill of free slots, and the prefill of refilled rows.                 *)

\* refill() returned a task.
Refilled ==
  /\ pc = "refilling"
  /\ Len(sessions) < MaxBatch
  /\ tasks # <<>> /\ Batchable(Head(tasks))
  /\ tasks' = Tail(tasks)

\* An invalid request, or one whose session cannot be built, fails alone.
RefillFails ==
  /\ Refilled
  /\ ~request[Head(tasks)].valid \/ EngineFaults
  /\ Settle({Head(tasks)}, "error")
  /\ UNCHANGED <<request, accepted, stopping, pc, batchVars>>

\* Mutation: a refill is measured alone, not against the live rows.
FitsAlone(t) == ~request[t].thinking /\ Reserved(t) <= AggregateLimit

Fits(t) == ~request[t].thinking /\ live + Reserved(t) <= AggregateLimit

\* A request that does not fit now is parked and ends this refill round.
RefillDefers ==
  /\ Refilled
  /\ request[Head(tasks)].valid
  /\ ~Fits(Head(tasks))
  /\ deferred' = Append(deferred, Head(tasks))
  /\ pc' = "prefilling"
  /\ UNCHANGED <<request, accepted, stopping, batch, slot, sessions, live,
                 resultVars>>

RefillJoins ==
  /\ Refilled
  /\ request[Head(tasks)].valid
  /\ Fits(Head(tasks))
  /\ sessions' = Append(sessions, NewSession(Head(tasks), 0))
  /\ live' = live + Reserved(Head(tasks))
  /\ UNCHANGED <<request, accepted, stopping, pc, batch, slot, deferred,
                 resultVars>>

\* No free slot, nothing arrived within 5 ms, or the head must run alone.
EndRefilling ==
  /\ pc = "refilling"
  /\ \/ Len(sessions) >= MaxBatch
     \/ tasks = <<>>
     \/ tasks # <<>> /\ ~Batchable(Head(tasks))
  /\ pc' = "prefilling"
  /\ UNCHANGED <<queueVars, batchVars, resultVars>>

Min2(a, b) == IF a < b THEN a ELSE b

\* Mutation: ready is set one row too late.
AdvancedPrefillLate(s) ==
  LET rows == PrefillRows(s.task)
      done == s.barrier + 1 = Barriers
      next == IF done THEN s.offset + Min2(ChunkRows, rows - s.offset)
              ELSE s.offset
  IN  [s EXCEPT !.barrier = IF done THEN 0 ELSE @ + 1,
                !.offset = next,
                !.ready = next > rows]

\* advance_pending_prefill: run the chunk to its next evaluation barrier; the
\* last barrier of a chunk moves the offset, the last chunk makes it ready.
AdvancedPrefill(s) ==
  LET rows == PrefillRows(s.task)
      done == s.barrier + 1 = Barriers
      next == IF done THEN s.offset + Min2(ChunkRows, rows - s.offset)
              ELSE s.offset
  IN  [s EXCEPT !.barrier = IF done THEN 0 ELSE @ + 1,
                !.offset = next,
                !.ready = next = rows]

\* One step for the first row that is still ingesting its prompt; a row whose
\* step throws is answered and dropped.
Prefill ==
  /\ pc = "prefilling"
  /\ \E i \in DOMAIN sessions :
       /\ ~sessions[i].ready
       /\ \A j \in 1..(i - 1) : sessions[j].ready
       /\ \/ /\ sessions' = [sessions EXCEPT ![i] = AdvancedPrefill(@)]
             /\ UNCHANGED resultVars
          \/ /\ EngineFaults
             /\ sessions' = RemoveRow(sessions, i)
             /\ Settle({sessions[i].task}, "error")
  /\ pc' = LoopHead(sessions')
  /\ UNCHANGED <<queueVars, batch, slot, live, deferred>>

SkipPrefill ==
  /\ pc = "prefilling"
  /\ \A i \in DOMAIN sessions : sessions[i].ready
  /\ pc' = LoopHead(sessions)
  /\ UNCHANGED <<queueVars, batchVars, resultVars>>

\* The requests left over run one by one on the serial path.
RunDeferred ==
  /\ pc = "serial"
  /\ deferred # <<>>
  /\ \/ request[Head(deferred)].valid /\ Settle({Head(deferred)}, "value")
     \/ EngineFaults /\ Settle({Head(deferred)}, "error")
  /\ deferred' = Tail(deferred)
  /\ UNCHANGED <<queueVars, pc, batch, slot, sessions, live>>

\* complete_batch returns.
EndBatch ==
  /\ pc = "serial"
  /\ deferred = <<>>
  /\ batch' = <<>>
  /\ pc' = "waiting"
  /\ UNCHANGED <<queueVars, slot, sessions, live, deferred, resultVars>>

-----------------------------------------------------------------------------

Init ==
  /\ request = [t \in Tasks |-> NoRequest]
  /\ accepted = <<>>
  /\ tasks = <<>>
  /\ stopping = FALSE
  /\ pc = "starting"
  /\ batch = <<>>
  /\ slot = 1
  /\ sessions = <<>>
  /\ live = 0
  /\ deferred = <<>>
  /\ resolved = [t \in Tasks |-> FALSE]
  /\ outcome = [t \in Tasks |-> <<>>]

Worker ==
  \/ StartEngine \/ Exit \/ TakeFirst \/ Coalesce \/ EndCoalescing
  \/ RunClear \/ RunSingle
  \/ RejectBatch \/ SerializeBatch \/ AdmitBatch \/ InitializeSlot \/ StartLoop
  \/ Decode \/ FinishSlot \/ FailBatch \/ EndFinishing \/ EraseRow \/ EndErasing
  \/ RefillFails \/ RefillDefers \/ RefillJoins \/ EndRefilling
  \/ Prefill \/ SkipPrefill \/ RunDeferred \/ EndBatch

\* A destroyed or never constructed executor takes no further step.
Terminated == pc \in {"exited", "failed"} /\ UNCHANGED vars

Next ==
  \/ \E t \in Tasks, r \in Requests : Enqueue(t, r)
  \/ Stop
  \/ Worker
  \/ Terminated

Spec == Init /\ [][Next]_vars

-----------------------------------------------------------------------------
(* Clients that call again and again, for the question whether the queue   *)
(* can starve: future.get() returned, so the identity is free for a new    *)
(* call.  Returning commutes with everything else, so it comes at once.    *)

Returned(t) == outcome[t] # <<>> /\ t \notin SessionTasks

Return(t) ==
  /\ Returned(t)
  /\ request' = [request EXCEPT ![t] = NoRequest]
  /\ accepted' = SelectSeq(accepted, LAMBDA u : u # t)
  /\ resolved' = [resolved EXCEPT ![t] = FALSE]
  /\ outcome' = [outcome EXCEPT ![t] = <<>>]
  /\ UNCHANGED <<tasks, stopping, pc, batchVars>>

SomeReturn == \E t \in Tasks : Return(t)
NoneReturned == \A t \in Tasks : ~Returned(t)

\* The worker thread keeps running: its waits have deadlines and the calls it
\* makes return.  Nothing obliges a client to call or the owner to stop.
RecurringSpec ==
  /\ Init
  /\ [][SomeReturn \/ (NoneReturned /\ Next)]_vars
  /\ WF_vars(NoneReturned /\ Worker)
  /\ WF_vars(SomeReturn)

-----------------------------------------------------------------------------
(* Properties.                                                             *)

TypeOK ==
  /\ request \in [Tasks -> Requests \cup {NoRequest}]
  /\ accepted \in Seq(Tasks)
  /\ tasks \in Seq(Tasks)
  /\ stopping \in BOOLEAN
  /\ pc \in Pcs
  /\ batch \in Seq(Tasks)
  /\ slot \in Nat
  /\ sessions \in Seq(SessionType)
  /\ live \in Nat
  /\ deferred \in Seq(Tasks)
  /\ resolved \in [Tasks -> BOOLEAN]
  /\ outcome \in [Tasks -> Seq({"value", "error"})]

\* No promise is satisfied twice, however completion, a later exception of
\* the same pass and the executor's own handler interleave: a second
\* set_value or set_exception would throw std::future_error on the worker.
AnsweredAtMostOnce == \A t \in Tasks : Len(outcome[t]) <= 1

\* The tasks of batch that complete_batch has not yet turned into sessions,
\* deferred requests or answers.
BatchPending ==
  IF pc \in {"coalescing", "clearing", "single", "validating"}
  THEN SeqRange(batch)
  ELSE IF pc = "initializing" THEN {batch[i] : i \in slot..Len(batch)}
  ELSE {}

Unanswered == {t \in SeqRange(accepted) : outcome[t] = <<>>}

\* A call whose thread is blocked in future.get() is still somewhere the
\* worker will find it: in the queue, in the batch being formed, in a live
\* row or among the deferred.  No early return drops it.
NoTaskLost ==
  Unanswered \subseteq
    SeqRange(tasks) \cup BatchPending \cup SessionTasks \cup SeqRange(deferred)

\* The live rows never reserve more context than the admission limit, and
\* there are never more of them than slots, whatever mix of completions,
\* failures and refills led there.
BatchWithinLimits ==
  /\ Aggregate([i \in DOMAIN sessions |-> sessions[i].task]) <= AggregateLimit
  /\ Len(sessions) <= MaxBatch

\* The executor implements the service its callers see: one answer per
\* accepted call, and clear_cache a barrier between the calls before it and
\* the calls after it, although batches are refilled from the same queue.
Service == INSTANCE TaskService WITH
  kind <- [t \in Tasks |-> IF request[t] = NoRequest THEN "none"
                           ELSE IF t \in SeqRange(accepted)
                           THEN request[t].kind ELSE "rejected"],
  order <- accepted

ServiceSpec == Service!Spec

\* stop() drains the queue and joins: the worker always reaches its exit.
StopTerminates == stopping ~> pc = "exited"

\* Eventually nobody calls any more; eventually no refill fails.
CallsCease == <>[][\A t \in Tasks, r \in Requests : ~Enqueue(t, r)]_vars
FailingRefillsCease == <>[][~RefillFails]_vars

\* Once no more calls come, every accepted call is answered, through
\* batching, deferral, engine faults and shutdown.
EveryCallAnswered ==
  CallsCease => \A t \in Tasks : t \in SeqRange(accepted) ~> outcome[t] # <<>>

\* Even when every answered client calls again at once, an accepted call is
\* answered or at least reaches the deferred list.  Two things can make a
\* call wait for ever: as a deferred call it is overtaken by refills, and as
\* a row it stands still while requests that fail at once keep coming.
OnlyDeferredCallsWait ==
  FailingRefillsCease =>
    \A t \in Tasks :
      t \in SeqRange(accepted) ~> (outcome[t] # <<>> \/ t \in SeqRange(deferred))

=============================================================================
