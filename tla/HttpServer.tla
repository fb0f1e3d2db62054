----------------------------- MODULE HttpServer -----------------------------
(***************************************************************************)
(* HttpServer (src/http_server.cpp) and the part of main.cpp that owns it: *)
(* the accept loop run(), the bounded queue of accepted sockets, the pool  *)
(* of worker threads on a condition variable, stop() called from signal    *)
(* handlers on any thread, and the three ways run() ends: the loop sees    *)
(* stopping_, accept fails, or a worker thread cannot be created.          *)
(*                                                                         *)
(* stop() is not atomic: it stores stopping_, exchanges listen_fd_, shuts  *)
(* the descriptor down and closes it, while run() keeps its own copy of    *)
(* the number.  descriptor says what that number denotes in the process:   *)
(* once it is closed another thread may open a file and be given it.       *)
(***************************************************************************)
EXTENDS Naturals, Sequences, FiniteSets

CONSTANTS
  Clients,         \* connections
  Workers,         \* config_.worker_threads threads
  Signals,         \* deliveries of SIGINT or SIGTERM
  MaxPending,      \* config_.max_pending_connections
  SystemFaults     \* may socket, accept and thread creation fail?

ASSUME HttpServerAssumption ==
  /\ MaxPending \in Nat \ {0}
  /\ Workers # {}
  /\ SystemFaults \in BOOLEAN

NoThread == "none"
ASSUME NoThreadAssumption == NoThread \notin Workers

VARIABLES
  pc,          \* where the thread in run() is
  stopping,    \* stopping_
  published,   \* listen_fd_ >= 0
  descriptor,  \* what the number socket_fd holds denotes
  owned,       \* socket_fd still holds it
  threw,       \* run() leaves by an exception
  active,      \* active_server # nullptr
  handler,     \* progress of each signal handler through stop()
  lock,        \* holder of queue_mutex_
  pending_clients,  \* the queue of accepted clients
  worker,      \* state of each worker thread
  serving,     \* the client a worker holds
  client,      \* what became of each connection
  current,     \* the client between accept and the queue
  misclosed    \* history: a close() hit a descriptor of someone else

vars == <<pc, stopping, published, descriptor, owned, threw, active, handler,
          lock, pending_clients, worker, serving, client, current, misclosed>>

mainVars   == <<pc, owned, threw, active, current>>
socketVars == <<published, descriptor, misclosed>>
queueVars  == <<lock, pending_clients>>
workerVars == <<worker, serving>>

NoClient == "none"
ASSUME NoClientAssumption == NoClient \notin Clients

MainPcs == {"installed", "listening", "publishing", "spawning", "checking",
            "accepting", "accepted", "notifying", "refusing", "leaving",
            "failing", "unpublishing", "closing", "draining", "waking",
            "joining", "returned", "destroyed"}

-----------------------------------------------------------------------------
(* The kernel's side of a descriptor, and stop().                          *)

\* close(): frees the number, whatever it denotes by now.
CloseDescriptor ==
  /\ descriptor' = "free"
  /\ misclosed' = (misclosed \/ descriptor = "other")

\* Another thread of the process opens or closes a file.  While the number
\* is free the new file may be given it.
OpenOther ==
  /\ descriptor = "free"
  /\ descriptor' = "other"
  /\ UNCHANGED <<mainVars, stopping, published, misclosed, handler, queueVars,
                 workerVars, client>>

CloseOther ==
  /\ descriptor = "other"
  /\ descriptor' = "free"
  /\ UNCHANGED <<mainVars, stopping, published, misclosed, handler, queueVars,
                 workerVars, client>>

\* handle_signal reads active_server and enters stop().
Raise(s) ==
  /\ handler[s] = "idle"
  /\ active
  /\ stopping' = TRUE
  /\ handler' = [handler EXCEPT ![s] = "stored"]
  /\ UNCHANGED <<mainVars, socketVars, queueVars, workerVars, client>>

\* Mutation: listen_fd_ is read, not exchanged.
ExchangeLoads(s) ==
  /\ handler[s] = "stored"
  /\ handler' = [handler EXCEPT ![s] = IF published THEN "taken" ELSE "done"]
  /\ UNCHANGED <<mainVars, stopping, socketVars, queueVars, workerVars, client>>

\* listen_fd_.exchange(-1): only one stop() obtains the descriptor.
Exchange(s) ==
  /\ handler[s] = "stored"
  /\ handler' = [handler EXCEPT ![s] = IF published THEN "taken" ELSE "done"]
  /\ published' = FALSE
  /\ UNCHANGED <<mainVars, stopping, descriptor, misclosed, queueVars,
                 workerVars, client>>

\* Mutation: stop() takes the descriptor and leaves it open.
StopForgetsListener(s) ==
  /\ handler[s] = "taken"
  /\ handler' = [handler EXCEPT ![s] = "done"]
  /\ UNCHANGED <<mainVars, stopping, socketVars, queueVars, workerVars, client>>

Shutdown(s) ==
  /\ handler[s] = "taken"
  /\ handler' = [handler EXCEPT ![s] = "shut"]
  /\ descriptor' = IF descriptor = "listener" THEN "shut" ELSE descriptor
  /\ UNCHANGED <<mainVars, stopping, published, misclosed, queueVars,
                 workerVars, client>>

Close(s) ==
  /\ handler[s] = "shut"
  /\ handler' = [handler EXCEPT ![s] = "done"]
  /\ CloseDescriptor
  /\ UNCHANGED <<mainVars, stopping, published, queueVars, workerVars, client>>

Handler(s) == Exchange(s) \/ Shutdown(s) \/ Close(s)

-----------------------------------------------------------------------------
(* run() up to the accept loop.                                            *)

\* socket, bind, listen; any failure throws before anything is shared.
Listen ==
  /\ pc = "installed"
  /\ \/ /\ descriptor' = "listener"
        /\ owned' = TRUE
        /\ pc' = "listening"
        /\ UNCHANGED threw
     \/ /\ SystemFaults
        /\ threw' = TRUE
        /\ pc' = "returned"
        /\ UNCHANGED <<descriptor, owned>>
  /\ UNCHANGED <<stopping, published, active, current, misclosed, handler,
                 queueVars, workerVars, client>>

\* stopping_.store(false): run() forgets any stop() that came before.
ResetStopping ==
  /\ pc = "listening"
  /\ stopping' = FALSE
  /\ pc' = "publishing"
  /\ UNCHANGED <<owned, threw, active, current, socketVars, handler, queueVars,
                 workerVars, client>>

Publish ==
  /\ pc = "publishing"
  /\ published' = TRUE
  /\ pc' = "spawning"
  /\ UNCHANGED <<stopping, owned, threw, active, current, descriptor, misclosed,
                 handler, queueVars, workerVars, client>>

StartWorker(w) ==
  /\ pc = "spawning"
  /\ worker[w] = "none"
  /\ worker' = [worker EXCEPT ![w] = "ready"]
  /\ UNCHANGED <<mainVars, stopping, socketVars, handler, queueVars, serving,
                 client>>

\* Every worker runs: enter the loop.
Started ==
  /\ pc = "spawning"
  /\ \A w \in Workers : worker[w] # "none"
  /\ pc' = "checking"
  /\ UNCHANGED <<stopping, owned, threw, active, current, socketVars, handler,
                 queueVars, workerVars, client>>

\* A thread could not be created: start_workers calls stop() on itself (its
\* stores modelled as one step with the close of the descriptor it obtains)
\* and the handler in run() releases socket_fd without closing it.
StartFails ==
  /\ pc = "spawning"
  /\ SystemFaults
  /\ \E w \in Workers : worker[w] = "none"
  /\ stopping' = TRUE
  /\ published' = FALSE
  /\ IF published THEN CloseDescriptor ELSE UNCHANGED <<descriptor, misclosed>>
  /\ owned' = FALSE
  /\ threw' = TRUE
  /\ pc' = "draining"
  /\ UNCHANGED <<active, current, handler, queueVars, workerVars, client>>

-----------------------------------------------------------------------------
(* The accept loop.                                                        *)

CheckStopping ==
  /\ pc = "checking"
  /\ pc' = IF stopping THEN "leaving" ELSE "accepting"
  /\ UNCHANGED <<stopping, owned, threw, active, current, socketVars, handler,
                 queueVars, workerVars, client>>

Accept(c) ==
  /\ pc = "accepting"
  /\ descriptor = "listener"
  /\ client[c] = "backlog"
  /\ client' = [client EXCEPT ![c] = "accepted"]
  /\ current' = c
  /\ pc' = "accepted"
  /\ UNCHANGED <<stopping, owned, threw, active, socketVars, handler, queueVars,
                 workerVars>>

FailedAccept ==
  /\ pc = "accepting"
  /\ UNCHANGED <<stopping, owned, threw, active, current, socketVars, handler,
                 queueVars, workerVars, client>>

\* A stop() shut the descriptor down or closed it (EINVAL, EBADF): leave if
\* stopping_ is set, else the error path.  If the number was given to a file
\* meanwhile, a call of accept that starts now fails by ENOTSOCK.
AcceptEnds ==
  /\ FailedAccept
  /\ \/ /\ descriptor \in {"shut", "free", "other"}
        /\ pc' = IF stopping THEN "leaving" ELSE "failing"
     \/ /\ descriptor = "other"
        /\ pc' = "failing"

\* EINTR, check again: the thread blocked in accept was the one that ran a
\* signal's handler.
AcceptInterrupted ==
  /\ FailedAccept
  /\ \E s \in Signals : handler[s] = "done"
  /\ pc' = "checking"

\* Any other error, such as no free descriptor: the error path.
AcceptFaults ==
  /\ FailedAccept
  /\ SystemFaults
  /\ pc' = "failing"

\* What may end a call of accept without obliging it to return.
AcceptDisturbed == AcceptInterrupted \/ AcceptFaults

\* Under the mutex: a free place in pending_clients_.
Enqueue ==
  /\ pc = "accepted"
  /\ lock = NoThread
  /\ Len(pending_clients) < MaxPending
  /\ pending_clients' = Append(pending_clients, current)
  /\ client' = [client EXCEPT ![current] = "queued"]
  /\ current' = NoClient
  /\ pc' = "notifying"
  /\ UNCHANGED <<stopping, owned, threw, active, socketVars, handler, lock,
                 workerVars>>

QueueFull ==
  /\ pc = "accepted"
  /\ lock = NoThread
  /\ Len(pending_clients) >= MaxPending
  /\ pc' = "refusing"
  /\ UNCHANGED <<stopping, owned, threw, active, current, socketVars, handler,
                 queueVars, workerVars, client>>

\* 503 server_busy, written by the accept thread itself, and close.  The write
\* is taken to return.  That it could wait for the client's buffer or raise
\* SIGPIPE is not modelled: this thread sets neither the time limit nor the
\* SO_NOSIGPIPE that handle_client does.
Refuse ==
  /\ pc = "refusing"
  /\ client' = [client EXCEPT ![current] = "busy"]
  /\ current' = NoClient
  /\ pc' = "checking"
  /\ UNCHANGED <<stopping, owned, threw, active, socketVars, handler, queueVars,
                 workerVars>>

Asleep == {w \in Workers : worker[w] = "asleep"}

\* Mutation: the new client is queued without a notification.
NotifyNobody ==
  /\ pc = "notifying"
  /\ pc' = "checking"
  /\ UNCHANGED <<stopping, owned, threw, active, current, socketVars, handler,
                 queueVars, workerVars, client>>

\* notify_one wakes one sleeping worker, if there is one.
NotifyOne ==
  /\ pc = "notifying"
  /\ \/ /\ Asleep = {}
        /\ UNCHANGED worker
     \/ \E w \in Asleep : worker' = [worker EXCEPT ![w] = "ready"]
  /\ pc' = "checking"
  /\ UNCHANGED <<stopping, owned, threw, active, current, socketVars, handler,
                 queueVars, serving, client>>

-----------------------------------------------------------------------------
(* The ways out of run().                                                  *)

\* The loop saw stopping_: unpublish and release, leaving the close to the
\* stop() that holds the descriptor.
Leave ==
  /\ pc = "leaving"
  /\ published' = FALSE
  /\ owned' = FALSE
  /\ pc' = "draining"
  /\ UNCHANGED <<stopping, threw, active, current, descriptor, misclosed,
                 handler, queueVars, workerVars, client>>

\* accept failed: three separate stores, then the exception.
Fail ==
  /\ pc = "failing"
  /\ stopping' = TRUE
  /\ threw' = TRUE
  /\ pc' = "unpublishing"
  /\ UNCHANGED <<owned, active, current, socketVars, handler, queueVars,
                 workerVars, client>>

Unpublish ==
  /\ pc = "unpublishing"
  /\ published' = FALSE
  /\ pc' = "closing"
  /\ UNCHANGED <<stopping, owned, threw, active, current, descriptor, misclosed,
                 handler, queueVars, workerVars, client>>

\* socket_fd.reset()
CloseListener ==
  /\ pc = "closing"
  /\ CloseDescriptor
  /\ owned' = FALSE
  /\ pc' = "draining"
  /\ UNCHANGED <<stopping, published, threw, active, current, handler,
                 queueVars, workerVars, client>>

\* Mutation: the queued sockets are forgotten, not closed.
ForgetsQueued ==
  /\ pc = "draining"
  /\ lock = NoThread
  /\ pending_clients' = <<>>
  /\ pc' = "waking"
  /\ UNCHANGED <<stopping, owned, threw, active, current, socketVars, handler,
                 lock, workerVars, client>>

\* stop_workers, under the mutex: shut down and close every queued client.
CloseQueued ==
  /\ pc = "draining"
  /\ lock = NoThread
  /\ client' = [c \in Clients |->
                  IF \E i \in DOMAIN pending_clients : pending_clients[i] = c
                  THEN "dropped" ELSE client[c]]
  /\ pending_clients' = <<>>
  /\ pc' = "waking"
  /\ UNCHANGED <<stopping, owned, threw, active, current, socketVars, handler,
                 lock, workerVars>>

NotifyAll ==
  /\ pc = "waking"
  /\ worker' = [w \in Workers |-> IF w \in Asleep THEN "ready" ELSE worker[w]]
  /\ pc' = "joining"
  /\ UNCHANGED <<stopping, owned, threw, active, current, socketVars, handler,
                 queueVars, serving, client>>

\* join_workers
Join ==
  /\ pc = "joining"
  /\ \A w \in Workers : worker[w] \in {"none", "exited"}
  /\ pc' = "returned"
  /\ UNCHANGED <<stopping, owned, threw, active, current, socketVars, handler,
                 queueVars, workerVars, client>>

\* main clears active_server unless run() threw, and the server is destroyed:
\* its destructor's stop() finds nothing left to close or join.
Destroy ==
  /\ pc = "returned"
  /\ active' = threw
  /\ stopping' = TRUE
  /\ published' = FALSE
  /\ pc' = "destroyed"
  /\ UNCHANGED <<owned, threw, current, descriptor, misclosed, handler,
                 queueVars, workerVars, client>>

-----------------------------------------------------------------------------
(* Worker threads.                                                         *)

\* The wait's predicate holds and there is a client.
Take(w) ==
  /\ worker[w] = "ready"
  /\ lock = NoThread
  /\ pending_clients # <<>>
  /\ serving' = [serving EXCEPT ![w] = Head(pending_clients)]
  /\ client' = [client EXCEPT ![Head(pending_clients)] = "handling"]
  /\ pending_clients' = Tail(pending_clients)
  /\ worker' = [worker EXCEPT ![w] = "handling"]
  /\ UNCHANGED <<mainVars, stopping, socketVars, handler, lock>>

WorkerExits(w) ==
  /\ worker[w] = "ready"
  /\ lock = NoThread
  /\ pending_clients = <<>> /\ stopping
  /\ worker' = [worker EXCEPT ![w] = "exited"]
  /\ UNCHANGED <<mainVars, stopping, socketVars, handler, queueVars, serving,
                 client>>

\* The predicate is false; the mutex is still held.
Test(w) ==
  /\ worker[w] = "ready"
  /\ lock = NoThread
  /\ pending_clients = <<>> /\ ~stopping
  /\ lock' = w
  /\ worker' = [worker EXCEPT ![w] = "tested"]
  /\ UNCHANGED <<mainVars, stopping, socketVars, handler, pending_clients, serving,
                 client>>

\* The wait releases the mutex and blocks, atomically.
Sleep(w) ==
  /\ worker[w] = "tested"
  /\ lock' = NoThread
  /\ worker' = [worker EXCEPT ![w] = "asleep"]
  /\ UNCHANGED <<mainVars, stopping, socketVars, handler, pending_clients, serving,
                 client>>

\* A condition variable may wake without a notification.
WakeSpuriously(w) ==
  /\ worker[w] = "asleep"
  /\ worker' = [worker EXCEPT ![w] = "ready"]
  /\ UNCHANGED <<mainVars, stopping, socketVars, handler, queueVars, serving,
                 client>>

\* handle_client returns, by a response, an error response, a timeout or an
\* exception, and the FileDescriptor closes the socket.
Handle(w) ==
  /\ worker[w] = "handling"
  /\ client' = [client EXCEPT ![serving[w]] = "served"]
  /\ serving' = [serving EXCEPT ![w] = NoClient]
  /\ worker' = [worker EXCEPT ![w] = "ready"]
  /\ UNCHANGED <<mainVars, stopping, socketVars, handler, queueVars>>

Work(w) == Take(w) \/ WorkerExits(w) \/ Test(w) \/ Sleep(w) \/ Handle(w)

-----------------------------------------------------------------------------

Connect(c) ==
  /\ client[c] = "none"
  /\ descriptor = "listener"
  /\ client' = [client EXCEPT ![c] = "backlog"]
  /\ UNCHANGED <<mainVars, stopping, socketVars, handler, queueVars, workerVars>>

Init ==
  /\ pc = "installed"
  /\ stopping = FALSE
  /\ published = FALSE
  /\ descriptor = "none"
  /\ owned = FALSE
  /\ threw = FALSE
  /\ active = TRUE
  /\ handler = [s \in Signals |-> "idle"]
  /\ lock = NoThread
  /\ pending_clients = <<>>
  /\ worker = [w \in Workers |-> "none"]
  /\ serving = [w \in Workers |-> NoClient]
  /\ client = [c \in Clients |-> "none"]
  /\ current = NoClient
  /\ misclosed = FALSE

Main ==
  \/ Listen \/ ResetStopping \/ Publish
  \/ (\E w \in Workers : StartWorker(w)) \/ Started \/ StartFails
  \/ CheckStopping \/ (\E c \in Clients : Accept(c)) \/ AcceptEnds
  \/ Enqueue \/ QueueFull \/ Refuse \/ NotifyOne
  \/ Leave \/ Fail \/ Unpublish \/ CloseListener
  \/ CloseQueued \/ NotifyAll \/ Join \/ Destroy

\* Nothing more happens once the server is gone.
Terminated == pc = "destroyed" /\ UNCHANGED vars

Next ==
  \/ Main \/ AcceptDisturbed
  \/ \E w \in Workers : Work(w) \/ WakeSpuriously(w)
  \/ \E s \in Signals : Raise(s) \/ Handler(s)
  \/ \E c \in Clients : Connect(c)
  \/ OpenOther \/ CloseOther
  \/ Terminated

Spec == Init /\ [][Next]_vars

\* Threads keep running, a handler that started finishes, and handle_client
\* returns: reads and writes time out after 30 s and the executor answers
\* every call.  Nobody has to connect or to raise a signal, and an accept that
\* is blocked returns only for a client or once a stop() took its descriptor:
\* AcceptDisturbed is no part of Main.
FairSpec ==
  /\ Spec
  /\ WF_vars(Main)
  /\ \A w \in Workers : WF_vars(Work(w))
  /\ \A s \in Signals : WF_vars(Handler(s))

-----------------------------------------------------------------------------
(* Properties.                                                             *)

TypeOK ==
  /\ pc \in MainPcs
  /\ descriptor \in {"none", "listener", "shut", "free", "other"}
  /\ {stopping, published, owned, threw, active, misclosed} \subseteq BOOLEAN
  /\ handler \in [Signals -> {"idle", "stored", "taken", "shut", "done"}]
  /\ lock \in Workers \cup {NoThread}
  /\ pending_clients \in Seq(Clients) /\ Len(pending_clients) <= MaxPending
  /\ worker \in [Workers -> {"none", "ready", "tested", "asleep", "handling",
                             "exited"}]
  /\ serving \in [Workers -> Clients \cup {NoClient}]
  /\ client \in [Clients -> {"none", "backlog", "accepted", "queued", "handling",
                             "served", "busy", "dropped"}]
  /\ current \in Clients \cup {NoClient}

\* A connection is in one place: no two threads hold the same socket, which
\* each of them would close, and an open one is never out of everyone's sight.
OneHolder ==
  \A c \in Clients :
    LET inQueue   == {i \in DOMAIN pending_clients : pending_clients[i] = c}
        inWorkers == {w \in Workers : serving[w] = c}
    IN  Cardinality(inQueue) + Cardinality(inWorkers)
          + (IF current = c THEN 1 ELSE 0)
        = IF client[c] \in {"accepted", "queued", "handling"} THEN 1 ELSE 0

\* When the server object dies, by whichever way run() ended, no worker is
\* left that would use it and no accepted socket is left open.
CleanDeath ==
  pc = "destroyed" =>
    /\ \A w \in Workers : worker[w] \in {"none", "exited"}
    /\ \A c \in Clients : client[c] \notin {"accepted", "queued", "handling"}

\* However signals overlap each other and the loop, the listening descriptor
\* is closed once; only the error path of run(), which closes its own copy
\* of the number, can hit a descriptor that was since given to someone else.
OnlyErrorPathMiscloses == misclosed => threw

\* A queued client is served, or told by a closed connection, whatever the
\* workers were doing when it was queued: no wake-up is lost.
QueuedIsSettled ==
  \A c \in Clients : client[c] = "queued" ~> client[c] \in {"served", "dropped"}

\* A stop() that run() can see ends it: blocked accept, sleeping and busy
\* workers notwithstanding, every thread is joined and the server destroyed.
StopEndsRun ==
  (stopping /\ pc \notin {"installed", "listening"}) ~> pc = "destroyed"

\* docs/operations.md:106 "Use SIGINT or SIGTERM for shutdown.": once the
\* handler of a signal has run, the server ends.
SignalShutsDown ==
  \A s \in Signals : handler[s] = "done" ~> pc = "destroyed"

\* What every moment of the server's life must satisfy: a socket has one
\* holder (worker_loop, run), and none survives the server.
SocketsHeldOnce == TypeOK /\ OneHolder /\ CleanDeath

=============================================================================
