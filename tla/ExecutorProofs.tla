--------------------------- MODULE ExecutorProofs ---------------------------
(***************************************************************************)
(* Theorems about Executor, for every set of calls and requests, every     *)
(* batch width, admission limit and chunk geometry.                        *)
(***************************************************************************)
EXTENDS Executor, Sums, SequenceTheorems, TLAPS

(***************************************************************************)
(* The inductive invariant.  AnsweredAtMostOnce is not inductive: that a   *)
(* task answered without its flag is never answered again depends on who   *)
(* may still reach it.                                                     *)
(***************************************************************************)

\* A queued call was made, is unanswered, and is queued once.
QueueFresh ==
  /\ \A i \in DOMAIN tasks :
        request[tasks[i]] # NoRequest /\ outcome[tasks[i]] = <<>>
  /\ \A i, j \in DOMAIN tasks : tasks[i] = tasks[j] => i = j

\* A queued call is in no other place.
QueueApart ==
  \A i \in DOMAIN tasks :
    /\ \A j \in DOMAIN batch : batch[j] # tasks[i]
    /\ \A j \in DOMAIN sessions : sessions[j].task # tasks[i]
    /\ \A j \in DOMAIN deferred : deferred[j] # tasks[i]

\* What the worker may still answer through resolved was made, and if it has
\* an answer already, resolved says so.
Guarded(t) ==
  request[t] # NoRequest /\ (outcome[t] # <<>> => resolved[t])

HeldGuarded ==
  /\ \A i \in DOMAIN batch : Guarded(batch[i])
  /\ \A i \in DOMAIN sessions : Guarded(sessions[i].task)
  /\ \A i \in DOMAIN deferred : Guarded(deferred[i])

\* Calls not made yet have no answer.
IdleUnanswered == \A t \in Tasks : request[t] = NoRequest => outcome[t] = <<>>

\* A batch being formed is not empty, and its calls are unanswered.
FormingFresh ==
  pc \in {"coalescing", "clearing", "single"} =>
    batch # <<>> /\ \A i \in DOMAIN batch : outcome[batch[i]] = <<>>

\* Rows and deferred requests exist only inside complete_batch.
IdleEmpty ==
  /\ pc \in {"starting", "failed", "waiting", "coalescing", "clearing",
             "single", "validating", "exited"} => deferred = <<>>
  /\ pc \in {"starting", "failed", "waiting", "coalescing", "clearing",
             "single", "validating", "exited", "serial"} => sessions = <<>>

\* Only generations are batched, and only validated ones become rows: their
\* prompt is not empty, so a row's prefill never runs backwards.
RowsValid ==
  /\ pc \in {"coalescing", "validating", "initializing"} =>
       \A i \in DOMAIN batch : request[batch[i]].kind = "generate"
  /\ pc = "initializing" =>
       \A i \in DOMAIN batch : request[batch[i]].prompt > 0
  /\ pc \in {"initializing", "finishing"} => slot > 0
  /\ \A i \in DOMAIN sessions : request[sessions[i].task].prompt > 0

IInv ==
  /\ TypeOK
  /\ AnsweredAtMostOnce
  /\ QueueFresh
  /\ QueueApart
  /\ HeldGuarded
  /\ IdleUnanswered
  /\ FormingFresh
  /\ IdleEmpty
  /\ RowsValid

-----------------------------------------------------------------------------
(* Sequences.                                                              *)

LEMMA SeqElement ==
  ASSUME NEW S, NEW s \in Seq(S)
  PROVE  \A i \in DOMAIN s : s[i] \in S
  BY ElementOfSeq, LenProperties

LEMMA TailFacts ==
  ASSUME NEW S, NEW s \in Seq(S), s # <<>>
  PROVE  /\ Tail(s) \in Seq(S)
         /\ Head(s) \in S
         /\ Len(Tail(s)) = Len(s) - 1
         /\ 1 \in DOMAIN s
         /\ Head(s) = s[1]
         /\ \A i \in DOMAIN Tail(s) : i + 1 \in DOMAIN s /\ Tail(s)[i] = s[i + 1]
  BY HeadTailProperties, LenProperties

LEMMA AppendFacts ==
  ASSUME NEW S, NEW s \in Seq(S), NEW e \in S
  PROVE  /\ Append(s, e) \in Seq(S)
         /\ Len(Append(s, e)) = Len(s) + 1
         /\ \A i \in DOMAIN Append(s, e) :
               \/ i \in DOMAIN s /\ Append(s, e)[i] = s[i]
               \/ i = Len(s) + 1 /\ Append(s, e)[i] = e
  BY AppendProperties, LenProperties

\* RemoveRow drops row i and keeps the others, in order.
LEMMA RemoveFacts ==
  ASSUME NEW S, NEW s \in Seq(S), NEW i \in DOMAIN s
  PROVE  /\ RemoveRow(s, i) \in Seq(S)
         /\ Len(RemoveRow(s, i)) = Len(s) - 1
         /\ \A k \in DOMAIN RemoveRow(s, i) :
               \E j \in DOMAIN s : RemoveRow(s, i)[k] = s[j]
<1> DEFINE a == SubSeq(s, 1, i - 1)
           b == SubSeq(s, i + 1, Len(s))
<1>1. i \in 1..Len(s) /\ Len(s) \in Nat
  BY LenProperties
<1>2. a \in Seq(S) /\ Len(a) = i - 1 /\ \A k \in 1..(i - 1) : a[k] = s[k]
  BY <1>1, SubSeqProperties
<1>3. /\ b \in Seq(S) /\ Len(b) = Len(s) - i
      /\ \A k \in 1..(Len(s) - i) : b[k] = s[i + k]
  BY <1>1, SubSeqProperties
<1> HIDE DEF a, b
<1>4. /\ a \o b \in Seq(S)
      /\ Len(a \o b) = Len(a) + Len(b)
      /\ \A k \in 1..(Len(a) + Len(b)) :
            (a \o b)[k] = IF k <= Len(a) THEN a[k] ELSE b[k - Len(a)]
  BY <1>2, <1>3, ConcatProperties
<1>5. \A k \in 1..(Len(s) - 1) : \E j \in 1..Len(s) : (a \o b)[k] = s[j]
  <2> TAKE k \in 1..(Len(s) - 1)
  <2>1. CASE k <= i - 1
    <3>1. (a \o b)[k] = a[k]
      BY <1>1, <1>2, <1>3, <1>4, <2>1
    <3>2. a[k] = s[k]
      BY <1>1, <1>2, <2>1
    <3> QED BY <3>1, <3>2
  <2>2. CASE k > i - 1
    <3>0. k \in 1..(Len(a) + Len(b)) /\ ~(k <= Len(a)) /\ Len(a) = i - 1
      BY <1>1, <1>2, <1>3, <2>2
    <3>1. (a \o b)[k] = b[k - (i - 1)]
      BY <1>4, <3>0
    <3>2. b[k - (i - 1)] = s[i + (k - (i - 1))]
      <4>1. k - (i - 1) \in 1..(Len(s) - i)
        BY <1>1, <2>2
      <4> QED BY <1>3, <4>1
    <3>3. i + (k - (i - 1)) \in 1..Len(s)
      BY <1>1, <2>2
    <3>4. (a \o b)[k] = s[i + (k - (i - 1))]
      BY <3>1, <3>2
    <3> QED BY <3>3, <3>4
  <2>3. k <= i - 1 \/ k > i - 1
    BY <1>1
  <2> QED BY <2>1, <2>2, <2>3
<1>6. Len(a \o b) = Len(s) - 1
  BY <1>1, <1>2, <1>3, <1>4
<1>7. a \o b \in Seq(S)
  BY <1>4
<1>8. DOMAIN (a \o b) = 1..(Len(s) - 1) /\ DOMAIN s = 1..Len(s)
  BY <1>6, <1>7, LenProperties
<1> QED BY <1>5, <1>6, <1>7, <1>8 DEF RemoveRow, a, b

-----------------------------------------------------------------------------
(* Type correctness.                                                       *)

\* Whatever the worker or the queue holds is a call.
LEMMA HeldTasks ==
  ASSUME TypeOK
  PROVE  /\ \A i \in DOMAIN tasks : tasks[i] \in Tasks
         /\ \A i \in DOMAIN batch : batch[i] \in Tasks
         /\ \A i \in DOMAIN sessions :
               sessions[i] \in SessionType /\ sessions[i].task \in Tasks
         /\ \A i \in DOMAIN deferred : deferred[i] \in Tasks
<1>1. /\ tasks \in Seq(Tasks) /\ batch \in Seq(Tasks)
      /\ sessions \in Seq(SessionType) /\ deferred \in Seq(Tasks)
  BY DEF TypeOK
<1>2. \A i \in DOMAIN sessions : sessions[i] \in SessionType
  BY <1>1, SeqElement
<1>3. \A x \in SessionType : x.task \in Tasks
  BY DEF SessionType
<1> QED BY <1>1, <1>2, <1>3, SeqElement

LEMMA SettleType ==
  ASSUME TypeOK, NEW S, NEW v \in {"value", "error"}, Settle(S, v)
  PROVE  /\ resolved' \in [Tasks -> BOOLEAN]
         /\ outcome' \in [Tasks -> Seq({"value", "error"})]
<1>1. resolved' \in [Tasks -> BOOLEAN]
  BY Zenon DEF TypeOK, Settle
<1>2. \A t \in Tasks : Append(outcome[t], v) \in Seq({"value", "error"})
  BY AppendProperties DEF TypeOK
<1>3. outcome' \in [Tasks -> Seq({"value", "error"})]
  BY <1>2 DEF TypeOK, Settle
<1> QED BY <1>1, <1>3

LEMMA SetDirectlyType ==
  ASSUME TypeOK, NEW t \in Tasks, NEW v \in {"value", "error"}, SetDirectly(t, v)
  PROVE  /\ resolved' \in [Tasks -> BOOLEAN]
         /\ outcome' \in [Tasks -> Seq({"value", "error"})]
<1>1. Append(outcome[t], v) \in Seq({"value", "error"})
  BY AppendProperties DEF TypeOK
<1> QED BY <1>1 DEF TypeOK, SetDirectly

\* Every request that is read has the fields RequestType lists.
LEMMA RequestFields ==
  ASSUME TypeOK, NEW t \in Tasks
  PROVE  /\ request[t] \in Requests \cup {NoRequest}
         /\ request[t].prompt \in Nat
         /\ request[t].max_tokens \in Nat
         /\ Reserved(t) \in Nat
<1>1. request[t] \in Requests \cup {NoRequest}
  BY DEF TypeOK
<1>2. /\ request[t].prompt \in Nat
      /\ request[t].max_tokens \in Nat
  BY <1>1, ExecutorAssumption DEF RequestType, NoRequest
<1> QED BY <1>1, <1>2 DEF Reserved

-----------------------------------------------------------------------------
(* Answers.                                                                *)

\* A guarded answer never makes a second one.
LEMMA SettleOnce ==
  ASSUME TypeOK, AnsweredAtMostOnce, NEW S \in SUBSET Tasks,
         NEW v \in {"value", "error"}, Settle(S, v),
         \A t \in S : outcome[t] # <<>> => resolved[t]
  PROVE  /\ AnsweredAtMostOnce'
         /\ \A t \in Tasks : (outcome[t] # <<>> => resolved[t])
                              => (outcome'[t] # <<>> => resolved'[t])
         /\ \A t \in Tasks \ S : outcome'[t] = outcome[t]
<1>1. \A t \in Tasks \ S : outcome'[t] = outcome[t] /\ resolved'[t] = resolved[t]
  BY DEF TypeOK, Settle
<1>2. \A t \in S : resolved'[t]
  BY DEF TypeOK, Settle
<1>3. ASSUME NEW t \in S PROVE Len(outcome'[t]) <= 1
  <2>1. CASE resolved[t]
    BY <2>1 DEF TypeOK, Settle, AnsweredAtMostOnce
  <2>2. CASE ~resolved[t]
    <3>1. outcome[t] = <<>> /\ outcome'[t] = Append(outcome[t], v)
      BY <2>2 DEF TypeOK, Settle
    <3>2. Len(Append(<<>>, v)) = 1
      OBVIOUS
    <3> QED BY <3>1, <3>2
  <2> QED BY <2>1, <2>2
<1> QED BY <1>1, <1>2, <1>3 DEF AnsweredAtMostOnce

\* An unguarded answer to an unanswered call is its only one.
LEMMA SetDirectlyOnce ==
  ASSUME TypeOK, AnsweredAtMostOnce, NEW t \in Tasks,
         NEW v \in {"value", "error"}, SetDirectly(t, v), outcome[t] = <<>>
  PROVE  /\ AnsweredAtMostOnce'
         /\ \A u \in Tasks \ {t} : outcome'[u] = outcome[u]
<1>1. \A u \in Tasks \ {t} : outcome'[u] = outcome[u]
  BY DEF TypeOK, SetDirectly
<1>2. outcome'[t] = Append(<<>>, v)
  BY DEF TypeOK, SetDirectly
<1>3. Len(Append(<<>>, v)) = 1
  OBVIOUS
<1>4. Len(outcome'[t]) <= 1
  BY <1>2, <1>3
<1>5. \A u \in Tasks \ {t} : Len(outcome'[u]) <= 1
  BY <1>1 DEF AnsweredAtMostOnce
<1> QED BY <1>1, <1>4, <1>5 DEF AnsweredAtMostOnce

-----------------------------------------------------------------------------
(* The invariant is preserved.                                             *)

\* Steps of the worker that move pc and nothing else.
LEMMA PcStep ==
  ASSUME IInv, UNCHANGED <<queueVars, batchVars, resultVars>>,
         \/ StartEngine \/ Exit \/ EndCoalescing \/ StartLoop
         \/ EndFinishing \/ EndErasing \/ EndRefilling \/ SkipPrefill
  PROVE  IInv'
<1> USE DEF queueVars, batchVars, resultVars
<1>1. TypeOK'
  BY DEF IInv, TypeOK, StartEngine, Exit, EndCoalescing, StartLoop, LoopHead,
     EndFinishing, EndErasing, EndRefilling, SkipPrefill, Pcs
<1>2. AnsweredAtMostOnce' /\ QueueFresh' /\ QueueApart' /\ IdleUnanswered'
  BY DEF IInv, AnsweredAtMostOnce, QueueFresh, QueueApart, IdleUnanswered
<1>3. HeldGuarded'
  BY DEF IInv, HeldGuarded, Guarded
<1>4. FormingFresh'
  BY DEF IInv, FormingFresh, StartEngine, Exit, EndCoalescing, StartLoop, LoopHead,
     EndFinishing, EndErasing, EndRefilling, SkipPrefill
<1>5. IdleEmpty'
  BY DEF IInv, IdleEmpty, StartEngine, Exit, EndCoalescing, StartLoop, LoopHead,
     EndFinishing, EndErasing, EndRefilling, SkipPrefill
<1>6. RowsValid'
  BY DEF IInv, RowsValid, StartEngine, Exit, EndCoalescing, StartLoop, LoopHead,
     EndFinishing, EndErasing, EndRefilling, SkipPrefill
<1> QED BY <1>1, <1>2, <1>3, <1>4, <1>5, <1>6 DEF IInv

LEMMA EnqueueStep ==
  ASSUME IInv, NEW t \in Tasks, NEW r \in Requests, Enqueue(t, r)
  PROVE  IInv'
<1> USE DEF batchVars, resultVars
<1>1. r # NoRequest
  BY ExecutorAssumption DEF RequestType, NoRequest
<1>2. request' = [request EXCEPT ![t] = r] /\ request[t] = NoRequest
  BY DEF Enqueue
<1>3. \A u \in Tasks : request[u] # NoRequest => request'[u] = request[u]
  BY <1>2 DEF IInv, TypeOK
<1>4. request'[t] = r
  BY <1>2 DEF IInv, TypeOK
<1>5. UNCHANGED <<batch, slot, sessions, live, deferred, resolved, outcome, pc>>
  BY DEF Enqueue
<1>6. \/ tasks' = tasks /\ accepted' = accepted
      \/ tasks' = Append(tasks, t) /\ accepted' = Append(accepted, t)
  BY DEF Enqueue
<1>7. /\ \A i \in DOMAIN tasks : tasks[i] \in Tasks /\ tasks[i] # t
      /\ \A i \in DOMAIN batch : batch[i] \in Tasks /\ batch[i] # t
      /\ \A i \in DOMAIN sessions :
            sessions[i].task \in Tasks /\ sessions[i].task # t
      /\ \A i \in DOMAIN deferred : deferred[i] \in Tasks /\ deferred[i] # t
  BY <1>2, HeldTasks DEF IInv, QueueFresh, HeldGuarded, Guarded
<1>8. TypeOK'
  <2>1. Append(tasks, t) \in Seq(Tasks) /\ Append(accepted, t) \in Seq(Tasks)
    BY AppendProperties DEF IInv, TypeOK
  <2>2. request' \in [Tasks -> Requests \cup {NoRequest}]
    BY <1>2 DEF IInv, TypeOK
  <2>3. stopping' = stopping
    BY DEF Enqueue
  <2> QED BY <1>5, <1>6, <2>1, <2>2, <2>3 DEF IInv, TypeOK
<1>9. AnsweredAtMostOnce'
  BY <1>5 DEF IInv, AnsweredAtMostOnce
<1>10. /\ tasks' \in Seq(Tasks)
       /\ \A i \in DOMAIN tasks' :
            \/ i \in DOMAIN tasks /\ tasks'[i] = tasks[i]
            \/ i = Len(tasks) + 1 /\ tasks'[i] = t
       /\ \A i \in DOMAIN tasks : i # Len(tasks) + 1
  <2>1. tasks \in Seq(Tasks) /\ tasks' \in Seq(Tasks)
    BY <1>8 DEF IInv, TypeOK
  <2>2. DOMAIN tasks = 1..Len(tasks) /\ Len(tasks) \in Nat
    BY <2>1, LenProperties
  <2>3. CASE tasks' = tasks
    BY <2>1, <2>2, <2>3
  <2>4. CASE tasks' = Append(tasks, t)
    BY <2>1, <2>2, <2>4, AppendFacts
  <2> QED BY <1>6, <2>3, <2>4
<1>11. QueueFresh'
  <2>1. outcome'[t] = <<>>
    BY <1>2, <1>5 DEF IInv, IdleUnanswered
  <2>2. \A i \in DOMAIN tasks' :
          request'[tasks'[i]] # NoRequest /\ outcome'[tasks'[i]] = <<>>
    BY <1>1, <1>3, <1>4, <1>5, <1>7, <1>10, <2>1 DEF IInv, QueueFresh
  <2>3. \A i, j \in DOMAIN tasks' : tasks'[i] = tasks'[j] => i = j
    BY <1>7, <1>10 DEF IInv, QueueFresh
  <2> QED BY <2>2, <2>3 DEF QueueFresh
<1>12. QueueApart'
  BY <1>5, <1>7, <1>10 DEF IInv, QueueApart
<1>13. HeldGuarded'
  BY <1>3, <1>5, <1>7 DEF IInv, HeldGuarded, Guarded
<1>14. IdleUnanswered'
  BY <1>1, <1>2, <1>5 DEF IInv, TypeOK, IdleUnanswered
<1>15. FormingFresh' /\ IdleEmpty'
  BY <1>5 DEF IInv, FormingFresh, IdleEmpty
<1>16. RowsValid'
  <2>1. \A u \in Tasks : u # t => request'[u] = request[u]
    BY <1>2 DEF IInv, TypeOK
  <2> QED BY <1>5, <1>7, <2>1 DEF IInv, RowsValid
<1> QED BY <1>8, <1>9, <1>11, <1>12, <1>13, <1>14, <1>15, <1>16 DEF IInv

LEMMA StopStep == ASSUME IInv, Stop PROVE IInv'
<1> USE DEF Stop, batchVars, resultVars
<1>1. TypeOK'
  BY DEF IInv, TypeOK
<1>2. AnsweredAtMostOnce' /\ QueueFresh' /\ QueueApart' /\ IdleUnanswered'
  BY DEF IInv, AnsweredAtMostOnce, QueueFresh, QueueApart, IdleUnanswered
<1>3. HeldGuarded' /\ FormingFresh' /\ IdleEmpty' /\ RowsValid'
  BY DEF IInv, HeldGuarded, Guarded, FormingFresh, IdleEmpty, RowsValid
<1> QED BY <1>1, <1>2, <1>3 DEF IInv

\* Popping the queue: the head is an unanswered call found nowhere else.
LEMMA PopFacts ==
  ASSUME IInv, tasks # <<>>, tasks' = Tail(tasks)
  PROVE  /\ Head(tasks) \in Tasks
         /\ request[Head(tasks)] # NoRequest
         /\ outcome[Head(tasks)] = <<>>
         /\ tasks' \in Seq(Tasks)
         /\ \A i \in DOMAIN tasks' : i + 1 \in DOMAIN tasks
                                      /\ tasks'[i] = tasks[i + 1]
         /\ \A i \in DOMAIN tasks' : tasks'[i] # Head(tasks)
         /\ \A i, j \in DOMAIN tasks' : tasks'[i] = tasks'[j] => i = j
         /\ \A j \in DOMAIN batch : batch[j] # Head(tasks)
         /\ \A j \in DOMAIN sessions : sessions[j].task # Head(tasks)
         /\ \A j \in DOMAIN deferred : deferred[j] # Head(tasks)
<1>1. tasks \in Seq(Tasks)
  BY DEF IInv, TypeOK
<1>2. /\ Tail(tasks) \in Seq(Tasks) /\ Head(tasks) \in Tasks
      /\ 1 \in DOMAIN tasks /\ Head(tasks) = tasks[1]
      /\ \A i \in DOMAIN Tail(tasks) :
            i + 1 \in DOMAIN tasks /\ Tail(tasks)[i] = tasks[i + 1]
  BY <1>1, TailFacts
<1>3. \A i \in DOMAIN tasks' : i \in Nat /\ i > 0
  BY <1>2, LenProperties
<1>4. \A i \in DOMAIN tasks' : tasks'[i] # Head(tasks)
  BY <1>2, <1>3 DEF IInv, QueueFresh
<1>5. \A i, j \in DOMAIN tasks' : tasks'[i] = tasks'[j] => i = j
  BY <1>2, <1>3 DEF IInv, QueueFresh
<1>6. request[Head(tasks)] # NoRequest /\ outcome[Head(tasks)] = <<>>
  BY <1>2 DEF IInv, QueueFresh
<1>7. /\ \A j \in DOMAIN batch : batch[j] # Head(tasks)
      /\ \A j \in DOMAIN sessions : sessions[j].task # Head(tasks)
      /\ \A j \in DOMAIN deferred : deferred[j] # Head(tasks)
  BY <1>2 DEF IInv, QueueApart
<1> QED BY <1>2, <1>4, <1>5, <1>6, <1>7

LEMMA TakeFirstStep == ASSUME IInv, TakeFirst PROVE IInv'
<1> DEFINE t == Head(tasks)
<1>0. tasks # <<>> /\ tasks' = Tail(tasks) /\ batch' = <<t>> /\ pc = "waiting"
  BY DEF TakeFirst
<1>1. /\ t \in Tasks /\ request[t] # NoRequest /\ outcome[t] = <<>>
      /\ tasks' \in Seq(Tasks)
      /\ \A i \in DOMAIN tasks' : i + 1 \in DOMAIN tasks /\ tasks'[i] = tasks[i + 1]
      /\ \A i \in DOMAIN tasks' : tasks'[i] # t
      /\ \A i, j \in DOMAIN tasks' : tasks'[i] = tasks'[j] => i = j
  BY <1>0, PopFacts
<1> HIDE DEF t
<1>2. UNCHANGED <<request, accepted, stopping, slot, sessions, live, deferred,
                  resolved, outcome>>
  BY DEF TakeFirst, resultVars
<1>3. batch' \in Seq(Tasks) /\ batch' # <<>> /\ \A i \in DOMAIN batch' : batch'[i] = t
  BY <1>0, <1>1
<1>4. sessions = <<>> /\ deferred = <<>>
  BY <1>0 DEF IInv, IdleEmpty
<1>5. /\ pc' \in {"clearing", "single", "coalescing"}
      /\ pc' = "coalescing" => request[t].kind # "clear"
  BY DEF TakeFirst, t
<1>6. request[t].kind \in {"generate", "clear"}
  BY <1>1, ExecutorAssumption DEF IInv, TypeOK, RequestType
<1>7. TypeOK'
  BY <1>1, <1>2, <1>3, <1>5 DEF IInv, TypeOK, Pcs
<1>8. AnsweredAtMostOnce' /\ QueueFresh' /\ IdleUnanswered'
  BY <1>1, <1>2 DEF IInv, AnsweredAtMostOnce, QueueFresh, IdleUnanswered
<1>9. QueueApart'
  BY <1>1, <1>2, <1>3, <1>4 DEF QueueApart
<1>10. HeldGuarded'
  BY <1>1, <1>2, <1>3, <1>4 DEF HeldGuarded, Guarded
<1>11. FormingFresh'
  BY <1>1, <1>2, <1>3 DEF FormingFresh
<1>12. IdleEmpty'
  BY <1>2, <1>4 DEF IdleEmpty
<1>13. RowsValid'
  BY <1>2, <1>3, <1>4, <1>5, <1>6 DEF RowsValid
<1> QED BY <1>7, <1>8, <1>9, <1>10, <1>11, <1>12, <1>13 DEF IInv

LEMMA CoalesceStep == ASSUME IInv, Coalesce PROVE IInv'
<1> DEFINE t == Head(tasks)
<1>0. /\ tasks # <<>> /\ tasks' = Tail(tasks) /\ batch' = Append(batch, t)
      /\ pc = "coalescing" /\ request[t].kind = "generate"
  BY DEF Coalesce, Batchable
<1>1. /\ t \in Tasks /\ request[t] # NoRequest /\ outcome[t] = <<>>
      /\ tasks' \in Seq(Tasks)
      /\ \A i \in DOMAIN tasks' : i + 1 \in DOMAIN tasks /\ tasks'[i] = tasks[i + 1]
      /\ \A i \in DOMAIN tasks' : tasks'[i] # t
      /\ \A i, j \in DOMAIN tasks' : tasks'[i] = tasks'[j] => i = j
  BY <1>0, PopFacts
<1> HIDE DEF t
<1>2. UNCHANGED <<request, accepted, stopping, pc, slot, sessions, live, deferred,
                  resolved, outcome>>
  BY DEF Coalesce, resultVars
<1>3. /\ batch' \in Seq(Tasks) /\ batch' # <<>>
      /\ \A i \in DOMAIN batch' :
           batch'[i] = t \/ (i \in DOMAIN batch /\ batch'[i] = batch[i])
  <2>1. batch \in Seq(Tasks)
    BY DEF IInv, TypeOK
  <2> QED BY <1>0, <1>1, <2>1, AppendFacts, LenProperties
<1>4. sessions = <<>> /\ deferred = <<>>
  BY <1>0 DEF IInv, IdleEmpty
<1>7. TypeOK'
  BY <1>1, <1>2, <1>3 DEF IInv, TypeOK
<1>8. AnsweredAtMostOnce' /\ QueueFresh' /\ IdleUnanswered'
  BY <1>1, <1>2 DEF IInv, AnsweredAtMostOnce, QueueFresh, IdleUnanswered
<1>9. QueueApart'
  BY <1>1, <1>2, <1>3, <1>4 DEF IInv, QueueApart
<1>10. HeldGuarded'
  BY <1>1, <1>2, <1>3, <1>4 DEF IInv, HeldGuarded, Guarded
<1>11. FormingFresh'
  BY <1>0, <1>1, <1>2, <1>3 DEF IInv, FormingFresh
<1>12. IdleEmpty'
  BY <1>2, <1>4 DEF IdleEmpty
<1>13. RowsValid'
  BY <1>0, <1>2, <1>3, <1>4 DEF IInv, RowsValid
<1> QED BY <1>7, <1>8, <1>9, <1>10, <1>11, <1>12, <1>13 DEF IInv

\* Steps that answer one call and return to the wait.
LEMMA RunClearStep == ASSUME IInv, RunClear PROVE IInv'
<1> DEFINE t == Head(batch)
<1>0. pc = "clearing" /\ pc' = "waiting" /\ batch' = <<>>
  BY DEF RunClear
<1>1. UNCHANGED <<request, accepted, tasks, stopping, slot, sessions, live, deferred>>
  BY DEF RunClear, queueVars
<1>2. sessions = <<>> /\ deferred = <<>>
  BY <1>0 DEF IInv, IdleEmpty
<1>3. t \in Tasks /\ 1 \in DOMAIN batch /\ t = batch[1]
  BY <1>0, TailFacts DEF IInv, TypeOK, FormingFresh
<1>4. outcome[t] = <<>> /\ request[t] # NoRequest
  BY <1>0, <1>3 DEF IInv, FormingFresh, HeldGuarded, Guarded
<1>5. PICK v \in {"value", "error"} : SetDirectly(t, v)
  BY DEF RunClear
<1> HIDE DEF t
<1>6. AnsweredAtMostOnce' /\ \A u \in Tasks \ {t} : outcome'[u] = outcome[u]
  BY <1>3, <1>4, <1>5, SetDirectlyOnce DEF IInv
<1>7. TypeOK'
  <2>1. /\ resolved' \in [Tasks -> BOOLEAN]
        /\ outcome' \in [Tasks -> Seq({"value", "error"})]
    BY <1>3, <1>5, SetDirectlyType DEF IInv
  <2> QED BY <1>0, <1>1, <2>1 DEF IInv, TypeOK, Pcs
<1>8. \A i \in DOMAIN tasks : tasks[i] \in Tasks \ {t}
  BY <1>3, HeldTasks DEF IInv, QueueApart
<1>9. QueueFresh' /\ QueueApart'
  BY <1>0, <1>1, <1>2, <1>6, <1>8 DEF IInv, QueueFresh, QueueApart
<1>10. HeldGuarded'
  BY <1>0, <1>1, <1>2 DEF HeldGuarded
<1>11. IdleUnanswered'
  BY <1>1, <1>4, <1>6 DEF IInv, IdleUnanswered
<1>12. FormingFresh' /\ IdleEmpty' /\ RowsValid'
  BY <1>0, <1>1, <1>2 DEF FormingFresh, IdleEmpty, RowsValid
<1> QED BY <1>6, <1>7, <1>9, <1>10, <1>11, <1>12 DEF IInv

\* What a guarded answer to calls held by the worker does to the invariant.
LEMMA SettleHeld ==
  ASSUME IInv, NEW S \in SUBSET Tasks, NEW v \in {"value", "error"},
         Settle(S, v), UNCHANGED request,
         \A t \in S : Guarded(t),
         \A i \in DOMAIN tasks' : tasks'[i] \notin S,
         \A i \in DOMAIN tasks' : \E j \in DOMAIN tasks : tasks'[i] = tasks[j]
  PROVE  /\ AnsweredAtMostOnce'
         /\ IdleUnanswered'
         /\ \A i \in DOMAIN tasks' :
               request'[tasks'[i]] # NoRequest /\ outcome'[tasks'[i]] = <<>>
         /\ \A t \in Tasks : Guarded(t) => Guarded(t)'
         /\ resolved' \in [Tasks -> BOOLEAN]
         /\ outcome' \in [Tasks -> Seq({"value", "error"})]
<1>1. /\ AnsweredAtMostOnce'
      /\ \A t \in Tasks : (outcome[t] # <<>> => resolved[t])
                           => (outcome'[t] # <<>> => resolved'[t])
      /\ \A t \in Tasks \ S : outcome'[t] = outcome[t]
  BY SettleOnce DEF IInv, Guarded
<1>2. IdleUnanswered'
  BY <1>1 DEF IInv, IdleUnanswered, Guarded
<1>3. \A i \in DOMAIN tasks' :
        request'[tasks'[i]] # NoRequest /\ outcome'[tasks'[i]] = <<>>
  BY <1>1, HeldTasks DEF IInv, QueueFresh
<1>4. \A t \in Tasks : Guarded(t) => Guarded(t)'
  BY <1>1 DEF Guarded
<1> QED BY <1>1, <1>2, <1>3, <1>4, SettleType DEF IInv

LEMMA RunSingleStep == ASSUME IInv, RunSingle PROVE IInv'
<1> DEFINE t == Head(batch)
<1>0. pc = "single" /\ pc' = "waiting" /\ batch' = <<>>
  BY DEF RunSingle
<1>1. UNCHANGED <<request, accepted, tasks, stopping, slot, sessions, live, deferred>>
  BY DEF RunSingle, queueVars
<1>2. sessions = <<>> /\ deferred = <<>>
  BY <1>0 DEF IInv, IdleEmpty
<1>3. t \in Tasks /\ 1 \in DOMAIN batch /\ t = batch[1]
  BY <1>0, TailFacts DEF IInv, TypeOK, FormingFresh
<1>4. outcome[t] = <<>> /\ request[t] # NoRequest
  BY <1>0, <1>3 DEF IInv, FormingFresh, HeldGuarded, Guarded
<1>5. SetDirectly(t, "value") \/ Settle({t}, "error")
  BY DEF RunSingle
<1> HIDE DEF t
<1>6. \A i \in DOMAIN tasks : tasks[i] \in Tasks \ {t}
  BY <1>3, HeldTasks DEF IInv, QueueApart
<1>7. /\ AnsweredAtMostOnce' /\ \A u \in Tasks \ {t} : outcome'[u] = outcome[u]
      /\ resolved' \in [Tasks -> BOOLEAN]
      /\ outcome' \in [Tasks -> Seq({"value", "error"})]
  <2>1. CASE SetDirectly(t, "value")
    BY <1>3, <1>4, <2>1, SetDirectlyOnce, SetDirectlyType DEF IInv
  <2>2. CASE Settle({t}, "error")
    BY <1>3, <1>4, <2>2, SettleOnce, SettleType DEF IInv
  <2> QED BY <1>5, <2>1, <2>2
<1>8. TypeOK'
  BY <1>0, <1>1, <1>7 DEF IInv, TypeOK, Pcs
<1>9. QueueFresh' /\ QueueApart'
  BY <1>0, <1>1, <1>2, <1>6, <1>7 DEF IInv, QueueFresh, QueueApart
<1>10. HeldGuarded'
  BY <1>0, <1>1, <1>2 DEF HeldGuarded
<1>11. IdleUnanswered'
  BY <1>1, <1>4, <1>7 DEF IInv, IdleUnanswered
<1>12. FormingFresh' /\ IdleEmpty' /\ RowsValid'
  BY <1>0, <1>1, <1>2 DEF FormingFresh, IdleEmpty, RowsValid
<1> QED BY <1>7, <1>8, <1>9, <1>10, <1>11, <1>12 DEF IInv

LEMMA RejectBatchStep == ASSUME IInv, RejectBatch PROVE IInv'
<1>0. pc = "validating" /\ pc' = "waiting" /\ batch' = <<>>
  BY DEF RejectBatch
<1>1. UNCHANGED <<request, accepted, tasks, stopping, slot, sessions, live, deferred>>
  BY DEF RejectBatch, queueVars
<1>2. sessions = <<>> /\ deferred = <<>>
  BY <1>0 DEF IInv, IdleEmpty
<1>3. /\ SeqRange(batch) \in SUBSET Tasks
      /\ \A t \in SeqRange(batch) : Guarded(t)
      /\ \A i \in DOMAIN tasks : tasks[i] \notin SeqRange(batch)
  BY HeldTasks DEF IInv, SeqRange, HeldGuarded, QueueApart
<1>4. Settle(SeqRange(batch), "error")
  BY DEF RejectBatch
<1>5. /\ AnsweredAtMostOnce'
      /\ IdleUnanswered'
      /\ \A i \in DOMAIN tasks' :
            request'[tasks'[i]] # NoRequest /\ outcome'[tasks'[i]] = <<>>
      /\ resolved' \in [Tasks -> BOOLEAN]
      /\ outcome' \in [Tasks -> Seq({"value", "error"})]
  BY <1>1, <1>3, <1>4, SettleHeld
<1>6. TypeOK'
  BY <1>0, <1>1, <1>5 DEF IInv, TypeOK, Pcs
<1>7. QueueFresh' /\ QueueApart'
  BY <1>0, <1>1, <1>2, <1>5 DEF IInv, QueueFresh, QueueApart
<1>8. HeldGuarded'
  BY <1>0, <1>1, <1>2 DEF HeldGuarded
<1>9. FormingFresh' /\ IdleEmpty' /\ RowsValid'
  BY <1>0, <1>1, <1>2 DEF FormingFresh, IdleEmpty, RowsValid
<1> QED BY <1>5, <1>6, <1>7, <1>8, <1>9 DEF IInv

LEMMA SerializeBatchStep == ASSUME IInv, SerializeBatch PROVE IInv'
<1>0. pc = "validating" /\ pc' = "serial" /\ deferred' = batch
  BY DEF SerializeBatch
<1>1. UNCHANGED <<request, accepted, tasks, stopping, batch, slot, sessions, live,
                  resolved, outcome>>
  BY DEF SerializeBatch, queueVars, resultVars
<1>2. TypeOK'
  BY <1>0, <1>1 DEF IInv, TypeOK, Pcs
<1>3. AnsweredAtMostOnce' /\ QueueFresh' /\ QueueApart' /\ IdleUnanswered'
  BY <1>0, <1>1 DEF IInv, AnsweredAtMostOnce, QueueFresh, QueueApart, IdleUnanswered
<1>4. HeldGuarded'
  BY <1>0, <1>1 DEF IInv, HeldGuarded, Guarded
<1>5. FormingFresh' /\ IdleEmpty' /\ RowsValid'
  BY <1>0, <1>1 DEF IInv, FormingFresh, IdleEmpty, RowsValid
<1> QED BY <1>2, <1>3, <1>4, <1>5 DEF IInv

LEMMA AdmitBatchStep == ASSUME IInv, AdmitBatch PROVE IInv'
<1>0. pc = "validating" /\ pc' = "initializing" /\ slot' = 1 /\ BatchValid
  BY DEF AdmitBatch
<1>1. UNCHANGED <<request, accepted, tasks, stopping, batch, sessions, live,
                  deferred, resolved, outcome>>
  BY DEF AdmitBatch, queueVars, resultVars
<1>2. TypeOK'
  BY <1>0, <1>1 DEF IInv, TypeOK, Pcs
<1>3. AnsweredAtMostOnce' /\ QueueFresh' /\ QueueApart' /\ IdleUnanswered'
  BY <1>0, <1>1 DEF IInv, AnsweredAtMostOnce, QueueFresh, QueueApart, IdleUnanswered
<1>4. HeldGuarded'
  BY <1>0, <1>1 DEF IInv, HeldGuarded, Guarded
<1>5. FormingFresh' /\ IdleEmpty'
  BY <1>0, <1>1 DEF IInv, FormingFresh, IdleEmpty
<1>6. RowsValid'
  <2>1. \A i \in DOMAIN batch :
          request[batch[i]] \in Requests /\ request[batch[i]].kind = "generate"
    BY <1>0, HeldTasks DEF IInv, TypeOK, RowsValid, HeldGuarded, Guarded
  <2>2. \A i \in DOMAIN batch : request[batch[i]].prompt > 0
    BY <1>0, <2>1, ExecutorAssumption DEF BatchValid
  <2> QED BY <1>0, <1>1, <2>1, <2>2 DEF IInv, RowsValid
<1> QED BY <1>2, <1>3, <1>4, <1>5, <1>6 DEF IInv

\* A fresh row is a row.
LEMMA NewSessionType ==
  ASSUME TypeOK, NEW t \in Tasks, request[t].prompt > 0, NEW rows \in Nat
  PROVE  NewSession(t, rows) \in SessionType /\ NewSession(t, rows).task = t
         /\ PrefillRows(t) \in Nat
<1>1. request[t].prompt \in Nat
  BY RequestFields
<1> QED BY <1>1 DEF NewSession, SessionType, PrefillRows

LEMMA InitializeSlotStep == ASSUME IInv, InitializeSlot PROVE IInv'
<1> DEFINE t == batch[slot]
<1>0. pc = "initializing" /\ pc' = pc /\ slot' = slot + 1
  BY DEF InitializeSlot
<1>1. UNCHANGED <<request, accepted, tasks, stopping, batch, live, deferred>>
  BY DEF InitializeSlot, queueVars
<1>2. slot \in DOMAIN batch
  BY <1>0, LenProperties DEF IInv, TypeOK, RowsValid, InitializeSlot
<1>3. t \in Tasks /\ Guarded(t) /\ request[t].prompt > 0
      /\ \A i \in DOMAIN tasks : tasks[i] # t
  BY <1>0, <1>2, HeldTasks DEF IInv, HeldGuarded, RowsValid, QueueApart
<1> HIDE DEF t
<1>4. CASE sessions' = Append(sessions, NewSession(t, PrefillRows(t)))
           /\ UNCHANGED <<resolved, outcome>>
  <2>1. NewSession(t, PrefillRows(t)) \in SessionType
        /\ NewSession(t, PrefillRows(t)).task = t
    BY <1>3, NewSessionType DEF IInv
  <2>2. /\ sessions' \in Seq(SessionType)
        /\ \A i \in DOMAIN sessions' :
             \/ i \in DOMAIN sessions /\ sessions'[i] = sessions[i]
             \/ sessions'[i].task = t
    BY <1>4, <2>1, AppendFacts DEF IInv, TypeOK
  <2>3. TypeOK'
    BY <1>0, <1>1, <1>4, <2>2 DEF IInv, TypeOK
  <2>4. AnsweredAtMostOnce' /\ QueueFresh' /\ IdleUnanswered'
    BY <1>1, <1>4 DEF IInv, AnsweredAtMostOnce, QueueFresh, IdleUnanswered
  <2>5. QueueApart'
    BY <1>1, <1>3, <2>2 DEF IInv, QueueApart
  <2>6. HeldGuarded'
    BY <1>1, <1>3, <1>4, <2>2 DEF IInv, HeldGuarded, Guarded
  <2>7. FormingFresh' /\ IdleEmpty'
    BY <1>0 DEF FormingFresh, IdleEmpty
  <2>8. RowsValid'
    <3>1. \A i \in DOMAIN sessions' : request'[sessions'[i].task].prompt > 0
      BY <1>1, <1>3, <2>2 DEF IInv, RowsValid
    <3>2. slot' > 0
      BY <1>0 DEF IInv, TypeOK
    <3> QED BY <1>0, <1>1, <3>1, <3>2 DEF IInv, RowsValid
  <2> QED BY <2>3, <2>4, <2>5, <2>6, <2>7, <2>8 DEF IInv
<1>5. CASE Settle({t}, "error") /\ UNCHANGED sessions
  <2>1. /\ AnsweredAtMostOnce'
        /\ IdleUnanswered'
        /\ \A i \in DOMAIN tasks' :
              request'[tasks'[i]] # NoRequest /\ outcome'[tasks'[i]] = <<>>
        /\ \A u \in Tasks : Guarded(u) => Guarded(u)'
        /\ resolved' \in [Tasks -> BOOLEAN]
        /\ outcome' \in [Tasks -> Seq({"value", "error"})]
    BY <1>1, <1>3, <1>5, SettleHeld
  <2>2. TypeOK'
    BY <1>0, <1>1, <1>5, <2>1 DEF IInv, TypeOK
  <2>3. QueueFresh' /\ QueueApart'
    BY <1>1, <1>5, <2>1 DEF IInv, QueueFresh, QueueApart
  <2>4. HeldGuarded'
    BY <1>1, <1>5, <2>1, HeldTasks DEF IInv, HeldGuarded
  <2>5. FormingFresh' /\ IdleEmpty' /\ RowsValid'
    BY <1>0, <1>1, <1>5 DEF IInv, TypeOK, FormingFresh, IdleEmpty, RowsValid
  <2> QED BY <2>1, <2>2, <2>3, <2>4, <2>5 DEF IInv
<1> QED BY <1>4, <1>5 DEF InitializeSlot, resultVars, t

LEMMA DecodeStep == ASSUME IInv, Decode PROVE IInv'
<1>0. pc = "decoding" /\ pc' = "finishing" /\ slot' = 1 /\ live' = 0
  BY DEF Decode
<1>1. UNCHANGED <<request, accepted, tasks, stopping, batch, deferred, resolved,
                  outcome>>
  BY DEF Decode, queueVars, resultVars
<1>2. PICK result \in [DOMAIN sessions -> {"token", "stop", "cancelled"}] :
        sessions' = [i \in DOMAIN sessions |-> DecodedRow(sessions[i], result[i])]
  BY DEF Decode
<1>3. \A s \in SessionType, x \in {"token", "stop", "cancelled"} :
        DecodedRow(s, x) \in SessionType /\ DecodedRow(s, x).task = s.task
  <2> TAKE s \in SessionType, x \in {"token", "stop", "cancelled"}
  <2>1. CASE ~s.ready
    BY <2>1 DEF DecodedRow, SessionType
  <2>2. CASE s.ready /\ x = "stop"
    BY <2>2 DEF DecodedRow, SessionType
  <2>3. CASE s.ready /\ x # "stop"
    <3> DEFINE on == x # "cancelled" /\ s.tokens + 1 # request[s.task].max_tokens
           n == s.tokens + 1
    <3>1. DecodedRow(s, x) = [s EXCEPT !.tokens = n, !.active = on]
      BY <2>3 DEF DecodedRow
    <3>2. on \in BOOLEAN
      OBVIOUS
    <3>3. n \in Nat
      BY DEF SessionType
    <3> HIDE DEF on, n
    <3>4. [s EXCEPT !.tokens = n] \in SessionType
      BY <3>3 DEF SessionType
    <3> QED BY <3>1, <3>2, <3>4 DEF SessionType
  <2> QED BY <2>1, <2>2, <2>3
<1>4. /\ sessions' \in Seq(SessionType)
      /\ DOMAIN sessions' = DOMAIN sessions
      /\ \A i \in DOMAIN sessions' : sessions'[i].task = sessions[i].task
  <2>1. sessions \in Seq(SessionType)
    BY DEF IInv, TypeOK
  <2>2. DOMAIN sessions = 1..Len(sessions) /\ Len(sessions) \in Nat
    BY <2>1, LenProperties
  <2>3. \A i \in 1..Len(sessions) : DecodedRow(sessions[i], result[i]) \in SessionType
    BY <1>3, <2>2, HeldTasks DEF IInv
  <2>4. sessions' \in Seq(SessionType)
    BY <1>2, <2>2, <2>3, IsASeq
  <2> QED BY <1>2, <1>3, <2>2, <2>4, HeldTasks DEF IInv
<1>5. TypeOK'
  BY <1>0, <1>1, <1>4 DEF IInv, TypeOK, Pcs
<1>6. AnsweredAtMostOnce' /\ QueueFresh' /\ QueueApart' /\ IdleUnanswered'
  BY <1>1, <1>4 DEF IInv, AnsweredAtMostOnce, QueueFresh, QueueApart, IdleUnanswered
<1>7. HeldGuarded'
  BY <1>1, <1>4 DEF IInv, HeldGuarded, Guarded
<1>8. FormingFresh' /\ IdleEmpty' /\ RowsValid'
  BY <1>0, <1>1, <1>4 DEF IInv, FormingFresh, IdleEmpty, RowsValid
<1> QED BY <1>5, <1>6, <1>7, <1>8 DEF IInv

LEMMA FinishSlotStep == ASSUME IInv, FinishSlot PROVE IInv'
<1> DEFINE t == sessions[slot].task
<1>0. pc = "finishing" /\ pc' = pc /\ slot' = slot + 1
  BY DEF FinishSlot
<1>1. UNCHANGED <<request, accepted, tasks, stopping, batch, sessions, deferred>>
  BY DEF FinishSlot, queueVars
<1>8. slot \in DOMAIN sessions
  BY <1>0, LenProperties DEF IInv, TypeOK, RowsValid, FinishSlot
<1>9. slot' > 0
  BY <1>0 DEF IInv, TypeOK
<1>2. CASE live' = live + Reserved(t) /\ UNCHANGED <<resolved, outcome>>
  <2>1. Reserved(t) \in Nat
    BY <1>8, HeldTasks, RequestFields DEF IInv
  <2>2. TypeOK'
    BY <1>0, <1>1, <1>2, <2>1 DEF IInv, TypeOK
  <2>3. AnsweredAtMostOnce' /\ QueueFresh' /\ QueueApart' /\ IdleUnanswered'
    BY <1>1, <1>2 DEF IInv, AnsweredAtMostOnce, QueueFresh, QueueApart, IdleUnanswered
  <2>4. HeldGuarded'
    BY <1>1, <1>2 DEF IInv, HeldGuarded, Guarded
  <2>5. FormingFresh' /\ IdleEmpty' /\ RowsValid'
    BY <1>0, <1>1, <1>9 DEF IInv, FormingFresh, IdleEmpty, RowsValid
  <2> QED BY <2>2, <2>3, <2>4, <2>5 DEF IInv
<1>3. CASE Settle({t}, "value") /\ UNCHANGED live
  <2>1. t \in Tasks /\ Guarded(t) /\ \A i \in DOMAIN tasks : tasks[i] # t
    BY <1>8, HeldTasks DEF IInv, HeldGuarded, QueueApart
  <2> HIDE DEF t
  <2>2. /\ AnsweredAtMostOnce'
        /\ IdleUnanswered'
        /\ \A i \in DOMAIN tasks' :
              request'[tasks'[i]] # NoRequest /\ outcome'[tasks'[i]] = <<>>
        /\ \A u \in Tasks : Guarded(u) => Guarded(u)'
        /\ resolved' \in [Tasks -> BOOLEAN]
        /\ outcome' \in [Tasks -> Seq({"value", "error"})]
    BY <1>1, <1>3, <2>1, SettleHeld
  <2>3. TypeOK'
    BY <1>0, <1>1, <1>3, <2>2 DEF IInv, TypeOK
  <2>4. QueueFresh' /\ QueueApart'
    BY <1>1, <2>2 DEF IInv, QueueFresh, QueueApart
  <2>5. HeldGuarded'
    BY <1>1, <2>2, HeldTasks DEF IInv, HeldGuarded
  <2>6. FormingFresh' /\ IdleEmpty' /\ RowsValid'
    BY <1>0, <1>1, <1>9 DEF IInv, FormingFresh, IdleEmpty, RowsValid
  <2> QED BY <2>2, <2>3, <2>4, <2>5, <2>6 DEF IInv
<1> QED BY <1>2, <1>3 DEF FinishSlot, resultVars

LEMMA FailBatchStep == ASSUME IInv, FailBatch PROVE IInv'
<1> DEFINE S == SessionTasks \cup SeqRange(deferred)
<1>0. pc' = "waiting" /\ batch' = <<>> /\ sessions' = <<>> /\ deferred' = <<>>
  BY DEF FailBatch
<1>1. UNCHANGED <<request, accepted, tasks, stopping, slot, live>>
  BY DEF FailBatch, queueVars
<1>2. /\ S \in SUBSET Tasks
      /\ \A t \in S : Guarded(t)
      /\ \A i \in DOMAIN tasks : tasks[i] \notin S
  BY HeldTasks DEF IInv, SeqRange, SessionTasks, HeldGuarded, QueueApart
<1>3. Settle(S, "error")
  BY DEF FailBatch
<1> HIDE DEF S
<1>4. /\ AnsweredAtMostOnce'
      /\ IdleUnanswered'
      /\ \A i \in DOMAIN tasks' :
            request'[tasks'[i]] # NoRequest /\ outcome'[tasks'[i]] = <<>>
      /\ \A u \in Tasks : Guarded(u) => Guarded(u)'
      /\ resolved' \in [Tasks -> BOOLEAN]
      /\ outcome' \in [Tasks -> Seq({"value", "error"})]
  BY <1>1, <1>2, <1>3, SettleHeld
<1>5. TypeOK'
  BY <1>0, <1>1, <1>4 DEF IInv, TypeOK, Pcs
<1>6. QueueFresh' /\ QueueApart'
  BY <1>0, <1>1, <1>4 DEF IInv, QueueFresh, QueueApart
<1>7. HeldGuarded' /\ FormingFresh' /\ IdleEmpty' /\ RowsValid'
  BY <1>0 DEF HeldGuarded, FormingFresh, IdleEmpty, RowsValid
<1> QED BY <1>4, <1>5, <1>6, <1>7 DEF IInv

\* Dropping a row keeps every other row as it was.
LEMMA RemoveRowKeeps ==
  ASSUME TypeOK, NEW i \in DOMAIN sessions
  PROVE  /\ RemoveRow(sessions, i) \in Seq(SessionType)
         /\ \A k \in DOMAIN RemoveRow(sessions, i) :
              \E j \in DOMAIN sessions : RemoveRow(sessions, i)[k] = sessions[j]
  BY RemoveFacts DEF TypeOK

LEMMA EraseRowStep == ASSUME IInv, EraseRow PROVE IInv'
<1>0. pc = "erasing" /\ pc' = pc
  BY DEF EraseRow
<1>1. UNCHANGED <<request, accepted, tasks, stopping, batch, slot, live, deferred,
                  resolved, outcome>>
  BY DEF EraseRow, queueVars, resultVars
<1>2. PICK i \in DOMAIN sessions : sessions' = RemoveRow(sessions, i)
  BY DEF EraseRow
<1>3. /\ sessions' \in Seq(SessionType)
      /\ \A k \in DOMAIN sessions' :
            \E j \in DOMAIN sessions : sessions'[k] = sessions[j]
  BY <1>2, RemoveRowKeeps DEF IInv
<1>4. TypeOK'
  BY <1>0, <1>1, <1>3 DEF IInv, TypeOK
<1>5. AnsweredAtMostOnce' /\ QueueFresh' /\ QueueApart' /\ IdleUnanswered'
  BY <1>1, <1>3 DEF IInv, AnsweredAtMostOnce, QueueFresh, QueueApart, IdleUnanswered
<1>6. HeldGuarded'
  BY <1>1, <1>3 DEF IInv, HeldGuarded, Guarded
<1>7. FormingFresh' /\ IdleEmpty' /\ RowsValid'
  BY <1>0, <1>1, <1>3 DEF IInv, FormingFresh, IdleEmpty, RowsValid
<1> QED BY <1>4, <1>5, <1>6, <1>7 DEF IInv

LEMMA RefillFailsStep == ASSUME IInv, RefillFails PROVE IInv'
<1> DEFINE t == Head(tasks)
<1>0. tasks # <<>> /\ tasks' = Tail(tasks) /\ pc = "refilling" /\ pc' = pc
  BY DEF RefillFails, Refilled
<1>1. /\ t \in Tasks /\ request[t] # NoRequest /\ outcome[t] = <<>>
      /\ tasks' \in Seq(Tasks)
      /\ \A i \in DOMAIN tasks' : i + 1 \in DOMAIN tasks /\ tasks'[i] = tasks[i + 1]
      /\ \A i \in DOMAIN tasks' : tasks'[i] # t
      /\ \A i, j \in DOMAIN tasks' : tasks'[i] = tasks'[j] => i = j
  BY <1>0, PopFacts
<1>2. Settle({t}, "error")
  BY DEF RefillFails
<1> HIDE DEF t
<1>3. UNCHANGED <<request, accepted, stopping, batch, slot, sessions, live, deferred>>
  BY DEF RefillFails, batchVars
<1>4. /\ AnsweredAtMostOnce'
      /\ IdleUnanswered'
      /\ \A i \in DOMAIN tasks' :
            request'[tasks'[i]] # NoRequest /\ outcome'[tasks'[i]] = <<>>
      /\ \A u \in Tasks : Guarded(u) => Guarded(u)'
      /\ resolved' \in [Tasks -> BOOLEAN]
      /\ outcome' \in [Tasks -> Seq({"value", "error"})]
  <2>1. \A i \in DOMAIN tasks' : \E j \in DOMAIN tasks : tasks'[i] = tasks[j]
    BY <1>1
  <2>2. Guarded(t)
    BY <1>1 DEF Guarded
  <2> QED BY <1>1, <1>2, <1>3, <2>1, <2>2, SettleHeld
<1>5. TypeOK'
  BY <1>0, <1>1, <1>3, <1>4 DEF IInv, TypeOK
<1>6. QueueFresh'
  BY <1>1, <1>4 DEF QueueFresh
<1>7. QueueApart'
  BY <1>1, <1>3 DEF IInv, QueueApart
<1>8. HeldGuarded'
  BY <1>3, <1>4, HeldTasks DEF IInv, HeldGuarded
<1>9. FormingFresh' /\ IdleEmpty' /\ RowsValid'
  BY <1>0, <1>3 DEF IInv, FormingFresh, IdleEmpty, RowsValid
<1> QED BY <1>4, <1>5, <1>6, <1>7, <1>8, <1>9 DEF IInv

LEMMA RefillDefersStep == ASSUME IInv, RefillDefers PROVE IInv'
<1> DEFINE t == Head(tasks)
<1>0. /\ tasks # <<>> /\ tasks' = Tail(tasks) /\ pc = "refilling"
      /\ pc' = "prefilling" /\ deferred' = Append(deferred, t)
  BY DEF RefillDefers, Refilled
<1>1. /\ t \in Tasks /\ request[t] # NoRequest /\ outcome[t] = <<>>
      /\ tasks' \in Seq(Tasks)
      /\ \A i \in DOMAIN tasks' : i + 1 \in DOMAIN tasks /\ tasks'[i] = tasks[i + 1]
      /\ \A i \in DOMAIN tasks' : tasks'[i] # t
      /\ \A i, j \in DOMAIN tasks' : tasks'[i] = tasks'[j] => i = j
  BY <1>0, PopFacts
<1> HIDE DEF t
<1>2. UNCHANGED <<request, accepted, stopping, batch, slot, sessions, live,
                  resolved, outcome>>
  BY DEF RefillDefers, resultVars
<1>3. /\ deferred' \in Seq(Tasks)
      /\ \A i \in DOMAIN deferred' :
           \/ i \in DOMAIN deferred /\ deferred'[i] = deferred[i]
           \/ deferred'[i] = t
  <2>1. deferred \in Seq(Tasks)
    BY DEF IInv, TypeOK
  <2> QED BY <1>0, <1>1, <2>1, AppendFacts
<1>4. TypeOK'
  BY <1>0, <1>1, <1>2, <1>3 DEF IInv, TypeOK, Pcs
<1>5. AnsweredAtMostOnce' /\ QueueFresh' /\ IdleUnanswered'
  BY <1>1, <1>2 DEF IInv, AnsweredAtMostOnce, QueueFresh, IdleUnanswered
<1>6. QueueApart'
  BY <1>1, <1>2, <1>3 DEF IInv, QueueApart
<1>7. HeldGuarded'
  BY <1>1, <1>2, <1>3 DEF IInv, HeldGuarded, Guarded
<1>8. FormingFresh' /\ IdleEmpty' /\ RowsValid'
  BY <1>0, <1>2 DEF IInv, FormingFresh, IdleEmpty, RowsValid
<1> QED BY <1>4, <1>5, <1>6, <1>7, <1>8 DEF IInv

LEMMA RefillJoinsStep == ASSUME IInv, RefillJoins PROVE IInv'
<1> DEFINE t == Head(tasks)
<1>0. /\ tasks # <<>> /\ tasks' = Tail(tasks) /\ pc = "refilling" /\ pc' = pc
      /\ sessions' = Append(sessions, NewSession(t, 0))
      /\ live' = live + Reserved(t)
      /\ request[t].valid /\ request[t].kind = "generate"
  BY DEF RefillJoins, Refilled, Batchable
<1>1. /\ t \in Tasks /\ request[t] # NoRequest /\ outcome[t] = <<>>
      /\ tasks' \in Seq(Tasks)
      /\ \A i \in DOMAIN tasks' : i + 1 \in DOMAIN tasks /\ tasks'[i] = tasks[i + 1]
      /\ \A i \in DOMAIN tasks' : tasks'[i] # t
      /\ \A i, j \in DOMAIN tasks' : tasks'[i] = tasks'[j] => i = j
  BY <1>0, PopFacts
<1> HIDE DEF t
<1>2. UNCHANGED <<request, accepted, stopping, batch, slot, deferred, resolved, outcome>>
  BY DEF RefillJoins, resultVars
<1>3. request[t].prompt > 0 /\ Reserved(t) \in Nat
  BY <1>0, <1>1, RequestFields, ExecutorAssumption DEF IInv
<1>4. NewSession(t, 0) \in SessionType /\ NewSession(t, 0).task = t
  BY <1>1, <1>3, NewSessionType DEF IInv
<1>5. /\ sessions' \in Seq(SessionType)
      /\ \A i \in DOMAIN sessions' :
           \/ i \in DOMAIN sessions /\ sessions'[i] = sessions[i]
           \/ sessions'[i].task = t
  BY <1>0, <1>4, AppendFacts DEF IInv, TypeOK
<1>6. TypeOK'
  <2>1. live' \in Nat
    BY <1>0, <1>3 DEF IInv, TypeOK
  <2>2. pc' \in Pcs
    BY <1>0 DEF IInv, TypeOK
  <2>3. /\ tasks' \in Seq(Tasks)
        /\ sessions' \in Seq(SessionType)
    BY <1>1, <1>5
  <2> QED BY <2>1, <2>2, <2>3, <1>2 DEF IInv, TypeOK
<1>7. AnsweredAtMostOnce' /\ QueueFresh' /\ IdleUnanswered'
  BY <1>1, <1>2 DEF IInv, AnsweredAtMostOnce, QueueFresh, IdleUnanswered
<1>8. QueueApart'
  BY <1>1, <1>2, <1>5 DEF IInv, QueueApart
<1>9. HeldGuarded'
  BY <1>1, <1>2, <1>5 DEF IInv, HeldGuarded, Guarded
<1>10. FormingFresh' /\ IdleEmpty'
  BY <1>0 DEF FormingFresh, IdleEmpty
<1>11. RowsValid'
  BY <1>0, <1>2, <1>3, <1>5 DEF IInv, RowsValid
<1> QED BY <1>6, <1>7, <1>8, <1>9, <1>10, <1>11 DEF IInv

LEMMA RunDeferredStep == ASSUME IInv, RunDeferred PROVE IInv'
<1> DEFINE t == Head(deferred)
<1>0. pc = "serial" /\ pc' = pc /\ deferred # <<>> /\ deferred' = Tail(deferred)
  BY DEF RunDeferred
<1>1. UNCHANGED <<request, accepted, tasks, stopping, batch, slot, sessions, live>>
  BY DEF RunDeferred, queueVars
<1>2. PICK v \in {"value", "error"} : Settle({t}, v)
  BY DEF RunDeferred
<1>3. /\ t \in Tasks /\ 1 \in DOMAIN deferred /\ t = deferred[1]
      /\ deferred' \in Seq(Tasks)
      /\ \A i \in DOMAIN deferred' :
           i + 1 \in DOMAIN deferred /\ deferred'[i] = deferred[i + 1]
  BY <1>0, TailFacts DEF IInv, TypeOK
<1>4. Guarded(t) /\ \A i \in DOMAIN tasks : tasks[i] # t
  BY <1>3 DEF IInv, HeldGuarded, QueueApart
<1> HIDE DEF t
<1>5. /\ AnsweredAtMostOnce'
      /\ IdleUnanswered'
      /\ \A i \in DOMAIN tasks' :
            request'[tasks'[i]] # NoRequest /\ outcome'[tasks'[i]] = <<>>
      /\ \A u \in Tasks : Guarded(u) => Guarded(u)'
      /\ resolved' \in [Tasks -> BOOLEAN]
      /\ outcome' \in [Tasks -> Seq({"value", "error"})]
  BY <1>1, <1>2, <1>3, <1>4, SettleHeld
<1>6. TypeOK'
  BY <1>0, <1>1, <1>3, <1>5 DEF IInv, TypeOK
<1>7. QueueFresh' /\ QueueApart'
  BY <1>1, <1>3, <1>5 DEF IInv, QueueFresh, QueueApart
<1>8. HeldGuarded'
  BY <1>1, <1>3, <1>5, HeldTasks DEF IInv, HeldGuarded
<1>9. FormingFresh' /\ IdleEmpty' /\ RowsValid'
  BY <1>0, <1>1 DEF IInv, FormingFresh, IdleEmpty, RowsValid
<1> QED BY <1>5, <1>6, <1>7, <1>8, <1>9 DEF IInv

LEMMA EndBatchStep == ASSUME IInv, EndBatch PROVE IInv'
<1>0. pc = "serial" /\ pc' = "waiting" /\ deferred = <<>> /\ batch' = <<>>
  BY DEF EndBatch
<1>1. UNCHANGED <<request, accepted, tasks, stopping, slot, sessions, live, deferred,
                  resolved, outcome>>
  BY DEF EndBatch, queueVars, resultVars
<1>2. sessions = <<>>
  BY <1>0 DEF IInv, IdleEmpty
<1>3. TypeOK'
  BY <1>0, <1>1 DEF IInv, TypeOK, Pcs
<1>4. AnsweredAtMostOnce' /\ QueueFresh' /\ QueueApart' /\ IdleUnanswered'
  BY <1>0, <1>1 DEF IInv, AnsweredAtMostOnce, QueueFresh, QueueApart, IdleUnanswered
<1>5. HeldGuarded' /\ FormingFresh' /\ IdleEmpty' /\ RowsValid'
  BY <1>0, <1>1, <1>2 DEF HeldGuarded, FormingFresh, IdleEmpty, RowsValid
<1> QED BY <1>3, <1>4, <1>5 DEF IInv

\* A prefill step moves a row's offset forward, never past its prompt.
LEMMA AdvancedPrefillType ==
  ASSUME TypeOK, NEW s \in SessionType, request[s.task].prompt > 0
  PROVE  AdvancedPrefill(s) \in SessionType /\ AdvancedPrefill(s).task = s.task
<1> DEFINE rows == PrefillRows(s.task)
           done == s.barrier + 1 = Barriers
           next == IF done THEN s.offset + Min2(ChunkRows, rows - s.offset)
                   ELSE s.offset
           step == IF done THEN 0 ELSE s.barrier + 1
           full == next = rows
<1>1. s.offset \in Nat /\ s.barrier \in Nat /\ s.task \in Tasks
  BY DEF SessionType
<1>2. rows \in Nat
  BY <1>1, RequestFields DEF PrefillRows
<1>3. ChunkRows \in Nat
  BY ExecutorAssumption
<1>4. next \in Nat
  BY <1>1, <1>2, <1>3 DEF Min2
<1>5. step \in Nat /\ full \in BOOLEAN
  BY <1>1
<1>6. AdvancedPrefill(s) =
        [s EXCEPT !.barrier = step, !.offset = next, !.ready = full]
  BY DEF AdvancedPrefill
<1> HIDE DEF next, step, full
<1>7. [s EXCEPT !.barrier = step] \in SessionType
  BY <1>5 DEF SessionType
<1>8. [s EXCEPT !.barrier = step, !.offset = next] \in SessionType
  BY <1>4, <1>7 DEF SessionType
<1>9. [s EXCEPT !.barrier = step, !.offset = next, !.ready = full] \in SessionType
  BY <1>5, <1>8 DEF SessionType
<1> QED BY <1>6, <1>9 DEF SessionType

LEMMA PrefillStep == ASSUME IInv, Prefill PROVE IInv'
<1>0. pc = "prefilling" /\ pc' = LoopHead(sessions')
  BY DEF Prefill
<1>1. UNCHANGED <<request, accepted, tasks, stopping, batch, slot, live, deferred>>
  BY DEF Prefill, queueVars
<1>2. pc' \in {"serial", "decoding"} /\ (pc' = "serial" => sessions' = <<>>)
  BY <1>0 DEF LoopHead
<1>3. PICK i \in DOMAIN sessions :
        \/ /\ sessions' = [sessions EXCEPT ![i] = AdvancedPrefill(@)]
           /\ UNCHANGED <<resolved, outcome>>
        \/ sessions' = RemoveRow(sessions, i) /\ Settle({sessions[i].task}, "error")
  BY DEF Prefill, resultVars
<1>4. CASE sessions' = [sessions EXCEPT ![i] = AdvancedPrefill(@)]
           /\ UNCHANGED <<resolved, outcome>>
  <2>1. AdvancedPrefill(sessions[i]) \in SessionType
        /\ AdvancedPrefill(sessions[i]).task = sessions[i].task
    BY HeldTasks, AdvancedPrefillType DEF IInv, RowsValid
  <2>2. /\ sessions' \in Seq(SessionType) /\ DOMAIN sessions' = DOMAIN sessions
        /\ \A k \in DOMAIN sessions' : sessions'[k].task = sessions[k].task
    BY <1>4, <2>1, ExceptSeq, LenProperties DEF IInv, TypeOK
  <2>3. TypeOK'
    BY <1>1, <1>2, <1>4, <2>2 DEF IInv, TypeOK, Pcs
  <2>4. AnsweredAtMostOnce' /\ QueueFresh' /\ QueueApart' /\ IdleUnanswered'
    BY <1>1, <1>4, <2>2
       DEF IInv, AnsweredAtMostOnce, QueueFresh, QueueApart, IdleUnanswered
  <2>5. HeldGuarded'
    BY <1>1, <1>4, <2>2 DEF IInv, HeldGuarded, Guarded
  <2>6. FormingFresh' /\ IdleEmpty' /\ RowsValid'
    BY <1>1, <1>2, <2>2 DEF IInv, FormingFresh, IdleEmpty, RowsValid
  <2> QED BY <2>3, <2>4, <2>5, <2>6 DEF IInv
<1>5. CASE sessions' = RemoveRow(sessions, i) /\ Settle({sessions[i].task}, "error")
  <2> DEFINE t == sessions[i].task
  <2>1. /\ sessions' \in Seq(SessionType)
        /\ \A k \in DOMAIN sessions' :
              \E j \in DOMAIN sessions : sessions'[k] = sessions[j]
    BY <1>5, RemoveRowKeeps DEF IInv
  <2>2. t \in Tasks /\ Guarded(t) /\ \A j \in DOMAIN tasks : tasks[j] # t
    BY HeldTasks DEF IInv, HeldGuarded, QueueApart
  <2>3. Settle({t}, "error")
    BY <1>5
  <2> HIDE DEF t
  <2>4. /\ AnsweredAtMostOnce'
        /\ IdleUnanswered'
        /\ \A j \in DOMAIN tasks' :
              request'[tasks'[j]] # NoRequest /\ outcome'[tasks'[j]] = <<>>
        /\ \A u \in Tasks : Guarded(u) => Guarded(u)'
        /\ resolved' \in [Tasks -> BOOLEAN]
        /\ outcome' \in [Tasks -> Seq({"value", "error"})]
    BY <1>1, <2>2, <2>3, SettleHeld
  <2>5. TypeOK'
    BY <1>1, <1>2, <2>1, <2>4 DEF IInv, TypeOK, Pcs
  <2>6. QueueFresh' /\ QueueApart'
    BY <1>1, <2>1, <2>4 DEF IInv, QueueFresh, QueueApart
  <2>7. HeldGuarded'
    BY <1>1, <2>1, <2>4, HeldTasks DEF IInv, HeldGuarded
  <2>8. FormingFresh' /\ IdleEmpty' /\ RowsValid'
    BY <1>1, <1>2, <2>1 DEF IInv, FormingFresh, IdleEmpty, RowsValid
  <2> QED BY <2>4, <2>5, <2>6, <2>7, <2>8 DEF IInv
<1> QED BY <1>3, <1>4, <1>5

-----------------------------------------------------------------------------
(* The theorems.                                                           *)

LEMMA InitIInv == Init => IInv
<1> SUFFICES ASSUME Init PROVE IInv
  OBVIOUS
<1>1. TypeOK
  <2>1. /\ request \in [Tasks -> Requests \cup {NoRequest}]
        /\ outcome \in [Tasks -> Seq({"value", "error"})]
    BY DEF Init
  <2>2. resolved \in [Tasks -> BOOLEAN] /\ stopping \in BOOLEAN
    BY Zenon DEF Init
  <2>3. /\ accepted \in Seq(Tasks) /\ tasks \in Seq(Tasks) /\ batch \in Seq(Tasks)
        /\ deferred \in Seq(Tasks) /\ sessions \in Seq(SessionType)
        /\ slot \in Nat /\ live \in Nat /\ pc \in Pcs
    BY DEF Init, Pcs
  <2> QED BY <2>1, <2>2, <2>3 DEF TypeOK
<1>2. AnsweredAtMostOnce /\ IdleUnanswered
  BY DEF Init, AnsweredAtMostOnce, IdleUnanswered
<1>3. QueueFresh /\ QueueApart /\ HeldGuarded
  BY DEF Init, QueueFresh, QueueApart, HeldGuarded
<1>4. FormingFresh /\ IdleEmpty /\ RowsValid
  BY DEF Init, FormingFresh, IdleEmpty, RowsValid
<1> QED BY <1>1, <1>2, <1>3, <1>4 DEF IInv

LEMMA WorkerStep == ASSUME IInv, Worker PROVE IInv'
<1>1. CASE \/ StartEngine \/ Exit \/ EndCoalescing \/ StartLoop
           \/ EndFinishing \/ EndErasing \/ EndRefilling \/ SkipPrefill
  <2>1. UNCHANGED <<queueVars, batchVars, resultVars>>
    BY <1>1 DEF StartEngine, Exit, EndCoalescing, StartLoop, EndFinishing,
       EndErasing, EndRefilling, SkipPrefill
  <2> QED BY <1>1, <2>1, PcStep
<1>2. CASE TakeFirst \/ Coalesce \/ RunClear \/ RunSingle
  BY <1>2, TakeFirstStep, CoalesceStep, RunClearStep, RunSingleStep
<1>3. CASE RejectBatch \/ SerializeBatch \/ AdmitBatch \/ InitializeSlot
  BY <1>3, RejectBatchStep, SerializeBatchStep, AdmitBatchStep, InitializeSlotStep
<1>4. CASE Decode \/ FinishSlot \/ FailBatch \/ EraseRow
  BY <1>4, DecodeStep, FinishSlotStep, FailBatchStep, EraseRowStep
<1>5. CASE RefillFails \/ RefillDefers \/ RefillJoins
  BY <1>5, RefillFailsStep, RefillDefersStep, RefillJoinsStep
<1>6. CASE Prefill \/ RunDeferred \/ EndBatch
  BY <1>6, PrefillStep, RunDeferredStep, EndBatchStep
<1> QED BY <1>1, <1>2, <1>3, <1>4, <1>5, <1>6 DEF Worker

LEMMA NextIInv == IInv /\ [Next]_vars => IInv'
<1> SUFFICES ASSUME IInv, [Next]_vars PROVE IInv'
  OBVIOUS
<1>1. CASE \E t \in Tasks, r \in Requests : Enqueue(t, r)
  BY <1>1, EnqueueStep
<1>2. CASE Stop
  BY <1>2, StopStep
<1>3. CASE Worker
  BY <1>3, WorkerStep
<1>4. CASE UNCHANGED vars
  <2> USE <1>4 DEF vars
  <2>1. TypeOK' /\ AnsweredAtMostOnce' /\ IdleUnanswered'
    BY DEF IInv, TypeOK, AnsweredAtMostOnce, IdleUnanswered
  <2>2. QueueFresh' /\ QueueApart'
    BY DEF IInv, QueueFresh, QueueApart
  <2>3. HeldGuarded' /\ FormingFresh' /\ IdleEmpty' /\ RowsValid'
    BY DEF IInv, HeldGuarded, Guarded, FormingFresh, IdleEmpty, RowsValid
  <2> QED BY <2>1, <2>2, <2>3 DEF IInv
<1> QED BY <1>1, <1>2, <1>3, <1>4 DEF Next, Terminated

\* The inductive invariant holds in every reachable state of the executor.
THEOREM Invariance == Spec => []IInv
  BY InitIInv, NextIInv, PTL DEF Spec

\* Every variable of the executor and of the batch loop keeps its type; in
\* particular a row's prefill offset and the capacity count never go below
\* zero, which for the code's unsigned counters would be a wrap-around.
THEOREM TypeCorrect == Spec => []TypeOK
<1>1. IInv => TypeOK
  BY DEF IInv
<1> QED BY <1>1, Invariance, PTL

\* No promise is ever satisfied twice, whatever the interleaving of clients,
\* completions, engine exceptions, refills and shutdown: set_value and
\* set_exception on the worker thread never throw std::future_error.
THEOREM AtMostOneAnswer == Spec => []AnsweredAtMostOnce
<1>1. IInv => AnsweredAtMostOnce
  BY DEF IInv
<1> QED BY <1>1, Invariance, PTL

-----------------------------------------------------------------------------
(***************************************************************************)
(* The executor loses no call and implements TaskService.                  *)
(***************************************************************************)


\* The places where the worker finds a call it still has to answer.
Queue == SeqRange(tasks)
Rows == SessionTasks
Parked == SeqRange(deferred)
Held == Queue \cup BatchPending \cup Rows \cup Parked

\* A call that runs alone is alone in the batch.
SoloBatch == pc \in {"clearing", "single"} => Len(batch) = 1

\* The flag is set only with an answer.
ResolvedAnswered == \A t \in Tasks : resolved[t] => outcome[t] # <<>>

\* A finished row is dropped only after it was answered.
FinishedAnswered ==
  /\ pc = "finishing" =>
       \A i \in DOMAIN sessions :
         i < slot /\ ~sessions[i].active => outcome[sessions[i].task] # <<>>
  /\ pc = "erasing" =>
       \A i \in DOMAIN sessions :
         ~sessions[i].active => outcome[sessions[i].task] # <<>>

\* Rows, deferred requests and lone generations are generations.
GenerateRows ==
  /\ pc = "single" => \A t \in SeqRange(batch) : request[t].kind = "generate"
  /\ \A t \in Rows \cup Parked : request[t].kind = "generate"

\* The queue is the end of the order in which calls were accepted.
QueueOrder ==
  /\ \A i, j \in DOMAIN accepted : accepted[i] = accepted[j] => i = j
  /\ \A i \in DOMAIN accepted : request[accepted[i]] # NoRequest
  /\ Len(tasks) <= Len(accepted)
  /\ \A i \in DOMAIN tasks : tasks[i] = accepted[Len(accepted) - Len(tasks) + i]

HeldAccepted == Held \subseteq SeqRange(accepted)

SInv ==
  /\ SoloBatch
  /\ ResolvedAnswered
  /\ FinishedAnswered
  /\ GenerateRows
  /\ QueueOrder
  /\ HeldAccepted
  /\ NoTaskLost

-----------------------------------------------------------------------------
(* Ranges of sequences.                                                    *)

LEMMA RangeTail ==
  ASSUME NEW S, NEW s \in Seq(S), s # <<>>
  PROVE  SeqRange(s) = {Head(s)} \cup SeqRange(Tail(s))
<1>1. /\ Tail(s) \in Seq(S) /\ Len(Tail(s)) = Len(s) - 1
      /\ 1 \in DOMAIN s /\ Head(s) = s[1]
      /\ \A i \in DOMAIN Tail(s) : i + 1 \in DOMAIN s /\ Tail(s)[i] = s[i + 1]
  BY TailFacts
<1>2. Len(s) \in Nat /\ DOMAIN s = 1..Len(s) /\ DOMAIN Tail(s) = 1..(Len(s) - 1)
  BY <1>1, LenProperties
<1>3. ASSUME NEW i \in DOMAIN s, i # 1
      PROVE  \E j \in DOMAIN Tail(s) : Tail(s)[j] = s[i]
  <2>1. i - 1 \in DOMAIN Tail(s) /\ (i - 1) + 1 = i
    BY <1>2, <1>3
  <2>2. Tail(s)[i - 1] = s[(i - 1) + 1]
    BY <1>1, <2>1
  <2> QED BY <2>1, <2>2
<1> QED BY <1>1, <1>3 DEF SeqRange

LEMMA RangeAppend ==
  ASSUME NEW S, NEW s \in Seq(S), NEW e \in S
  PROVE  SeqRange(Append(s, e)) = SeqRange(s) \cup {e}
<1>1. /\ Append(s, e) \in Seq(S) /\ Len(Append(s, e)) = Len(s) + 1
      /\ \A i \in 1..Len(s) : Append(s, e)[i] = s[i]
      /\ Append(s, e)[Len(s) + 1] = e
  BY AppendProperties
<1>2. /\ Len(s) \in Nat /\ DOMAIN s = 1..Len(s)
      /\ DOMAIN Append(s, e) = 1..(Len(s) + 1)
  BY <1>1, LenProperties
<1>3. 1..(Len(s) + 1) = (1..Len(s)) \cup {Len(s) + 1}
  BY <1>2
<1> QED BY <1>1, <1>2, <1>3 DEF SeqRange

LEMMA RangeSolo ==
  ASSUME NEW S, NEW s \in Seq(S), Len(s) = 1
  PROVE  SeqRange(s) = {Head(s)}
<1>1. s # <<>> /\ DOMAIN s = {1}
  <2>1. s # <<>>
    BY EmptySeq
  <2>2. DOMAIN s = 1..1
    BY LenProperties
  <2> QED BY <2>1, <2>2
<1>2. Head(s) = s[1]
  BY <1>1, TailFacts
<1> QED BY <1>1, <1>2 DEF SeqRange

LEMMA RangeEmpty == SeqRange(<<>>) = {}
  BY DEF SeqRange

\* The calls of a list of rows.
TasksOf(rows) == {rows[i].task : i \in DOMAIN rows}

LEMMA TasksOfAppend ==
  ASSUME NEW S, NEW s \in Seq(S), NEW e \in S
  PROVE  TasksOf(Append(s, e)) = TasksOf(s) \cup {e.task}
<1>1. /\ Append(s, e) \in Seq(S) /\ Len(Append(s, e)) = Len(s) + 1
      /\ \A i \in 1..Len(s) : Append(s, e)[i] = s[i]
      /\ Append(s, e)[Len(s) + 1] = e
  BY AppendProperties
<1>2. /\ Len(s) \in Nat /\ DOMAIN s = 1..Len(s)
      /\ DOMAIN Append(s, e) = 1..(Len(s) + 1)
  BY <1>1, LenProperties
<1>3. 1..(Len(s) + 1) = (1..Len(s)) \cup {Len(s) + 1}
  BY <1>2
<1> QED BY <1>1, <1>2, <1>3 DEF TasksOf

LEMMA TasksOfRemove ==
  ASSUME NEW S, NEW s \in Seq(S), NEW i \in DOMAIN s
  PROVE  /\ TasksOf(RemoveRow(s, i)) \subseteq TasksOf(s)
         /\ TasksOf(s) \subseteq TasksOf(RemoveRow(s, i)) \cup {s[i].task}
<1> DEFINE r == RemoveRow(s, i)
<1>1. i \in 1..Len(s) /\ Len(s) \in Nat /\ DOMAIN s = 1..Len(s)
  BY LenProperties
<1>2. /\ r \in Seq(S) /\ Len(r) = Len(s) - 1
      /\ \A k \in 1..(Len(s) - 1) : r[k] = IF k < i THEN s[k] ELSE s[k + 1]
  BY <1>1, OmitFacts DEF RemoveRow, Omit
<1>3. DOMAIN r = 1..(Len(s) - 1)
  BY <1>2, LenProperties
<1> HIDE DEF r
<1>4. ASSUME NEW k \in DOMAIN r PROVE r[k].task \in TasksOf(s)
  <2>1. k \in DOMAIN s /\ k + 1 \in DOMAIN s
    BY <1>1, <1>3
  <2> QED BY <1>2, <1>3, <2>1 DEF TasksOf
<1>5. ASSUME NEW k \in DOMAIN s, k # i PROVE s[k].task \in TasksOf(r)
  <2>1. CASE k < i
    <3>1. k \in DOMAIN r /\ r[k] = s[k]
      BY <1>1, <1>2, <1>3, <2>1
    <3> QED BY <3>1 DEF TasksOf
  <2>2. CASE k > i
    <3>1. k - 1 \in DOMAIN r /\ ~(k - 1 < i) /\ (k - 1) + 1 = k
      BY <1>1, <1>3, <2>2
    <3>2. r[k - 1] = s[(k - 1) + 1]
      BY <1>2, <1>3, <3>1
    <3>3. r[k - 1] = s[k]
      BY <3>1, <3>2
    <3> QED BY <3>1, <3>3 DEF TasksOf
  <2> QED BY <1>1, <1>5, <2>1, <2>2
<1> QED BY <1>4, <1>5 DEF TasksOf, r

-----------------------------------------------------------------------------
(* What a step of the worker does to the calls.                            *)

\* The unanswered calls of S are answered with v, no other.
Answering(S, v) ==
  outcome' = [t \in Tasks |-> IF t \in S /\ outcome[t] = <<>> THEN <<v>>
                              ELSE outcome[t]]

\* The worker may answer S: a clear that runs alone, or generations that
\* left the queue or are its head.
Ready(S) ==
  /\ S \subseteq Held
  /\ \/ pc = "clearing" /\ S = {Head(batch)}
     \/ /\ pc # "clearing"
        /\ \A t \in S : /\ request[t].kind = "generate"
                        /\ t \in Queue => tasks # <<>> /\ t = Head(tasks)

\* Calls move between places and leave them only with an answer.
Moved(S, v) ==
  /\ UNCHANGED <<request, accepted>>
  /\ tasks' = tasks \/ (tasks # <<>> /\ tasks' = Tail(tasks))
  /\ Answering(S, v)
  /\ Ready(S)
  /\ Held' \subseteq Held
  /\ \A t \in Held : t \in Held' \/ t \in S \/ outcome[t] # <<>>
  /\ SoloBatch' /\ ResolvedAnswered' /\ FinishedAnswered' /\ GenerateRows'

Answers == {"value", "error"}

Moves == \E S \in SUBSET Tasks, v \in Answers : Moved(S, v)

LEMMA SettleAnswers ==
  ASSUME TypeOK, ResolvedAnswered, NEW S \in SUBSET Tasks, NEW v \in Answers,
         \A t \in S : Guarded(t), Settle(S, v)
  PROVE  Answering(S, v) /\ ResolvedAnswered'
<1>1. \A t \in Tasks : Append(outcome[t], v) # <<>>
  <2>1. ASSUME NEW s \in Seq(Answers) PROVE Append(s, v) # <<>>
    <3>1. Len(Append(s, v)) = Len(s) + 1 /\ Len(s) \in Nat
      BY AppendProperties, LenProperties
    <3> QED BY <3>1, EmptySeq
  <2>2. \A t \in Tasks : outcome[t] \in Seq(Answers)
    BY DEF TypeOK, Answers
  <2> QED BY <2>1, <2>2
<1>2. Append(<<>>, v) = <<v>>
  OBVIOUS
<1>3. \A t \in S : resolved[t] <=> outcome[t] # <<>>
  BY DEF Guarded, ResolvedAnswered
<1>4. ASSUME NEW t \in Tasks
      PROVE  outcome'[t] = IF t \in S /\ outcome[t] = <<>> THEN <<v>> ELSE outcome[t]
  <2>1. outcome'[t] = IF t \in S /\ ~resolved[t] THEN Append(outcome[t], v)
                      ELSE outcome[t]
    BY DEF Settle
  <2> QED BY <1>2, <1>3, <2>1
<1>5. outcome' = [t \in Tasks |-> outcome'[t]]
  BY DEF Settle
<1>6. Answering(S, v)
  BY <1>4, <1>5 DEF Answering
<1>7. \A t \in Tasks : resolved'[t] <=> (resolved[t] \/ t \in S)
  BY Zenon DEF Settle
<1>8. <<v>> # <<>>
  OBVIOUS
<1>9. ResolvedAnswered'
  BY <1>4, <1>7, <1>8 DEF ResolvedAnswered
<1> QED BY <1>6, <1>9

LEMMA SetDirectlyAnswers ==
  ASSUME TypeOK, ResolvedAnswered, NEW t \in Tasks, NEW v \in Answers,
         outcome[t] = <<>>, SetDirectly(t, v)
  PROVE  Answering({t}, v) /\ ResolvedAnswered'
<1>1. Append(<<>>, v) = <<v>> /\ <<v>> # <<>>
  OBVIOUS
<1>2. outcome' = [outcome EXCEPT ![t] = Append(outcome[t], v)]
  BY DEF SetDirectly
<1>3. \A u \in Tasks :
        outcome'[u] = IF u \in {t} /\ outcome[u] = <<>> THEN <<v>> ELSE outcome[u]
  BY <1>1, <1>2 DEF TypeOK
<1>4. outcome' = [u \in Tasks |-> outcome'[u]]
  BY <1>2 DEF TypeOK
<1>5. Answering({t}, v)
  BY <1>3, <1>4 DEF Answering
<1>6. ResolvedAnswered'
  BY <1>1, <1>3 DEF ResolvedAnswered, SetDirectly
<1> QED BY <1>5, <1>6

\* A step without an answer.
LEMMA NoAnswer ==
  ASSUME TypeOK, ResolvedAnswered, UNCHANGED <<resolved, outcome>>
  PROVE  /\ {} \in SUBSET Tasks /\ "value" \in Answers
         /\ Answering({}, "value") /\ ResolvedAnswered'
<1>1. outcome = [t \in Tasks |-> outcome[t]]
  BY DEF TypeOK
<1>2. Answering({}, "value")
  BY <1>1 DEF Answering
<1> QED BY <1>2 DEF ResolvedAnswered, Answers

\* Ready holds of nothing when nobody is clearing.
LEMMA ReadyNone == ASSUME pc # "clearing" PROVE Ready({})
  BY DEF Ready

-----------------------------------------------------------------------------
(* Steps that move pc only.                                                *)

LEMMA PcMoves ==
  ASSUME IInv, SInv, UNCHANGED <<queueVars, batchVars, resultVars>>,
         \/ StartEngine \/ Exit \/ EndCoalescing \/ StartLoop
         \/ EndFinishing \/ EndErasing \/ EndRefilling \/ SkipPrefill
  PROVE  Moves
<1> USE DEF queueVars, batchVars, resultVars
<1>1. pc # "clearing"
  BY DEF StartEngine, Exit, EndCoalescing, StartLoop, EndFinishing, EndErasing,
     EndRefilling, SkipPrefill
<1>2. Ready({}) /\ Answering({}, "value") /\ ResolvedAnswered'
  BY <1>1, ReadyNone, NoAnswer DEF IInv, SInv
<1>3. Queue' = Queue /\ Rows' = Rows /\ Parked' = Parked
  BY DEF Queue, Rows, Parked, SessionTasks, SeqRange
<1>4. BatchPending' = BatchPending
  <2>1. CASE StartEngine \/ Exit \/ EndFinishing \/ EndErasing \/ EndRefilling
             \/ SkipPrefill
    BY <2>1 DEF StartEngine, Exit, EndFinishing, EndErasing, EndRefilling,
       SkipPrefill, LoopHead, BatchPending
  <2>2. CASE EndCoalescing
    BY <2>2 DEF EndCoalescing, BatchPending, SeqRange
  <2>3. CASE StartLoop
    <3>1. slot..Len(batch) = {}
      <4>1. slot \in Nat /\ Len(batch) \in Nat /\ slot > Len(batch)
        BY <2>3, LenProperties DEF IInv, TypeOK, StartLoop
      <4> QED BY <4>1
    <3> QED BY <2>3, <3>1 DEF StartLoop, LoopHead, BatchPending
  <2> QED BY <2>1, <2>2, <2>3
<1>5. Held' = Held
  BY <1>3, <1>4 DEF Held
<1>6. SoloBatch'
  BY DEF SInv, SoloBatch, StartEngine, Exit, EndCoalescing, StartLoop, LoopHead,
     EndFinishing, EndErasing, EndRefilling, SkipPrefill
<1>7. FinishedAnswered'
  <2>1. CASE EndFinishing
    <3>1. DOMAIN sessions = 1..Len(sessions) /\ Len(sessions) \in Nat /\ slot \in Nat
      BY LenProperties DEF IInv, TypeOK
    <3>2. \A i \in DOMAIN sessions : i < slot
      BY <2>1, <3>1 DEF EndFinishing
    <3> QED BY <2>1, <3>2 DEF EndFinishing, SInv, FinishedAnswered
  <2>2. CASE ~EndFinishing
    <3>1. pc' # "finishing" /\ pc' # "erasing"
      BY <2>2 DEF StartEngine, Exit, EndCoalescing, StartLoop, LoopHead,
         EndErasing, EndRefilling, SkipPrefill
    <3> QED BY <3>1 DEF FinishedAnswered
  <2> QED BY <2>1, <2>2
<1>8. GenerateRows'
  <2>1. pc' = "single" => \A t \in SeqRange(batch) : request[t].kind = "generate"
    <3>1. pc' = "single" => pc = "coalescing"
      BY DEF StartEngine, Exit, EndCoalescing, StartLoop, LoopHead,
         EndFinishing, EndErasing, EndRefilling, SkipPrefill
    <3> QED BY <3>1 DEF IInv, RowsValid, SeqRange
  <2> QED BY <1>3, <2>1 DEF SInv, GenerateRows, SeqRange
<1>9. Moved({}, "value")
  BY <1>2, <1>5, <1>6, <1>7, <1>8 DEF Moved
<1> QED BY <1>9 DEF Moves, Answers

-----------------------------------------------------------------------------
(* Steps that take calls from the queue into the batch.                    *)

LEMMA PopMoves ==
  ASSUME IInv, tasks # <<>>, tasks' = Tail(tasks)
  PROVE  /\ Queue = {Head(tasks)} \cup Queue'
         /\ Head(tasks) \in Tasks /\ Head(tasks) \in Held
         /\ request[Head(tasks)] # NoRequest
<1>1. tasks \in Seq(Tasks)
  BY DEF IInv, TypeOK
<1>2. Queue = {Head(tasks)} \cup SeqRange(Tail(tasks))
  BY <1>1, RangeTail DEF Queue
<1>3. Queue' = SeqRange(Tail(tasks))
  BY DEF Queue, SeqRange
<1> QED BY <1>2, <1>3, PopFacts DEF Held

LEMMA TakeFirstMoves == ASSUME IInv, SInv, TakeFirst PROVE Moves
<1> DEFINE t == Head(tasks)
<1>0. /\ tasks # <<>> /\ tasks' = Tail(tasks) /\ batch' = <<t>> /\ pc = "waiting"
      /\ pc' \in {"clearing", "single", "coalescing"}
      /\ pc' = "single" => request[t].kind # "clear"
  BY DEF TakeFirst
<1>1. Queue = {t} \cup Queue' /\ t \in Tasks /\ request[t] # NoRequest
  BY <1>0, PopMoves
<1> HIDE DEF t
<1>2. UNCHANGED <<request, accepted, slot, sessions, deferred, resolved, outcome>>
  BY DEF TakeFirst, resultVars
<1>3. Rows' = Rows /\ Parked' = Parked
  BY <1>2 DEF Rows, Parked, SessionTasks, SeqRange
<1>4. SeqRange(batch') = {t} /\ Len(batch') = 1
  BY <1>0, <1>1 DEF SeqRange
<1>5. BatchPending = {} /\ BatchPending' = {t}
  BY <1>0, <1>4 DEF BatchPending, SeqRange
<1>6. Held' = Held
  BY <1>1, <1>3, <1>5 DEF Held
<1>7. Ready({}) /\ Answering({}, "value") /\ ResolvedAnswered'
  BY <1>0, <1>2, ReadyNone, NoAnswer DEF IInv, SInv
<1>8. SoloBatch' /\ FinishedAnswered'
  BY <1>0, <1>4 DEF SoloBatch, FinishedAnswered
<1>9. request[t].kind \in {"generate", "clear"}
  BY <1>1, ExecutorAssumption DEF IInv, TypeOK, RequestType
<1>10. GenerateRows'
  BY <1>0, <1>2, <1>3, <1>4, <1>9 DEF SInv, GenerateRows, SeqRange
<1>11. Moved({}, "value")
  BY <1>0, <1>2, <1>6, <1>7, <1>8, <1>10 DEF Moved
<1> QED BY <1>11 DEF Moves, Answers

LEMMA CoalesceMoves == ASSUME IInv, SInv, Coalesce PROVE Moves
<1> DEFINE t == Head(tasks)
<1>0. /\ tasks # <<>> /\ tasks' = Tail(tasks) /\ batch' = Append(batch, t)
      /\ pc = "coalescing" /\ pc' = pc
  BY DEF Coalesce
<1>1. Queue = {t} \cup Queue' /\ t \in Tasks
  BY <1>0, PopMoves
<1> HIDE DEF t
<1>2. UNCHANGED <<request, accepted, slot, sessions, deferred, resolved, outcome>>
  BY DEF Coalesce, resultVars
<1>3. Rows' = Rows /\ Parked' = Parked
  BY <1>2 DEF Rows, Parked, SessionTasks, SeqRange
<1>4. SeqRange(batch') = SeqRange(batch) \cup {t}
  BY <1>0, <1>1, RangeAppend DEF IInv, TypeOK
<1>5. BatchPending = SeqRange(batch) /\ BatchPending' = SeqRange(batch) \cup {t}
  BY <1>0, <1>4 DEF BatchPending, SeqRange
<1>6. Held' = Held
  BY <1>1, <1>3, <1>5 DEF Held
<1>7. Ready({}) /\ Answering({}, "value") /\ ResolvedAnswered'
  BY <1>0, <1>2, ReadyNone, NoAnswer DEF IInv, SInv
<1>8. SoloBatch' /\ FinishedAnswered' /\ GenerateRows'
  BY <1>0, <1>2, <1>3 DEF SInv, SoloBatch, FinishedAnswered, GenerateRows
<1>9. Moved({}, "value")
  BY <1>0, <1>2, <1>6, <1>7, <1>8 DEF Moved
<1> QED BY <1>9 DEF Moves, Answers

-----------------------------------------------------------------------------
(* Steps that empty the batch.                                             *)

\* The calls of S were all there was to answer.
LEMMA BackToWait ==
  ASSUME IInv, SInv, UNCHANGED <<request, accepted, tasks, sessions, deferred>>,
         batch' = <<>>, pc' = "waiting", sessions = <<>>, deferred = <<>>,
         NEW S \in SUBSET Tasks, NEW v \in Answers, Answering(S, v), Ready(S),
         BatchPending \subseteq S, ResolvedAnswered'
  PROVE  Moves
<1>1. Queue' = Queue /\ Rows' = Rows /\ Parked' = Parked
  BY DEF Queue, Rows, Parked, SessionTasks, SeqRange
<1>2. BatchPending' = {}
  BY DEF BatchPending
<1>3. Held' \subseteq Held /\ \A t \in Held : t \in Held' \/ t \in S
  BY <1>1, <1>2 DEF Held
<1>4. SoloBatch' /\ FinishedAnswered'
  BY DEF SoloBatch, FinishedAnswered
<1>5. GenerateRows'
  BY <1>1 DEF SInv, GenerateRows
<1>6. Moved(S, v)
  BY <1>3, <1>4, <1>5 DEF Moved
<1> QED BY <1>6 DEF Moves

LEMMA RunClearMoves == ASSUME IInv, SInv, RunClear PROVE Moves
<1> DEFINE t == Head(batch)
<1>0. pc = "clearing" /\ pc' = "waiting" /\ batch' = <<>>
  BY DEF RunClear
<1>1. UNCHANGED <<request, accepted, tasks, sessions, deferred>>
  BY DEF RunClear, queueVars
<1>2. sessions = <<>> /\ deferred = <<>>
  BY <1>0 DEF IInv, IdleEmpty
<1>3. t \in Tasks /\ 1 \in DOMAIN batch /\ t = batch[1]
  BY <1>0, TailFacts DEF IInv, TypeOK, FormingFresh
<1>4. outcome[t] = <<>>
  BY <1>0, <1>3 DEF IInv, FormingFresh
<1>5. PICK v \in Answers : SetDirectly(t, v)
  BY DEF RunClear, Answers
<1>6. SeqRange(batch) = {t}
  BY <1>0, RangeSolo DEF IInv, TypeOK, SInv, SoloBatch
<1>7. BatchPending = {t}
  BY <1>0, <1>6 DEF BatchPending
<1>8. Ready({t})
  BY <1>0, <1>7 DEF Ready, Held
<1> HIDE DEF t
<1>9. Answering({t}, v) /\ ResolvedAnswered'
  BY <1>3, <1>4, <1>5, SetDirectlyAnswers DEF IInv, SInv
<1> QED BY <1>0, <1>1, <1>2, <1>3, <1>7, <1>8, <1>9, BackToWait

LEMMA RunSingleMoves == ASSUME IInv, SInv, RunSingle PROVE Moves
<1> DEFINE t == Head(batch)
<1>0. pc = "single" /\ pc' = "waiting" /\ batch' = <<>>
  BY DEF RunSingle
<1>1. UNCHANGED <<request, accepted, tasks, sessions, deferred>>
  BY DEF RunSingle, queueVars
<1>2. sessions = <<>> /\ deferred = <<>>
  BY <1>0 DEF IInv, IdleEmpty
<1>3. t \in Tasks /\ 1 \in DOMAIN batch /\ t = batch[1]
  BY <1>0, TailFacts DEF IInv, TypeOK, FormingFresh
<1>4. outcome[t] = <<>> /\ Guarded(t)
  BY <1>0, <1>3 DEF IInv, FormingFresh, HeldGuarded
<1>5. SetDirectly(t, "value") \/ Settle({t}, "error")
  BY DEF RunSingle
<1>6. SeqRange(batch) = {t}
  BY <1>0, RangeSolo DEF IInv, TypeOK, SInv, SoloBatch
<1>7. BatchPending = {t}
  BY <1>0, <1>6 DEF BatchPending
<1>8. Ready({t})
  <2>1. t \notin Queue
    BY <1>3 DEF IInv, QueueApart, Queue, SeqRange
  <2>2. request[t].kind = "generate"
    BY <1>0, <1>6 DEF SInv, GenerateRows
  <2> QED BY <1>0, <1>7, <2>1, <2>2 DEF Ready, Held
<1> HIDE DEF t
<1>9. \E v \in Answers : Answering({t}, v) /\ ResolvedAnswered'
  <2>1. CASE SetDirectly(t, "value")
    BY <1>3, <1>4, <2>1, SetDirectlyAnswers DEF IInv, SInv, Answers
  <2>2. CASE Settle({t}, "error")
    BY <1>3, <1>4, <2>2, SettleAnswers DEF IInv, SInv, Answers
  <2> QED BY <1>5, <2>1, <2>2
<1> QED BY <1>0, <1>1, <1>2, <1>3, <1>7, <1>8, <1>9, BackToWait

LEMMA RejectBatchMoves == ASSUME IInv, SInv, RejectBatch PROVE Moves
<1> DEFINE S == SeqRange(batch)
<1>0. pc = "validating" /\ pc' = "waiting" /\ batch' = <<>>
  BY DEF RejectBatch
<1>1. UNCHANGED <<request, accepted, tasks, sessions, deferred>>
  BY DEF RejectBatch, queueVars
<1>2. sessions = <<>> /\ deferred = <<>>
  BY <1>0 DEF IInv, IdleEmpty
<1>3. /\ S \in SUBSET Tasks
      /\ \A t \in S : Guarded(t)
      /\ \A t \in S : t \notin Queue
      /\ \A t \in S : request[t].kind = "generate"
  BY <1>0, HeldTasks DEF IInv, SeqRange, HeldGuarded, QueueApart, Queue, RowsValid
<1>4. Settle(S, "error")
  BY DEF RejectBatch
<1>5. BatchPending = S
  BY <1>0 DEF BatchPending
<1> HIDE DEF S
<1>6. Ready(S)
  BY <1>0, <1>3, <1>5 DEF Ready, Held
<1>7. Answering(S, "error") /\ ResolvedAnswered' /\ "error" \in Answers
  BY <1>3, <1>4, SettleAnswers DEF IInv, SInv, Answers
<1> QED BY <1>0, <1>1, <1>2, <1>3, <1>5, <1>6, <1>7, BackToWait

LEMMA EndBatchMoves == ASSUME IInv, SInv, EndBatch PROVE Moves
<1>0. pc = "serial" /\ pc' = "waiting" /\ batch' = <<>> /\ deferred = <<>>
  BY DEF EndBatch
<1>1. UNCHANGED <<request, accepted, tasks, sessions, deferred, resolved, outcome>>
  BY DEF EndBatch, queueVars, resultVars
<1>2. sessions = <<>>
  BY <1>0 DEF IInv, IdleEmpty
<1>3. Ready({}) /\ Answering({}, "value") /\ ResolvedAnswered'
      /\ {} \in SUBSET Tasks /\ "value" \in Answers
  BY <1>0, <1>1, ReadyNone, NoAnswer DEF IInv, SInv
<1>4. BatchPending \subseteq {}
  BY <1>0 DEF BatchPending
<1> QED BY <1>0, <1>1, <1>2, <1>3, <1>4, BackToWait

LEMMA FailBatchMoves == ASSUME IInv, SInv, FailBatch PROVE Moves
<1> DEFINE S == SessionTasks \cup SeqRange(deferred)
<1>0. /\ pc' = "waiting" /\ batch' = <<>> /\ sessions' = <<>> /\ deferred' = <<>>
      /\ pc \in {"decoding", "finishing"}
  BY DEF FailBatch
<1>1. UNCHANGED <<request, accepted, tasks>>
  BY DEF FailBatch, queueVars
<1>2. /\ S \in SUBSET Tasks
      /\ \A t \in S : Guarded(t)
      /\ \A t \in S : t \notin Queue
  BY HeldTasks DEF IInv, SeqRange, SessionTasks, HeldGuarded, QueueApart, Queue
<1>3. Settle(S, "error")
  BY DEF FailBatch
<1>4. S = Rows \cup Parked
  BY DEF Rows, Parked
<1> HIDE DEF S
<1>5. Answering(S, "error") /\ ResolvedAnswered' /\ "error" \in Answers
  BY <1>2, <1>3, SettleAnswers DEF IInv, SInv, Answers
<1>6. Ready(S)
  BY <1>0, <1>2, <1>4 DEF Ready, Held, SInv, GenerateRows
<1>7. /\ Queue' = Queue /\ Rows' = {} /\ Parked' = {}
      /\ BatchPending = {} /\ BatchPending' = {}
  BY <1>0, <1>1 DEF Queue, Rows, Parked, SessionTasks, SeqRange, BatchPending
<1>8. Held' \subseteq Held /\ \A t \in Held : t \in Held' \/ t \in S
  BY <1>4, <1>7 DEF Held
<1>9. SoloBatch' /\ FinishedAnswered' /\ GenerateRows'
  BY <1>0, <1>7 DEF SoloBatch, FinishedAnswered, GenerateRows
<1>10. Moved(S, "error")
  BY <1>1, <1>5, <1>6, <1>8, <1>9 DEF Moved
<1> QED BY <1>2, <1>5, <1>10 DEF Moves

-----------------------------------------------------------------------------
(* Steps that turn the batch into rows.                                    *)

LEMMA SerializeBatchMoves == ASSUME IInv, SInv, SerializeBatch PROVE Moves
<1>0. pc = "validating" /\ pc' = "serial" /\ deferred' = batch
  BY DEF SerializeBatch
<1>1. UNCHANGED <<request, accepted, tasks, batch, sessions, resolved, outcome>>
  BY DEF SerializeBatch, queueVars, resultVars
<1>2. /\ Queue' = Queue /\ Rows' = Rows /\ Parked = {}
      /\ Parked' = BatchPending /\ BatchPending' = {}
  BY <1>0, <1>1 DEF IInv, IdleEmpty, Queue, Rows, Parked, SessionTasks, SeqRange,
     BatchPending
<1>3. Held' = Held
  BY <1>2 DEF Held
<1>4. Ready({}) /\ Answering({}, "value") /\ ResolvedAnswered'
  BY <1>0, <1>1, ReadyNone, NoAnswer DEF IInv, SInv
<1>5. SoloBatch' /\ FinishedAnswered'
  BY <1>0 DEF SoloBatch, FinishedAnswered
<1>6. \A t \in BatchPending : request[t].kind = "generate"
  BY <1>0 DEF BatchPending, IInv, RowsValid, SeqRange
<1>7. GenerateRows'
  BY <1>0, <1>1, <1>2, <1>6 DEF SInv, GenerateRows
<1>8. Moved({}, "value")
  BY <1>1, <1>3, <1>4, <1>5, <1>7 DEF Moved
<1> QED BY <1>8 DEF Moves, Answers

LEMMA AdmitBatchMoves == ASSUME IInv, SInv, AdmitBatch PROVE Moves
<1>0. pc = "validating" /\ pc' = "initializing" /\ slot' = 1
  BY DEF AdmitBatch
<1>1. UNCHANGED <<request, accepted, tasks, batch, sessions, deferred, resolved,
                  outcome>>
  BY DEF AdmitBatch, queueVars, resultVars
<1>2. Queue' = Queue /\ Rows' = Rows /\ Parked' = Parked
  BY <1>1 DEF Queue, Rows, Parked, SessionTasks, SeqRange
<1>3. DOMAIN batch = 1..Len(batch)
  BY LenProperties DEF IInv, TypeOK
<1>4. BatchPending' = BatchPending
  BY <1>0, <1>1, <1>3 DEF BatchPending, SeqRange
<1>5. Held' = Held
  BY <1>2, <1>4 DEF Held
<1>6. Ready({}) /\ Answering({}, "value") /\ ResolvedAnswered'
  BY <1>0, <1>1, ReadyNone, NoAnswer DEF IInv, SInv
<1>7. SoloBatch' /\ FinishedAnswered' /\ GenerateRows'
  BY <1>0, <1>1, <1>2 DEF SInv, SoloBatch, FinishedAnswered, GenerateRows
<1>8. Moved({}, "value")
  BY <1>1, <1>5, <1>6, <1>7 DEF Moved
<1> QED BY <1>8 DEF Moves, Answers

LEMMA InitializeSlotMoves == ASSUME IInv, SInv, InitializeSlot PROVE Moves
<1> DEFINE t == batch[slot]
<1>0. pc = "initializing" /\ pc' = pc /\ slot' = slot + 1
  BY DEF InitializeSlot
<1>1. UNCHANGED <<request, accepted, tasks, batch, deferred>>
  BY DEF InitializeSlot, queueVars
<1>2. slot \in DOMAIN batch /\ slot \in Nat /\ Len(batch) \in Nat
      /\ slot <= Len(batch)
  BY <1>0, LenProperties DEF IInv, TypeOK, RowsValid, InitializeSlot
<1>3. /\ t \in Tasks /\ Guarded(t) /\ request[t].prompt > 0
      /\ request[t].kind = "generate" /\ t \notin Queue
  BY <1>0, <1>2, HeldTasks
     DEF IInv, HeldGuarded, RowsValid, QueueApart, Queue, SeqRange
<1>4. Queue' = Queue /\ Parked' = Parked
  BY <1>1 DEF Queue, Parked, SeqRange
<1>5. BatchPending = {t} \cup BatchPending'
  <2>1. slot..Len(batch) = {slot} \cup (slot + 1)..Len(batch)
    BY <1>2
  <2>2. /\ BatchPending = {batch[i] : i \in slot..Len(batch)}
        /\ BatchPending' = {batch[i] : i \in (slot + 1)..Len(batch)}
    BY <1>0, <1>1 DEF BatchPending
  <2> QED BY <2>1, <2>2
<1> HIDE DEF t
<1>6. SoloBatch' /\ FinishedAnswered'
  BY <1>0 DEF SoloBatch, FinishedAnswered
<1>7. CASE sessions' = Append(sessions, NewSession(t, PrefillRows(t)))
           /\ UNCHANGED <<resolved, outcome>>
  <2>1. NewSession(t, PrefillRows(t)) \in SessionType
        /\ NewSession(t, PrefillRows(t)).task = t
    BY <1>3, NewSessionType DEF IInv
  <2>2. TasksOf(sessions') = TasksOf(sessions) \cup {t}
    BY <1>7, <2>1, TasksOfAppend DEF IInv, TypeOK
  <2>3. Rows' = Rows \cup {t}
    BY <2>2 DEF Rows, SessionTasks, TasksOf
  <2>4. Held' = Held
    BY <1>4, <1>5, <2>3 DEF Held
  <2>5. Ready({}) /\ Answering({}, "value") /\ ResolvedAnswered'
    BY <1>0, <1>7, ReadyNone, NoAnswer DEF IInv, SInv
  <2>6. GenerateRows'
    BY <1>0, <1>1, <1>3, <1>4, <2>3 DEF SInv, GenerateRows
  <2>7. Moved({}, "value")
    BY <1>1, <1>6, <2>4, <2>5, <2>6 DEF Moved
  <2> QED BY <2>7 DEF Moves, Answers
<1>8. CASE Settle({t}, "error") /\ UNCHANGED sessions
  <2>1. Rows' = Rows
    BY <1>8 DEF Rows, SessionTasks
  <2>2. Held' \subseteq Held /\ \A u \in Held : u \in Held' \/ u \in {t}
    BY <1>4, <1>5, <2>1 DEF Held
  <2>3. Answering({t}, "error") /\ ResolvedAnswered'
    BY <1>3, <1>8, SettleAnswers DEF IInv, SInv, Answers
  <2>4. Ready({t})
    BY <1>0, <1>3, <1>5 DEF Ready, Held
  <2>5. GenerateRows'
    BY <1>0, <1>1, <1>4, <2>1 DEF SInv, GenerateRows
  <2>6. Moved({t}, "error")
    BY <1>1, <1>6, <2>2, <2>3, <2>4, <2>5 DEF Moved
  <2> QED BY <1>3, <2>6 DEF Moves, Answers
<1> QED BY <1>7, <1>8 DEF InitializeSlot, resultVars, t

-----------------------------------------------------------------------------
(* The decoding loop.                                                      *)

\* What stays true between two steps of the loop that keep the batch's calls
\* where they are.
LEMMA LoopMoves ==
  ASSUME IInv, SInv, UNCHANGED <<request, accepted>>,
         pc \in {"decoding", "finishing", "erasing", "refilling", "prefilling", "serial"},
         pc' \in {"decoding", "finishing", "erasing", "refilling", "prefilling", "serial"},
         tasks' = tasks \/ (tasks # <<>> /\ tasks' = Tail(tasks)),
         NEW S \in SUBSET Tasks, NEW v \in Answers, Answering(S, v), Ready(S),
         ResolvedAnswered', FinishedAnswered',
         \A t \in Rows' \cup Parked' : request[t].kind = "generate",
         Queue' \cup Rows' \cup Parked' \subseteq Queue \cup Rows \cup Parked,
         \A t \in Queue \cup Rows \cup Parked :
            t \in Queue' \cup Rows' \cup Parked' \/ t \in S \/ outcome[t] # <<>>
  PROVE  Moves
<1>1. BatchPending = {} /\ BatchPending' = {}
  BY DEF BatchPending
<1>2. /\ Held' \subseteq Held
      /\ \A t \in Held : t \in Held' \/ t \in S \/ outcome[t] # <<>>
  BY <1>1 DEF Held
<1>3. SoloBatch' /\ GenerateRows'
  BY DEF SoloBatch, GenerateRows
<1>4. Moved(S, v)
  BY <1>2, <1>3 DEF Moved
<1> QED BY <1>4 DEF Moves

LEMMA DecodeMoves == ASSUME IInv, SInv, Decode PROVE Moves
<1>0. pc = "decoding" /\ pc' = "finishing" /\ slot' = 1
  BY DEF Decode
<1>1. UNCHANGED <<request, accepted, tasks, batch, deferred, resolved, outcome>>
  BY DEF Decode, queueVars, resultVars
<1>2. PICK result \in [DOMAIN sessions -> {"token", "stop", "cancelled"}] :
        sessions' = [i \in DOMAIN sessions |-> DecodedRow(sessions[i], result[i])]
  BY DEF Decode
<1>3. /\ DOMAIN sessions' = DOMAIN sessions
      /\ \A i \in DOMAIN sessions : sessions'[i].task = sessions[i].task
  BY <1>2, HeldTasks DEF IInv, DecodedRow, SessionType
<1>4. Rows' = Rows /\ Queue' = Queue /\ Parked' = Parked
  BY <1>1, <1>3 DEF Rows, Queue, Parked, SessionTasks, SeqRange
<1>5. DOMAIN sessions = 1..Len(sessions) /\ Len(sessions) \in Nat
  BY LenProperties DEF IInv, TypeOK
<1>6. FinishedAnswered'
  BY <1>0, <1>3, <1>5 DEF FinishedAnswered
<1>7. /\ Ready({}) /\ Answering({}, "value") /\ ResolvedAnswered'
      /\ {} \in SUBSET Tasks /\ "value" \in Answers
  BY <1>0, <1>1, ReadyNone, NoAnswer DEF IInv, SInv
<1>8. \A t \in Rows' \cup Parked' : request[t].kind = "generate"
  BY <1>4 DEF SInv, GenerateRows
<1> QED BY <1>0, <1>1, <1>4, <1>6, <1>7, <1>8, LoopMoves

LEMMA FinishSlotMoves == ASSUME IInv, SInv, FinishSlot PROVE Moves
<1> DEFINE t == sessions[slot].task
<1>0. pc = "finishing" /\ pc' = pc /\ slot' = slot + 1
  BY DEF FinishSlot
<1>1. UNCHANGED <<request, accepted, tasks, sessions, deferred>>
  BY DEF FinishSlot, queueVars
<1>2. /\ slot \in DOMAIN sessions /\ slot \in Nat
      /\ DOMAIN sessions = 1..Len(sessions) /\ Len(sessions) \in Nat
  BY <1>0, LenProperties DEF IInv, TypeOK, RowsValid, FinishSlot
<1>3. t \in Tasks /\ Guarded(t) /\ t \in Rows /\ t \notin Queue
  BY <1>2, HeldTasks
     DEF IInv, HeldGuarded, QueueApart, Queue, SeqRange, Rows, SessionTasks
<1>4. Rows' = Rows /\ Queue' = Queue /\ Parked' = Parked
  BY <1>1 DEF Rows, Queue, Parked, SessionTasks, SeqRange
<1>5. \A u \in Rows' \cup Parked' : request[u].kind = "generate"
  BY <1>4 DEF SInv, GenerateRows
<1>6. \A i \in DOMAIN sessions : i < slot' => i < slot \/ i = slot
  BY <1>0, <1>2
<1>7. CASE sessions[slot].active /\ UNCHANGED <<resolved, outcome>>
  <2>1. /\ Ready({}) /\ Answering({}, "value") /\ ResolvedAnswered'
        /\ {} \in SUBSET Tasks /\ "value" \in Answers
    BY <1>0, <1>7, ReadyNone, NoAnswer DEF IInv, SInv
  <2>2. FinishedAnswered'
    BY <1>0, <1>1, <1>6, <1>7 DEF SInv, FinishedAnswered
  <2> QED BY <1>0, <1>1, <1>4, <1>5, <2>1, <2>2, LoopMoves
<1>8. CASE Settle({t}, "value")
  <2>1. Ready({t})
    BY <1>0, <1>3 DEF Ready, Held, SInv, GenerateRows
  <2>2. Answering({t}, "value") /\ ResolvedAnswered' /\ {t} \in SUBSET Tasks
        /\ "value" \in Answers
    BY <1>3, <1>8, SettleAnswers DEF IInv, SInv, Answers
  <2>3. /\ outcome'[t] # <<>>
        /\ \A u \in Tasks : outcome[u] # <<>> => outcome'[u] # <<>>
    BY <1>3, <2>2 DEF Answering
  <2>4. FinishedAnswered'
    BY <1>0, <1>1, <1>6, <2>3, HeldTasks DEF IInv, SInv, FinishedAnswered
  <2> HIDE DEF t
  <2> QED BY <1>0, <1>1, <1>4, <1>5, <2>1, <2>2, <2>4, LoopMoves
<1> QED BY <1>7, <1>8 DEF FinishSlot, resultVars

LEMMA EraseRowMoves == ASSUME IInv, SInv, EraseRow PROVE Moves
<1>0. pc = "erasing" /\ pc' = pc
  BY DEF EraseRow
<1>1. UNCHANGED <<request, accepted, tasks, deferred, resolved, outcome>>
  BY DEF EraseRow, queueVars, resultVars
<1>2. PICK i \in DOMAIN sessions :
        ~sessions[i].active /\ sessions' = RemoveRow(sessions, i)
  BY DEF EraseRow
<1>3. /\ Rows' \subseteq Rows
      /\ Rows \subseteq Rows' \cup {sessions[i].task}
  <2>1. /\ TasksOf(sessions') \subseteq TasksOf(sessions)
        /\ TasksOf(sessions) \subseteq TasksOf(sessions') \cup {sessions[i].task}
    BY <1>2, TasksOfRemove DEF IInv, TypeOK
  <2> QED BY <2>1 DEF Rows, SessionTasks, TasksOf
<1>4. outcome[sessions[i].task] # <<>>
  BY <1>0, <1>2 DEF SInv, FinishedAnswered
<1>5. Queue' = Queue /\ Parked' = Parked
  BY <1>1 DEF Queue, Parked, SeqRange
<1>6. FinishedAnswered'
  <2>1. \A k \in DOMAIN sessions' :
          \E j \in DOMAIN sessions : sessions'[k] = sessions[j]
    BY <1>2, RemoveRowKeeps DEF IInv
  <2> QED BY <1>0, <1>1, <2>1 DEF SInv, FinishedAnswered
<1>7. /\ Ready({}) /\ Answering({}, "value") /\ ResolvedAnswered'
      /\ {} \in SUBSET Tasks /\ "value" \in Answers
  BY <1>0, <1>1, ReadyNone, NoAnswer DEF IInv, SInv
<1>8. \A t \in Rows' \cup Parked' : request[t].kind = "generate"
  BY <1>3, <1>5 DEF SInv, GenerateRows
<1>9. \A t \in Queue \cup Rows \cup Parked :
        t \in Queue' \cup Rows' \cup Parked' \/ t \in {} \/ outcome[t] # <<>>
  BY <1>3, <1>4, <1>5
<1> QED BY <1>0, <1>1, <1>3, <1>5, <1>6, <1>7, <1>8, <1>9, LoopMoves

LEMMA RefillFailsMoves == ASSUME IInv, SInv, RefillFails PROVE Moves
<1> DEFINE t == Head(tasks)
<1>0. /\ tasks # <<>> /\ tasks' = Tail(tasks) /\ pc = "refilling" /\ pc' = pc
      /\ request[t].kind = "generate"
  BY DEF RefillFails, Refilled, Batchable
<1>1. Queue = {t} \cup Queue' /\ t \in Tasks /\ t \in Held
  BY <1>0, PopMoves
<1>2. Guarded(t)
  BY <1>0, PopFacts DEF Guarded
<1>3. Settle({t}, "error")
  BY DEF RefillFails
<1>4. Ready({t})
  BY <1>0, <1>1 DEF Ready
<1> HIDE DEF t
<1>5. UNCHANGED <<request, accepted, sessions, deferred>>
  BY DEF RefillFails, batchVars
<1>6. Rows' = Rows /\ Parked' = Parked
  BY <1>5 DEF Rows, Parked, SessionTasks, SeqRange
<1>7. Answering({t}, "error") /\ ResolvedAnswered' /\ {t} \in SUBSET Tasks
      /\ "error" \in Answers
  BY <1>1, <1>2, <1>3, SettleAnswers DEF IInv, SInv, Answers
<1>8. FinishedAnswered'
  BY <1>0 DEF FinishedAnswered
<1>9. \A u \in Rows' \cup Parked' : request[u].kind = "generate"
  BY <1>6 DEF SInv, GenerateRows
<1>10. /\ Queue' \cup Rows' \cup Parked' \subseteq Queue \cup Rows \cup Parked
       /\ \A u \in Queue \cup Rows \cup Parked :
            u \in Queue' \cup Rows' \cup Parked' \/ u \in {t} \/ outcome[u] # <<>>
  BY <1>1, <1>6
<1> QED BY <1>0, <1>4, <1>5, <1>7, <1>8, <1>9, <1>10, LoopMoves

LEMMA RefillDefersMoves == ASSUME IInv, SInv, RefillDefers PROVE Moves
<1> DEFINE t == Head(tasks)
<1>0. /\ tasks # <<>> /\ tasks' = Tail(tasks) /\ pc = "refilling"
      /\ pc' = "prefilling" /\ deferred' = Append(deferred, t)
      /\ request[t].kind = "generate"
  BY DEF RefillDefers, Refilled, Batchable
<1>1. Queue = {t} \cup Queue' /\ t \in Tasks
  BY <1>0, PopMoves
<1> HIDE DEF t
<1>2. UNCHANGED <<request, accepted, sessions, resolved, outcome>>
  BY DEF RefillDefers, resultVars
<1>3. Rows' = Rows
  BY <1>2 DEF Rows, SessionTasks
<1>4. Parked' = Parked \cup {t}
  <2>1. SeqRange(Append(deferred, t)) = SeqRange(deferred) \cup {t}
    BY <1>1, RangeAppend DEF IInv, TypeOK
  <2> QED BY <1>0, <2>1 DEF Parked, SeqRange
<1>5. /\ Ready({}) /\ Answering({}, "value") /\ ResolvedAnswered'
      /\ {} \in SUBSET Tasks /\ "value" \in Answers
  BY <1>0, <1>2, ReadyNone, NoAnswer DEF IInv, SInv
<1>6. FinishedAnswered'
  BY <1>0 DEF FinishedAnswered
<1>7. \A u \in Rows' \cup Parked' : request[u].kind = "generate"
  BY <1>0, <1>3, <1>4 DEF SInv, GenerateRows
<1>8. Queue' \cup Rows' \cup Parked' = Queue \cup Rows \cup Parked
  BY <1>1, <1>3, <1>4
<1> QED BY <1>0, <1>2, <1>5, <1>6, <1>7, <1>8, LoopMoves

LEMMA RefillJoinsMoves == ASSUME IInv, SInv, RefillJoins PROVE Moves
<1> DEFINE t == Head(tasks)
<1>0. /\ tasks # <<>> /\ tasks' = Tail(tasks) /\ pc = "refilling" /\ pc' = pc
      /\ sessions' = Append(sessions, NewSession(t, 0))
      /\ request[t].kind = "generate" /\ request[t].valid
  BY DEF RefillJoins, Refilled, Batchable
<1>1. Queue = {t} \cup Queue' /\ t \in Tasks /\ request[t] # NoRequest
  BY <1>0, PopMoves
<1> HIDE DEF t
<1>2. UNCHANGED <<request, accepted, deferred, resolved, outcome>>
  BY DEF RefillJoins, resultVars
<1>3. Parked' = Parked
  BY <1>2 DEF Parked, SeqRange
<1>4. NewSession(t, 0) \in SessionType /\ NewSession(t, 0).task = t
  <2>1. request[t].prompt > 0
    BY <1>0, <1>1, RequestFields, ExecutorAssumption DEF IInv
  <2> QED BY <1>1, <2>1, NewSessionType DEF IInv
<1>5. Rows' = Rows \cup {t}
  <2>1. TasksOf(sessions') = TasksOf(sessions) \cup {t}
    BY <1>0, <1>4, TasksOfAppend DEF IInv, TypeOK
  <2> QED BY <2>1 DEF Rows, SessionTasks, TasksOf
<1>6. /\ Ready({}) /\ Answering({}, "value") /\ ResolvedAnswered'
      /\ {} \in SUBSET Tasks /\ "value" \in Answers
  BY <1>0, <1>2, ReadyNone, NoAnswer DEF IInv, SInv
<1>7. FinishedAnswered'
  BY <1>0 DEF FinishedAnswered
<1>8. \A u \in Rows' \cup Parked' : request[u].kind = "generate"
  BY <1>0, <1>3, <1>5 DEF SInv, GenerateRows
<1>9. Queue' \cup Rows' \cup Parked' = Queue \cup Rows \cup Parked
  BY <1>1, <1>3, <1>5
<1> QED BY <1>0, <1>2, <1>6, <1>7, <1>8, <1>9, LoopMoves

LEMMA PrefillMoves == ASSUME IInv, SInv, Prefill PROVE Moves
<1>0. pc = "prefilling" /\ pc' \in {"serial", "decoding"}
  BY DEF Prefill, LoopHead
<1>1. UNCHANGED <<request, accepted, tasks, deferred>>
  BY DEF Prefill, queueVars
<1>2. Queue' = Queue /\ Parked' = Parked
  BY <1>1 DEF Queue, Parked, SeqRange
<1>3. FinishedAnswered'
  BY <1>0 DEF FinishedAnswered
<1>4. PICK i \in DOMAIN sessions :
        \/ /\ sessions' = [sessions EXCEPT ![i] = AdvancedPrefill(@)]
           /\ UNCHANGED <<resolved, outcome>>
        \/ sessions' = RemoveRow(sessions, i) /\ Settle({sessions[i].task}, "error")
  BY DEF Prefill, resultVars
<1>5. CASE sessions' = [sessions EXCEPT ![i] = AdvancedPrefill(@)]
           /\ UNCHANGED <<resolved, outcome>>
  <2>1. AdvancedPrefill(sessions[i]).task = sessions[i].task
    BY HeldTasks, AdvancedPrefillType DEF IInv, RowsValid
  <2>2. /\ DOMAIN sessions' = DOMAIN sessions
        /\ \A k \in DOMAIN sessions' : sessions'[k].task = sessions[k].task
    BY <1>5, <2>1, LenProperties DEF IInv, TypeOK
  <2>3. Rows' = Rows
    BY <2>2 DEF Rows, SessionTasks
  <2>4. /\ Ready({}) /\ Answering({}, "value") /\ ResolvedAnswered'
        /\ {} \in SUBSET Tasks /\ "value" \in Answers
    BY <1>0, <1>5, ReadyNone, NoAnswer DEF IInv, SInv
  <2>5. \A u \in Rows' \cup Parked' : request[u].kind = "generate"
    BY <1>2, <2>3 DEF SInv, GenerateRows
  <2> QED BY <1>0, <1>1, <1>2, <1>3, <2>3, <2>4, <2>5, LoopMoves
<1>6. CASE sessions' = RemoveRow(sessions, i) /\ Settle({sessions[i].task}, "error")
  <2> DEFINE t == sessions[i].task
  <2>1. t \in Tasks /\ Guarded(t) /\ t \in Rows /\ t \notin Queue
    BY HeldTasks
       DEF IInv, HeldGuarded, QueueApart, Queue, SeqRange, Rows, SessionTasks
  <2>2. Rows' \subseteq Rows /\ Rows \subseteq Rows' \cup {t}
    <3>1. /\ TasksOf(sessions') \subseteq TasksOf(sessions)
          /\ TasksOf(sessions) \subseteq TasksOf(sessions') \cup {t}
      BY <1>6, TasksOfRemove DEF IInv, TypeOK
    <3> QED BY <3>1 DEF Rows, SessionTasks, TasksOf
  <2>3. Settle({t}, "error")
    BY <1>6
  <2> HIDE DEF t
  <2>4. Answering({t}, "error") /\ ResolvedAnswered' /\ {t} \in SUBSET Tasks
        /\ "error" \in Answers
    BY <2>1, <2>3, SettleAnswers DEF IInv, SInv, Answers
  <2>5. Ready({t})
    BY <1>0, <2>1 DEF Ready, Held, SInv, GenerateRows
  <2>6. \A u \in Rows' \cup Parked' : request[u].kind = "generate"
    BY <1>2, <2>2 DEF SInv, GenerateRows
  <2>7. /\ Queue' \cup Rows' \cup Parked' \subseteq Queue \cup Rows \cup Parked
        /\ \A u \in Queue \cup Rows \cup Parked :
             u \in Queue' \cup Rows' \cup Parked' \/ u \in {t} \/ outcome[u] # <<>>
    BY <1>2, <2>2
  <2> QED BY <1>0, <1>1, <1>3, <2>4, <2>5, <2>6, <2>7, LoopMoves
<1> QED BY <1>4, <1>5, <1>6

LEMMA RunDeferredMoves == ASSUME IInv, SInv, RunDeferred PROVE Moves
<1> DEFINE t == Head(deferred)
<1>0. pc = "serial" /\ pc' = pc /\ deferred # <<>> /\ deferred' = Tail(deferred)
  BY DEF RunDeferred
<1>1. UNCHANGED <<request, accepted, tasks, sessions>>
  BY DEF RunDeferred, queueVars
<1>2. PICK v \in Answers : Settle({t}, v)
  BY DEF RunDeferred, Answers
<1>3. t \in Tasks /\ 1 \in DOMAIN deferred /\ t = deferred[1]
  BY <1>0, TailFacts DEF IInv, TypeOK
<1>4. Guarded(t) /\ t \notin Queue
  BY <1>3 DEF IInv, HeldGuarded, QueueApart, Queue, SeqRange
<1>5. Parked = {t} \cup Parked'
  <2>1. SeqRange(deferred) = {t} \cup SeqRange(Tail(deferred))
    BY <1>0, RangeTail DEF IInv, TypeOK
  <2> QED BY <1>0, <2>1 DEF Parked, SeqRange
<1> HIDE DEF t
<1>6. Rows' = Rows /\ Queue' = Queue
  BY <1>1 DEF Rows, SessionTasks, Queue, SeqRange
<1>7. Answering({t}, v) /\ ResolvedAnswered' /\ {t} \in SUBSET Tasks
  BY <1>2, <1>3, <1>4, SettleAnswers DEF IInv, SInv
<1>8. Ready({t})
  BY <1>0, <1>4, <1>5 DEF Ready, Held, SInv, GenerateRows
<1>9. FinishedAnswered'
  BY <1>0 DEF FinishedAnswered
<1>10. \A u \in Rows' \cup Parked' : request[u].kind = "generate"
  BY <1>5, <1>6 DEF SInv, GenerateRows
<1>11. /\ Queue' \cup Rows' \cup Parked' \subseteq Queue \cup Rows \cup Parked
       /\ \A u \in Queue \cup Rows \cup Parked :
            u \in Queue' \cup Rows' \cup Parked' \/ u \in {t} \/ outcome[u] # <<>>
  BY <1>5, <1>6
<1> QED BY <1>0, <1>1, <1>7, <1>8, <1>9, <1>10, <1>11, LoopMoves

LEMMA WorkerMoves == ASSUME IInv, SInv, Worker PROVE Moves
<1>1. CASE \/ StartEngine \/ Exit \/ EndCoalescing \/ StartLoop
           \/ EndFinishing \/ EndErasing \/ EndRefilling \/ SkipPrefill
  <2>1. UNCHANGED <<queueVars, batchVars, resultVars>>
    BY <1>1 DEF StartEngine, Exit, EndCoalescing, StartLoop, EndFinishing,
       EndErasing, EndRefilling, SkipPrefill
  <2> QED BY <1>1, <2>1, PcMoves
<1>2. CASE TakeFirst \/ Coalesce \/ RunClear \/ RunSingle
  BY <1>2, TakeFirstMoves, CoalesceMoves, RunClearMoves, RunSingleMoves
<1>3. CASE RejectBatch \/ SerializeBatch \/ AdmitBatch \/ InitializeSlot
  BY <1>3, RejectBatchMoves, SerializeBatchMoves, AdmitBatchMoves,
     InitializeSlotMoves
<1>4. CASE Decode \/ FinishSlot \/ FailBatch \/ EraseRow
  BY <1>4, DecodeMoves, FinishSlotMoves, FailBatchMoves, EraseRowMoves
<1>5. CASE RefillFails \/ RefillDefers \/ RefillJoins
  BY <1>5, RefillFailsMoves, RefillDefersMoves, RefillJoinsMoves
<1>6. CASE Prefill \/ RunDeferred \/ EndBatch
  BY <1>6, PrefillMoves, RunDeferredMoves, EndBatchMoves
<1> QED BY <1>1, <1>2, <1>3, <1>4, <1>5, <1>6 DEF Worker

-----------------------------------------------------------------------------
(* No call is lost.                                                        *)

LEMMA MovesKeeps == ASSUME IInv, IInv', SInv, Moves PROVE SInv'
<1>0. PICK S \in SUBSET Tasks, v \in Answers : Moved(S, v)
  BY DEF Moves
<1>1. /\ SoloBatch' /\ ResolvedAnswered' /\ FinishedAnswered' /\ GenerateRows'
      /\ UNCHANGED <<request, accepted>> /\ Held' \subseteq Held
      /\ \A t \in Held : t \in Held' \/ t \in S \/ outcome[t] # <<>>
      /\ tasks' = tasks \/ (tasks # <<>> /\ tasks' = Tail(tasks))
      /\ Answering(S, v)
  BY <1>0 DEF Moved
<1>2. HeldAccepted'
  BY <1>1 DEF SInv, HeldAccepted, SeqRange
<1>3. \A t \in SeqRange(accepted) : t \in Tasks
  BY SeqElement DEF IInv, TypeOK, SeqRange
<1>4. NoTaskLost'
  <2>1. SUFFICES ASSUME NEW t \in SeqRange(accepted), outcome'[t] = <<>>
                 PROVE  t \in Held'
    BY <1>1 DEF NoTaskLost, Unanswered, Held, Queue, Rows, Parked, SeqRange
  <2>2. t \in Tasks
    BY <1>3
  <2>3. outcome[t] = <<>> /\ t \notin S
    <3>1. outcome'[t] = IF t \in S /\ outcome[t] = <<>> THEN <<v>> ELSE outcome[t]
      BY <1>1, <2>2 DEF Answering
    <3>2. <<v>> # <<>>
      OBVIOUS
    <3> QED BY <2>1, <3>1, <3>2
  <2>4. t \in Held
    BY <2>3 DEF SInv, NoTaskLost, Unanswered, Held, Queue, Rows, Parked
  <2> QED BY <1>1, <2>3, <2>4
<1>5. QueueOrder'
  <2>1. /\ \A i, j \in DOMAIN accepted' : accepted'[i] = accepted'[j] => i = j
        /\ \A i \in DOMAIN accepted' : request'[accepted'[i]] # NoRequest
    BY <1>1 DEF SInv, QueueOrder
  <2>2. CASE tasks' = tasks
    BY <1>1, <2>1, <2>2 DEF SInv, QueueOrder
  <2>3. CASE tasks # <<>> /\ tasks' = Tail(tasks)
    <3>1. /\ Len(tasks') = Len(tasks) - 1
          /\ \A i \in DOMAIN tasks' : i + 1 \in DOMAIN tasks /\ tasks'[i] = tasks[i + 1]
      BY <2>3, TailFacts DEF IInv, TypeOK
    <3>2. /\ Len(tasks) \in Nat /\ Len(accepted) \in Nat
          /\ DOMAIN tasks' = 1..Len(tasks')
      BY LenProperties DEF IInv, TypeOK
    <3>3. Len(tasks') <= Len(accepted')
      BY <1>1, <3>1, <3>2 DEF SInv, QueueOrder
    <3>4. ASSUME NEW i \in DOMAIN tasks'
          PROVE  tasks'[i] = accepted'[Len(accepted') - Len(tasks') + i]
      <4>1. tasks'[i] = accepted[Len(accepted) - Len(tasks) + (i + 1)]
        BY <3>1 DEF SInv, QueueOrder
      <4>2. Len(accepted) - Len(tasks) + (i + 1) = Len(accepted) - Len(tasks') + i
        BY <3>1, <3>2
      <4> QED BY <1>1, <4>1, <4>2
    <3> QED BY <2>1, <3>3, <3>4 DEF QueueOrder
  <2> QED BY <1>1, <2>2, <2>3
<1> QED BY <1>1, <1>2, <1>4, <1>5 DEF SInv

\* A call not made yet is nowhere.
LEMMA NotMade ==
  ASSUME IInv, SInv, NEW t \in Tasks, request[t] = NoRequest
  PROVE  t \notin SeqRange(accepted) /\ t \notin Held
<1>1. t \notin SeqRange(accepted)
  BY DEF SInv, QueueOrder, SeqRange
<1> QED BY <1>1 DEF SInv, HeldAccepted

LEMMA EnqueueKeeps ==
  ASSUME IInv, SInv, NEW t \in Tasks, NEW r \in Requests, Enqueue(t, r)
  PROVE  SInv'
<1>1. r # NoRequest
  BY ExecutorAssumption DEF RequestType, NoRequest
<1>2. /\ request' = [request EXCEPT ![t] = r] /\ request[t] = NoRequest
      /\ \/ tasks' = tasks /\ accepted' = accepted
         \/ tasks' = Append(tasks, t) /\ accepted' = Append(accepted, t)
  BY DEF Enqueue
<1>3. UNCHANGED <<batch, slot, sessions, deferred, resolved, outcome, pc>>
  BY DEF Enqueue, batchVars, resultVars
<1>4. request'[t] = r /\ \A u \in Tasks : u # t => request'[u] = request[u]
  BY <1>2 DEF IInv, TypeOK
<1>5. t \notin SeqRange(accepted) /\ t \notin Held
  BY <1>2, NotMade
<1>6. Rows' = Rows /\ Parked' = Parked /\ BatchPending' = BatchPending
  BY <1>3 DEF Rows, Parked, SessionTasks, SeqRange, BatchPending
<1>7. /\ tasks \in Seq(Tasks) /\ accepted \in Seq(Tasks)
      /\ Len(tasks) \in Nat /\ Len(accepted) \in Nat
      /\ DOMAIN tasks = 1..Len(tasks) /\ DOMAIN accepted = 1..Len(accepted)
      /\ \A i \in DOMAIN accepted : accepted[i] \in Tasks
  BY SeqElement, LenProperties DEF IInv, TypeOK
<1>8. SoloBatch' /\ ResolvedAnswered' /\ FinishedAnswered'
  BY <1>3 DEF SInv, SoloBatch, ResolvedAnswered, FinishedAnswered
<1>9. GenerateRows'
  <2>1. Rows \cup Parked \subseteq Tasks \ {t}
    BY <1>5, HeldTasks DEF IInv, Held, Rows, Parked, SessionTasks, SeqRange
  <2>2. pc = "single" => SeqRange(batch) \subseteq Tasks \ {t}
    BY <1>5, HeldTasks DEF IInv, Held, BatchPending, SeqRange
  <2> QED BY <1>3, <1>4, <1>6, <2>1, <2>2 DEF SInv, GenerateRows, SeqRange
<1>10. CASE tasks' = tasks /\ accepted' = accepted
  <2>1. Held' = Held
    BY <1>6, <1>10 DEF Held, Queue, SeqRange
  <2>2. HeldAccepted' /\ NoTaskLost'
    BY <1>3, <1>6, <1>10, <2>1
       DEF SInv, HeldAccepted, NoTaskLost, Unanswered, SeqRange, Rows
  <2>3. QueueOrder'
    BY <1>1, <1>4, <1>7, <1>10 DEF SInv, QueueOrder
  <2> QED BY <1>8, <1>9, <2>2, <2>3 DEF SInv
<1>11. CASE tasks' = Append(tasks, t) /\ accepted' = Append(accepted, t)
  <2>1. Queue' = Queue \cup {t} /\ SeqRange(accepted') = SeqRange(accepted) \cup {t}
    <3>1. SeqRange(Append(tasks, t)) = SeqRange(tasks) \cup {t}
      BY <1>7, RangeAppend
    <3>2. SeqRange(Append(accepted, t)) = SeqRange(accepted) \cup {t}
      BY <1>7, RangeAppend
    <3>3. Queue' = SeqRange(Append(tasks, t))
      BY <1>11 DEF Queue, SeqRange
    <3> QED BY <1>11, <3>1, <3>2, <3>3 DEF Queue
  <2>2. Held' = Held \cup {t}
    BY <1>6, <2>1 DEF Held
  <2>3. HeldAccepted'
    BY <2>1, <2>2 DEF SInv, HeldAccepted, SeqRange
  <2>4. NoTaskLost'
    <3>1. Unanswered \subseteq Held
      BY DEF SInv, NoTaskLost, Held, Queue, Rows, Parked
    <3>2. Unanswered' \subseteq Unanswered \cup {t}
      BY <1>3, <2>1 DEF Unanswered, SeqRange
    <3>3. Unanswered' \subseteq Held'
      BY <2>2, <3>1, <3>2
    <3> QED BY <3>3 DEF NoTaskLost, Held, Queue, Rows, Parked
  <2>5. QueueOrder'
    <3>1. /\ Len(tasks') = Len(tasks) + 1 /\ DOMAIN tasks' = 1..(Len(tasks) + 1)
          /\ \A i \in 1..Len(tasks) : tasks'[i] = tasks[i]
          /\ tasks'[Len(tasks) + 1] = t
      BY <1>7, <1>11, AppendProperties, LenProperties
    <3>2. /\ Len(accepted') = Len(accepted) + 1
          /\ DOMAIN accepted' = 1..(Len(accepted) + 1)
          /\ \A i \in 1..Len(accepted) : accepted'[i] = accepted[i]
          /\ accepted'[Len(accepted) + 1] = t
      BY <1>7, <1>11, AppendProperties, LenProperties
    <3>3. \A i \in 1..Len(accepted) : accepted[i] # t
      BY <1>5, <1>7 DEF SeqRange
    <3>4. \A i, j \in DOMAIN accepted' : accepted'[i] = accepted'[j] => i = j
      <4>1. \A i \in DOMAIN accepted' : i \in 1..Len(accepted) \/ i = Len(accepted) + 1
        BY <1>7, <3>2
      <4>2. \A i, j \in 1..Len(accepted) : accepted[i] = accepted[j] => i = j
        BY <1>7 DEF SInv, QueueOrder
      <4> QED BY <3>2, <3>3, <4>1, <4>2
    <3>5. \A i \in DOMAIN accepted' : request'[accepted'[i]] # NoRequest
      <4>1. \A i \in DOMAIN accepted' : i \in 1..Len(accepted) \/ i = Len(accepted) + 1
        BY <1>7, <3>2
      <4>2. \A i \in 1..Len(accepted) : request'[accepted[i]] # NoRequest
        BY <1>4, <1>7, <3>3 DEF SInv, QueueOrder
      <4> QED BY <1>1, <1>4, <3>2, <4>1, <4>2
    <3>6. Len(tasks) <= Len(accepted)
      BY DEF SInv, QueueOrder
    <3>7. Len(tasks') <= Len(accepted')
      BY <1>7, <3>1, <3>2, <3>6
    <3>8. ASSUME NEW i \in DOMAIN tasks'
          PROVE  tasks'[i] = accepted'[Len(accepted') - Len(tasks') + i]
      <4>1. CASE i \in 1..Len(tasks)
        <5>1. tasks'[i] = accepted[Len(accepted) - Len(tasks) + i]
          BY <1>7, <3>1, <4>1 DEF SInv, QueueOrder
        <5>2. Len(accepted) - Len(tasks) + i \in 1..Len(accepted)
          BY <1>7, <3>6, <4>1
        <5>3. Len(accepted') - Len(tasks') + i = Len(accepted) - Len(tasks) + i
          BY <1>7, <3>1, <3>2, <4>1
        <5>4. accepted'[Len(accepted) - Len(tasks) + i]
                = accepted[Len(accepted) - Len(tasks) + i]
          BY <3>2, <5>2
        <5> QED BY <5>1, <5>3, <5>4
      <4>2. CASE i = Len(tasks) + 1
        <5>1. Len(accepted') - Len(tasks') + i = Len(accepted) + 1
          BY <1>7, <3>1, <3>2, <4>2
        <5> QED BY <3>1, <3>2, <4>2, <5>1
      <4> QED BY <1>7, <3>1, <4>1, <4>2
    <3> QED BY <3>4, <3>5, <3>7, <3>8 DEF QueueOrder
  <2> QED BY <1>8, <1>9, <2>3, <2>4, <2>5 DEF SInv
<1> QED BY <1>2, <1>10, <1>11

\* Steps that leave everything but stopping alone.
LEMMA IdleKeeps ==
  ASSUME IInv, SInv,
         UNCHANGED <<request, accepted, tasks, pc, batch, slot, sessions, deferred,
                     resolved, outcome>>
  PROVE  SInv'
<1>1. Queue' = Queue /\ Rows' = Rows /\ Parked' = Parked /\ BatchPending' = BatchPending
  BY DEF Queue, Rows, Parked, SessionTasks, SeqRange, BatchPending
<1>2. SoloBatch' /\ ResolvedAnswered' /\ FinishedAnswered' /\ QueueOrder'
  BY DEF SInv, SoloBatch, ResolvedAnswered, FinishedAnswered, QueueOrder
<1>3. GenerateRows'
  BY <1>1 DEF SInv, GenerateRows, SeqRange
<1>4. HeldAccepted'
  BY <1>1 DEF SInv, HeldAccepted, Held, SeqRange
<1>5. NoTaskLost'
  BY <1>1 DEF SInv, NoTaskLost, Unanswered, Queue, Rows, Parked, SeqRange
<1> QED BY <1>2, <1>3, <1>4, <1>5 DEF SInv

LEMMA InitSInv == Init => SInv
<1> SUFFICES ASSUME Init PROVE SInv
  OBVIOUS
<1>1. /\ pc = "starting" /\ tasks = <<>> /\ accepted = <<>> /\ sessions = <<>>
      /\ deferred = <<>>
  BY DEF Init
<1>2. Held = {} /\ SeqRange(accepted) = {} /\ Rows = {} /\ Parked = {}
  BY <1>1 DEF Held, Queue, Rows, Parked, SessionTasks, SeqRange, BatchPending
<1>3. SoloBatch /\ FinishedAnswered /\ GenerateRows
  BY <1>1, <1>2 DEF SoloBatch, FinishedAnswered, GenerateRows
<1>4. ResolvedAnswered
  BY DEF Init, ResolvedAnswered
<1>5. QueueOrder
  BY <1>1 DEF QueueOrder
<1>6. HeldAccepted /\ NoTaskLost
  BY <1>2 DEF HeldAccepted, NoTaskLost, Unanswered
<1> QED BY <1>3, <1>4, <1>5, <1>6 DEF SInv

LEMMA NextSInv == IInv /\ IInv' /\ SInv /\ [Next]_vars => SInv'
<1> SUFFICES ASSUME IInv, IInv', SInv, [Next]_vars PROVE SInv'
  OBVIOUS
<1>1. CASE \E t \in Tasks, r \in Requests : Enqueue(t, r)
  BY <1>1, EnqueueKeeps
<1>2. CASE Stop
  BY <1>2, IdleKeeps DEF Stop, batchVars, resultVars
<1>3. CASE Worker
  BY <1>3, WorkerMoves, MovesKeeps
<1>4. CASE UNCHANGED vars
  BY <1>4, IdleKeeps DEF vars
<1> QED BY <1>1, <1>2, <1>3, <1>4 DEF Next, Terminated

LEMMA ServiceInvariance == Spec => [](IInv /\ SInv)
<1>1. Init => SInv
  BY InitSInv
<1>2. IInv /\ IInv' /\ SInv /\ [Next]_vars => SInv'
  BY NextSInv
<1> QED BY <1>1, <1>2, Invariance, PTL DEF Spec

\* A call whose thread waits for its future is always in the queue, in the
\* batch being formed, in a live row or among the deferred requests: no early
\* return, exception or shutdown leaves a client waiting for a promise that
\* the worker no longer knows.
THEOREM NoCallLost == Spec => []NoTaskLost
<1>1. SInv => NoTaskLost
  BY DEF SInv
<1> QED BY <1>1, ServiceInvariance, PTL

-----------------------------------------------------------------------------
(* The executor implements TaskService.                                    *)

\* The refinement mapping's kind.
Kind ==
  [t \in Tasks |-> IF request[t] = NoRequest THEN "none"
                   ELSE IF t \in SeqRange(accepted)
                   THEN request[t].kind ELSE "rejected"]

Precedes(u, t) ==
  \E i, j \in DOMAIN accepted : i < j /\ accepted[i] = u /\ accepted[j] = t

\* What the worker is about to answer has no earlier call waiting on the other
\* side of a clear.
LEMMA Barrier ==
  ASSUME IInv, SInv, NEW S, Ready(S), NEW t \in S, NEW u \in Tasks,
         Precedes(u, t), "clear" \in {request[t].kind, request[u].kind}
  PROVE  outcome[u] # <<>>
<1> SUFFICES ASSUME outcome[u] = <<>> PROVE FALSE
  OBVIOUS
<1>1. PICK i, j \in DOMAIN accepted : i < j /\ accepted[i] = u /\ accepted[j] = t
  BY DEF Precedes
<1>2. /\ Len(accepted) \in Nat /\ DOMAIN accepted = 1..Len(accepted)
      /\ Len(tasks) \in Nat /\ DOMAIN tasks = 1..Len(tasks)
  BY LenProperties DEF IInv, TypeOK
<1>3. u \in Held
  BY <1>1 DEF SInv, NoTaskLost, Unanswered, SeqRange, Held, Queue, Rows, Parked
<1>4. u # t
  <2>1. i # j
    BY <1>1, <1>2
  <2> QED BY <1>1, <2>1 DEF SInv, QueueOrder
<1>5. u \notin Queue
  <2> SUFFICES ASSUME u \in Queue PROVE FALSE
    OBVIOUS
  <2> DEFINE d == Len(accepted) - Len(tasks)
  <2>1. d \in Nat
    BY <1>2 DEF SInv, QueueOrder
  <2>2. PICK k \in DOMAIN tasks : tasks[k] = u
    BY DEF Queue, SeqRange
  <2>3. \A m \in DOMAIN tasks : tasks[m] = accepted[d + m]
    BY DEF SInv, QueueOrder
  <2> HIDE DEF d
  <2>4. d + k \in DOMAIN accepted /\ Len(accepted) = d + Len(tasks)
    BY <1>2, <2>1 DEF d
  <2>5. i = d + k
    BY <1>1, <2>2, <2>3, <2>4 DEF SInv, QueueOrder
  <2>6. j - d \in DOMAIN tasks /\ d + (j - d) = j /\ j - d # 1
    BY <1>1, <1>2, <2>1, <2>4, <2>5
  <2>7. tasks[j - d] = t
    BY <1>1, <2>3, <2>6
  <2>8. 1 \in DOMAIN tasks /\ Head(tasks) = tasks[1] /\ tasks # <<>>
    BY <1>2, <2>6, TailFacts DEF IInv, TypeOK
  <2>9. t \in Queue /\ t # Head(tasks)
    BY <2>6, <2>7, <2>8 DEF Queue, SeqRange, IInv, QueueFresh
  <2>10. CASE pc = "clearing"
    <3>1. 1 \in DOMAIN batch /\ batch[1] = t
      BY <2>10, TailFacts DEF Ready, IInv, TypeOK, FormingFresh
    <3> QED BY <2>6, <2>7, <3>1 DEF IInv, QueueApart
  <2>11. CASE pc # "clearing"
    BY <2>9, <2>11 DEF Ready
  <2> QED BY <2>10, <2>11
<1>6. CASE pc = "clearing"
  <2>1. Rows = {} /\ Parked = {}
    BY <1>6 DEF IInv, IdleEmpty, Rows, Parked, SessionTasks, SeqRange
  <2>2. BatchPending = {Head(batch)}
    BY <1>6, RangeSolo DEF BatchPending, SInv, SoloBatch, IInv, TypeOK
  <2>3. t = Head(batch)
    BY <1>6 DEF Ready
  <2> QED BY <1>3, <1>4, <1>5, <2>1, <2>2, <2>3 DEF Held
<1>7. CASE pc # "clearing"
  <2>1. request[t].kind = "generate"
    BY <1>7 DEF Ready
  <2>2. request[u].kind = "clear"
    BY <2>1
  <2>3. u \notin Rows \cup Parked
    BY <2>2 DEF SInv, GenerateRows
  <2>4. u \notin BatchPending
    <3>1. CASE pc \in {"coalescing", "single", "validating"}
      <4>1. \A x \in SeqRange(batch) : request[x].kind = "generate"
        BY <3>1 DEF SInv, GenerateRows, IInv, RowsValid, SeqRange
      <4> QED BY <2>2, <3>1, <4>1 DEF BatchPending
    <3>2. CASE pc = "initializing"
      <4>1. slot \in Nat /\ slot > 0 /\ Len(batch) \in Nat
            /\ DOMAIN batch = 1..Len(batch)
        BY <3>2, LenProperties DEF IInv, TypeOK, RowsValid
      <4>2. \A x \in slot..Len(batch) : x \in DOMAIN batch
        BY <4>1
      <4>3. \A x \in slot..Len(batch) : request[batch[x]].kind = "generate"
        BY <3>2, <4>2 DEF IInv, RowsValid
      <4> QED BY <2>2, <3>2, <4>3 DEF BatchPending
    <3>3. CASE pc \notin {"coalescing", "single", "validating", "initializing"}
      BY <1>7, <3>3 DEF BatchPending
    <3> QED BY <3>1, <3>2, <3>3
  <2> QED BY <1>3, <1>5, <2>3, <2>4 DEF Held
<1> QED BY <1>6, <1>7

LEMMA KindOf ==
  ASSUME IInv, SInv, NEW t \in Tasks, t \in SeqRange(accepted)
  PROVE  Kind[t] = request[t].kind /\ Kind[t] \in {"generate", "clear"}
<1>1. request[t] # NoRequest
  BY DEF SInv, QueueOrder, SeqRange
<1>2. request[t] \in Requests
  BY <1>1 DEF IInv, TypeOK
<1>3. request[t].kind \in {"generate", "clear"}
  BY <1>2, ExecutorAssumption DEF RequestType
<1> QED BY <1>1, <1>3 DEF Kind

\* A worker's step is an answer to some calls, or hidden.
LEMMA MovesRefine ==
  ASSUME IInv, SInv, Moves
  PROVE  Service!Next \/ UNCHANGED Service!svars
<1>0. PICK S \in SUBSET Tasks, v \in Answers : Moved(S, v)
  BY DEF Moves
<1>1. /\ UNCHANGED <<request, accepted>> /\ Answering(S, v) /\ Ready(S)
  BY <1>0 DEF Moved
<1> DEFINE A == {t \in S : outcome[t] = <<>>}
<1>2. outcome' = [t \in Tasks |-> IF t \in A THEN <<v>> ELSE outcome[t]]
  BY <1>1 DEF Answering
<1>3. Kind' = Kind
  BY <1>1 DEF Kind, SeqRange
<1>4. CASE A = {}
  <2>1. outcome' = outcome
    BY <1>2, <1>4 DEF IInv, TypeOK
  <2> QED BY <1>1, <1>3, <2>1 DEF Service!svars, Kind
<1>5. CASE A # {}
  <2>1. \A t \in A : t \in Tasks /\ t \in SeqRange(accepted)
    BY <1>1 DEF Ready, SInv, HeldAccepted
  <2>2. \A t \in A : Kind[t] \in {"generate", "clear"} /\ outcome[t] = <<>>
    BY <2>1, KindOf
  <2>3. ASSUME NEW t \in A, NEW u \in Tasks, Precedes(u, t),
               "clear" \in {Kind[t], Kind[u]}
        PROVE  outcome[u] # <<>>
    <3>1. u \in SeqRange(accepted)
      BY <2>3 DEF Precedes, SeqRange
    <3>2. Kind[t] = request[t].kind /\ Kind[u] = request[u].kind
      BY <2>1, <3>1, KindOf
    <3> QED BY <1>1, <2>3, <3>2, Barrier
  <2> HIDE DEF A
  <2>4. Service!Answer(A, v)
    <3>1. \A t \in A : Kind[t] \in {"generate", "clear"} /\ ~Service!Answered(t)
      BY <2>2 DEF Service!Answered
    <3>2. \A t \in A : \A u \in Tasks :
            Service!Before(u, t) /\ "clear" \in {Kind[t], Kind[u]}
              => Service!Answered(u)
      BY <2>3 DEF Service!Before, Service!Answered, Precedes
    <3> QED BY <1>1, <1>2, <1>3, <1>5, <3>1, <3>2 DEF Service!Answer, Kind
  <2>5. A \in SUBSET Tasks /\ v \in Service!Answers
    BY <2>1 DEF Service!Answers, Answers
  <2> QED BY <2>4, <2>5 DEF Service!Next
<1> QED BY <1>4, <1>5

\* enqueue is an acceptance or, when stopping, a rejection.
LEMMA EnqueueRefine ==
  ASSUME IInv, SInv, NEW t \in Tasks, NEW r \in Requests, Enqueue(t, r)
  PROVE  Service!Next
<1>1. r # NoRequest /\ r.kind \in {"generate", "clear"}
  BY ExecutorAssumption DEF RequestType, NoRequest
<1>2. /\ request' = [request EXCEPT ![t] = r] /\ request[t] = NoRequest
      /\ outcome' = outcome
      /\ \/ tasks' = tasks /\ accepted' = accepted
         \/ tasks' = Append(tasks, t) /\ accepted' = Append(accepted, t)
  BY DEF Enqueue, resultVars
<1>3. request'[t] = r /\ \A u \in Tasks : u # t => request'[u] = request[u]
  BY <1>2 DEF IInv, TypeOK
<1>4. t \notin SeqRange(accepted)
  BY <1>2, NotMade
<1>5. Kind[t] = "none"
  BY <1>2 DEF Kind
<1>6. CASE accepted' = accepted
  <2>1. Kind' = [Kind EXCEPT ![t] = "rejected"]
    <3>1. \A u \in Tasks : Kind'[u] = IF u = t THEN "rejected" ELSE Kind[u]
      BY <1>1, <1>3, <1>4, <1>6 DEF Kind, SeqRange
    <3>2. Kind' = [u \in Tasks |-> Kind'[u]] /\ Kind = [u \in Tasks |-> Kind[u]]
      BY DEF Kind
    <3> HIDE DEF Kind
    <3> QED BY <3>1, <3>2
  <2>2. Service!Reject(t)
    BY <1>2, <1>5, <1>6, <2>1 DEF Service!Reject, Kind
  <2> QED BY <2>2 DEF Service!Next
<1>7. CASE accepted' = Append(accepted, t)
  <2>0. SeqRange(accepted') = SeqRange(accepted) \cup {t}
    BY <1>7, RangeAppend DEF IInv, TypeOK
  <2>1. Kind' = [Kind EXCEPT ![t] = r.kind]
    <3>1. \A u \in Tasks : Kind'[u] = IF u = t THEN r.kind ELSE Kind[u]
      BY <1>1, <1>3, <2>0 DEF Kind, SeqRange
    <3>2. Kind' = [u \in Tasks |-> Kind'[u]] /\ Kind = [u \in Tasks |-> Kind[u]]
      BY DEF Kind
    <3> HIDE DEF Kind
    <3> QED BY <3>1, <3>2
  <2>2. Service!Accept(t, r.kind)
    BY <1>2, <1>5, <1>7, <2>1 DEF Service!Accept, Kind
  <2> QED BY <1>1, <2>2 DEF Service!Next
<1> QED BY <1>2, <1>6, <1>7

LEMMA StepRefines ==
  IInv /\ SInv /\ [Next]_vars => [Service!Next]_(Service!svars)
<1> SUFFICES ASSUME IInv, SInv, [Next]_vars
             PROVE  Service!Next \/ UNCHANGED Service!svars
  OBVIOUS
<1>1. CASE \E t \in Tasks, r \in Requests : Enqueue(t, r)
  BY <1>1, EnqueueRefine
<1>2. CASE Stop
  BY <1>2 DEF Stop, batchVars, resultVars, Service!svars, SeqRange
<1>3. CASE Worker
  BY <1>3, WorkerMoves, MovesRefine
<1>4. CASE UNCHANGED vars
  BY <1>4 DEF vars, Service!svars, SeqRange
<1> QED BY <1>1, <1>2, <1>3, <1>4 DEF Next, Terminated

\* The executor implements the service its callers see: each accepted call
\* is answered at most once and clear_cache is a barrier in the order of
\* acceptance, although generations are batched, refilled from the same
\* queue, deferred and answered out of order.
THEOREM ImplementsService == Spec => ServiceSpec
<1>1. Init => Service!Init
  BY DEF Init, Service!Init, SeqRange
<1>2. IInv /\ SInv /\ [Next]_vars => [Service!Next]_(Service!svars)
  BY StepRefines
<1> QED BY <1>1, <1>2, ServiceInvariance, PTL DEF Spec, ServiceSpec, Service!Spec

-----------------------------------------------------------------------------
(* The live rows stay within the limits.  The sum of what they reserve is  *)
(* bounded through live_capacity, which the completion loop recounts after *)
(* every decode pass, so the invariant says what live is worth at each     *)
(* place of the loop.                                                      *)

\* What each call of a batch and each row reserves, and the part of it that
\* the loops have reached.
BatchWeights(ts) == [i \in DOMAIN ts |-> Reserved(ts[i])]
StartedWeights(ts, n) ==
  [i \in DOMAIN ts |-> IF i < n THEN Reserved(ts[i]) ELSE 0]
RowWeights(rows) == [i \in DOMAIN rows |-> Reserved(rows[i].task)]
ActiveWeights(rows) ==
  [i \in DOMAIN rows |-> IF rows[i].active THEN Reserved(rows[i].task) ELSE 0]
CountedWeights(rows, n) ==
  [i \in DOMAIN rows |->
     IF i < n /\ rows[i].active THEN Reserved(rows[i].task) ELSE 0]

BatchFits ==
  pc \in {"coalescing", "validating", "initializing"} => Len(batch) <= MaxBatch

\* While the rows of the first batch are built.
StartFits ==
  pc = "initializing" =>
    /\ SumSeq(BatchWeights(batch)) <= AggregateLimit
    /\ Len(sessions) < slot /\ slot <= Len(batch) + 1
    /\ SumSeq(RowWeights(sessions)) <= SumSeq(StartedWeights(batch, slot))

LiveCounts ==
  /\ pc = "finishing" => live = SumSeq(CountedWeights(sessions, slot))
  /\ pc = "erasing" => live = SumSeq(ActiveWeights(sessions))
  /\ pc = "refilling" => live = SumSeq(RowWeights(sessions))

RowsFit == SumSeq(RowWeights(sessions)) <= AggregateLimit /\ Len(sessions) <= MaxBatch

CInv == BatchFits /\ StartFits /\ LiveCounts /\ RowsFit

\* The code's running sum is the sum of the reservations.
LEMMA AggregateSum ==
  ASSUME TypeOK, NEW ts \in Seq(Tasks), NEW w,
         w = [i \in DOMAIN ts |-> Reserved(ts[i])]
  PROVE  w \in Seq(Nat) /\ Len(w) = Len(ts) /\ Aggregate(ts) = SumSeq(w)
<1>0. Len(ts) \in Nat /\ DOMAIN ts = 1..Len(ts)
  BY LenProperties
<1>1. \A i \in 1..Len(ts) : Reserved(ts[i]) \in Nat
  BY <1>0, SeqElement, RequestFields
<1>2. w \in Seq(Nat) /\ Len(w) = Len(ts)
  BY <1>0, <1>1, IsASeq, LenProperties
<1> DEFINE G(f) == f = [n \in 0..Len(ts) |->
                          IF n = 0 THEN 0 ELSE f[n - 1] + Reserved(ts[n])]
           s == CHOOSE f : G(f)
<1>3. PICK f : PartialSums(f, w, Len(w))
  BY <1>2, PartialSumsExist
<1>4. G(f)
  <2>1. \A n \in 0..Len(ts) : n # 0 => w[n] = Reserved(ts[n])
    BY <1>0
  <2> QED BY <1>2, <1>3, <2>1 DEF PartialSums
<1>5. G(s)
  BY <1>4
<1>6. Aggregate(ts) = s[Len(ts)]
  BY DEF Aggregate
<1> HIDE DEF s
<1>7. PartialSums(s, w, Len(w))
  <2>1. \A n \in 0..Len(ts) : n # 0 => w[n] = Reserved(ts[n])
    BY <1>0
  <2> QED BY <1>2, <1>5, <2>1 DEF PartialSums
<1>8. s[Len(w)] = SumSeq(w)
  BY <1>2, <1>7, PartialSumsStep, SumsUnique
<1> QED BY <1>2, <1>6, <1>8

LEMMA BatchWeightsFacts ==
  ASSUME TypeOK, NEW ts \in Seq(Tasks), NEW n \in Nat
  PROVE  /\ BatchWeights(ts) \in Seq(Nat) /\ Len(BatchWeights(ts)) = Len(ts)
         /\ StartedWeights(ts, n) \in Seq(Nat)
         /\ Len(StartedWeights(ts, n)) = Len(ts)
         /\ \A i \in 1..Len(ts) :
              /\ BatchWeights(ts)[i] = Reserved(ts[i])
              /\ Reserved(ts[i]) \in Nat
              /\ StartedWeights(ts, n)[i] = IF i < n THEN Reserved(ts[i]) ELSE 0
<1>0. Len(ts) \in Nat /\ DOMAIN ts = 1..Len(ts)
  BY LenProperties
<1>1. \A i \in 1..Len(ts) : Reserved(ts[i]) \in Nat
  BY <1>0, SeqElement, RequestFields
<1>2. BatchWeights(ts) \in Seq(Nat) /\ Len(BatchWeights(ts)) = Len(ts)
  BY <1>0, <1>1, IsASeq, LenProperties DEF BatchWeights
<1>3. StartedWeights(ts, n) \in Seq(Nat) /\ Len(StartedWeights(ts, n)) = Len(ts)
  BY <1>0, <1>1, IsASeq, LenProperties DEF StartedWeights
<1>4. \A i \in 1..Len(ts) :
        /\ BatchWeights(ts)[i] = Reserved(ts[i])
        /\ StartedWeights(ts, n)[i] = IF i < n THEN Reserved(ts[i]) ELSE 0
  BY <1>0 DEF BatchWeights, StartedWeights
<1> QED BY <1>1, <1>2, <1>3, <1>4

LEMMA RowWeightsFacts ==
  ASSUME TypeOK, NEW rows \in Seq(SessionType), NEW n \in Nat
  PROVE  /\ RowWeights(rows) \in Seq(Nat) /\ Len(RowWeights(rows)) = Len(rows)
         /\ ActiveWeights(rows) \in Seq(Nat) /\ Len(ActiveWeights(rows)) = Len(rows)
         /\ CountedWeights(rows, n) \in Seq(Nat)
         /\ Len(CountedWeights(rows, n)) = Len(rows)
         /\ \A i \in 1..Len(rows) :
              /\ RowWeights(rows)[i] = Reserved(rows[i].task)
              /\ Reserved(rows[i].task) \in Nat
              /\ ActiveWeights(rows)[i] =
                   IF rows[i].active THEN Reserved(rows[i].task) ELSE 0
              /\ CountedWeights(rows, n)[i] =
                   IF i < n /\ rows[i].active THEN Reserved(rows[i].task) ELSE 0
<1>0. Len(rows) \in Nat /\ DOMAIN rows = 1..Len(rows)
  BY LenProperties
<1>1. \A i \in 1..Len(rows) : Reserved(rows[i].task) \in Nat
  <2>1. \A x \in SessionType : x.task \in Tasks
    BY DEF SessionType
  <2> QED BY <1>0, <2>1, SeqElement, RequestFields
<1>2. RowWeights(rows) \in Seq(Nat) /\ Len(RowWeights(rows)) = Len(rows)
  BY <1>0, <1>1, IsASeq, LenProperties DEF RowWeights
<1>3. ActiveWeights(rows) \in Seq(Nat) /\ Len(ActiveWeights(rows)) = Len(rows)
  BY <1>0, <1>1, IsASeq, LenProperties DEF ActiveWeights
<1>4. CountedWeights(rows, n) \in Seq(Nat) /\ Len(CountedWeights(rows, n)) = Len(rows)
  BY <1>0, <1>1, IsASeq, LenProperties DEF CountedWeights
<1>5. \A i \in 1..Len(rows) :
        /\ RowWeights(rows)[i] = Reserved(rows[i].task)
        /\ ActiveWeights(rows)[i] =
             IF rows[i].active THEN Reserved(rows[i].task) ELSE 0
        /\ CountedWeights(rows, n)[i] =
             IF i < n /\ rows[i].active THEN Reserved(rows[i].task) ELSE 0
  BY <1>0 DEF RowWeights, ActiveWeights, CountedWeights
<1> QED BY <1>1, <1>2, <1>3, <1>4, <1>5

\* A row joins.
LEMMA RowJoins ==
  ASSUME TypeOK, NEW rows \in Seq(SessionType), NEW s \in SessionType
  PROVE  SumSeq(RowWeights(Append(rows, s))) =
           SumSeq(RowWeights(rows)) + Reserved(s.task)
<1>1. /\ RowWeights(rows) \in Seq(Nat) /\ Len(RowWeights(rows)) = Len(rows)
      /\ \A i \in 1..Len(rows) : RowWeights(rows)[i] = Reserved(rows[i].task)
  BY RowWeightsFacts
<1>2. Reserved(s.task) \in Nat
  BY RequestFields DEF SessionType
<1>3. /\ Append(rows, s) \in Seq(SessionType) /\ Len(Append(rows, s)) = Len(rows) + 1
      /\ \A i \in 1..Len(rows) : Append(rows, s)[i] = rows[i]
      /\ Append(rows, s)[Len(rows) + 1] = s
      /\ Len(rows) \in Nat
  BY AppendProperties, LenProperties
<1> DEFINE a == RowWeights(Append(rows, s))
           b == Append(RowWeights(rows), Reserved(s.task))
<1>4. /\ a \in Seq(Nat) /\ Len(a) = Len(rows) + 1
      /\ \A i \in 1..(Len(rows) + 1) : a[i] = Reserved(Append(rows, s)[i].task)
  <2> DEFINE grown == Append(rows, s)
  <2>1. grown \in Seq(SessionType) /\ Len(grown) = Len(rows) + 1
    BY <1>3
  <2> HIDE DEF grown
  <2>2. /\ RowWeights(grown) \in Seq(Nat) /\ Len(RowWeights(grown)) = Len(grown)
        /\ \A i \in 1..Len(grown) : RowWeights(grown)[i] = Reserved(grown[i].task)
    BY <2>1, RowWeightsFacts
  <2> QED BY <2>1, <2>2 DEF grown
<1>5. /\ b \in Seq(Nat) /\ Len(b) = Len(rows) + 1
      /\ \A i \in 1..Len(rows) : b[i] = RowWeights(rows)[i]
      /\ b[Len(rows) + 1] = Reserved(s.task)
  BY <1>1, <1>2, AppendProperties
<1>6. \A i \in 1..(Len(rows) + 1) : a[i] = b[i]
  <2>1. \A i \in 1..(Len(rows) + 1) : i \in 1..Len(rows) \/ i = Len(rows) + 1
    BY <1>3
  <2> QED BY <1>1, <1>3, <1>4, <1>5, <2>1
<1> HIDE DEF a, b
<1>7. a = b
  BY <1>4, <1>5, <1>6, SeqEqual
<1> QED BY <1>1, <1>2, <1>7, SumAppend DEF a, b

\* A row leaves.
LEMMA RowLeaves ==
  ASSUME TypeOK, NEW rows \in Seq(SessionType), NEW i \in DOMAIN rows
  PROVE  /\ SumSeq(RowWeights(RemoveRow(rows, i))) <= SumSeq(RowWeights(rows))
         /\ ~rows[i].active => SumSeq(ActiveWeights(RemoveRow(rows, i)))
                                 = SumSeq(ActiveWeights(rows))
<1> DEFINE r == RemoveRow(rows, i)
<1>0. Len(rows) \in Nat /\ DOMAIN rows = 1..Len(rows)
  BY LenProperties
<1>1. /\ r \in Seq(SessionType) /\ Len(r) = Len(rows) - 1
      /\ \A k \in 1..(Len(rows) - 1) : r[k] = IF k < i THEN rows[k] ELSE rows[k + 1]
  BY <1>0, OmitFacts DEF RemoveRow, Omit
<1> HIDE DEF r
<1>2. \A k \in 1..(Len(rows) - 1) : k \in 1..Len(rows) /\ k + 1 \in 1..Len(rows)
  BY <1>0
<1>3. SumSeq(RowWeights(r)) <= SumSeq(RowWeights(rows))
  <2> DEFINE w == RowWeights(rows)
             a == RowWeights(r)
             b == Omit(w, i)
  <2>1. /\ w \in Seq(Nat) /\ Len(w) = Len(rows)
        /\ \A k \in 1..Len(rows) : w[k] = Reserved(rows[k].task)
    BY RowWeightsFacts
  <2>2. /\ a \in Seq(Nat) /\ Len(a) = Len(rows) - 1
        /\ \A k \in 1..(Len(rows) - 1) : a[k] = Reserved(r[k].task)
    BY <1>1, RowWeightsFacts
  <2> HIDE DEF w, a
  <2>3. /\ b \in Seq(Nat) /\ Len(b) = Len(rows) - 1
        /\ \A k \in 1..(Len(rows) - 1) : b[k] = IF k < i THEN w[k] ELSE w[k + 1]
    <3>1. i \in 1..Len(w)
      BY <1>0, <2>1
    <3>2. /\ Omit(w, i) \in Seq(Nat) /\ Len(Omit(w, i)) = Len(w) - 1
          /\ \A k \in 1..(Len(w) - 1) :
               Omit(w, i)[k] = IF k < i THEN w[k] ELSE w[k + 1]
      BY <2>1, <3>1, OmitFacts
    <3> QED BY <2>1, <3>2
  <2>4. \A k \in 1..(Len(rows) - 1) : a[k] = b[k]
    BY <1>1, <1>2, <2>1, <2>2, <2>3
  <2>5. SumSeq(b) + w[i] = SumSeq(w)
    BY <1>0, <2>1, SumOmit
  <2> HIDE DEF b
  <2>6. a = b
    BY <2>2, <2>3, <2>4, SeqEqual
  <2>7. SumSeq(b) \in Nat /\ SumSeq(w) \in Nat /\ w[i] \in Nat
    BY <1>0, <2>1, <2>3, SumNat, ElementOfSeq
  <2>8. SumSeq(a) <= SumSeq(w)
    BY <2>5, <2>6, <2>7
  <2> QED BY <2>8 DEF a, w
<1>4. ASSUME ~rows[i].active
      PROVE  SumSeq(ActiveWeights(r)) = SumSeq(ActiveWeights(rows))
  <2> DEFINE w == ActiveWeights(rows)
             a == ActiveWeights(r)
             b == Omit(w, i)
  <2>1. /\ w \in Seq(Nat) /\ Len(w) = Len(rows)
        /\ \A k \in 1..Len(rows) :
             w[k] = IF rows[k].active THEN Reserved(rows[k].task) ELSE 0
    BY RowWeightsFacts
  <2>2. /\ a \in Seq(Nat) /\ Len(a) = Len(rows) - 1
        /\ \A k \in 1..(Len(rows) - 1) :
             a[k] = IF r[k].active THEN Reserved(r[k].task) ELSE 0
    BY <1>1, RowWeightsFacts
  <2> HIDE DEF w, a
  <2>3. /\ b \in Seq(Nat) /\ Len(b) = Len(rows) - 1
        /\ \A k \in 1..(Len(rows) - 1) : b[k] = IF k < i THEN w[k] ELSE w[k + 1]
    <3>1. i \in 1..Len(w)
      BY <1>0, <2>1
    <3>2. /\ Omit(w, i) \in Seq(Nat) /\ Len(Omit(w, i)) = Len(w) - 1
          /\ \A k \in 1..(Len(w) - 1) :
               Omit(w, i)[k] = IF k < i THEN w[k] ELSE w[k + 1]
      BY <2>1, <3>1, OmitFacts
    <3> QED BY <2>1, <3>2
  <2>4. \A k \in 1..(Len(rows) - 1) : a[k] = b[k]
    BY <1>1, <1>2, <2>1, <2>2, <2>3
  <2>5. SumSeq(b) + w[i] = SumSeq(w)
    BY <1>0, <2>1, SumOmit
  <2> HIDE DEF b
  <2>6. a = b
    BY <2>2, <2>3, <2>4, SeqEqual
  <2>7. SumSeq(b) \in Nat /\ w[i] = 0
    BY <1>0, <1>4, <2>1, <2>3, SumNat
  <2>8. SumSeq(a) = SumSeq(w)
    BY <2>5, <2>6, <2>7
  <2> QED BY <2>8 DEF a, w
<1> QED BY <1>3, <1>4 DEF r

LEMMA RowsSumNat ==
  ASSUME TypeOK
  PROVE  /\ sessions \in Seq(SessionType) /\ Len(sessions) \in Nat
         /\ DOMAIN sessions = 1..Len(sessions)
         /\ SumSeq(RowWeights(sessions)) \in Nat
         /\ AggregateLimit \in Nat /\ MaxBatch \in Nat
<1>1. sessions \in Seq(SessionType) /\ slot \in Nat
  BY DEF TypeOK
<1>2. RowWeights(sessions) \in Seq(Nat)
  BY <1>1, RowWeightsFacts
<1> QED BY <1>1, <1>2, SumNat, LenProperties, ExecutorAssumption

\* Steps that touch neither the rows nor what live counts.
LEMMA QuietCapacity ==
  ASSUME CInv, UNCHANGED <<request, sessions>>,
         pc' \notin {"initializing", "finishing", "erasing", "refilling"},
         pc' \in {"coalescing", "validating"} => Len(batch') <= MaxBatch
  PROVE  CInv'
<1>1. RowsFit'
  BY DEF CInv, RowsFit, RowWeights, Reserved
<1> QED BY <1>1 DEF CInv, BatchFits, StartFits, LiveCounts

LEMMA QuietSteps ==
  ASSUME IInv, CInv,
         \/ StartEngine \/ Exit \/ TakeFirst \/ Coalesce \/ EndCoalescing
         \/ RunClear \/ RunSingle \/ RejectBatch \/ SerializeBatch \/ StartLoop
         \/ RefillDefers \/ EndRefilling \/ SkipPrefill \/ RunDeferred \/ EndBatch
  PROVE  CInv'
<1> USE DEF queueVars, batchVars, resultVars
<1>1. CASE StartEngine \/ Exit \/ RunClear \/ RunSingle \/ RejectBatch \/ SerializeBatch
  BY <1>1, QuietCapacity
     DEF StartEngine, Exit, RunClear, RunSingle, RejectBatch, SerializeBatch
<1>2. CASE StartLoop \/ RefillDefers \/ EndRefilling \/ SkipPrefill \/ RunDeferred
           \/ EndBatch
  BY <1>2, QuietCapacity
     DEF StartLoop, RefillDefers, Refilled, EndRefilling, SkipPrefill, RunDeferred,
         EndBatch, LoopHead
<1>3. CASE TakeFirst
  <2>1. Len(batch') = 1 /\ MaxBatch \in Nat \ {0}
    BY <1>3, ExecutorAssumption DEF TakeFirst
  <2> QED BY <1>3, <2>1, QuietCapacity DEF TakeFirst
<1>4. CASE Coalesce
  <2>1. Len(batch') = Len(batch) + 1 /\ Len(batch) \in Nat /\ Len(batch) < MaxBatch
        /\ MaxBatch \in Nat
    <3>1. tasks # <<>> /\ tasks \in Seq(Tasks) /\ batch \in Seq(Tasks)
      BY <1>4 DEF Coalesce, IInv, TypeOK
    <3>2. Head(tasks) \in Tasks
      BY <3>1, TailFacts
    <3> QED BY <1>4, <3>1, <3>2, AppendFacts, LenProperties, ExecutorAssumption
            DEF Coalesce
  <2> QED BY <1>4, <2>1, QuietCapacity DEF Coalesce
<1>5. CASE EndCoalescing
  BY <1>5, QuietCapacity DEF EndCoalescing, CInv, BatchFits
<1> QED BY <1>1, <1>2, <1>3, <1>4, <1>5

\* Steps that leave the batch, the rows and the count alone.
LEMMA IdleCapacity ==
  ASSUME CInv, UNCHANGED <<request, pc, batch, slot, sessions, live>>
  PROVE  CInv'
<1>1. BatchFits'
  BY DEF CInv, BatchFits
<1>2. StartFits'
  BY DEF CInv, StartFits, BatchWeights, StartedWeights, RowWeights, Reserved
<1>3. LiveCounts'
  BY DEF CInv, LiveCounts, CountedWeights, ActiveWeights, RowWeights, Reserved
<1>4. RowsFit'
  BY DEF CInv, RowsFit, RowWeights, Reserved
<1> QED BY <1>1, <1>2, <1>3, <1>4 DEF CInv

\* A call made now changes no reservation of a batch or a row.
LEMMA EnqueueCapacity ==
  ASSUME IInv, CInv, NEW t \in Tasks, NEW r \in Requests, Enqueue(t, r)
  PROVE  CInv'
<1>1. request' = [request EXCEPT ![t] = r] /\ request[t] = NoRequest
  BY DEF Enqueue
<1>2. UNCHANGED <<pc, batch, slot, sessions, live>>
  BY DEF Enqueue, batchVars
<1>3. \A u \in Tasks : u # t => Reserved(u)' = Reserved(u)
  BY <1>1 DEF IInv, TypeOK, Reserved
<1>4. /\ \A i \in DOMAIN batch : batch[i] \in Tasks /\ batch[i] # t
      /\ \A i \in DOMAIN sessions :
            sessions[i].task \in Tasks /\ sessions[i].task # t
  BY <1>1, HeldTasks DEF IInv, HeldGuarded, Guarded
<1>5. /\ \A i \in DOMAIN batch : Reserved(batch[i])' = Reserved(batch[i])
      /\ \A i \in DOMAIN sessions :
           Reserved(sessions[i].task)' = Reserved(sessions[i].task)
  BY <1>2, <1>3, <1>4
<1>6. /\ BatchWeights(batch)' = BatchWeights(batch)
      /\ StartedWeights(batch, slot)' = StartedWeights(batch, slot)
  BY <1>2, <1>5 DEF BatchWeights, StartedWeights
<1>7. RowWeights(sessions)' = RowWeights(sessions)
  BY <1>2, <1>5 DEF RowWeights
<1>8. ActiveWeights(sessions)' = ActiveWeights(sessions)
  BY <1>2, <1>5 DEF ActiveWeights
<1>9. CountedWeights(sessions, slot)' = CountedWeights(sessions, slot)
  BY <1>2, <1>5 DEF CountedWeights
<1>10. BatchFits' /\ StartFits'
  BY <1>2, <1>6, <1>7 DEF CInv, BatchFits, StartFits
<1>11. LiveCounts' /\ RowsFit'
  BY <1>2, <1>7, <1>8, <1>9 DEF CInv, LiveCounts, RowsFit
<1> QED BY <1>10, <1>11 DEF CInv

-----------------------------------------------------------------------------

LEMMA AdmitBatchCapacity == ASSUME IInv, CInv, AdmitBatch PROVE CInv'
<1>0. /\ pc = "validating" /\ pc' = "initializing" /\ slot' = 1
      /\ Aggregate(batch) <= AggregateLimit
  BY DEF AdmitBatch
<1>1. UNCHANGED <<request, batch, sessions>>
  BY DEF AdmitBatch, queueVars
<1>2. sessions = <<>>
  BY <1>0 DEF IInv, IdleEmpty
<1>3. batch \in Seq(Tasks) /\ Len(batch) \in Nat
  BY LenProperties DEF IInv, TypeOK
<1>4. Aggregate(batch) = SumSeq(BatchWeights(batch))
  BY <1>3, AggregateSum DEF IInv, BatchWeights
<1>5. StartedWeights(batch, 1) \in Seq(Nat)
  BY <1>3, BatchWeightsFacts DEF IInv
<1>6. SumSeq(StartedWeights(batch, 1)) \in Nat
  BY <1>5, SumNat
<1>7. RowWeights(<<>>) = <<>> /\ Len(<<>>) = 0
  BY DEF RowWeights
<1>8. SumSeq(RowWeights(sessions)) = 0
  BY <1>2, <1>7, SumEmpty
<1>9. /\ BatchWeights(batch)' = BatchWeights(batch)
      /\ StartedWeights(batch, slot)' = StartedWeights(batch, 1)
      /\ RowWeights(sessions)' = RowWeights(sessions)
  BY <1>0, <1>1 DEF BatchWeights, StartedWeights, RowWeights, Reserved
<1>10. StartFits'
  <2>1. SumSeq(RowWeights(sessions)) <= SumSeq(StartedWeights(batch, 1))
    BY <1>6, <1>8
  <2>2. Len(sessions') < slot' /\ slot' <= Len(batch') + 1
    BY <1>0, <1>1, <1>2, <1>3, <1>7
  <2> QED BY <1>0, <1>4, <1>9, <2>1, <2>2 DEF StartFits
<1>11. BatchFits' /\ LiveCounts' /\ RowsFit'
  BY <1>0, <1>1, <1>9 DEF CInv, BatchFits, LiveCounts, RowsFit
<1> QED BY <1>10, <1>11 DEF CInv

LEMMA InitializeSlotCapacity == ASSUME IInv, CInv, InitializeSlot PROVE CInv'
<1> DEFINE t == batch[slot]
           a == StartedWeights(batch, slot)
           b == StartedWeights(batch, slot + 1)
<1>0. pc = "initializing" /\ pc' = pc /\ slot' = slot + 1
  BY DEF InitializeSlot
<1>1. UNCHANGED <<request, batch>>
  BY DEF InitializeSlot, queueVars
<1>2. /\ slot \in 1..Len(batch) /\ slot \in Nat /\ slot + 1 \in Nat
      /\ batch \in Seq(Tasks) /\ Len(batch) \in Nat /\ slot \in DOMAIN batch
  BY <1>0, LenProperties DEF IInv, TypeOK, RowsValid, InitializeSlot
<1>3. t \in Tasks /\ request[t].prompt > 0
  BY <1>0, <1>2, HeldTasks DEF IInv, RowsValid
<1>4. /\ a \in Seq(Nat) /\ b \in Seq(Nat) /\ Len(a) = Len(batch) /\ Len(b) = Len(batch)
      /\ \A i \in 1..Len(batch) :
           /\ a[i] = IF i < slot THEN Reserved(batch[i]) ELSE 0
           /\ b[i] = IF i < slot + 1 THEN Reserved(batch[i]) ELSE 0
           /\ Reserved(batch[i]) \in Nat
  BY <1>2, BatchWeightsFacts DEF IInv
<1>5. /\ BatchWeights(batch) \in Seq(Nat) /\ Len(BatchWeights(batch)) = Len(batch)
      /\ \A i \in 1..Len(batch) : BatchWeights(batch)[i] = Reserved(batch[i])
  BY <1>2, BatchWeightsFacts DEF IInv
<1>6. SumSeq(b) = SumSeq(a) + Reserved(t)
  <2> HIDE DEF a, b
  <2>1. a[slot] = 0 /\ b[slot] = Reserved(t) /\ Reserved(t) \in Nat
    BY <1>2, <1>4
  <2>2. \A j \in 1..Len(batch) : j # slot => b[j] = a[j]
    BY <1>2, <1>4
  <2>3. SumSeq(b) + a[slot] = SumSeq(a) + b[slot]
    BY <1>2, <1>4, <2>2, SumChange
  <2>4. SumSeq(a) \in Nat /\ SumSeq(b) \in Nat
    BY <1>4, SumNat
  <2> QED BY <2>1, <2>3, <2>4
<1>7. SumSeq(b) <= SumSeq(BatchWeights(batch))
  <2> HIDE DEF b
  <2>1. ASSUME NEW i \in 1..Len(batch) PROVE b[i] <= BatchWeights(batch)[i]
    <3>1. /\ b[i] = IF i < slot + 1 THEN Reserved(batch[i]) ELSE 0
          /\ BatchWeights(batch)[i] = Reserved(batch[i])
          /\ Reserved(batch[i]) \in Nat
      BY <1>4, <1>5
    <3>2. 0 <= Reserved(batch[i]) /\ Reserved(batch[i]) <= Reserved(batch[i])
      BY <3>1
    <3> QED BY <3>1, <3>2
  <2> QED BY <1>4, <1>5, <2>1, SumMonotone
<1>8. /\ SumSeq(a) \in Nat /\ SumSeq(b) \in Nat /\ Reserved(t) \in Nat
      /\ SumSeq(BatchWeights(batch)) \in Nat
  <2> HIDE DEF a, b
  <2>1. Reserved(t) \in Nat
    BY <1>2, <1>4
  <2> QED BY <1>4, <1>5, <2>1, SumNat
<1>9. /\ BatchWeights(batch)' = BatchWeights(batch)
      /\ StartedWeights(batch, slot)' = b
      /\ RowWeights(sessions)' = RowWeights(sessions')
  BY <1>0, <1>1 DEF BatchWeights, StartedWeights, RowWeights, Reserved
<1>10. /\ SumSeq(BatchWeights(batch)) <= AggregateLimit
       /\ Len(sessions) < slot /\ Len(batch) <= MaxBatch
       /\ SumSeq(RowWeights(sessions)) <= SumSeq(a)
  BY <1>0 DEF CInv, StartFits, BatchFits
<1>11. /\ sessions \in Seq(SessionType) /\ Len(sessions) \in Nat
       /\ SumSeq(RowWeights(sessions)) \in Nat
       /\ AggregateLimit \in Nat /\ MaxBatch \in Nat
  BY RowsSumNat DEF IInv
<1> HIDE DEF a, b
<1>12. /\ Len(sessions') \in Nat /\ Len(sessions') <= Len(sessions) + 1
       /\ SumSeq(RowWeights(sessions')) \in Nat
       /\ SumSeq(RowWeights(sessions')) <= SumSeq(RowWeights(sessions)) + Reserved(t)
  <2>1. CASE sessions' = Append(sessions, NewSession(t, PrefillRows(t)))
    <3>1. NewSession(t, PrefillRows(t)) \in SessionType
          /\ NewSession(t, PrefillRows(t)).task = t
      BY <1>3, NewSessionType DEF IInv
    <3>2. SumSeq(RowWeights(sessions')) = SumSeq(RowWeights(sessions)) + Reserved(t)
      BY <1>11, <2>1, <3>1, RowJoins DEF IInv
    <3>3. Len(sessions') = Len(sessions) + 1
      BY <1>11, <2>1, <3>1, AppendFacts
    <3> QED BY <1>8, <1>11, <3>2, <3>3
  <2>2. CASE sessions' = sessions
    BY <1>8, <1>11, <2>2
  <2> QED BY <2>1, <2>2 DEF InitializeSlot
<1>13. /\ SumSeq(RowWeights(sessions')) <= SumSeq(b)
       /\ SumSeq(RowWeights(sessions')) <= AggregateLimit
  <2> DEFINE all == SumSeq(BatchWeights(batch))
             old == SumSeq(RowWeights(sessions))
             new == SumSeq(RowWeights(sessions'))
             begun == SumSeq(a)
             after == SumSeq(b)
             r == Reserved(t)
  <2>1. /\ all <= AggregateLimit /\ old <= begun /\ new <= old + r
        /\ AggregateLimit \in Nat /\ old \in Nat /\ new \in Nat
    BY <1>10, <1>11, <1>12
  <2>2. after = begun + r /\ after <= all
    BY <1>6, <1>7
  <2>3. all \in Nat /\ begun \in Nat /\ after \in Nat /\ r \in Nat
    BY <1>8
  <2> HIDE DEF all, old, new, begun, after, r
  <2>4. new <= after /\ new <= AggregateLimit
    BY <2>1, <2>2, <2>3
  <2> QED BY <2>4 DEF all, old, new, begun, after, r
<1>14. /\ Len(sessions') < slot' /\ slot' <= Len(batch) + 1 /\ Len(sessions') <= MaxBatch
  BY <1>0, <1>2, <1>10, <1>11, <1>12
<1>15. StartFits' /\ RowsFit'
  BY <1>1, <1>9, <1>10, <1>13, <1>14 DEF StartFits, RowsFit
<1>16. BatchFits' /\ LiveCounts'
  BY <1>0, <1>1, <1>10 DEF BatchFits, LiveCounts
<1> QED BY <1>15, <1>16 DEF CInv

LEMMA DecodeCapacity == ASSUME IInv, CInv, Decode PROVE CInv'
<1>0. pc = "decoding" /\ pc' = "finishing" /\ slot' = 1 /\ live' = 0
  BY DEF Decode
<1>1. UNCHANGED <<request, batch>>
  BY DEF Decode, queueVars
<1>2. PICK result \in [DOMAIN sessions -> {"token", "stop", "cancelled"}] :
        sessions' = [i \in DOMAIN sessions |-> DecodedRow(sessions[i], result[i])]
  BY DEF Decode
<1>3. /\ DOMAIN sessions' = DOMAIN sessions
      /\ \A i \in DOMAIN sessions : sessions'[i].task = sessions[i].task
  BY <1>2, HeldTasks DEF IInv, DecodedRow, SessionType
<1>4. RowWeights(sessions)' = RowWeights(sessions)
  BY <1>1, <1>3 DEF RowWeights, Reserved
<1>5. sessions \in Seq(SessionType) /\ Len(sessions) \in Nat
      /\ DOMAIN sessions = 1..Len(sessions)
  BY RowsSumNat DEF IInv
<1>6. Len(sessions') = Len(sessions)
  <2>1. sessions' = [i \in 1..Len(sessions) |-> sessions'[i]]
    BY <1>2, <1>5
  <2> QED BY <1>5, <2>1
<1>7. RowsFit'
  BY <1>4, <1>6 DEF CInv, RowsFit
<1> DEFINE c == CountedWeights(sessions, slot)'
<1>8. c = [i \in 1..Len(sessions) |-> 0]
  <2>1. \A i \in 1..Len(sessions) : ~(i < 1)
    BY <1>5
  <2> QED BY <1>0, <1>3, <1>5, <2>1 DEF CountedWeights
<1>9. SumSeq(c) = 0
  <2>1. c \in Seq(Nat) /\ Len(c) = Len(sessions)
    BY <1>5, <1>8, IsASeq, LenProperties
  <2>2. \A i \in 1..Len(sessions) : c[i] = 0
    BY <1>8
  <2> HIDE DEF c
  <2> QED BY <2>1, <2>2, SumZero
<1>10. LiveCounts'
  BY <1>0, <1>9 DEF LiveCounts
<1>11. BatchFits' /\ StartFits'
  BY <1>0 DEF BatchFits, StartFits
<1> QED BY <1>7, <1>10, <1>11 DEF CInv

LEMMA FinishSlotCapacity == ASSUME IInv, CInv, FinishSlot PROVE CInv'
<1> DEFINE t == sessions[slot].task
           a == CountedWeights(sessions, slot)
           b == CountedWeights(sessions, slot + 1)
<1>0. pc = "finishing" /\ pc' = pc /\ slot' = slot + 1
  BY DEF FinishSlot
<1>1. UNCHANGED <<request, sessions>>
  BY DEF FinishSlot, queueVars
<1>2. /\ sessions \in Seq(SessionType) /\ Len(sessions) \in Nat
      /\ DOMAIN sessions = 1..Len(sessions)
  BY RowsSumNat DEF IInv
<1>3. slot \in 1..Len(sessions) /\ slot \in Nat /\ slot + 1 \in Nat
  BY <1>0, <1>2 DEF IInv, TypeOK, RowsValid, FinishSlot
<1>4. /\ a \in Seq(Nat) /\ b \in Seq(Nat)
      /\ Len(a) = Len(sessions) /\ Len(b) = Len(sessions)
      /\ \A i \in 1..Len(sessions) :
           /\ a[i] = IF i < slot /\ sessions[i].active
                     THEN Reserved(sessions[i].task) ELSE 0
           /\ b[i] = IF i < slot + 1 /\ sessions[i].active
                     THEN Reserved(sessions[i].task) ELSE 0
           /\ Reserved(sessions[i].task) \in Nat
  BY <1>2, <1>3, RowWeightsFacts DEF IInv
<1>5. /\ CountedWeights(sessions, slot)' = b
      /\ RowWeights(sessions)' = RowWeights(sessions)
  BY <1>0, <1>1 DEF CountedWeights, RowWeights, Reserved
<1>6. live = SumSeq(a)
  BY <1>0 DEF CInv, LiveCounts
<1> HIDE DEF a, b
<1>7. \A j \in 1..Len(sessions) : j # slot => b[j] = a[j]
  <2>1. \A j \in 1..Len(sessions) : j # slot => (j < slot + 1 <=> j < slot)
    BY <1>3
  <2> QED BY <1>4, <2>1
<1>8. SumSeq(b) + a[slot] = SumSeq(a) + b[slot]
  BY <1>3, <1>4, <1>7, SumChange
<1>9. SumSeq(a) \in Nat /\ SumSeq(b) \in Nat
  BY <1>4, SumNat
<1>10. a[slot] = 0
  BY <1>3, <1>4
<1>11. live' = SumSeq(b)
  <2>1. CASE sessions[slot].active /\ live' = live + Reserved(t)
    <3>1. b[slot] = Reserved(t) /\ Reserved(t) \in Nat
      BY <1>3, <1>4, <2>1
    <3> QED BY <1>6, <1>8, <1>9, <1>10, <2>1, <3>1
  <2>2. CASE ~sessions[slot].active /\ live' = live
    <3>1. b[slot] = 0
      BY <1>3, <1>4, <2>2
    <3> QED BY <1>6, <1>8, <1>9, <1>10, <2>2, <3>1
  <2> QED BY <2>1, <2>2 DEF FinishSlot
<1>12. LiveCounts'
  BY <1>0, <1>5, <1>11 DEF LiveCounts
<1>13. BatchFits' /\ StartFits' /\ RowsFit'
  BY <1>0, <1>1, <1>5 DEF CInv, BatchFits, StartFits, RowsFit
<1> QED BY <1>12, <1>13 DEF CInv

LEMMA EndFinishingCapacity == ASSUME IInv, CInv, EndFinishing PROVE CInv'
<1>0. pc = "finishing" /\ pc' = "erasing" /\ slot > Len(sessions)
  BY DEF EndFinishing
<1>1. UNCHANGED <<request, sessions, live>>
  BY DEF EndFinishing, queueVars, batchVars
<1>2. /\ sessions \in Seq(SessionType) /\ Len(sessions) \in Nat
      /\ DOMAIN sessions = 1..Len(sessions) /\ slot \in Nat
  BY RowsSumNat DEF IInv, TypeOK
<1>3. CountedWeights(sessions, slot) = ActiveWeights(sessions)
  <2>1. \A i \in DOMAIN sessions : i < slot
    BY <1>0, <1>2
  <2> QED BY <2>1 DEF CountedWeights, ActiveWeights
<1>4. /\ ActiveWeights(sessions)' = ActiveWeights(sessions)
      /\ RowWeights(sessions)' = RowWeights(sessions)
  BY <1>1 DEF ActiveWeights, RowWeights, Reserved
<1>5. BatchFits' /\ StartFits' /\ LiveCounts' /\ RowsFit'
  BY <1>0, <1>1, <1>3, <1>4 DEF CInv, BatchFits, StartFits, LiveCounts, RowsFit
<1> QED BY <1>5 DEF CInv

LEMMA EraseRowCapacity == ASSUME IInv, CInv, EraseRow PROVE CInv'
<1>0. pc = "erasing" /\ pc' = pc
  BY DEF EraseRow
<1>1. UNCHANGED <<request, live>>
  BY DEF EraseRow, queueVars
<1>2. PICK i \in DOMAIN sessions :
        ~sessions[i].active /\ sessions' = RemoveRow(sessions, i)
  BY DEF EraseRow
<1>3. /\ sessions \in Seq(SessionType) /\ Len(sessions) \in Nat
      /\ SumSeq(RowWeights(sessions)) \in Nat
      /\ AggregateLimit \in Nat /\ MaxBatch \in Nat
  BY RowsSumNat DEF IInv
<1>4. /\ SumSeq(RowWeights(sessions')) <= SumSeq(RowWeights(sessions))
      /\ SumSeq(ActiveWeights(sessions')) = SumSeq(ActiveWeights(sessions))
  BY <1>2, <1>3, RowLeaves DEF IInv
<1>5. sessions' \in Seq(SessionType) /\ Len(sessions') = Len(sessions) - 1
  BY <1>2, <1>3, RemoveFacts
<1>6. SumSeq(RowWeights(sessions')) \in Nat
  BY <1>5, RowWeightsFacts, SumNat DEF IInv
<1>7. /\ ActiveWeights(sessions)' = ActiveWeights(sessions')
      /\ RowWeights(sessions)' = RowWeights(sessions')
  BY <1>1 DEF ActiveWeights, RowWeights, Reserved
<1>8. SumSeq(RowWeights(sessions')) <= AggregateLimit /\ Len(sessions') <= MaxBatch
  BY <1>3, <1>4, <1>5, <1>6 DEF CInv, RowsFit
<1>9. RowsFit'
  BY <1>7, <1>8 DEF RowsFit
<1>10. LiveCounts'
  BY <1>0, <1>1, <1>4, <1>7 DEF CInv, LiveCounts
<1>11. BatchFits' /\ StartFits'
  BY <1>0 DEF BatchFits, StartFits
<1> QED BY <1>9, <1>10, <1>11 DEF CInv

LEMMA EndErasingCapacity == ASSUME IInv, CInv, EndErasing PROVE CInv'
<1>0. /\ pc = "erasing" /\ pc' \in {"serial", "refilling"}
      /\ \A i \in DOMAIN sessions : sessions[i].active
  BY DEF EndErasing
<1>1. UNCHANGED <<request, sessions, live>>
  BY DEF EndErasing, queueVars, batchVars
<1>2. ActiveWeights(sessions) = RowWeights(sessions)
  BY <1>0 DEF ActiveWeights, RowWeights
<1>3. RowWeights(sessions)' = RowWeights(sessions)
  BY <1>1 DEF RowWeights, Reserved
<1>4. BatchFits' /\ StartFits' /\ LiveCounts' /\ RowsFit'
  BY <1>0, <1>1, <1>2, <1>3 DEF CInv, BatchFits, StartFits, LiveCounts, RowsFit
<1> QED BY <1>4 DEF CInv

LEMMA RefillJoinsCapacity == ASSUME IInv, CInv, RefillJoins PROVE CInv'
<1> DEFINE t == Head(tasks)
<1>0. /\ tasks # <<>> /\ pc = "refilling" /\ pc' = pc
      /\ sessions' = Append(sessions, NewSession(t, 0))
      /\ live' = live + Reserved(t) /\ live + Reserved(t) <= AggregateLimit
      /\ request[t].valid /\ request[t].kind = "generate"
      /\ Len(sessions) < MaxBatch /\ tasks' = Tail(tasks)
  BY DEF RefillJoins, Refilled, Batchable, Fits
<1>1. t \in Tasks /\ request[t] # NoRequest
  BY <1>0, PopFacts
<1> HIDE DEF t
<1>2. UNCHANGED request
  BY DEF RefillJoins
<1>3. NewSession(t, 0) \in SessionType /\ NewSession(t, 0).task = t
  <2>1. request[t].prompt > 0
    BY <1>0, <1>1, RequestFields, ExecutorAssumption DEF IInv
  <2> QED BY <1>1, <2>1, NewSessionType DEF IInv
<1>4. /\ sessions \in Seq(SessionType) /\ Len(sessions) \in Nat /\ MaxBatch \in Nat
  BY RowsSumNat DEF IInv
<1>5. SumSeq(RowWeights(sessions')) = SumSeq(RowWeights(sessions)) + Reserved(t)
  BY <1>0, <1>3, <1>4, RowJoins DEF IInv
<1>6. Len(sessions') = Len(sessions) + 1
  BY <1>0, <1>3, <1>4, AppendFacts
<1>7. live = SumSeq(RowWeights(sessions))
  BY <1>0 DEF CInv, LiveCounts
<1>8. RowWeights(sessions)' = RowWeights(sessions')
  BY <1>2 DEF RowWeights, Reserved
<1>9. live' = SumSeq(RowWeights(sessions')) /\ live' <= AggregateLimit
  BY <1>0, <1>5, <1>7
<1>10. Len(sessions') <= MaxBatch
  BY <1>0, <1>4, <1>6
<1>11. BatchFits' /\ StartFits' /\ LiveCounts' /\ RowsFit'
  BY <1>0, <1>8, <1>9, <1>10 DEF BatchFits, StartFits, LiveCounts, RowsFit
<1> QED BY <1>11 DEF CInv

LEMMA PrefillCapacity == ASSUME IInv, CInv, Prefill PROVE CInv'
<1>0. pc = "prefilling" /\ pc' \in {"serial", "decoding"}
  BY DEF Prefill, LoopHead
<1>1. UNCHANGED request
  BY DEF Prefill, queueVars
<1>2. PICK i \in DOMAIN sessions :
        \/ sessions' = [sessions EXCEPT ![i] = AdvancedPrefill(@)]
        \/ sessions' = RemoveRow(sessions, i)
  BY DEF Prefill
<1>3. /\ sessions \in Seq(SessionType) /\ Len(sessions) \in Nat
      /\ SumSeq(RowWeights(sessions)) \in Nat
      /\ AggregateLimit \in Nat /\ MaxBatch \in Nat
  BY RowsSumNat DEF IInv
<1>4. RowWeights(sessions)' = RowWeights(sessions')
  BY <1>1 DEF RowWeights, Reserved
<1>5. SumSeq(RowWeights(sessions')) <= AggregateLimit /\ Len(sessions') <= MaxBatch
  <2>1. CASE sessions' = [sessions EXCEPT ![i] = AdvancedPrefill(@)]
    <3>1. AdvancedPrefill(sessions[i]).task = sessions[i].task
      BY HeldTasks, AdvancedPrefillType DEF IInv, RowsValid
    <3>2. /\ DOMAIN sessions' = DOMAIN sessions /\ Len(sessions') = Len(sessions)
          /\ \A k \in DOMAIN sessions' : sessions'[k].task = sessions[k].task
      BY <1>3, <2>1, <3>1, LenProperties
    <3>3. RowWeights(sessions') = RowWeights(sessions)
      BY <3>2 DEF RowWeights
    <3> QED BY <3>2, <3>3 DEF CInv, RowsFit
  <2>2. CASE sessions' = RemoveRow(sessions, i)
    <3>1. SumSeq(RowWeights(sessions')) <= SumSeq(RowWeights(sessions))
      BY <1>3, <2>2, RowLeaves DEF IInv
    <3>2. sessions' \in Seq(SessionType) /\ Len(sessions') = Len(sessions) - 1
      BY <1>3, <2>2, RemoveFacts
    <3>3. SumSeq(RowWeights(sessions')) \in Nat
      BY <3>2, RowWeightsFacts, SumNat DEF IInv
    <3> QED BY <1>3, <3>1, <3>2, <3>3 DEF CInv, RowsFit
  <2> QED BY <1>2, <2>1, <2>2
<1>6. BatchFits' /\ StartFits' /\ LiveCounts' /\ RowsFit'
  BY <1>0, <1>4, <1>5 DEF BatchFits, StartFits, LiveCounts, RowsFit
<1> QED BY <1>6 DEF CInv

LEMMA NoRows ==
  ASSUME TypeOK
  PROVE  SumSeq(RowWeights(<<>>)) <= AggregateLimit /\ Len(<<>>) <= MaxBatch
<1>1. RowWeights(<<>>) = <<>> /\ Len(<<>>) = 0
  BY DEF RowWeights
<1> QED BY <1>1, SumEmpty, ExecutorAssumption

LEMMA FailBatchCapacity == ASSUME IInv, CInv, FailBatch PROVE CInv'
<1>0. pc' = "waiting" /\ sessions' = <<>>
  BY DEF FailBatch
<1>1. RowWeights(sessions)' = RowWeights(<<>>)
  BY <1>0 DEF RowWeights
<1>2. BatchFits' /\ StartFits' /\ LiveCounts' /\ RowsFit'
  BY <1>0, <1>1, NoRows DEF IInv, BatchFits, StartFits, LiveCounts, RowsFit
<1> QED BY <1>2 DEF CInv

LEMMA NextCInv == IInv /\ CInv /\ [Next]_vars => CInv'
<1> SUFFICES ASSUME IInv, CInv, [Next]_vars PROVE CInv'
  OBVIOUS
<1>1. CASE \E t \in Tasks, r \in Requests : Enqueue(t, r)
  BY <1>1, EnqueueCapacity
<1>2. CASE Stop
  BY <1>2, IdleCapacity DEF Stop, batchVars
<1>3. CASE UNCHANGED vars
  BY <1>3, IdleCapacity DEF vars
<1>4. CASE RefillFails
  BY <1>4, IdleCapacity DEF RefillFails, batchVars
<1>5. CASE \/ StartEngine \/ Exit \/ TakeFirst \/ Coalesce \/ EndCoalescing
           \/ RunClear \/ RunSingle \/ RejectBatch \/ SerializeBatch \/ StartLoop
           \/ RefillDefers \/ EndRefilling \/ SkipPrefill \/ RunDeferred \/ EndBatch
  BY <1>5, QuietSteps
<1>6. CASE AdmitBatch \/ InitializeSlot \/ Decode \/ FinishSlot \/ EndFinishing
  BY <1>6, AdmitBatchCapacity, InitializeSlotCapacity, DecodeCapacity,
     FinishSlotCapacity, EndFinishingCapacity
<1>7. CASE EraseRow \/ EndErasing \/ RefillJoins \/ Prefill \/ FailBatch
  BY <1>7, EraseRowCapacity, EndErasingCapacity, RefillJoinsCapacity,
     PrefillCapacity, FailBatchCapacity
<1> QED BY <1>1, <1>2, <1>3, <1>4, <1>5, <1>6, <1>7 DEF Next, Worker, Terminated

\* The calls of the live rows never reserve more context than the admission
\* limit and never fill more rows than a batch has, whatever mix of
\* completions, failures, erasures and refills led there.
THEOREM RowsWithinLimits == Spec => []BatchWithinLimits
<1>1. Init => CInv
  <2> SUFFICES ASSUME Init PROVE CInv
    OBVIOUS
  <2>1. pc = "starting" /\ sessions = <<>>
    BY DEF Init
  <2>2. TypeOK
    BY InitIInv DEF IInv
  <2>3. RowsFit
    BY <2>1, <2>2, NoRows DEF RowsFit
  <2> QED BY <2>1, <2>3 DEF CInv, BatchFits, StartFits, LiveCounts
<1>2. IInv /\ CInv /\ [Next]_vars => CInv'
  BY NextCInv
<1>3. IInv /\ CInv => BatchWithinLimits
  <2> SUFFICES ASSUME IInv, CInv PROVE BatchWithinLimits
    OBVIOUS
  <2> DEFINE ts == [i \in DOMAIN sessions |-> sessions[i].task]
  <2>1. /\ sessions \in Seq(SessionType) /\ Len(sessions) \in Nat
        /\ DOMAIN sessions = 1..Len(sessions)
    BY RowsSumNat DEF IInv
  <2>2. \A i \in 1..Len(sessions) : sessions[i].task \in Tasks
    BY <2>1, HeldTasks DEF IInv
  <2>3. ts \in Seq(Tasks) /\ DOMAIN ts = DOMAIN sessions
    BY <2>1, <2>2, IsASeq
  <2>4. RowWeights(sessions) = [i \in DOMAIN ts |-> Reserved(ts[i])]
    BY <2>3 DEF RowWeights
  <2>5. Aggregate(ts) = SumSeq(RowWeights(sessions))
    <3> HIDE DEF ts
    <3> QED BY <2>3, <2>4, AggregateSum DEF IInv
  <2> QED BY <2>5 DEF CInv, RowsFit, BatchWithinLimits
<1> QED BY <1>1, <1>2, <1>3, Invariance, PTL DEF Spec

=============================================================================
