----------------------- MODULE InferenceSchedulerProofs -----------------------
(***************************************************************************)
(* Proofs about InferenceScheduler, for any number of workers and tasks and *)
(* any capacity: what mutex_ protects, no idle worker beside a waiting      *)
(* task, and the safety part of the refinement of BoundedTaskPool; and      *)
(* about InferenceService, for any installation and any requests: where a   *)
(* task runs, what a request is answered with, and what the metrics say.    *)
(***************************************************************************)
EXTENDS InferenceScheduler, InferenceService, SequenceFacts, FiniteSetTheorems, TLAPS

(* Every variable keeps its type, and a worker holds a task exactly between *)
(* taking and completing it.                                                *)
LEMMA TypeStep == TypeOK /\ StopProtocol /\ [Next]_vars => TypeOK'
<1> SUFFICES ASSUME TypeOK, StopProtocol, [Next]_vars PROVE TypeOK'
  OBVIOUS
<1> USE NoTaskAssumption DEF TypeOK, WorkerPcs, SubmitResults
<1>1. CASE Start
  BY <1>1 DEF Start, StopProtocol
<1>2. CASE StopRequest
  BY <1>2 DEF StopRequest
<1>3. CASE StopNotify
  BY <1>3 DEF StopNotify, NotifyAll
<1>4. CASE StopJoin
  BY <1>4 DEF StopJoin
<1>5. CASE StopFinish
  BY <1>5 DEF StopFinish
<1>6. ASSUME NEW t \in Tasks, SubmitAccepted(t) PROVE TypeOK'
  <2>1. wpc' \in [Workers -> WorkerPcs]
    BY <1>6 DEF SubmitAccepted, NotifyOne, Waiting
  <2>2. \A w \in Workers : (cur'[w] \in Tasks) <=> (wpc'[w] \in {"infer", "complete"})
    BY <1>6 DEF SubmitAccepted, NotifyOne, Waiting
  <2> QED
    BY <1>6, <2>1, <2>2 DEF SubmitAccepted
<1>7. ASSUME NEW t \in Tasks, SubmitRejected(t) PROVE TypeOK'
  <2>1. SubmitVerdict(t) \in SubmitResults
    BY DEF SubmitVerdict
  <2> QED
    BY <1>7, <2>1 DEF SubmitRejected
<1>8. ASSUME NEW w \in Workers, WorkerWait(w) PROVE TypeOK'
  BY <1>8 DEF WorkerWait
<1>9. ASSUME NEW w \in Workers, WorkerExit(w) PROVE TypeOK'
  BY <1>9 DEF WorkerExit
<1>10. ASSUME NEW w \in Workers, WorkerTake(w) PROVE TypeOK'
  <2>1. Head(tasks) \in Tasks /\ Tail(tasks) \in Seq(Tasks)
    BY <1>10, HeadTailProperties DEF WorkerTake
  <2> QED
    BY <1>10, <2>1 DEF WorkerTake
<1>11. ASSUME NEW w \in Workers, WorkerInfer(w) PROVE TypeOK'
  BY <1>11 DEF WorkerInfer
<1>12. ASSUME NEW w \in Workers, WorkerComplete(w) PROVE TypeOK'
  BY <1>12 DEF WorkerComplete
<1>13. ASSUME NEW w \in Workers, SpuriousWakeup(w) PROVE TypeOK'
  BY <1>13 DEF SpuriousWakeup
<1>14. CASE UNCHANGED vars
  BY <1>14 DEF vars
<1> QED
  BY <1>1, <1>2, <1>3, <1>4, <1>5, <1>6, <1>7, <1>8, <1>9, <1>10, <1>11,
     <1>12, <1>13, <1>14 DEF Next, StopStep, WorkerStep

-----------------------------------------------------------------------------
(* submit() accepts only between start() and stop(), below the capacity. *)
LEMMA AcceptedMeans ==
  ASSUME TypeOK, NEW t \in Tasks, SubmitVerdict(t) = "kAccepted"
  PROVE  running /\ ~stopping /\ Len(tasks) < QueueCapacity
<1>1. running /\ ~stopping
  BY Zenon DEF SubmitVerdict
<1>2. ~(Len(tasks) >= QueueCapacity)
  BY Zenon DEF SubmitVerdict
<1>3. Len(tasks) \in Nat /\ QueueCapacity \in Nat
  BY SchedulerAssumption, LenProperties DEF TypeOK
<1> QED
  BY <1>1, <1>2, <1>3

(* The protocol of stop() is kept by every step. *)
LEMMA StopProtocolStep == TypeOK /\ StopProtocol /\ [Next]_vars => StopProtocol'
<1> SUFFICES ASSUME TypeOK, StopProtocol, [Next]_vars PROVE StopProtocol'
  OBVIOUS
<1> USE SchedulerAssumption DEF TypeOK, StopProtocol
<1>1. CASE Start
  BY <1>1 DEF Start
<1>2. CASE StopRequest
  BY <1>2 DEF StopRequest
<1>3. CASE StopNotify
  BY <1>3 DEF StopNotify, NotifyAll
<1>4. CASE StopJoin
  BY <1>4 DEF StopJoin
<1>5. CASE StopFinish
  BY <1>5 DEF StopFinish
<1>6. ASSUME NEW t \in Tasks, SubmitAccepted(t) PROVE StopProtocol'
  BY <1>6, AcceptedMeans DEF SubmitAccepted, NotifyOne, Waiting
<1>7. ASSUME NEW t \in Tasks, SubmitRejected(t) PROVE StopProtocol'
  BY <1>7 DEF SubmitRejected
<1>8. ASSUME NEW w \in Workers, WorkerWait(w) PROVE StopProtocol'
  BY <1>8 DEF WorkerWait
<1>9. ASSUME NEW w \in Workers, WorkerExit(w) PROVE StopProtocol'
  BY <1>9 DEF WorkerExit
<1>10. ASSUME NEW w \in Workers, WorkerTake(w) PROVE StopProtocol'
  BY <1>10 DEF WorkerTake
<1>11. ASSUME NEW w \in Workers, WorkerInfer(w) PROVE StopProtocol'
  BY <1>11 DEF WorkerInfer
<1>12. ASSUME NEW w \in Workers, WorkerComplete(w) PROVE StopProtocol'
  BY <1>12 DEF WorkerComplete
<1>13. ASSUME NEW w \in Workers, SpuriousWakeup(w) PROVE StopProtocol'
  BY <1>13 DEF SpuriousWakeup
<1>14. CASE UNCHANGED vars
  BY <1>14 DEF vars
<1> QED
  BY <1>1, <1>2, <1>3, <1>4, <1>5, <1>6, <1>7, <1>8, <1>9, <1>10, <1>11,
     <1>12, <1>13, <1>14 DEF Next, StopStep, WorkerStep
-----------------------------------------------------------------------------
(* The order of the queue, the completions and the places of the tasks: the *)
(* parts of MonitorInv that speak of the tasks themselves.                  *)
LedgerInv == FirstInFirstOut /\ CompletedOnce /\ TaskLedger

ledgerVars == <<tasks, cur, answer, begun, accepted, completed>>

(* Steps that move no task keep the ledger. *)
LEMMA LedgerFrame == LedgerInv /\ UNCHANGED ledgerVars => LedgerInv'
BY DEF LedgerInv, ledgerVars, FirstInFirstOut, CompletedOnce, TaskLedger, Held

(* submit() rejects: the request is in no sequence and stays out of them. *)
LEMMA LedgerRejected ==
  ASSUME TypeOK, LedgerInv, NEW t \in Tasks, SubmitRejected(t)
  PROVE  LedgerInv'
<1>1. UNCHANGED <<tasks, cur, begun, accepted, completed>>
  BY DEF SubmitRejected
<1>2. {u \in Tasks : answer'[u] = "kAccepted"} = {u \in Tasks : answer[u] = "kAccepted"}
  BY DEF SubmitRejected, TypeOK
<1> QED
  BY <1>1, <1>2 DEF LedgerInv, FirstInFirstOut, CompletedOnce, TaskLedger, Held

(* submit() accepts: the task joins the back of both histories, once. *)
LEMMA LedgerAccepted ==
  ASSUME TypeOK, LedgerInv, NEW t \in Tasks, SubmitAccepted(t)
  PROVE  LedgerInv'
<1> USE DEF LedgerInv
<1>1. /\ answer[t] # "kAccepted" /\ answer' = [answer EXCEPT ![t] = "kAccepted"]
      /\ tasks' = Append(tasks, t) /\ accepted' = Append(accepted, t)
      /\ UNCHANGED <<cur, begun, completed>>
  BY DEF SubmitAccepted
<1>2. tasks \in Seq(Tasks) /\ begun \in Seq(Tasks) /\ accepted \in Seq(Tasks)
  BY DEF TypeOK
<1>3. FirstInFirstOut'
  <2>1. begun \o Append(tasks, t) = Append(begun \o tasks, t)
    BY <1>2, ConcatAppend
  <2> QED
    BY <1>1, <2>1 DEF FirstInFirstOut
<1>4. t \notin Range(accepted)
  BY <1>1 DEF TaskLedger
<1>5. IsInjective(accepted')
  BY <1>1, <1>2, <1>4, InjectiveAppend DEF TaskLedger
<1>6. Range(accepted') = {u \in Tasks : answer'[u] = "kAccepted"}
  <2>1. Range(accepted') = Range(accepted) \union {t}
    BY <1>1, <1>2, RangeAppend
  <2> QED
    BY <1>1, <2>1 DEF TaskLedger, TypeOK
<1>7. CompletedOnce'
  BY <1>1 DEF CompletedOnce
<1> QED
  BY <1>1, <1>3, <1>5, <1>6, <1>7 DEF TaskLedger, Held

(* A worker takes the head of the queue: no other worker holds it, and it   *)
(* was not completed, because it was not begun.                             *)
LEMMA LedgerTake ==
  ASSUME TypeOK, LedgerInv, NEW w \in Workers, WorkerTake(w)
  PROVE  LedgerInv'
<1> USE DEF LedgerInv
<1> DEFINE h == Head(tasks)
<1>1. /\ wpc[w] = "enter" /\ tasks # <<>> /\ cur' = [cur EXCEPT ![w] = h]
      /\ tasks' = Tail(tasks) /\ begun' = Append(begun, h)
      /\ UNCHANGED <<answer, accepted, completed>>
  BY DEF WorkerTake
<1>2. /\ tasks \in Seq(Tasks) /\ begun \in Seq(Tasks) /\ accepted \in Seq(Tasks)
      /\ completed \in Seq(Tasks) /\ h \in Tasks
      /\ cur \in [Workers -> Tasks \union {NoTask}]
  BY <1>1, HeadTailProperties DEF TypeOK
<1>3. cur[w] = NoTask
  BY <1>1 DEF TypeOK
<1>4. FirstInFirstOut'
  BY <1>1, <1>2, MoveHead DEF FirstInFirstOut
<1>5. h \notin Range(begun)
  BY <1>1, <1>2, HeadIsNew DEF FirstInFirstOut, TaskLedger
<1>6. Range(begun') = Range(begun) \union {h}
  BY <1>1, <1>2, RangeAppend
<1> HIDE DEF h
<1>7. h \notin Range(completed) /\ \A v \in Workers : cur[v] # h
  BY <1>2, <1>5 DEF TaskLedger, Held
<1>8. CompletedOnce'
  BY <1>1, <1>2, <1>6, <1>7 DEF CompletedOnce
<1>9. Held' = Held \union {h}
  BY <1>1, <1>2, <1>3, NoTaskAssumption DEF Held
<1>10. TaskLedger'
  BY <1>1, <1>2, <1>6, <1>7, <1>9 DEF TaskLedger
<1> QED
  BY <1>4, <1>8, <1>10

(* A worker calls the completion of the task it holds. *)
LEMMA LedgerComplete ==
  ASSUME TypeOK, LedgerInv, NEW w \in Workers, WorkerComplete(w)
  PROVE  LedgerInv'
<1> USE DEF LedgerInv
<1> DEFINE c == cur[w]
<1>1. /\ wpc[w] = "complete" /\ cur' = [cur EXCEPT ![w] = NoTask]
      /\ completed' = Append(completed, c)
      /\ UNCHANGED <<tasks, answer, accepted, begun>>
  BY DEF WorkerComplete
<1>2. /\ begun \in Seq(Tasks) /\ completed \in Seq(Tasks) /\ c \in Tasks
      /\ cur \in [Workers -> Tasks \union {NoTask}]
  BY <1>1 DEF TypeOK
<1>3. c \in Range(begun) /\ c \notin Range(completed)
  BY <1>2 DEF TaskLedger, CompletedOnce, Held
<1>4. Range(completed') = Range(completed) \union {c}
  BY <1>1, <1>2, RangeAppend
<1>5. completed' \in Seq(Tasks) /\ IsInjective(completed')
  <2>1. IsInjective(completed)
    BY <1>2, InjectiveSeq DEF CompletedOnce
  <2> QED
    BY <1>1, <1>2, <1>3, <2>1, InjectiveAppend
<1>6. \A i, j \in 1 .. Len(completed') : i # j => completed'[i] # completed'[j]
  BY <1>5, InjectiveSeq
<1>7. \A v \in Workers : v # w => cur[v] # c
  BY <1>2, NoTaskAssumption DEF TaskLedger
<1>8. NoTask \notin Range(completed')
  BY <1>5, RangeOfSeq, NoTaskAssumption
<1>9. CompletedOnce'
  BY <1>1, <1>2, <1>3, <1>4, <1>6, <1>7, <1>8 DEF CompletedOnce
<1>10. Held' = Held \ {c}
  BY <1>1, <1>2, <1>7, NoTaskAssumption DEF Held
<1>11. TaskLedger'
  BY <1>1, <1>2, <1>3, <1>4, <1>10 DEF TaskLedger
<1> QED
  BY <1>1, <1>9, <1>11 DEF FirstInFirstOut

(* The ledger is kept by every step. *)
LEMMA LedgerStep == TypeOK /\ LedgerInv /\ [Next]_vars => LedgerInv'
<1> SUFFICES ASSUME TypeOK, LedgerInv, [Next]_vars PROVE LedgerInv'
  OBVIOUS
<1>1. CASE Start \/ StopRequest \/ StopStep
  BY <1>1, LedgerFrame DEF Start, StopRequest, StopStep, StopNotify, StopJoin,
     StopFinish, ledgerVars
<1>2. ASSUME NEW w \in Workers,
             WorkerWait(w) \/ WorkerExit(w) \/ WorkerInfer(w) \/ SpuriousWakeup(w)
      PROVE  LedgerInv'
  BY <1>2, LedgerFrame DEF WorkerWait, WorkerExit, WorkerInfer, SpuriousWakeup,
     ledgerVars
<1>3. CASE UNCHANGED vars
  BY <1>3, LedgerFrame DEF vars, ledgerVars
<1> QED
  BY <1>1, <1>2, <1>3, LedgerRejected, LedgerAccepted, LedgerTake, LedgerComplete
     DEF Next, WorkerStep
-----------------------------------------------------------------------------
(* Every conjunct of MonitorInv is kept by every step.  A stopped scheduler *)
(* is drained because its queue is empty and no worker holds a task, so the *)
(* ledger puts every accepted task among the completed ones.                *)
LEMMA MonitorStep == MonitorInv /\ [Next]_vars => MonitorInv'
<1> SUFFICES ASSUME MonitorInv, [Next]_vars PROVE MonitorInv'
  OBVIOUS
<1>1. TypeOK /\ StopProtocol /\ LedgerInv /\ BoundedQueue /\ GaugeExact
  BY DEF MonitorInv, LedgerInv
<1>2. TypeOK' /\ StopProtocol' /\ LedgerInv'
  BY <1>1, TypeStep, StopProtocolStep, LedgerStep
<1>3. BoundedQueue' /\ GaugeExact'
  <2> USE DEF BoundedQueue, GaugeExact
  <2>1. ASSUME NEW t \in Tasks, SubmitAccepted(t) PROVE BoundedQueue' /\ GaugeExact'
    <3>1. Len(tasks) < QueueCapacity /\ tasks \in Seq(Tasks) /\ QueueCapacity \in Nat
      BY <1>1, <2>1, AcceptedMeans, SchedulerAssumption DEF SubmitAccepted, TypeOK
    <3>2. tasks' = Append(tasks, t) /\ queueDepth' = Len(tasks')
      BY <2>1 DEF SubmitAccepted
    <3> QED
      BY <3>1, <3>2
  <2>2. ASSUME NEW w \in Workers, WorkerTake(w) PROVE BoundedQueue' /\ GaugeExact'
    <3>1. tasks \in Seq(Tasks) /\ tasks # <<>> /\ QueueCapacity \in Nat
      BY <1>1, <2>2, SchedulerAssumption DEF WorkerTake, TypeOK
    <3>2. tasks' = Tail(tasks) /\ queueDepth' = Len(tasks')
      BY <2>2 DEF WorkerTake
    <3>3. Len(Tail(tasks)) = Len(tasks) - 1 /\ Len(tasks) \in Nat
      BY <3>1, HeadTailProperties, LenProperties
    <3> QED
      BY <1>1, <3>1, <3>2, <3>3
  <2>3. CASE UNCHANGED <<tasks, queueDepth>>
    BY <1>1, <2>3
  <2> QED
    BY <2>1, <2>2, <2>3 DEF Next, vars, Start, StopRequest, StopStep, StopNotify,
       StopJoin, StopFinish, SubmitRejected, WorkerStep, WorkerWait, WorkerExit,
       WorkerInfer, WorkerComplete, SpuriousWakeup
<1>4. StoppedIsDrained'
  <2> SUFFICES ASSUME ~running' PROVE /\ tasks' = <<>>
                                      /\ \A w \in Workers : wpc'[w] = "none"
                                      /\ Range(completed') = Range(accepted')
    BY DEF StoppedIsDrained
  <2>1. tasks' = <<>>
    <3>1. CASE UNCHANGED running
      <4>1. ~running /\ ~stopping /\ tasks = <<>> /\ \A w \in Workers : wpc[w] = "none"
        BY <1>1, <3>1 DEF MonitorInv, StoppedIsDrained, StopProtocol, TypeOK
      <4>2. \A t \in Tasks : ~SubmitAccepted(t)
        BY <1>1, <4>1, AcceptedMeans DEF SubmitAccepted
      <4> QED
        BY <4>1, <4>2 DEF Next, vars, Start, StopRequest, StopStep, StopNotify,
           StopJoin, StopFinish, SubmitRejected, WorkerStep, WorkerWait, WorkerExit,
           WorkerTake, WorkerInfer, WorkerComplete, SpuriousWakeup
    <3>2. CASE StopFinish
      BY <1>1, <3>2 DEF StopFinish, StopProtocol
    <3>3. CASE Start
      BY <3>3 DEF Start
    <3> QED
      BY <3>1, <3>2, <3>3 DEF Next, vars, StopRequest, StopStep, StopNotify,
         StopJoin, SubmitAccepted, SubmitRejected, WorkerStep, WorkerWait,
         WorkerExit, WorkerTake, WorkerInfer, WorkerComplete, SpuriousWakeup
  <2>2. \A w \in Workers : wpc'[w] = "none"
    BY <1>2 DEF StopProtocol
  <2>3. ASSUME TypeOK', StopProtocol', LedgerInv', ~running', tasks' = <<>>
        PROVE  Range(completed') = Range(accepted')
    <3>1. Held' = {}
      BY <2>3 DEF Held, TypeOK, StopProtocol
    <3>2. accepted' = begun'
      BY <2>3, ConcatEmptySeq DEF LedgerInv, FirstInFirstOut, TypeOK
    <3> QED
      BY <2>3, <3>1, <3>2 DEF LedgerInv, TaskLedger
  <2> QED
    BY <1>2, <2>1, <2>2, <2>3
<1> QED
  BY <1>2, <1>3, <1>4 DEF MonitorInv, LedgerInv

(* A scheduler that was never started is in order. *)
LEMMA MonitorInit == Init => MonitorInv
<1> SUFFICES ASSUME Init PROVE MonitorInv
  OBVIOUS
<1> USE DEF Init
<1>0. ~running /\ running \in BOOLEAN /\ ~stopping /\ stopping \in BOOLEAN
  BY Zenon
<1>1. TypeOK
  BY <1>0, NoTaskAssumption, EmptySeq DEF TypeOK, WorkerPcs
<1>2. BoundedQueue /\ GaugeExact
  BY SchedulerAssumption DEF BoundedQueue, GaugeExact
<1>3. Range(<<>>) = {} /\ IsInjective(<<>>)
  BY DEF Range, IsInjective
<1>4. StopProtocol
  BY <1>0 DEF StopProtocol
<1>5. FirstInFirstOut /\ StoppedIsDrained
  BY ConcatEmptySeq, EmptySeq DEF FirstInFirstOut, StoppedIsDrained
<1>6. CompletedOnce /\ TaskLedger
  BY <1>3, NoTaskAssumption DEF CompletedOnce, TaskLedger, Held
<1> QED
  BY <1>1, <1>2, <1>4, <1>5, <1>6 DEF MonitorInv

(* Whenever mutex_ is free the scheduler is well-typed, within its bound,   *)
(* its gauge exact, its queue served in order, drained when stopped, and    *)
(* every accepted task is in exactly one place and completed at most once.  *)
THEOREM MonitorCorrect == SafeSpec => []MonitorInv
<1> QED
  BY MonitorInit, MonitorStep, PTL DEF SafeSpec

-----------------------------------------------------------------------------
(* The workers that hold or wait for mutex_ and will look at the queue. *)
Awake == {w \in Workers : wpc[w] = "enter"}

(* Counting the workers that will look at the queue. *)
LEMMA AwakeFinite == ASSUME NEW S \in SUBSET Workers, NEW w \in Workers
  PROVE  /\ Cardinality(S) \in Nat
         /\ w \notin S => Cardinality(S \union {w}) = Cardinality(S) + 1
         /\ w \in S => Cardinality(S \ {w}) = Cardinality(S) - 1
<1>1. IsFiniteSet(S)
  BY SchedulerAssumption, FS_Subset
<1> QED
  BY <1>1, FS_CardinalityType, FS_AddElement, FS_RemoveElement

(* One notify_one per task is enough: a worker sleeps only when no more     *)
(* tasks wait than workers are awake to take them.                          *)
LEMMA NoIdleStep == MonitorInv /\ NoIdleWorker /\ [Next]_vars => NoIdleWorker'
<1> SUFFICES ASSUME MonitorInv, NoIdleWorker, [Next]_vars,
                    Waiting' # {}
             PROVE  Len(tasks') <= Cardinality(Awake')
  BY DEF NoIdleWorker, Awake
<1>1. /\ TypeOK /\ tasks \in Seq(Tasks) /\ Len(tasks) \in Nat
      /\ wpc \in [Workers -> WorkerPcs]
  BY LenProperties DEF MonitorInv, TypeOK
<1>2. Waiting # {} => Len(tasks) <= Cardinality(Awake)
  BY DEF NoIdleWorker, Awake
<1>3. Awake \in SUBSET Workers /\ Cardinality(Awake) \in Nat
  BY AwakeFinite, SchedulerAssumption DEF Awake
<1>4. CASE UNCHANGED <<tasks, wpc>>
  BY <1>2, <1>4 DEF Waiting, Awake
<1>5. CASE Start \/ StopNotify \/ StopJoin
  BY <1>5 DEF Start, StopNotify, NotifyAll, StopJoin, Waiting
<1>6. ASSUME NEW t \in Tasks, SubmitAccepted(t)
      PROVE  Len(tasks') <= Cardinality(Awake')
  <2>1. Len(tasks') = Len(tasks) + 1
    BY <1>1, <1>6 DEF SubmitAccepted
  <2>2. PICK v \in Waiting : wpc' = [wpc EXCEPT ![v] = "enter"]
    BY <1>6 DEF SubmitAccepted, NotifyOne, Waiting
  <2>3. v \in Workers /\ v \notin Awake /\ Awake' = Awake \union {v}
    BY <1>1, <2>2 DEF Waiting, Awake
  <2> QED
    BY <1>1, <1>2, <1>3, <2>1, <2>2, <2>3, AwakeFinite
<1>7. ASSUME NEW w \in Workers, WorkerWait(w)
      PROVE  Len(tasks') <= Cardinality(Awake')
  <2>1. tasks' = <<>>
    BY <1>7, Zenon DEF WorkerWait, Predicate
  <2>2. Awake' \in SUBSET Workers
    BY DEF Awake
  <2>3. Cardinality(Awake') \in Nat
    BY <1>7, <2>2, AwakeFinite
  <2> QED
    BY <2>1, <2>3
<1>8. ASSUME NEW w \in Workers, WorkerExit(w)
      PROVE  Len(tasks') <= Cardinality(Awake')
  <2>1. tasks' = <<>>
    BY <1>8 DEF WorkerExit
  <2>2. Awake' \in SUBSET Workers
    BY DEF Awake
  <2>3. Cardinality(Awake') \in Nat
    BY <1>8, <2>2, AwakeFinite
  <2> QED
    BY <2>1, <2>3
<1>9. ASSUME NEW w \in Workers, WorkerTake(w)
      PROVE  Len(tasks') <= Cardinality(Awake')
  <2>1. Len(tasks') = Len(tasks) - 1
    BY <1>1, <1>9, HeadTailProperties DEF WorkerTake
  <2>2. w \in Awake /\ Awake' = Awake \ {w} /\ Waiting' = Waiting
    BY <1>1, <1>9 DEF WorkerTake, Awake, Waiting
  <2> QED
    BY <1>1, <1>2, <1>3, <2>1, <2>2, AwakeFinite
<1>10. ASSUME NEW w \in Workers, WorkerInfer(w)
       PROVE  Len(tasks') <= Cardinality(Awake')
  <2>1. tasks' = tasks /\ Awake' = Awake /\ Waiting' = Waiting
    BY <1>1, <1>10 DEF WorkerInfer, Awake, Waiting
  <2> QED
    BY <1>2, <2>1
<1>11. ASSUME NEW w \in Workers, WorkerComplete(w) \/ SpuriousWakeup(w)
       PROVE  Len(tasks') <= Cardinality(Awake')
  <2>1. /\ tasks' = tasks /\ w \notin Awake /\ Awake' = Awake \union {w}
        /\ Waiting' \subseteq Waiting
    BY <1>1, <1>11 DEF WorkerComplete, SpuriousWakeup, Awake, Waiting
  <2> QED
    BY <1>1, <1>2, <1>3, <2>1, AwakeFinite
<1> QED
  BY <1>4, <1>5, <1>6, <1>7, <1>8, <1>9, <1>10, <1>11 DEF Next, vars,
     StopRequest, StopStep, StopFinish, SubmitRejected, WorkerStep

(* No worker sleeps beside a task that nobody awake will take. *)
THEOREM NoIdleWorkerCorrect == SafeSpec => []NoIdleWorker
<1>1. Init => NoIdleWorker
  BY DEF Init, NoIdleWorker, Waiting
<1> QED
  BY <1>1, NoIdleStep, MonitorCorrect, PTL DEF SafeSpec
-----------------------------------------------------------------------------
(* A worker that holds no task leaves room for one more in progress. *)
LEMMA RoomForOne ==
  ASSUME TypeOK, TaskLedger, NEW w \in Workers, cur[w] = NoTask
  PROVE  Cardinality(Held) < Cardinality(Workers)
<1> DEFINE Others == Workers \ {w}
           holder == [t \in Held |-> CHOOSE v \in Workers : cur[v] = t]
<1>1. \A t \in Held : holder[t] \in Others /\ cur[holder[t]] = t
  <2> SUFFICES ASSUME NEW t \in Held PROVE holder[t] \in Others /\ cur[holder[t]] = t
    OBVIOUS
  <2>1. t \in Tasks /\ \E v \in Workers : cur[v] = t
    BY DEF Held
  <2>2. holder[t] \in Workers /\ cur[holder[t]] = t
    BY <2>1
  <2> QED
    BY <2>1, <2>2, NoTaskAssumption
<1>2. holder \in [Held -> Others]
  BY <1>1
<1>3. \A t, u \in Held : holder[t] = holder[u] => t = u
  BY <1>1
<1>4. holder \in Injection(Held, Others)
  <2> HIDE DEF holder, Others
  <2> QED
    BY <1>2, <1>3 DEF Injection, IsInjective
<1>5. IsFiniteSet(Others) /\ Cardinality(Others) = Cardinality(Workers) - 1
  BY SchedulerAssumption, FS_RemoveElement
<1> HIDE DEF holder, Others
<1>6. IsFiniteSet(Held) /\ Cardinality(Held) <= Cardinality(Others)
  BY <1>4, <1>5, FS_Injection
<1>7. Cardinality(Held) \in Nat /\ Cardinality(Workers) \in Nat
  BY <1>6, SchedulerAssumption, FS_CardinalityType
<1> QED
  BY <1>5, <1>6, <1>7

(* submit() that accepts is the pool's Accept. *)
LEMMA AcceptRefines ==
  ASSUME MonitorInv, NEW t \in Tasks, SubmitAccepted(t)
  PROVE  Pool!Accept(t)
<1>1. TypeOK /\ TaskLedger /\ FirstInFirstOut
  BY DEF MonitorInv
<1>2. /\ tasks' = Append(tasks, t) /\ UNCHANGED <<cur, completed>>
      /\ answer[t] # "kAccepted" /\ Len(tasks) < QueueCapacity
  BY <1>1, AcceptedMeans DEF SubmitAccepted
<1>3. Held' = Held /\ Range(completed)' = Range(completed)
  BY <1>2 DEF Held
<1>4. /\ tasks \in Seq(Tasks) /\ begun \in Seq(Tasks) /\ completed \in Seq(Tasks)
  BY <1>1 DEF TypeOK
<1>5. Range(tasks) = {tasks[i] : i \in 1 .. Len(tasks)}
  BY <1>4, RangeEquality
<1>6. Range(accepted) = Range(begun) \union Range(tasks)
  BY <1>1, <1>4, RangeConcatenation DEF FirstInFirstOut
<1>7. t \notin Pool!Known
  BY <1>1, <1>2, <1>5, <1>6 DEF TaskLedger, Pool!Known
<1> QED
  BY <1>2, <1>3, <1>7 DEF Pool!Accept

(* A worker that takes the head of the queue is the pool's Begin. *)
LEMMA TakeRefines ==
  ASSUME MonitorInv, NEW w \in Workers, WorkerTake(w)
  PROVE  Pool!Begin
<1>1. TypeOK /\ TaskLedger
  BY DEF MonitorInv
<1>2. /\ wpc[w] = "enter" /\ tasks # <<>> /\ cur' = [cur EXCEPT ![w] = Head(tasks)]
      /\ tasks' = Tail(tasks) /\ UNCHANGED completed
  BY DEF WorkerTake
<1>3. /\ Head(tasks) \in Tasks /\ cur \in [Workers -> Tasks \union {NoTask}]
      /\ cur[w] = NoTask
  BY <1>1, <1>2, HeadTailProperties DEF TypeOK
<1>4. Cardinality(Held) < Cardinality(Workers)
  BY <1>1, <1>3, RoomForOne
<1>5. Held' = Held \union {Head(tasks)}
  BY <1>2, <1>3, NoTaskAssumption DEF Held
<1>6. Pool!Cardinality(Held) = Cardinality(Held)
  BY DEF Pool!Cardinality, Cardinality
<1> QED
  BY <1>2, <1>4, <1>5, <1>6 DEF Pool!Begin

(* A worker that calls a completion is the pool's Finish. *)
LEMMA CompleteRefines ==
  ASSUME MonitorInv, NEW w \in Workers, WorkerComplete(w)
  PROVE  \E t \in Tasks : Pool!Finish(t)
<1>1. TypeOK /\ TaskLedger
  BY DEF MonitorInv
<1> DEFINE c == cur[w]
<1>2. /\ wpc[w] = "complete" /\ cur' = [cur EXCEPT ![w] = NoTask]
      /\ completed' = Append(completed, c) /\ UNCHANGED tasks
  BY DEF WorkerComplete
<1>3. /\ c \in Tasks /\ cur \in [Workers -> Tasks \union {NoTask}]
      /\ completed \in Seq(Tasks) /\ c \in Held
  BY <1>1, <1>2 DEF TypeOK, Held
<1>4. Range(completed)' = Range(completed) \union {c}
  BY <1>2, <1>3, RangeAppend
<1>5. Held' = Held \ {c}
  BY <1>1, <1>2, <1>3, NoTaskAssumption DEF Held, TaskLedger
<1>6. Pool!Finish(c)
  BY <1>2, <1>3, <1>4, <1>5 DEF Pool!Finish
<1> QED
  BY <1>3, <1>6

(* Every step of the scheduler is a step of the pool or leaves it alone. *)
LEMMA PoolStep == MonitorInv /\ [Next]_vars => [Pool!Next]_(Pool!pvars)
<1> SUFFICES ASSUME MonitorInv, [Next]_vars PROVE [Pool!Next]_(Pool!pvars)
  OBVIOUS
<1>1. CASE UNCHANGED <<tasks, cur, completed>>
  <2>1. UNCHANGED Held /\ UNCHANGED Range(completed)
    BY <1>1 DEF Held
  <2> QED
    BY <1>1, <2>1 DEF Pool!pvars
<1>2. ASSUME NEW t \in Tasks, SubmitAccepted(t) PROVE Pool!Next
  BY <1>2, AcceptRefines DEF Pool!Next
<1>3. ASSUME NEW w \in Workers, WorkerTake(w) \/ WorkerComplete(w) PROVE Pool!Next
  BY <1>3, TakeRefines, CompleteRefines DEF Pool!Next
<1> QED
  BY <1>1, <1>2, <1>3 DEF Next, vars, Start, StopRequest, StopStep, StopNotify,
     StopJoin, StopFinish, SubmitRejected, WorkerStep, WorkerWait, WorkerExit,
     WorkerInfer, SpuriousWakeup

(* The scheduler implements the bounded pool its callers rely on, but for   *)
(* the pool's fairness: with its locks, waits, stop and start it accepts,   *)
(* begins and finishes tasks only as the pool may.                          *)
THEOREM ImplementsPool == SafeSpec => Pool!SafeSpec
<1>1. Init => Pool!Init
  <2> SUFFICES ASSUME Init PROVE Pool!Init
    OBVIOUS
  <2>1. Held = {} /\ Range(completed) = {}
    BY NoTaskAssumption DEF Init, Held, Range
  <2> QED
    BY <2>1 DEF Init, Pool!Init
<1> QED
  BY <1>1, PoolStep, MonitorCorrect, PTL DEF SafeSpec, Pool!SafeSpec

-----------------------------------------------------------------------------
(* The inference service.  First resolve(): what its pass over the             *)
(* registrations has chosen after each of them.                                *)

Reg == [name : STRING \union {"mock"}, backend : STRING \union {"auto"}, priority : Int,
        present : BOOLEAN, available : BOOLEAN]

Better(best, r, model, backend) ==
  IF Candidate(r, model, backend) /\ (best = Unassigned \/ r.priority > best.priority)
    THEN r ELSE best

(* resolve() goes through the registrations one by one. *)
LEMMA ResolveTrace ==
  ASSUME registrations \in Seq(Reg), NEW model, NEW backend
  PROVE  \E g : /\ g[0] = Unassigned
                /\ \A i \in 1 .. Len(registrations) :
                     g[i] = Better(g[i - 1], registrations[i], Resolved(model), backend)
                /\ Resolve(model, backend) = g[Len(registrations)]
<1>1. PICK n \in Nat, s \in Seq(Reg) :
        /\ s = registrations /\ n = Len(s) /\ DOMAIN s = 1 .. n
        /\ \A i \in 1 .. n : s[i] \in Reg
  OBVIOUS
<1>0. PICK rm : rm = Resolved(model)
  OBVIOUS
<1> DEFINE S == Reg \union {Unassigned}
           F == [p \in S \X (1 .. n) |-> Better(p[1], s[p[2]], rm, backend)]
           Eq(it) == it = [t \in SUBSET (1 .. n) |->
                             IF t = {} THEN Unassigned
                             ELSE Better(it[t \ {Max(t)}], s[Max(t)], rm, backend)]
<1>2. \E it : Eq(it)
  <2>1. \A x \in S, i \in 1 .. n : F[<<x, i>>] = Better(x, s[i], rm, backend)
    OBVIOUS
  <2>2. \A x \in S, i \in 1 .. n : Better(x, s[i], rm, backend) \in S
    BY <1>1 DEF Better
  <2>3. Unassigned \in S
    OBVIOUS
  <2> HIDE DEF F, S
  <2>4. \A x \in S, i \in 1 .. n : F[<<x, i>>] \in S
    BY <2>1, <2>2
  <2>5. PICK it \in [SUBSET (1 .. n) -> S] : FoldEq(it, F, Unassigned, n)
    BY <2>3, <2>4, FoldExists
  <2>6. ASSUME NEW t \in SUBSET (1 .. n)
        PROVE  it[t] = IF t = {} THEN Unassigned
                       ELSE Better(it[t \ {Max(t)}], s[Max(t)], rm, backend)
    <3>1. CASE t = {}
      BY <2>5, <3>1 DEF FoldEq
    <3>2. CASE t # {}
      <4>1. PICK m \in 1 .. n : m = Max(t)
        BY <3>2, MaxInRange
      <4>2. t \ {m} \in SUBSET (1 .. n)
        OBVIOUS
      <4>3. it[t \ {m}] \in S
        BY <4>2
      <4>4. it[t] = F[<<it[t \ {m}], m>>]
        BY <2>5, <3>2, <4>1 DEF FoldEq
      <4> QED
        BY <2>1, <3>2, <4>1, <4>3, <4>4
    <3> QED
      BY <3>1, <3>2
  <2>7. it = [t \in SUBSET (1 .. n) |-> it[t]]
    OBVIOUS
  <2> QED
    BY <2>6, <2>7
<1>3. PICK iter : iter = (CHOOSE it : Eq(it))
  OBVIOUS
<1>4. Eq(iter)
  BY <1>2, <1>3
<1>5. Resolve(model, backend) = iter[1 .. n]
  BY <1>0, <1>1, <1>3 DEF Resolve, FoldLeft, MapThenFoldSet, Better
<1> DEFINE g == [done \in 0 .. n |-> iter[1 .. done]]
<1>6. g[0] = Unassigned
  <2>1. 1 .. 0 = {} /\ {} \in SUBSET (1 .. n)
    OBVIOUS
  <2>2. iter[{}] = Unassigned
    BY <1>4, <2>1
  <2> QED
    BY <2>1, <2>2
<1>7. ASSUME NEW done \in 1 .. n PROVE g[done] = Better(g[done - 1], s[done], rm, backend)
  <2> DEFINE t == 1 .. done
  <2>1. t \in SUBSET (1 .. n) /\ t # {} /\ Max(t) = done /\ t \ {done} = 1 .. done - 1
    BY PrefixSets
  <2> HIDE DEF t
  <2>2. iter[t] = IF t = {} THEN Unassigned
                  ELSE Better(iter[t \ {Max(t)}], s[Max(t)], rm, backend)
    BY <1>4, <2>1
  <2>3. iter[1 .. done] = Better(iter[1 .. done - 1], s[done], rm, backend)
    BY <2>1, <2>2 DEF t
  <2> QED
    BY <2>3
<1>8. Resolve(model, backend) = g[n]
  BY <1>5
<1> HIDE DEF g
<1> QED
  BY <1>0, <1>1, <1>6, <1>7, <1>8

(* A registration is never mistaken for none. *)
LEMMA RegNotUnassigned == \A x \in Reg : x # Unassigned
<1>1. DOMAIN Unassigned = {"model", "backend"}
  BY DEF Unassigned
<1>2. \A x \in Reg : "name" \in DOMAIN x
  BY DEF Reg
<1> QED
  BY <1>1, <1>2

(* The choice after `done` registrations: none, if none of them can take the    *)
(* request, or one of highest priority among those that can.                    *)
Chosen(best, s, done, model, backend) ==
  LET allowed == {i \in 1 .. done : Candidate(s[i], model, backend)}
  IN \/ best = Unassigned /\ allowed = {}
     \/ \E i \in allowed : /\ best = s[i]
                           /\ \A j \in allowed : s[j].priority <= s[i].priority

(* One turn of the loop in resolve(): the best so far stays the best. *)
LEMMA ChosenNext ==
  ASSUME NEW s \in Seq(Reg), NEW n \in 1 .. Len(s), NEW best, NEW model, NEW backend,
         Chosen(best, s, n - 1, model, backend)
  PROVE  Chosen(Better(best, s[n], model, backend), s, n, model, backend)
<1> DEFINE old == {i \in 1 .. n - 1 : Candidate(s[i], model, backend)}
           new == {i \in 1 .. n : Candidate(s[i], model, backend)}
<1>1. /\ s[n] \in Reg /\ \A i \in 1 .. n - 1 : s[i] \in Reg /\ s[i].priority \in Int
      /\ s[n].priority \in Int
  <2>1. \A i \in 1 .. n : s[i] \in Reg
    OBVIOUS
  <2>2. \A x \in Reg : x.priority \in Int
    BY DEF Reg
  <2>3. n \in 1 .. n /\ \A i \in 1 .. n - 1 : i \in 1 .. n
    OBVIOUS
  <2> QED
    BY <2>1, <2>2, <2>3
<1>2. new = IF Candidate(s[n], model, backend) THEN old \union {n} ELSE old
  OBVIOUS
<1>3. old \subseteq 1 .. n - 1
  OBVIOUS
<1>4. \/ best = Unassigned /\ old = {}
      \/ \E i \in old : best = s[i] /\ \A j \in old : s[j].priority <= s[i].priority
  BY DEF Chosen
<1>5. SUFFICES \/ Better(best, s[n], model, backend) = Unassigned /\ new = {}
               \/ \E i \in new : /\ Better(best, s[n], model, backend) = s[i]
                                 /\ \A j \in new : s[j].priority <= s[i].priority
  BY DEF Chosen
<1> HIDE DEF old, new
<1>6. CASE ~Candidate(s[n], model, backend)
  BY <1>2, <1>4, <1>6 DEF Better
<1>7. CASE Candidate(s[n], model, backend) /\ best = Unassigned
  <2>1. old = {}
    BY <1>1, <1>3, <1>4, <1>7, RegNotUnassigned
  <2>2. new = {n} /\ Better(best, s[n], model, backend) = s[n]
    BY <1>2, <1>7, <2>1 DEF Better
  <2> QED
    BY <1>1, <2>2
<1>8. CASE Candidate(s[n], model, backend) /\ best # Unassigned
  <2>1. PICK i \in old : best = s[i] /\ \A j \in old : s[j].priority <= s[i].priority
    BY <1>4, <1>8
  <2>2. new = old \union {n} /\ s[i].priority \in Int
    BY <1>1, <1>2, <1>3, <1>8
  <2>3. CASE s[n].priority > s[i].priority
    <3>1. Better(best, s[n], model, backend) = s[n]
      BY <1>8, <2>1, <2>3 DEF Better
    <3>2. \A j \in new : s[j].priority <= s[n].priority
      BY <1>1, <1>3, <2>1, <2>2, <2>3
    <3> QED
      BY <2>2, <3>1, <3>2
  <2>4. CASE ~(s[n].priority > s[i].priority)
    <3>1. Better(best, s[n], model, backend) = s[i]
      BY <1>8, <2>1, <2>4 DEF Better
    <3>2. \A j \in new : s[j].priority <= s[i].priority
      BY <1>1, <2>1, <2>2, <2>4
    <3> QED
      BY <2>2, <3>1, <3>2
  <2> QED
    BY <2>3, <2>4
<1> QED
  BY <1>6, <1>7, <1>8

(* resolve() finds a backend of highest priority among those allowed, if there  *)
(* is one.                                                                      *)
LEMMA ResolveRight ==
  ASSUME registrations \in Seq(Reg), NEW model, NEW backend
  PROVE  Chosen(Resolve(model, backend), registrations, Len(registrations),
                Resolved(model), backend)
<1>1. PICK n \in Nat, s \in Seq(Reg) : s = registrations /\ n = Len(s)
  OBVIOUS
<1>2. PICK rm : rm = Resolved(model)
  OBVIOUS
<1>3. PICK g : /\ g[0] = Unassigned
               /\ \A i \in 1 .. n : g[i] = Better(g[i - 1], s[i], rm, backend)
               /\ Resolve(model, backend) = g[n]
  BY <1>1, <1>2, ResolveTrace
<1> DEFINE T == {done \in Nat : done <= n => Chosen(g[done], s, done, rm, backend)}
<1>4. 0 \in T
  BY <1>3 DEF Chosen
<1>5. ASSUME NEW done \in Nat, done \in T PROVE done + 1 \in T
  <2> SUFFICES ASSUME done + 1 <= n PROVE Chosen(g[done + 1], s, done + 1, rm, backend)
    OBVIOUS
  <2>1. PICK m \in 1 .. n : m = done + 1 /\ m - 1 = done /\ m \in 1 .. Len(s)
    BY <1>1
  <2>2. Chosen(g[m - 1], s, m - 1, rm, backend)
    BY <1>5, <2>1
  <2>3. Chosen(Better(g[m - 1], s[m], rm, backend), s, m, rm, backend)
    BY <2>1, <2>2, ChosenNext
  <2>4. g[m] = Better(g[m - 1], s[m], rm, backend)
    BY <1>3
  <2> QED
    BY <2>1, <2>3, <2>4
<1>6. Nat \subseteq T
  BY <1>4, <1>5, NatSetInduction
<1>7. Chosen(g[n], s, n, rm, backend)
  BY <1>6
<1> QED
  BY <1>1, <1>2, <1>3, <1>7

-----------------------------------------------------------------------------
(* loadFromFile(): what has been read after each entry of the file. *)

ReadState == [ok : BOOLEAN, regs : Seq(Reg), default : STRING]

Registered(e, built) ==
  [name |-> e.name, backend |-> e.backend, priority |-> e.priority,
   present |-> e.backend \in built, available |-> FALSE]

(* An entry of the document becomes a registration. *)
LEMMA RegisteredType ==
  ASSUME NEW e \in Entries, NEW built
  PROVE  Registered(e, built) \in Reg
<1>1. e.name \in STRING /\ e.backend \in STRING /\ e.priority \in Int
  BY DEF Entries
<1> QED
  BY <1>1 DEF Reg, Registered

(* ReadEntry() with the backends of the build as an argument. *)
EntryRead(x, e, built) ==
  CASE ~x.ok \/ ~e.enabled          -> x
    [] x.ok /\ e.enabled /\ ~e.valid -> [x EXCEPT !.ok = FALSE, !.regs = <<>>]
    [] x.ok /\ e.enabled /\ e.valid /\ Duplicate(x.regs, e) -> [x EXCEPT !.ok = FALSE]
    [] OTHER -> [x EXCEPT !.default = IF @ = "" THEN e.name ELSE @,
                          !.regs = Append(@, Registered(e, built))]

(* One entry of the document: skipped, refused, or registered. *)
LEMMA EntryFacts ==
  ASSUME NEW x \in ReadState, NEW e \in Entries, NEW built
  PROVE  LET y == EntryRead(x, e, built)
         IN /\ y \in ReadState
            /\ ~x.ok \/ ~e.enabled => y = x
            /\ x.ok /\ e.enabled /\ ~e.valid => ~y.ok
            /\ x.ok /\ e.enabled /\ e.valid /\ Duplicate(x.regs, e) => ~y.ok
            /\ x.ok /\ e.enabled /\ e.valid /\ ~Duplicate(x.regs, e) =>
                 /\ y.ok /\ y.regs = Append(x.regs, Registered(e, built))
                 /\ y.default = IF x.default = "" THEN e.name ELSE x.default
<1> DEFINE y == EntryRead(x, e, built)
<1>1. /\ e.name \in STRING /\ e.backend \in STRING /\ e.priority \in Int
      /\ e.enabled \in BOOLEAN /\ e.valid \in BOOLEAN
  BY DEF Entries
<1>2. Registered(e, built) \in Reg
  BY RegisteredType
<1>3. x.ok \in BOOLEAN /\ x.regs \in Seq(Reg) /\ x.default \in STRING
  BY DEF ReadState
<1>4. <<>> \in Seq(Reg) /\ Append(x.regs, Registered(e, built)) \in Seq(Reg)
  BY <1>2, <1>3, AppendProperties
<1>5. PICK reg, many : reg = Registered(e, built) /\ many = Append(x.regs, reg)
  OBVIOUS
<1>6. CASE ~x.ok \/ ~e.enabled
  BY <1>6 DEF EntryRead
<1>7. CASE x.ok /\ e.enabled /\ ~e.valid
  BY <1>3, <1>4, <1>7 DEF EntryRead, ReadState
<1>8. CASE x.ok /\ e.enabled /\ e.valid /\ Duplicate(x.regs, e)
  BY <1>3, <1>8 DEF EntryRead, ReadState
<1>9. CASE x.ok /\ e.enabled /\ e.valid /\ ~Duplicate(x.regs, e)
  <2>1. y = [x EXCEPT !.default = IF @ = "" THEN e.name ELSE @, !.regs = many]
    BY <1>5, <1>9 DEF EntryRead
  <2>2. many \in Seq(Reg)
    BY <1>4, <1>5
  <2>3. /\ y.ok = x.ok /\ y.regs = many
        /\ y.default = IF x.default = "" THEN e.name ELSE x.default
    BY <2>1 DEF ReadState
  <2>4. y \in ReadState
    BY <1>1, <1>3, <2>1, <2>2 DEF ReadState
  <2> QED
    BY <1>5, <1>9, <2>3, <2>4
<1> QED
  BY <1>6, <1>7, <1>8, <1>9

(* The document is read entry by entry. *)
LEMMA ReadTrace ==
  ASSUME document \in Installation
  PROVE  \E g : /\ g[0] = [ok |-> TRUE, regs |-> <<>>, default |-> document.default]
                /\ \A i \in 1 .. Len(document.models) :
                     g[i] = EntryRead(g[i - 1], document.models[i], document.built)
                /\ ReadEntries(document.models) = g[Len(document.models)]
<1>0. document.models \in Seq(Entries) /\ document.default \in STRING
  BY DEF Installation
<1>1. PICK s \in Seq(Entries) : s = document.models
  BY <1>0
<1>2. PICK n \in Nat : /\ n = Len(s) /\ DOMAIN s = 1 .. n
                      /\ \A i \in 1 .. n : s[i] \in Entries
  OBVIOUS
<1>3. \A x, e : ReadEntry(x, e) = EntryRead(x, e, document.built)
  BY DEF ReadEntry, EntryRead, Registered
<1>4. PICK b : b = document.built
  OBVIOUS
<1> DEFINE S == ReadState
           base == [ok |-> TRUE, regs |-> <<>>, default |-> document.default]
           F == [p \in S \X (1 .. n) |-> EntryRead(p[1], s[p[2]], b)]
           Eq(it) == it = [t \in SUBSET (1 .. n) |->
                             IF t = {} THEN base ELSE ReadEntry(it[t \ {Max(t)}], s[Max(t)])]
<1>5. \E it : Eq(it)
  <2>1. \A x \in S, i \in 1 .. n : F[<<x, i>>] = EntryRead(x, s[i], b)
    OBVIOUS
  <2>2. \A x \in S, i \in 1 .. n : EntryRead(x, s[i], b) \in S
    BY <1>2, EntryFacts
  <2>3. base \in S
    BY <1>0 DEF ReadState
  <2> HIDE DEF F, S, base
  <2>4. \A x \in S, i \in 1 .. n : F[<<x, i>>] \in S
    BY <2>1, <2>2
  <2>5. PICK it \in [SUBSET (1 .. n) -> S] : FoldEq(it, F, base, n)
    BY <2>3, <2>4, FoldExists
  <2>6. ASSUME NEW t \in SUBSET (1 .. n)
        PROVE  it[t] = IF t = {} THEN base ELSE ReadEntry(it[t \ {Max(t)}], s[Max(t)])
    <3>1. CASE t = {}
      BY <2>5, <3>1 DEF FoldEq
    <3>2. CASE t # {}
      <4>1. PICK m \in 1 .. n : m = Max(t)
        BY <3>2, MaxInRange
      <4>2. t \ {m} \in SUBSET (1 .. n)
        OBVIOUS
      <4>3. it[t \ {m}] \in S
        BY <4>2
      <4>4. it[t] = F[<<it[t \ {m}], m>>]
        BY <2>5, <3>2, <4>1 DEF FoldEq
      <4> QED
        BY <1>3, <1>4, <2>1, <3>2, <4>1, <4>3, <4>4
    <3> QED
      BY <3>1, <3>2
  <2>7. it = [t \in SUBSET (1 .. n) |-> it[t]]
    OBVIOUS
  <2> QED
    BY <2>6, <2>7
<1>6. PICK iter : iter = (CHOOSE it : Eq(it))
  OBVIOUS
<1>7. Eq(iter)
  BY <1>5, <1>6
<1>8. ReadEntries(document.models) = iter[1 .. n]
  <2>1. ReadEntries(s) = iter[1 .. n]
    BY <1>2, <1>6 DEF ReadEntries, FoldLeft, MapThenFoldSet
  <2> QED
    BY <1>1, <2>1
<1> DEFINE g == [done \in 0 .. n |-> iter[1 .. done]]
<1>9. g[0] = base
  <2>1. 1 .. 0 = {} /\ {} \in SUBSET (1 .. n)
    OBVIOUS
  <2>2. iter[{}] = base
    BY <1>7, <2>1
  <2> QED
    BY <2>1, <2>2
<1>10. ASSUME NEW done \in 1 .. n PROVE g[done] = EntryRead(g[done - 1], s[done], b)
  <2> DEFINE t == 1 .. done
  <2>1. t \in SUBSET (1 .. n) /\ t # {} /\ Max(t) = done /\ t \ {done} = 1 .. done - 1
    BY PrefixSets
  <2> HIDE DEF t, base
  <2>2. iter[t] = IF t = {} THEN base ELSE ReadEntry(iter[t \ {Max(t)}], s[Max(t)])
    BY <1>7, <2>1
  <2>3. iter[1 .. done] = EntryRead(iter[1 .. done - 1], s[done], b)
    BY <1>3, <1>4, <2>1, <2>2 DEF t
  <2>4. g[done] = iter[1 .. done] /\ g[done - 1] = iter[1 .. done - 1]
    <3>1. done \in 0 .. n /\ done - 1 \in 0 .. n
      OBVIOUS
    <3> QED
      BY <3>1
  <2> HIDE DEF g
  <2> QED
    BY <2>3, <2>4
<1>11. ReadEntries(document.models) = g[n]
  BY <1>8
<1> HIDE DEF g
<1> QED
  BY <1>1, <1>2, <1>4, <1>9, <1>10, <1>11

EnabledIn(models, done) == {i \in 1 .. done : models[i].enabled}

SameTarget(a, b) == a.name = b.name /\ a.backend = b.backend

SoundIn(models, done) ==
  /\ \A i \in EnabledIn(models, done) : models[i].valid
  /\ \A i, j \in EnabledIn(models, done) : i # j => ~SameTarget(models[i], models[j])

DefaultIn(x, models, done, default) ==
  \/ x = default /\ (default # "" \/ EnabledIn(models, done) = {})
  \/ /\ default = ""
     /\ \E m \in EnabledIn(models, done) : /\ \A i \in EnabledIn(models, done) : m <= i
                                           /\ x = models[m].name

(* What has been read of the first `done` entries: all is well exactly if they  *)
(* are sound, and then there is a registration for each that is enabled.        *)
ReadSoFar(x, models, done, default) ==
  /\ x \in ReadState
  /\ x.ok <=> SoundIn(models, done)
  /\ x.ok =>
       /\ Len(x.regs) = Cardinality(EnabledIn(models, done))
       /\ \A i \in EnabledIn(models, done) :
            \E j \in 1 .. Len(x.regs) : SameTarget(x.regs[j], models[i])
       /\ \A j \in 1 .. Len(x.regs) :
            \E i \in EnabledIn(models, done) : SameTarget(x.regs[j], models[i])
       /\ DefaultIn(x.default, models, done, default)

(* One entry more: what was read so far stays the description of the *)
(* registry.                                                         *)
LEMMA ReadNext ==
  ASSUME NEW s \in Seq(Entries), NEW n \in 1 .. Len(s), NEW x, NEW built, NEW default,
         ReadSoFar(x, s, n - 1, default)
  PROVE  ReadSoFar(EntryRead(x, s[n], built), s, n, default)
<1>1. PICK e \in Entries : e = s[n]
  OBVIOUS
<1>2. PICK old \in SUBSET (1 .. n - 1), new \in SUBSET (1 .. n) :
        old = EnabledIn(s, n - 1) /\ new = EnabledIn(s, n)
  BY DEF EnabledIn
<1>3. PICK y : y = EntryRead(x, e, built)
  OBVIOUS
<1>4. x \in ReadState
  BY DEF ReadSoFar
<1>5. /\ y \in ReadState
      /\ ~x.ok \/ ~e.enabled => y = x
      /\ x.ok /\ e.enabled /\ ~e.valid => ~y.ok
      /\ x.ok /\ e.enabled /\ e.valid /\ Duplicate(x.regs, e) => ~y.ok
      /\ x.ok /\ e.enabled /\ e.valid /\ ~Duplicate(x.regs, e) =>
           /\ y.ok /\ y.regs = Append(x.regs, Registered(e, built))
           /\ y.default = IF x.default = "" THEN e.name ELSE x.default
  BY <1>3, <1>4, EntryFacts
<1>6. /\ ~e.enabled => new = old
      /\ e.enabled => new = old \union {n}
      /\ n \notin old /\ old \subseteq new /\ \A i \in old : i < n /\ i \in Nat
  <2>1. \A i : i \in 1 .. n <=> i \in 1 .. n - 1 \/ i = n
    OBVIOUS
  <2>2. n \notin 1 .. n - 1 /\ \A i \in 1 .. n - 1 : i < n /\ i \in Nat
    OBVIOUS
  <2> QED
    BY <1>1, <1>2, <2>1, <2>2 DEF EnabledIn
<1>7. /\ SoundIn(s, n - 1) <=> /\ \A i \in old : s[i].valid
                               /\ \A i, j \in old : i # j => ~SameTarget(s[i], s[j])
      /\ SoundIn(s, n) <=> /\ \A i \in new : s[i].valid
                           /\ \A i, j \in new : i # j => ~SameTarget(s[i], s[j])
  BY <1>2 DEF SoundIn
<1>8. CASE ~x.ok
  <2>1. y = x /\ ~SoundIn(s, n - 1)
    BY <1>5, <1>8 DEF ReadSoFar
  <2>2. ~SoundIn(s, n)
    BY <1>6, <1>7, <2>1
  <2> QED
    BY <1>1, <1>3, <1>4, <1>8, <2>1, <2>2 DEF ReadSoFar
<1>9. CASE x.ok /\ ~e.enabled
  <2>1. y = x /\ new = old
    BY <1>5, <1>6, <1>9
  <2>2. EnabledIn(s, n) = EnabledIn(s, n - 1)
    BY <1>2, <2>1
  <2> QED
    BY <1>1, <1>3, <2>1, <2>2 DEF ReadSoFar, SoundIn, DefaultIn
<1>10. CASE x.ok /\ e.enabled /\ ~e.valid
  <2>1. ~y.ok /\ n \in new
    BY <1>5, <1>6, <1>10
  <2>2. ~SoundIn(s, n)
    BY <1>1, <1>7, <1>10, <2>1
  <2> QED
    BY <1>1, <1>3, <1>5, <2>1, <2>2 DEF ReadSoFar
<1>11. x.ok => /\ SoundIn(s, n - 1) /\ Len(x.regs) = Cardinality(old)
               /\ \A i \in old : \E j \in 1 .. Len(x.regs) : SameTarget(x.regs[j], s[i])
               /\ \A j \in 1 .. Len(x.regs) : \E i \in old : SameTarget(x.regs[j], s[i])
               /\ DefaultIn(x.default, s, n - 1, default)
  BY <1>2 DEF ReadSoFar
<1>12. Duplicate(x.regs, e) <=> \E j \in 1 .. Len(x.regs) : SameTarget(x.regs[j], e)
  BY DEF Duplicate, SameTarget
<1>13. \A a, b, c : /\ SameTarget(a, b) /\ SameTarget(a, c) => SameTarget(b, c)
                    /\ SameTarget(a, b) /\ SameTarget(b, c) => SameTarget(a, c)
                    /\ SameTarget(a, b) => SameTarget(b, a)
  BY DEF SameTarget
<1>14. CASE x.ok /\ e.enabled /\ e.valid /\ Duplicate(x.regs, e)
  <2>1. ~y.ok /\ n \in new
    BY <1>5, <1>6, <1>14
  <2>2. PICK j \in 1 .. Len(x.regs) : SameTarget(x.regs[j], e)
    BY <1>12, <1>14
  <2>3. PICK i \in old : SameTarget(x.regs[j], s[i])
    BY <1>11, <1>14
  <2>4. i \in new /\ i # n /\ SameTarget(s[i], s[n])
    BY <1>1, <1>6, <1>13, <2>2, <2>3
  <2>5. ~SoundIn(s, n)
    BY <1>7, <2>1, <2>4
  <2> QED
    BY <1>1, <1>3, <1>5, <2>1, <2>5 DEF ReadSoFar
<1>15. CASE x.ok /\ e.enabled /\ e.valid /\ ~Duplicate(x.regs, e)
  <2>1. /\ y.ok /\ y.regs = Append(x.regs, Registered(e, built))
        /\ y.default = IF x.default = "" THEN e.name ELSE x.default
        /\ new = old \union {n}
    BY <1>5, <1>6, <1>15
  <2>2. x.regs \in Seq(Reg)
    BY <1>4 DEF ReadState
  <2>3. PICK m \in Nat : m = Len(x.regs)
    BY <2>2
  <2>4. PICK r \in Reg : r = Registered(e, built) /\ SameTarget(r, e)
    <3>1. SameTarget(Registered(e, built), e)
      BY DEF Registered, SameTarget
    <3>2. Registered(e, built) \in Reg
      BY RegisteredType
    <3> QED
      BY <3>1, <3>2
  <2>5. /\ Len(y.regs) = m + 1 /\ y.regs[m + 1] = r
        /\ \A j \in 1 .. m : y.regs[j] = x.regs[j]
    <3>1. PICK t \in Seq(Reg) : t = x.regs /\ Len(t) = m
      BY <2>2, <2>3
    <3>2. /\ Len(Append(t, r)) = m + 1 /\ Append(t, r)[m + 1] = r
          /\ \A j \in 1 .. m : Append(t, r)[j] = t[j]
      BY <3>1, AppendProperties
    <3> QED
      BY <2>1, <2>4, <3>1, <3>2
  <2>6. \A i \in old : ~SameTarget(s[i], e)
    BY <1>11, <1>12, <1>13, <1>15
  <2>7. SoundIn(s, n)
    <3>1. \A i \in new : s[i].valid
      BY <1>1, <1>7, <1>11, <1>15, <2>1
    <3>2. \A i, j \in new : i # j => ~SameTarget(s[i], s[j])
      <4>1. \A i \in old : ~SameTarget(e, s[i])
        BY <1>13, <2>6
      <4> QED
        BY <1>1, <1>7, <1>11, <1>15, <2>1, <2>6, <4>1
    <3> QED
      BY <1>7, <3>1, <3>2
  <2>8. Len(y.regs) = Cardinality(new)
    <3>1. IsFiniteSet(old)
      <4>1. IsFiniteSet(1 .. n - 1)
        BY FS_Interval
      <4> QED
        BY <4>1, FS_Subset
    <3>2. Cardinality(old \union {n}) = Cardinality(old) + 1
      BY <1>6, <3>1, FS_AddElement
    <3> QED
      BY <1>11, <1>15, <2>1, <2>3, <2>5, <3>2
  <2>9. ASSUME NEW i \in new PROVE \E j \in 1 .. Len(y.regs) : SameTarget(y.regs[j], s[i])
    <3>1. CASE i = n
      <4>1. m + 1 \in 1 .. m + 1
        OBVIOUS
      <4> QED
        BY <1>1, <2>4, <2>5, <3>1, <4>1
    <3>2. CASE i \in old
      <4>1. PICK j \in 1 .. m : SameTarget(x.regs[j], s[i])
        BY <1>11, <1>15, <2>3, <3>2
      <4>2. j \in 1 .. m + 1
        OBVIOUS
      <4> QED
        BY <2>5, <4>1, <4>2
    <3> QED
      BY <2>1, <3>1, <3>2
  <2>10. ASSUME NEW j \in 1 .. Len(y.regs) PROVE \E i \in new : SameTarget(y.regs[j], s[i])
    <3>1. j \in 1 .. m \/ j = m + 1
      BY <2>5
    <3>2. CASE j = m + 1
      BY <1>1, <2>1, <2>4, <2>5, <3>2
    <3>3. CASE j \in 1 .. m
      BY <1>11, <1>15, <2>1, <2>3, <2>5, <3>3
    <3> QED
      BY <3>1, <3>2, <3>3
  <2>11. DefaultIn(y.default, s, n, default)
    <3>1. e.name # ""
      BY <1>15 DEF Entries
    <3>2. \/ x.default = default /\ (default # "" \/ old = {})
          \/ /\ default = ""
             /\ \E i \in old : (\A j \in old : i <= j) /\ x.default = s[i].name
      BY <1>2, <1>11, <1>15 DEF DefaultIn
    <3>3. SUFFICES \/ y.default = default /\ (default # "" \/ new = {})
                   \/ /\ default = ""
                      /\ \E i \in new : (\A j \in new : i <= j) /\ y.default = s[i].name
      BY <1>2 DEF DefaultIn
    <3>4. CASE x.default = default /\ default # ""
      BY <2>1, <3>4
    <3>5. CASE x.default = default /\ default = "" /\ old = {}
      <4>1. new = {n} /\ y.default = s[n].name
        BY <1>1, <2>1, <3>5
      <4>2. n <= n
        OBVIOUS
      <4> QED
        BY <3>5, <4>1, <4>2
    <3>6. CASE /\ default = ""
               /\ \E i \in old : (\A j \in old : i <= j) /\ x.default = s[i].name
      <4>1. PICK i \in old : (\A j \in old : i <= j) /\ x.default = s[i].name
        BY <3>6
      <4>2. s[i] \in Entries /\ s[i].valid
        <5>1. SoundIn(s, n - 1) /\ i \in 1 .. Len(s)
          BY <1>11, <1>15
        <5> QED
          BY <1>7, <5>1
      <4>3. s[i].name # ""
        BY <4>2 DEF Entries
      <4>4. y.default = s[i].name /\ i \in new
        BY <1>6, <2>1, <4>1, <4>3
      <4>5. \A j \in new : i <= j
        <5>1. i < n /\ i \in Nat /\ n \in Nat
          BY <1>6
        <5>2. i <= n
          BY <5>1
        <5> QED
          BY <2>1, <4>1, <5>2
      <4> QED
        BY <3>6, <4>4, <4>5
    <3> QED
      BY <3>2, <3>4, <3>5, <3>6
  <2> QED
    BY <1>1, <1>2, <1>3, <1>5, <2>1, <2>7, <2>8, <2>9, <2>10, <2>11 DEF ReadSoFar
<1> QED
  <2>1. x.ok \in BOOLEAN /\ e.enabled \in BOOLEAN /\ e.valid \in BOOLEAN
    BY <1>4 DEF ReadState, Entries
  <2> QED
    BY <1>8, <1>9, <1>10, <1>14, <1>15, <2>1

(* What has been read at the end describes the whole document. *)
LEMMA ReadRight ==
  ASSUME document \in Installation
  PROVE  ReadSoFar(ReadEntries(document.models), document.models, Len(document.models),
                   document.default)
<1>1. document.models \in Seq(Entries) /\ document.default \in STRING
  BY DEF Installation
<1>2. PICK s \in Seq(Entries) : s = document.models
  BY <1>1
<1>3. PICK n \in Nat : n = Len(s)
  OBVIOUS
<1>4. PICK default : default = document.default
  OBVIOUS
<1>5. PICK built : built = document.built
  OBVIOUS
<1>6. PICK g : /\ g[0] = [ok |-> TRUE, regs |-> <<>>, default |-> default]
               /\ \A i \in 1 .. n : g[i] = EntryRead(g[i - 1], s[i], built)
               /\ ReadEntries(document.models) = g[n]
  BY <1>2, <1>3, <1>4, <1>5, ReadTrace
<1> DEFINE T == {done \in Nat : done <= n => ReadSoFar(g[done], s, done, default)}
<1>7. 0 \in T
  <2>1. g[0] \in ReadState /\ g[0].ok /\ g[0].regs = <<>> /\ g[0].default = default
    BY <1>1, <1>4, <1>6 DEF ReadState
  <2>2. EnabledIn(s, 0) = {}
    BY DEF EnabledIn
  <2>3. Cardinality({}) = 0 /\ Len(<<>>) = 0
    BY FS_EmptySet
  <2>4. Len(g[0].regs) = 0
    BY <2>1, <2>3
  <2>5. ReadSoFar(g[0], s, 0, default)
    <3>1. SoundIn(s, 0) /\ DefaultIn(default, s, 0, default)
      BY <2>2 DEF SoundIn, DefaultIn
    <3>2. 1 .. 0 = {}
      OBVIOUS
    <3> QED
      BY <2>1, <2>2, <2>3, <2>4, <3>1, <3>2 DEF ReadSoFar
  <2> QED
    BY <2>5
<1>8. ASSUME NEW done \in Nat, done \in T PROVE done + 1 \in T
  <2> SUFFICES ASSUME done + 1 <= n PROVE ReadSoFar(g[done + 1], s, done + 1, default)
    OBVIOUS
  <2>1. PICK m \in 1 .. n : m = done + 1 /\ m - 1 = done /\ m \in 1 .. Len(s)
    BY <1>3
  <2>2. ReadSoFar(g[m - 1], s, m - 1, default)
    BY <1>8, <2>1
  <2>3. ReadSoFar(EntryRead(g[m - 1], s[m], built), s, m, default)
    BY <2>1, <2>2, ReadNext
  <2>4. g[m] = EntryRead(g[m - 1], s[m], built)
    BY <1>6
  <2> QED
    BY <2>1, <2>3, <2>4
<1>9. Nat \subseteq T
  BY <1>7, <1>8, NatSetInduction
<1>10. ReadSoFar(g[n], s, n, default)
  BY <1>9
<1> QED
  BY <1>2, <1>3, <1>4, <1>6, <1>10

(* loadFromFile() accepts a file exactly if it is sound, with a registration for *)
(* every enabled entry and the default it names or, failing that, its first.     *)
LEMMA FileAccepted ==
  ASSUME document \in Installation, document.built # {}, NEW read,
         read = ReadEntries(document.models)
  PROVE  /\ read.regs \in Seq(Reg)
         /\ (read.ok /\ read.regs # <<>> /\ read.default \in Names(read.regs)) <=> Sound
         /\ Sound => Len(read.regs) = Cardinality(Enabled) /\ read.default = DefaultName
<1>1. PICK s, default : s = document.models /\ default = document.default
  OBVIOUS
<1>2. PICK E : E = Enabled /\ E \subseteq Nat /\ E = EnabledIn(s, Len(s))
  <2>1. Enabled = EnabledIn(s, Len(s)) /\ Enabled \subseteq Nat
    BY <1>1 DEF Enabled, EnabledIn
  <2> QED
    BY <2>1
<1>3. ReadSoFar(read, s, Len(s), default)
  BY <1>1, ReadRight
<1>4. read \in ReadState /\ read.regs \in Seq(Reg) /\ read.ok \in BOOLEAN
  BY <1>3 DEF ReadSoFar, ReadState
<1>5. PICK regs \in Seq(Reg) : regs = read.regs
  BY <1>4
<1>6. read.ok <=> /\ \A i \in E : s[i].valid
                  /\ \A i, j \in E : i # j => ~SameTarget(s[i], s[j])
  BY <1>2, <1>3 DEF ReadSoFar, SoundIn
<1>7. read.ok => /\ Len(regs) = Cardinality(E)
                 /\ \A i \in E : \E j \in 1 .. Len(regs) : SameTarget(regs[j], s[i])
                 /\ \A j \in 1 .. Len(regs) : \E i \in E : SameTarget(regs[j], s[i])
                 /\ DefaultIn(read.default, s, Len(s), default)
  BY <1>2, <1>3, <1>5 DEF ReadSoFar
<1>8. Sound <=> read.ok /\ \E i \in E : default \in {"", s[i].name}
  BY <1>1, <1>2, <1>6 DEF Sound, SameTarget
<1>9. /\ Names(regs) = {regs[j].name : j \in 1 .. Len(regs)}
      /\ \A x \in Names(regs) : \E j \in 1 .. Len(regs) : x = regs[j].name
      /\ \A j \in 1 .. Len(regs) : regs[j].name \in Names(regs)
  BY DEF Names
<1>10. read.ok => \A i \in E : s[i].name \in Names(regs)
  BY <1>7, <1>9 DEF SameTarget
<1>11. ASSUME read.ok, NEW x \in Names(regs) PROVE \E i \in E : x = s[i].name
  <2>1. PICK j \in 1 .. Len(regs) : x = regs[j].name
    BY <1>9
  <2>2. PICK i \in E : SameTarget(regs[j], s[i])
    BY <1>7, <1>11
  <2> QED
    BY <2>1, <2>2 DEF SameTarget
<1>12. read.ok =>
         \/ read.default = default /\ (default # "" \/ E = {})
         \/ default = "" /\ \E m \in E : (\A i \in E : m <= i) /\ read.default = s[m].name
  BY <1>2, <1>7 DEF DefaultIn
<1>13. ASSUME read.ok, regs # <<>>, read.default \in Names(regs) PROVE Sound
  <2>1. PICK i \in E : read.default = s[i].name
    BY <1>11, <1>13
  <2>2. default \in {"", s[i].name}
    BY <1>12, <1>13, <2>1
  <2> QED
    BY <1>8, <1>13, <2>2
<1>14. ASSUME Sound PROVE read.ok /\ regs # <<>> /\ read.default \in Names(regs)
  <2>1. PICK i \in E : default \in {"", s[i].name}
    BY <1>8, <1>14
  <2>2. read.ok /\ \E j \in 1 .. Len(regs) : SameTarget(regs[j], s[i])
    BY <1>7, <1>8, <1>14
  <2>3. regs # <<>>
    BY <2>2
  <2>4. \E m \in E : read.default = s[m].name
    BY <1>12, <2>1, <2>2
  <2> QED
    BY <1>10, <2>2, <2>3, <2>4
<1>15. ASSUME Sound PROVE Len(read.regs) = Cardinality(Enabled) /\ read.default = DefaultName
  <2>1. PICK i \in E : read.ok /\ default \in {"", s[i].name}
    BY <1>8, <1>15
  <2>2. CASE default # ""
    BY <1>1, <1>2, <1>5, <1>7, <1>12, <2>1, <2>2 DEF DefaultName
  <2>3. CASE default = ""
    <3>1. PICK m \in E : (\A j \in E : m <= j) /\ read.default = s[m].name
      BY <1>12, <2>1, <2>3
    <3>2. Min(E) \in E /\ \A j \in E : Min(E) <= j
      BY <1>2, MinInRange
    <3>3. m \in Nat /\ Min(E) \in Nat /\ m <= Min(E) /\ Min(E) <= m
      BY <1>2, <3>1, <3>2
    <3>4. m = Min(E)
      BY <3>3
    <3> QED
      BY <1>1, <1>2, <1>5, <1>7, <2>1, <2>3, <3>1, <3>4 DEF DefaultName
  <2> QED
    BY <2>2, <2>3
<1> QED
  BY <1>4, <1>5, <1>13, <1>14, <1>15

SettingsIn ==
  \A n \in DOMAIN Settings : Range(document.settings[n]) \subseteq 1 .. Settings[n].maximum

(* positiveEnvironment() refuses a setting exactly if it is set out of range. *)
LEMMA SettingRefused ==
  ASSUME document \in Installations, NEW n \in DOMAIN Settings
  PROVE  /\ Setting(n) = <<>> <=> ~(Range(document.settings[n]) \subseteq 1 .. Settings[n].maximum)
         /\ Setting(n) # <<>> => Head(Setting(n)) \in 1 .. Settings[n].maximum
<1>1. document \in Installation /\ Len(document.settings[n]) <= 1
  BY ServiceAssumption
<1>2. PICK v \in Seq(Nat) : v = document.settings[n] /\ Len(v) <= 1
  BY <1>1 DEF Installation
<1>3. PICK top \in Nat, low \in Nat :
        top = Settings[n].maximum /\ low = Settings[n].fallback /\ low \in 1 .. top
  BY ServiceAssumption
<1>4. CASE v = <<>>
  <2>1. Setting(n) = <<low>>
    BY <1>2, <1>3, <1>4 DEF Setting, PositiveEnvironment
  <2>2. Range(v) = {}
    BY <1>4 DEF Range
  <2> QED
    BY <1>2, <1>3, <2>1, <2>2
<1>5. CASE v # <<>>
  <2>1. Len(v) = 1
    <3>1. PICK k \in Nat : k = Len(v)
      OBVIOUS
    <3>2. k # 0 /\ k <= 1
      BY <1>2, <1>5, <3>1, EmptySeq
    <3>3. k = 1
      BY <3>2
    <3> QED
      BY <3>1, <3>3
  <2>2. Head(v) = v[1] /\ DOMAIN v = {1}
    BY <2>1
  <2>3. Range(v) = {v[1]}
    BY <2>2 DEF Range
  <2>4. Setting(n) = IF Head(v) \in 1 .. top THEN v ELSE <<>>
    BY <1>2, <1>3, <1>5 DEF Setting, PositiveEnvironment
  <2> QED
    BY <1>2, <1>3, <1>5, <2>2, <2>3, <2>4
<1> QED
  BY <1>4, <1>5

-----------------------------------------------------------------------------
(* Start-up, and where tasks run *)

Loaded ==
  /\ document.built # {} => /\ document.readable /\ Sound
                            /\ Len(registrations) = Cardinality(Enabled)
  /\ defaultModel = DefaultName /\ defaultModel \in Names(registrations)

(* The configuration is refused only if it is unsound, and once the registry is *)
(* loaded it is what the installation says.                                     *)
StartInv ==
  /\ document \in Installations /\ registrations \in Seq(Reg)
  /\ stage \in {"configure", "load", "initialize", "serving", "stopped", "badConfig",
                "noBackend"}
  /\ stage \notin {"configure", "badConfig"} => SettingsIn
  /\ stage = "badConfig" =>
       ~(SettingsIn /\ (document.built # {} => document.readable /\ Sound))
  /\ stage \in {"initialize", "serving", "stopped", "noBackend"} => Loaded

(* What the program derives from the document changes only with it. *)
LEMMA DocumentOnly ==
  ASSUME UNCHANGED document
  PROVE  /\ SettingsIn' = SettingsIn /\ Sound' = Sound /\ Enabled' = Enabled
         /\ DefaultName' = DefaultName /\ Capacity' = Capacity
         /\ \A n : Setting(n)' = Setting(n)
BY DEF SettingsIn, Sound, Enabled, DefaultName, Setting, Capacity

(* StartInv is about the registry and the stage of the start only. *)
LEMMA StartUnchanged ==
  ASSUME StartInv, UNCHANGED <<registry, stage>>
  PROVE  StartInv'
<1>1. UNCHANGED <<document, registrations, defaultModel, stage>>
  BY DEF registry
<1>2. /\ SettingsIn' = SettingsIn /\ Sound' = Sound /\ Enabled' = Enabled
      /\ DefaultName' = DefaultName
  BY <1>1, DocumentOnly
<1> QED
  BY <1>1, <1>2 DEF StartInv, Loaded, Names

(* No step of the program disturbs what the start has established. *)
LEMMA StartStep ==
  ASSUME StartInv, [ServiceNext]_serviceVars
  PROVE  StartInv'
<1>1. CASE UNCHANGED <<registry, stage>>
  BY <1>1, StartUnchanged
<1>2. ASSUME UNCHANGED document
      PROVE  /\ SettingsIn' = SettingsIn /\ Sound' = Sound /\ Enabled' = Enabled
             /\ DefaultName' = DefaultName
  BY <1>2, DocumentOnly
<1>3. CASE ReadSettings
  <2>1. UNCHANGED <<document, registrations, defaultModel>> /\ stage = "configure"
    BY <1>3 DEF ReadSettings, registry
  <2>2. (\E n \in DOMAIN Settings : Setting(n) = <<>>) <=> ~SettingsIn
    BY SettingRefused DEF StartInv, SettingsIn
  <2>3. stage' = IF ~SettingsIn THEN "badConfig" ELSE "load"
    BY <1>3, <2>2 DEF ReadSettings
  <2> QED
    BY <1>2, <2>1, <2>3 DEF StartInv
<1>4. CASE LoadFromFile
  <2>1. UNCHANGED document /\ stage = "load" /\ document.built # {} /\ SettingsIn
    BY <1>4 DEF LoadFromFile, StartInv
  <2>2. CASE ~document.readable
    <3>1. stage' = "badConfig" /\ UNCHANGED registrations
      BY <1>4, <2>2 DEF LoadFromFile
    <3> QED
      BY <1>2, <2>1, <2>2, <3>1 DEF StartInv
  <2>3. CASE document.readable
    <3>1. PICK read : read = ReadEntries(document.models)
      OBVIOUS
    <3>2. /\ defaultModel' = read.default
          /\ LET ok == read.ok /\ read.regs # <<>> /\ read.default \in Names(read.regs)
             IN /\ registrations' = IF read.ok /\ ~ok THEN <<>> ELSE read.regs
                /\ stage' = IF ok THEN "initialize" ELSE "badConfig"
      BY <1>4, <2>3, <3>1 DEF LoadFromFile
    <3>3. document \in Installation
      BY ServiceAssumption DEF StartInv
    <3>4. /\ read.regs \in Seq(Reg)
          /\ (read.ok /\ read.regs # <<>> /\ read.default \in Names(read.regs)) <=> Sound
          /\ Sound => Len(read.regs) = Cardinality(Enabled) /\ read.default = DefaultName
      BY <2>1, <3>1, <3>3, FileAccepted
    <3>5. CASE Sound
      <4>1. /\ registrations' = read.regs /\ stage' = "initialize"
            /\ read.default \in Names(read.regs)
        BY <3>2, <3>4, <3>5
      <4>2. Loaded'
        BY <1>2, <2>1, <2>3, <3>2, <3>4, <3>5, <4>1 DEF Loaded, Names
      <4> QED
        BY <1>2, <2>1, <3>4, <4>1, <4>2 DEF StartInv
    <3>6. CASE ~Sound
      <4>1. stage' = "badConfig" /\ registrations' \in Seq(Reg)
        BY <3>2, <3>4, <3>6
      <4> QED
        BY <1>2, <2>1, <3>6, <4>1 DEF StartInv
    <3> QED
      BY <3>5, <3>6
  <2> QED
    BY <2>2, <2>3
<1>5. CASE AddMock
  <2>1. UNCHANGED document /\ stage = "load" /\ document.built = {} /\ SettingsIn
    BY <1>5 DEF AddMock, StartInv
  <2>2. PICK r : r = [name |-> "mock", backend |-> "auto", priority |-> 0,
                      present |-> TRUE, available |-> FALSE]
    OBVIOUS
  <2>3. r \in Reg /\ r.name = "mock"
    BY <2>2 DEF Reg
  <2>4. registrations' = <<r>> /\ defaultModel' = "mock" /\ stage' = "initialize"
    BY <1>5, <2>2 DEF AddMock
  <2>5. registrations' \in Seq(Reg) /\ Len(registrations') = 1 /\ registrations'[1] = r
    BY <2>3, <2>4
  <2>6. Names(registrations)' = {registrations'[i].name : i \in 1 .. 1}
    BY <2>5 DEF Names
  <2>7. defaultModel' \in Names(registrations)'
    BY <2>3, <2>4, <2>5, <2>6
  <2>8. DefaultName = "mock"
    BY <2>1 DEF DefaultName
  <2> QED
    BY <1>2, <2>1, <2>4, <2>5, <2>7, <2>8 DEF StartInv, Loaded
<1>6. CASE Initialize
  <2>1. UNCHANGED <<document, defaultModel>> /\ stage = "initialize"
    BY <1>6 DEF Initialize
  <2>2. PICK n \in Nat, s \in Seq(Reg) : s = registrations /\ n = Len(s)
    BY DEF StartInv
  <2>3. PICK works \in SUBSET (1 .. n) :
          /\ registrations' = [i \in 1 .. n |-> [s[i] EXCEPT !.available = i \in works]]
          /\ stage' = IF works = {} THEN "noBackend" ELSE "serving"
    BY <1>6, <2>2 DEF Initialize
  <2>4. ASSUME NEW i \in 1 .. n
        PROVE  /\ [s[i] EXCEPT !.available = i \in works] \in Reg
               /\ [s[i] EXCEPT !.available = i \in works].name = s[i].name
    <3>1. s[i] \in Reg
      BY <2>2
    <3>2. (i \in works) \in BOOLEAN
      OBVIOUS
    <3>3. \A x \in Reg, a \in BOOLEAN :
            [x EXCEPT !.available = a] \in Reg /\ [x EXCEPT !.available = a].name = x.name
      BY DEF Reg
    <3> QED
      BY <3>1, <3>2, <3>3
  <2>5. registrations' \in Seq(Reg) /\ Len(registrations') = n
    BY <2>3, <2>4
  <2>6. \A i \in 1 .. n : registrations'[i].name = s[i].name
    BY <2>3, <2>4
  <2>7. Names(registrations)' = Names(registrations)
    BY <2>2, <2>5, <2>6 DEF Names
  <2>8. Loaded'
    BY <1>2, <2>1, <2>2, <2>5, <2>7 DEF StartInv, Loaded
  <2> QED
    BY <1>2, <2>1, <2>3, <2>5, <2>8 DEF StartInv
<1>7. CASE StopScheduler
  <2>1. UNCHANGED <<document, defaultModel, registrations>> /\ stage = "serving" /\ stage' = "stopped"
    BY <1>7 DEF StopScheduler, registry
  <2> QED
    BY <1>2, <2>1 DEF StartInv, Loaded, Names
<1>8. CASE Take \/ Scrape
  BY <1>1, <1>8 DEF Take, Scrape
<1>9. CASE \E r \in Requests : RejectInvalid(r) \/ RejectSubmission(r) \/ Accept(r)
  BY <1>1, <1>9 DEF RejectInvalid, RejectSubmission, Accept
<1>10. CASE \E r \in Requests : Complete(r) \/ Respond(r) \/ ConnectionLost(r)
  BY <1>1, <1>10 DEF Complete, Respond, ConnectionLost
<1>11. CASE UNCHANGED serviceVars
  BY <1>1, <1>11 DEF serviceVars
<1> QED
  BY <1>3, <1>4, <1>5, <1>6, <1>7, <1>8, <1>9, <1>10, <1>11 DEF ServiceNext

(* Before the start nothing is claimed. *)
LEMMA StartHolds == ServiceInit => StartInv
<1> SUFFICES ASSUME ServiceInit PROVE StartInv
  OBVIOUS
<1>1. /\ document \in Installations /\ stage = "configure" /\ registrations = <<>>
  BY DEF ServiceInit
<1>2. registrations \in Seq(Reg)
  BY <1>1
<1> QED
  BY <1>1, <1>2 DEF StartInv

(* The program starts exactly with a sound document. *)
LEMMA StartRight == StartInv => StartsIfSound
<1> SUFFICES ASSUME StartInv, stage \notin {"configure", "load"} PROVE StartsIfSound
  BY DEF StartsIfSound
<1>1. CASE stage = "badConfig"
  BY <1>1 DEF StartInv, StartsIfSound, SettingsIn
<1>2. CASE stage # "badConfig"
  BY <1>2 DEF StartInv, Loaded, StartsIfSound, SettingsIn
<1> QED
  BY <1>1, <1>2

RoutedTask(r) ==
  LET allowed == {i \in 1 .. Len(registrations) :
                    Candidate(registrations[i], task[r].model, BackendOf(r))}
  IN /\ \E i \in allowed :
          /\ registrations[i].backend = task[r].backend
          /\ \A j \in allowed : registrations[j].priority <= registrations[i].priority
     /\ task[r].model = IF ModelName(r) = "default" THEN DefaultName ELSE ModelName(r)

RouteInv ==
  /\ DOMAIN task = Requests
  /\ \A r \in Requests : task[r] # Unassigned =>
       stage \in {"serving", "stopped"} /\ RoutedTask(r)

(* A request that submit() accepts has a backend that may take it. *)
LEMMA AcceptedHas ==
  ASSUME StartInv, NEW r \in Requests, Arrives(r), Submission(r) = "kAccepted"
  PROVE  /\ stage = "serving" /\ ~(Len(line) >= Capacity)
         /\ HasModel(ModelName(r))
         /\ \E i \in {j \in 1 .. Len(registrations) :
                       Candidate(registrations[j], Resolved(ModelName(r)), BackendOf(r))} :
              /\ Resolve(ModelName(r), BackendOf(r)) = registrations[i]
              /\ \A j \in {j \in 1 .. Len(registrations) :
                             Candidate(registrations[j], Resolved(ModelName(r)), BackendOf(r))} :
                   registrations[j].priority <= registrations[i].priority
<1>1. /\ stage # "stopped" /\ HasModel(ModelName(r))
      /\ Resolve(ModelName(r), BackendOf(r)) # Unassigned /\ ~(Len(line) >= Capacity)
  BY DEF Submission
<1>2. Chosen(Resolve(ModelName(r), BackendOf(r)), registrations, Len(registrations),
             Resolved(ModelName(r)), BackendOf(r))
  BY ResolveRight DEF StartInv
<1> QED
  BY <1>1, <1>2 DEF Chosen, Arrives

(* A task stays routed while it and the registrations stay. *)
LEMMA RoutedUnchanged ==
  ASSUME NEW r, UNCHANGED <<document, registrations>>, task'[r] = task[r], RoutedTask(r)
  PROVE  RoutedTask(r)'
<1>1. DefaultName' = DefaultName
  BY DocumentOnly
<1> QED
  BY <1>1 DEF RoutedTask

(* Every step keeps accepted tasks with the backend that resolve() chose. *)
LEMMA RouteStep ==
  ASSUME StartInv, RouteInv, [ServiceNext]_serviceVars
  PROVE  RouteInv'
<1>1. CASE UNCHANGED <<registry, stage, task>>
  <2>1. UNCHANGED <<document, registrations, task, stage>>
    BY <1>1 DEF registry
  <2>2. \A r \in Requests : RoutedTask(r) => RoutedTask(r)'
    BY <2>1, RoutedUnchanged
  <2> QED
    BY <2>1, <2>2 DEF RouteInv
<1>2. CASE ReadSettings \/ LoadFromFile \/ AddMock \/ Initialize
  <2>1. UNCHANGED task /\ stage \notin {"serving", "stopped"}
    BY <1>2 DEF ReadSettings, LoadFromFile, AddMock, Initialize
  <2> QED
    BY <2>1 DEF RouteInv
<1>3. CASE StopScheduler
  <2>1. UNCHANGED <<document, registrations, task>> /\ stage' = "stopped"
    BY <1>3 DEF StopScheduler, registry
  <2>2. \A r \in Requests : RoutedTask(r) => RoutedTask(r)'
    BY <2>1, RoutedUnchanged
  <2> QED
    BY <2>1, <2>2 DEF RouteInv
<1>4. ASSUME NEW r \in Requests, Accept(r) PROVE RouteInv'
  <2>1. /\ UNCHANGED <<document, registrations, defaultModel, stage>>
        /\ task' = [task EXCEPT ![r] =
                      [model   |-> Resolved(ModelName(r)),
                       backend |-> Resolve(ModelName(r), BackendOf(r)).backend]]
        /\ Arrives(r) /\ Submission(r) = "kAccepted"
    BY <1>4 DEF Accept, registry
  <2>2. PICK i \in {j \in 1 .. Len(registrations) :
                     Candidate(registrations[j], Resolved(ModelName(r)), BackendOf(r))} :
          /\ Resolve(ModelName(r), BackendOf(r)) = registrations[i]
          /\ \A j \in {j \in 1 .. Len(registrations) :
                         Candidate(registrations[j], Resolved(ModelName(r)), BackendOf(r))} :
               registrations[j].priority <= registrations[i].priority
    BY <2>1, AcceptedHas
  <2>3. stage = "serving"
    BY <2>1, AcceptedHas
  <2>4. /\ task'[r].model = Resolved(ModelName(r))
        /\ task'[r].backend = registrations[i].backend
        /\ DOMAIN task' = Requests /\ \A q \in Requests \ {r} : task'[q] = task[q]
    BY <2>1, <2>2 DEF RouteInv
  <2>5. defaultModel = DefaultName /\ DefaultName' = DefaultName
    BY <2>1, <2>3, DocumentOnly DEF StartInv, Loaded
  <2>6. task'[r].model = IF ModelName(r) = "default" THEN DefaultName' ELSE ModelName(r)
    BY <2>4, <2>5 DEF Resolved
  <2>7. RoutedTask(r)'
    BY <2>1, <2>2, <2>4, <2>6 DEF RoutedTask
  <2>8. \A q \in Requests \ {r} : RoutedTask(q) => RoutedTask(q)'
    BY <2>1, <2>4, RoutedUnchanged
  <2> QED
    BY <2>1, <2>3, <2>4, <2>7, <2>8 DEF RouteInv
<1>5. CASE Take \/ Scrape
  BY <1>1, <1>5 DEF Take, Scrape
<1>6. CASE \E r \in Requests : RejectInvalid(r) \/ RejectSubmission(r)
  BY <1>1, <1>6 DEF RejectInvalid, RejectSubmission
<1>7. CASE \E r \in Requests : Complete(r) \/ Respond(r) \/ ConnectionLost(r)
  BY <1>1, <1>7 DEF Complete, Respond, ConnectionLost
<1>8. CASE UNCHANGED serviceVars
  BY <1>1, <1>8 DEF serviceVars
<1> QED
  BY <1>2, <1>3, <1>4, <1>5, <1>6, <1>7, <1>8 DEF ServiceNext

(* The service starts exactly on a sound installation, and every task it accepts *)
(* runs on the available backend of highest priority that its request allows,    *)
(* for any registry file, any settings and any number of requests.               *)
THEOREM ServiceRoutesRight == ServiceSafe => []RoutedRight
<1>1. ServiceInit => StartInv /\ RouteInv
  BY StartHolds DEF ServiceInit, RouteInv
<1>2. StartInv /\ RouteInv /\ [ServiceNext]_serviceVars => StartInv' /\ RouteInv'
  BY StartStep, RouteStep
<1>3. StartInv /\ RouteInv => RoutedRight
  BY StartRight DEF RouteInv, RoutedTask, RoutedRight
<1> QED
  BY <1>1, <1>2, <1>3, PTL DEF ServiceSafe

-----------------------------------------------------------------------------
(* buildRequest(): the code after each of its checks *)

CheckCodes == {"METHOD_NOT_ALLOWED", "INVALID_IMAGE_COUNT", "INVALID_IMAGE",
               "UNSUPPORTED_IMAGE_TYPE", "INVALID_BACKEND", "INVALID_THRESHOLD"}

Checked(code, c) == IF code = "" /\ c[2] THEN c[1] ELSE code

(* buildRequest() makes six checks, each with an error code. *)
LEMMA ChecksFacts ==
  ASSUME NEW r
  PROVE  /\ Len(Checks(r)) = 6 /\ DOMAIN Checks(r) = 1 .. 6
         /\ \A i \in 1 .. 6 : Checks(r)[i][1] \in CheckCodes
<1>1. Len(Checks(r)) = 6 /\ DOMAIN Checks(r) = 1 .. 6
  BY DEF Checks
<1>2. /\ Checks(r)[1][1] = "METHOD_NOT_ALLOWED" /\ Checks(r)[2][1] = "INVALID_IMAGE_COUNT"
      /\ Checks(r)[3][1] = "INVALID_IMAGE" /\ Checks(r)[4][1] = "UNSUPPORTED_IMAGE_TYPE"
      /\ Checks(r)[5][1] = "INVALID_BACKEND" /\ Checks(r)[6][1] = "INVALID_THRESHOLD"
  BY DEF Checks
<1>3. \A i \in 1 .. 6 : i = 1 \/ i = 2 \/ i = 3 \/ i = 4 \/ i = 5 \/ i = 6
  OBVIOUS
<1> QED
  BY <1>1, <1>2, <1>3 DEF CheckCodes

(* The checks are made one after the other. *)
LEMMA BuildTrace ==
  ASSUME NEW r
  PROVE  \E g : /\ g[0] = ""
                /\ \A i \in 1 .. 6 : g[i] = Checked(g[i - 1], Checks(r)[i])
                /\ BuildRequest(r) = g[6]
<1>1. PICK n \in Nat : n = 6
  OBVIOUS
<1>2. PICK s : s = Checks(r) /\ DOMAIN s = 1 .. n /\ \A i \in 1 .. n : s[i][1] \in CheckCodes
  BY <1>1, ChecksFacts
<1> DEFINE S == CheckCodes \union {""}
           F == [p \in S \X (1 .. n) |-> Checked(p[1], s[p[2]])]
           Eq(it) == it = [t \in SUBSET (1 .. n) |->
                             IF t = {} THEN "" ELSE Checked(it[t \ {Max(t)}], s[Max(t)])]
<1>3. \E it : Eq(it)
  <2>1. \A x \in S, i \in 1 .. n : F[<<x, i>>] = Checked(x, s[i])
    OBVIOUS
  <2>2. \A x \in S, i \in 1 .. n : Checked(x, s[i]) \in S
    BY <1>2 DEF Checked
  <2>3. "" \in S
    OBVIOUS
  <2> HIDE DEF F, S
  <2>4. \A x \in S, i \in 1 .. n : F[<<x, i>>] \in S
    BY <2>1, <2>2
  <2>5. PICK it \in [SUBSET (1 .. n) -> S] : FoldEq(it, F, "", n)
    BY <2>3, <2>4, FoldExists
  <2>6. ASSUME NEW t \in SUBSET (1 .. n)
        PROVE  it[t] = IF t = {} THEN "" ELSE Checked(it[t \ {Max(t)}], s[Max(t)])
    <3>1. CASE t = {}
      BY <2>5, <3>1 DEF FoldEq
    <3>2. CASE t # {}
      <4>1. PICK m \in 1 .. n : m = Max(t)
        BY <3>2, MaxInRange
      <4>2. t \ {m} \in SUBSET (1 .. n)
        OBVIOUS
      <4>3. it[t \ {m}] \in S
        BY <4>2
      <4>4. it[t] = F[<<it[t \ {m}], m>>]
        BY <2>5, <3>2, <4>1 DEF FoldEq
      <4> QED
        BY <2>1, <3>2, <4>1, <4>3, <4>4
    <3> QED
      BY <3>1, <3>2
  <2>7. it = [t \in SUBSET (1 .. n) |-> it[t]]
    OBVIOUS
  <2> QED
    BY <2>6, <2>7
<1>4. PICK iter : iter = (CHOOSE it : Eq(it))
  OBVIOUS
<1>5. Eq(iter)
  BY <1>3, <1>4
<1>6. BuildRequest(r) = iter[1 .. n]
  BY <1>2, <1>4 DEF BuildRequest, FoldLeft, MapThenFoldSet, Checked
<1> DEFINE g == [done \in 0 .. n |-> iter[1 .. done]]
<1>7. g[0] = ""
  <2>1. 1 .. 0 = {} /\ {} \in SUBSET (1 .. n)
    OBVIOUS
  <2>2. iter[{}] = ""
    BY <1>5, <2>1
  <2>3. 0 \in 0 .. n
    OBVIOUS
  <2>4. g[0] = iter[1 .. 0]
    BY <2>3
  <2> HIDE DEF g
  <2> QED
    BY <2>1, <2>2, <2>4
<1>8. ASSUME NEW done \in 1 .. n PROVE g[done] = Checked(g[done - 1], s[done])
  <2> DEFINE t == 1 .. done
  <2>1. t \in SUBSET (1 .. n) /\ t # {} /\ Max(t) = done /\ t \ {done} = 1 .. done - 1
    BY PrefixSets
  <2> HIDE DEF t
  <2>2. iter[t] = IF t = {} THEN "" ELSE Checked(iter[t \ {Max(t)}], s[Max(t)])
    BY <1>5, <2>1
  <2>3. iter[1 .. done] = Checked(iter[1 .. done - 1], s[done])
    BY <2>1, <2>2 DEF t
  <2> QED
    BY <2>3
<1>9. BuildRequest(r) = g[n]
  BY <1>6
<1> HIDE DEF g
<1> QED
  BY <1>1, <1>2, <1>7, <1>8, <1>9

WrongIn(c, done) == {n \in 1 .. done : c[n][2]}

(* The code is that of the first check that fails. *)
FirstWrong(code, c, done) ==
  \/ WrongIn(c, done) = {} /\ code = ""
  \/ \E m \in WrongIn(c, done) : /\ \A i \in WrongIn(c, done) : m <= i
                                 /\ code = c[m][1]

(* The interval of the checks made so far grows by one. *)
LEMMA OneMore ==
  ASSUME NEW top \in Nat, NEW n \in 1 .. top
  PROVE  /\ n \in Nat /\ n <= n
         /\ \A i : i \in 1 .. n <=> i \in 1 .. n - 1 \/ i = n
         /\ \A i \in 1 .. n - 1 : i <= n /\ i \in 1 .. top
OBVIOUS

(* One more check: the code stays that of the first that failed. *)
LEMMA FirstWrongNext ==
  ASSUME NEW c, NEW top \in Nat, \A i \in 1 .. top : c[i][1] # "", NEW n \in 1 .. top,
         NEW code, FirstWrong(code, c, n - 1)
  PROVE  FirstWrong(Checked(code, c[n]), c, n)
<1>1. PICK old \in SUBSET (1 .. n - 1), new \in SUBSET (1 .. n) :
        old = WrongIn(c, n - 1) /\ new = WrongIn(c, n)
  BY DEF WrongIn
<1>2. \A i : i \in 1 .. n <=> i \in 1 .. n - 1 \/ i = n
  BY OneMore
<1>3. n \in Nat /\ n <= n /\ \A i \in 1 .. n - 1 : i <= n /\ i \in 1 .. top
  BY OneMore
<1>4. (c[n][2] => new = old \union {n}) /\ (~c[n][2] => new = old)
  BY <1>1, <1>2 DEF WrongIn
<1>5. \/ old = {} /\ code = ""
      \/ \E m \in old : (\A i \in old : m <= i) /\ code = c[m][1]
  BY <1>1 DEF FirstWrong
<1>6. SUFFICES \/ new = {} /\ Checked(code, c[n]) = ""
               \/ \E m \in new : (\A i \in new : m <= i) /\ Checked(code, c[n]) = c[m][1]
  BY <1>1 DEF FirstWrong
<1>7. CASE ~c[n][2]
  BY <1>4, <1>5, <1>7 DEF Checked
<1>8. CASE c[n][2] /\ old = {} /\ code = ""
  <2>1. new = {n} /\ Checked(code, c[n]) = c[n][1]
    BY <1>4, <1>8 DEF Checked
  <2> QED
    BY <1>3, <2>1
<1>9. CASE c[n][2] /\ \E m \in old : (\A i \in old : m <= i) /\ code = c[m][1]
  <2>1. PICK m \in old : (\A i \in old : m <= i) /\ code = c[m][1]
    BY <1>9
  <2>2. code # ""
    BY <1>3, <2>1
  <2>3. Checked(code, c[n]) = code
    BY <2>2 DEF Checked
  <2>4. \A i \in new : m <= i
    BY <1>3, <1>4, <1>9, <2>1
  <2>5. m \in new
    BY <1>4, <1>9
  <2> QED
    BY <2>1, <2>3, <2>4, <2>5
<1> QED
  BY <1>5, <1>7, <1>8, <1>9

(* buildRequest() refuses a request by its first check that fails. *)
LEMMA BuildRight ==
  ASSUME NEW r
  PROVE  LET wrong == {n \in 1 .. Len(Checks(r)) : Checks(r)[n][2]}
         IN /\ wrong = {} => BuildRequest(r) = ""
            /\ wrong # {} => /\ BuildRequest(r) = Checks(r)[Min(wrong)][1]
                             /\ BuildRequest(r) \in CheckCodes
<1>1. PICK c : c = Checks(r) /\ Len(c) = 6 /\ \A i \in 1 .. 6 : c[i][1] \in CheckCodes
  BY ChecksFacts
<1>2. \A i \in 1 .. 6 : c[i][1] # ""
  BY <1>1 DEF CheckCodes
<1>3. PICK g : /\ g[0] = ""
               /\ \A i \in 1 .. 6 : g[i] = Checked(g[i - 1], c[i])
               /\ BuildRequest(r) = g[6]
  BY <1>1, BuildTrace
<1> DEFINE T == {done \in Nat : done <= 6 => FirstWrong(g[done], c, done)}
<1>4. 0 \in T
  <2>1. WrongIn(c, 0) = {}
    BY DEF WrongIn
  <2>2. FirstWrong(g[0], c, 0)
    BY <1>3, <2>1 DEF FirstWrong
  <2> QED
    BY <2>2
<1>5. ASSUME NEW done \in Nat, done \in T PROVE done + 1 \in T
  <2> SUFFICES ASSUME done + 1 <= 6 PROVE FirstWrong(g[done + 1], c, done + 1)
    OBVIOUS
  <2>1. PICK m \in 1 .. 6 : m = done + 1 /\ m - 1 = done
    OBVIOUS
  <2>2. FirstWrong(g[m - 1], c, m - 1)
    BY <1>5, <2>1
  <2>3. FirstWrong(Checked(g[m - 1], c[m]), c, m)
    BY 6 \in Nat, <1>2, <2>2, FirstWrongNext
  <2>4. g[m] = Checked(g[m - 1], c[m])
    BY <1>3
  <2> QED
    BY <2>1, <2>3, <2>4
<1>6. Nat \subseteq T
  BY <1>4, <1>5, NatSetInduction
<1>7. FirstWrong(BuildRequest(r), c, 6)
  <2>1. 6 \in T
    BY 6 \in Nat, <1>6
  <2>2. FirstWrong(g[6], c, 6)
    BY <2>1
  <2> QED
    BY <1>3, <2>2
<1>8. PICK wrong \in SUBSET (1 .. 6) : /\ wrong = WrongIn(c, 6)
                                       /\ wrong = {n \in 1 .. Len(Checks(r)) : Checks(r)[n][2]}
  BY <1>1 DEF WrongIn
<1>9. \/ wrong = {} /\ BuildRequest(r) = ""
      \/ \E m \in wrong : (\A i \in wrong : m <= i) /\ BuildRequest(r) = c[m][1]
  BY <1>7, <1>8 DEF FirstWrong
<1>10. ASSUME wrong # {}
       PROVE  BuildRequest(r) = Checks(r)[Min(wrong)][1] /\ BuildRequest(r) \in CheckCodes
  <2>1. PICK m \in wrong : (\A i \in wrong : m <= i) /\ BuildRequest(r) = c[m][1]
    BY <1>9, <1>10
  <2>2. wrong \subseteq Nat
    OBVIOUS
  <2>3. Min(wrong) \in wrong /\ \A i \in wrong : Min(wrong) <= i
    BY <1>10, <2>2, MinInRange
  <2>4. m \in Nat /\ Min(wrong) \in Nat /\ m <= Min(wrong) /\ Min(wrong) <= m
    BY <2>1, <2>2, <2>3
  <2>5. m = Min(wrong)
    BY <2>4
  <2> QED
    BY <1>1, <2>1, <2>5
<1> QED
  BY <1>8, <1>9, <1>10

-----------------------------------------------------------------------------
(* Requests and their answers *)

(* A backend that is available may take the request. *)
Usable(r) ==
  \E i \in 1 .. Len(registrations) :
    Candidate(registrations[i], Resolved(ModelName(r)), BackendOf(r))

(* A request that is over was answered as it deserves, or its connection went  *)
(* down before the result could be sent.                                       *)
Settled(r) ==
  LET code == reply[r].code
  IN \/ reply[r] = NoAnswer /\ result[r] \in Outcomes /\ BuildRequest(r) = ""
     \/ /\ conn[r] /\ reply[r].id = id[r]
        /\ \/ BuildRequest(r) \in CheckCodes /\ code = BuildRequest(r) /\ result[r] = "none"
           \/ /\ BuildRequest(r) = "" /\ result[r] = "none"
              /\ \/ code = "SCHEDULER_UNAVAILABLE" /\ stage = "stopped"
                 \/ code = "MODEL_UNAVAILABLE" /\ ~HasModel(ModelName(r))
                 \/ code = "BACKEND_UNAVAILABLE" /\ HasModel(ModelName(r)) /\ ~Usable(r)
                 \/ code = "INFERENCE_QUEUE_FULL" /\ Usable(r)
           \/ /\ BuildRequest(r) = "" /\ result[r] \in Outcomes
              /\ code = result[r] /\ Usable(r)

(* What each phase of a request promises. *)
RequestInv(r) ==
  /\ phase[r] \in {"new", "queued", "running", "answering", "done"} /\ conn[r] \in BOOLEAN
  /\ phase[r] = "new" =>
       conn[r] /\ id[r] = 0 /\ result[r] = "none" /\ reply[r] = NoAnswer
  /\ phase[r] # "new" => id[r] \in 1 .. sequence - 1 /\ stage \in {"serving", "stopped"}
  /\ phase[r] \in {"queued", "running"} => result[r] = "none"
  /\ phase[r] = "answering" => result[r] \in Outcomes
  /\ phase[r] \in {"queued", "running", "answering"} =>
       reply[r] = NoAnswer /\ BuildRequest(r) = "" /\ Usable(r)
  /\ phase[r] = "done" => Settled(r)

(* The line holds requests that are queued, each of them once. *)
InLine(l, ph) ==
  /\ l \in Seq(Requests)
  /\ \A i \in 1 .. Len(l) : ph[l[i]] = "queued"
  /\ \A i, j \in 1 .. Len(l) : i # j => l[i] # l[j]

(* No two requests have the same number. *)
AnswerInv ==
  /\ DOMAIN phase = Requests /\ DOMAIN conn = Requests /\ DOMAIN id = Requests
  /\ DOMAIN reply = Requests /\ DOMAIN result = Requests
  /\ sequence \in Nat \ {0}
  /\ InLine(line, phase)
  /\ \A r, q \in Requests : r # q /\ id[r] # 0 => id[r] # id[q]
  /\ \A r \in Requests : RequestInv(r)

(* submit() puts a request at the end of the line. *)
LEMMA LineAccept ==
  ASSUME NEW l, NEW ph, NEW qh, InLine(l, ph), NEW r \in Requests, ph[r] # "queued",
         qh[r] = "queued", \A q \in Requests \ {r} : qh[q] = ph[q]
  PROVE  InLine(Append(l, r), qh) /\ Len(Append(l, r)) = Len(l) + 1
<1>1. PICK n \in Nat : n = Len(l) /\ \A i \in 1 .. n : l[i] \in Requests
  BY DEF InLine
<1>2. PICK m : m = Append(l, r)
  OBVIOUS
<1>3. /\ m \in Seq(Requests) /\ Len(m) = n + 1 /\ m[n + 1] = r
      /\ \A i \in 1 .. n : m[i] = l[i]
  BY <1>1, <1>2, AppendProperties DEF InLine
<1>4. \A i \in 1 .. n + 1 : i \in 1 .. n \/ i = n + 1
  OBVIOUS
<1>5. \A i \in 1 .. n : l[i] # r /\ ph[l[i]] = "queued"
  BY <1>1 DEF InLine
<1>6. \A i \in 1 .. n + 1 : qh[m[i]] = "queued"
  BY <1>1, <1>3, <1>4, <1>5
<1>7. \A i, j \in 1 .. n : i # j => l[i] # l[j]
  BY <1>1 DEF InLine
<1>8. \A i, j \in 1 .. n + 1 : i # j => m[i] # m[j]
  BY <1>3, <1>4, <1>5, <1>7
<1> QED
  BY <1>1, <1>2, <1>3, <1>6, <1>8 DEF InLine

(* The worker takes the first of the line. *)
LEMMA LineTake ==
  ASSUME NEW l, NEW ph, NEW qh, InLine(l, ph), l # <<>>,
         \A q \in Requests \ {Head(l)} : qh[q] = ph[q]
  PROVE  /\ InLine(Tail(l), qh) /\ Head(l) \in Requests /\ ph[Head(l)] = "queued"
         /\ Len(Tail(l)) = Len(l) - 1
<1>1. PICK n \in Nat : n = Len(l) /\ \A i \in 1 .. n : l[i] \in Requests
  BY DEF InLine
<1>2. n # 0 /\ Head(l) = l[1] /\ 1 \in 1 .. n
  BY <1>1, EmptySeq DEF InLine
<1>3. PICK m : m = Tail(l)
  OBVIOUS
<1>4. m \in Seq(Requests) /\ Len(m) = n - 1 /\ \A i \in 1 .. n - 1 : m[i] = l[i + 1]
  BY <1>1, <1>2, <1>3, HeadTailProperties DEF InLine
<1>5. \A i \in 1 .. n - 1 : i + 1 \in 1 .. n /\ i + 1 # 1
  OBVIOUS
<1>6. \A i \in 1 .. n - 1 : qh[m[i]] = "queued"
  BY <1>1, <1>2, <1>4, <1>5 DEF InLine
<1>7. \A i, j \in 1 .. n - 1 : i # j => i + 1 # j + 1
  OBVIOUS
<1>8. \A i, j \in 1 .. n - 1 : i # j => m[i] # m[j]
  BY <1>1, <1>4, <1>5, <1>7 DEF InLine
<1> QED
  BY <1>1, <1>2, <1>3, <1>4, <1>6, <1>8 DEF InLine

(* The line stays while no queued request changes. *)
LEMMA LineKept ==
  ASSUME NEW l, NEW ph, NEW qh, InLine(l, ph),
         \A q \in Requests : ph[q] = "queued" => qh[q] = "queued"
  PROVE  InLine(l, qh)
<1>1. \A i \in 1 .. Len(l) : l[i] \in Requests
  BY DEF InLine
<1> QED
  BY <1>1 DEF InLine

(* A request that a step does not touch is as well off as before. *)
LEMMA OthersKept ==
  ASSUME NEW q \in Requests, RequestInv(q), UNCHANGED registry,
         stage' = stage \/ stage' = "stopped",
         sequence \in Nat, sequence' \in Nat, sequence <= sequence',
         phase'[q] = phase[q], conn'[q] = conn[q], id'[q] = id[q], reply'[q] = reply[q],
         result'[q] = result[q]
  PROVE  RequestInv(q)'
<1>1. UNCHANGED <<document, registrations, defaultModel>>
  BY DEF registry
<1>2. Usable(q)' <=> Usable(q)
  BY <1>1 DEF Usable, Resolved
<1>3. HasModel(ModelName(q))' <=> HasModel(ModelName(q))
  BY <1>1 DEF HasModel, Resolved, Names
<1>4. id[q] \in 1 .. sequence - 1 => id[q] \in 1 .. sequence' - 1
  OBVIOUS
<1>5. Settled(q) => Settled(q)'
  BY <1>2, <1>3 DEF Settled
<1> QED
  BY <1>2, <1>4, <1>5 DEF RequestInv

(* The step is about one request. *)
Touches(r) ==
  /\ UNCHANGED <<registry, stage>>
  /\ sequence' \in Nat \ {0} /\ sequence <= sequence'
  /\ DOMAIN phase' = Requests /\ DOMAIN conn' = Requests /\ DOMAIN id' = Requests
  /\ DOMAIN reply' = Requests /\ DOMAIN result' = Requests
  /\ \A q \in Requests \ {r} :
       /\ phase'[q] = phase[q] /\ conn'[q] = conn[q] /\ id'[q] = id[q]
       /\ reply'[q] = reply[q] /\ result'[q] = result[q]

(* A step that touches one request keeps the invariant of all the others. *)
LEMMA OneTouched ==
  ASSUME AnswerInv, NEW r \in Requests, Touches(r), RequestInv(r)', InLine(line, phase)',
         id'[r] = id[r] \/ (id'[r] = sequence /\ sequence' = sequence + 1)
  PROVE  AnswerInv'
<1>1. sequence \in Nat /\ sequence' \in Nat
  BY DEF AnswerInv, Touches
<1>2. \A q \in Requests \ {r} : RequestInv(q)'
  BY <1>1, OthersKept DEF AnswerInv, Touches
<1>3. \A q \in Requests : id[q] = 0 \/ id[q] \in 1 .. sequence - 1
  BY DEF AnswerInv, RequestInv
<1>4. \A q \in Requests : id[q] # sequence
  BY <1>1, <1>3 DEF AnswerInv
<1>5. ASSUME NEW q \in Requests, NEW p \in Requests, q # p, id'[q] # 0 PROVE id'[q] # id'[p]
  BY <1>4, <1>5 DEF AnswerInv, Touches
<1> QED
  BY <1>2, <1>5 DEF AnswerInv, Touches

(* nextRequestId() gives a number that nobody has. *)
LEMMA NumberFacts ==
  ASSUME AnswerInv, NEW r \in Requests, NextRequestId(r)
  PROVE  /\ id'[r] = sequence /\ sequence' = sequence + 1 /\ sequence' \in Nat \ {0}
         /\ sequence <= sequence' /\ id'[r] \in 1 .. sequence' - 1
         /\ DOMAIN id' = Requests /\ \A q \in Requests \ {r} : id'[q] = id[q]
<1>1. sequence \in Nat \ {0} /\ DOMAIN id = Requests
  BY DEF AnswerInv
<1>2. id' = [id EXCEPT ![r] = sequence] /\ sequence' = sequence + 1
  BY DEF NextRequestId
<1>3. id'[r] = sequence /\ DOMAIN id' = Requests /\ \A q \in Requests \ {r} : id'[q] = id[q]
  BY <1>1, <1>2
<1>4. \A n \in Nat \ {0} : n + 1 \in Nat \ {0} /\ n <= n + 1 /\ n \in 1 .. (n + 1) - 1
  OBVIOUS
<1> QED
  BY <1>1, <1>2, <1>3, <1>4

(* An answer ends its request, and no other. *)
LEMMA AnswerFacts ==
  ASSUME AnswerInv, NEW r \in Requests, NEW code, NEW number, Answer(r, code, number)
  PROVE  /\ reply'[r].code = code /\ reply'[r].id = number /\ phase'[r] = "done"
         /\ DOMAIN reply' = Requests /\ DOMAIN phase' = Requests
         /\ \A q \in Requests \ {r} : reply'[q] = reply[q] /\ phase'[q] = phase[q]
BY DEF Answer, AnswerInv

(* A request that was not queued and is not, and no other changes its phase. *)
LEMMA LineSame ==
  ASSUME AnswerInv, NEW r \in Requests, phase[r] # "queued", UNCHANGED line,
         \A q \in Requests \ {r} : phase'[q] = phase[q]
  PROVE  InLine(line, phase)'
<1>1. InLine(line, phase')
  BY LineKept DEF AnswerInv
<1> QED
  BY <1>1 DEF InLine

(* An invalid request is answered with the code of its first wrong check. *)
LEMMA RejectInvalidKept ==
  ASSUME AnswerInv, NEW r \in Requests, RejectInvalid(r)
  PROVE  AnswerInv'
<1>1. /\ phase[r] = "new" /\ stage \in {"serving", "stopped"} /\ BuildRequest(r) # ""
      /\ NextRequestId(r) /\ Answer(r, BuildRequest(r), id'[r])
      /\ UNCHANGED <<registry, stage, line, conn, result>>
  BY DEF RejectInvalid, Arrives
<1>2. /\ id'[r] = sequence /\ sequence' = sequence + 1 /\ sequence' \in Nat \ {0}
      /\ sequence <= sequence' /\ id'[r] \in 1 .. sequence' - 1
      /\ DOMAIN id' = Requests /\ \A q \in Requests \ {r} : id'[q] = id[q]
  BY <1>1, NumberFacts
<1>3. /\ reply'[r].code = BuildRequest(r) /\ reply'[r].id = id'[r] /\ phase'[r] = "done"
      /\ DOMAIN reply' = Requests /\ DOMAIN phase' = Requests
      /\ \A q \in Requests \ {r} : reply'[q] = reply[q] /\ phase'[q] = phase[q]
  BY <1>1, AnswerFacts
<1>4. Touches(r)
  BY <1>1, <1>2, <1>3 DEF Touches, AnswerInv
<1>5. BuildRequest(r) \in CheckCodes
  BY <1>1, BuildRight
<1>6. conn[r] /\ result[r] = "none" /\ conn[r] \in BOOLEAN
  BY <1>1 DEF AnswerInv, RequestInv
<1>7. Settled(r)'
  BY <1>1, <1>3, <1>5, <1>6 DEF Settled
<1>8. RequestInv(r)'
  BY <1>1, <1>2, <1>3, <1>6, <1>7 DEF RequestInv
<1>9. InLine(line, phase)'
  BY <1>1, <1>3, LineSame
<1> QED
  BY <1>2, <1>4, <1>8, <1>9, OneTouched

(* A refused submission is answered with the scheduler's reason. *)
LEMMA RejectSubmissionKept ==
  ASSUME StartInv, AnswerInv, NEW r \in Requests, RejectSubmission(r)
  PROVE  AnswerInv'
<1>1. /\ phase[r] = "new" /\ stage \in {"serving", "stopped"} /\ BuildRequest(r) = ""
      /\ Submission(r) # "kAccepted"
      /\ NextRequestId(r) /\ Answer(r, Submission(r), id'[r])
      /\ UNCHANGED <<registry, stage, line, conn, result>>
  BY DEF RejectSubmission, Arrives
<1>2. /\ id'[r] = sequence /\ sequence' = sequence + 1 /\ sequence' \in Nat \ {0}
      /\ sequence <= sequence' /\ id'[r] \in 1 .. sequence' - 1
      /\ DOMAIN id' = Requests /\ \A q \in Requests \ {r} : id'[q] = id[q]
  BY <1>1, NumberFacts
<1>3. /\ reply'[r].code = Submission(r) /\ reply'[r].id = id'[r] /\ phase'[r] = "done"
      /\ DOMAIN reply' = Requests /\ DOMAIN phase' = Requests
      /\ \A q \in Requests \ {r} : reply'[q] = reply[q] /\ phase'[q] = phase[q]
  BY <1>1, AnswerFacts
<1>4. Touches(r)
  BY <1>1, <1>2, <1>3 DEF Touches, AnswerInv
<1>5. Resolve(ModelName(r), BackendOf(r)) = Unassigned <=> ~Usable(r)
  <2>1. Chosen(Resolve(ModelName(r), BackendOf(r)), registrations, Len(registrations),
               Resolved(ModelName(r)), BackendOf(r))
    BY ResolveRight DEF StartInv
  <2>2. \A i \in 1 .. Len(registrations) : registrations[i] # Unassigned
    BY RegNotUnassigned DEF StartInv
  <2> QED
    BY <2>1, <2>2 DEF Chosen, Usable
<1>6. \/ Submission(r) = "SCHEDULER_UNAVAILABLE" /\ stage = "stopped"
      \/ Submission(r) = "MODEL_UNAVAILABLE" /\ ~HasModel(ModelName(r))
      \/ Submission(r) = "BACKEND_UNAVAILABLE" /\ HasModel(ModelName(r)) /\ ~Usable(r)
      \/ Submission(r) = "INFERENCE_QUEUE_FULL" /\ Usable(r)
  <2>1. CASE stage = "stopped"
    BY <2>1 DEF Submission
  <2>2. CASE stage # "stopped" /\ ~HasModel(ModelName(r))
    BY <2>2 DEF Submission
  <2>3. CASE /\ stage # "stopped" /\ HasModel(ModelName(r))
             /\ Resolve(ModelName(r), BackendOf(r)) = Unassigned
    BY <1>5, <2>3 DEF Submission
  <2>4. CASE /\ stage # "stopped" /\ HasModel(ModelName(r))
             /\ Resolve(ModelName(r), BackendOf(r)) # Unassigned
    <3>1. Submission(r) = IF Len(line) >= Capacity THEN "INFERENCE_QUEUE_FULL" ELSE "kAccepted"
      BY <2>4 DEF Submission
    <3> QED
      BY <1>1, <1>5, <2>4, <3>1
  <2> QED
    BY <2>1, <2>2, <2>3, <2>4
<1>7. conn[r] /\ result[r] = "none" /\ conn[r] \in BOOLEAN
  BY <1>1 DEF AnswerInv, RequestInv
<1>8. /\ Usable(r)' <=> Usable(r)
      /\ HasModel(ModelName(r))' <=> HasModel(ModelName(r))
  BY <1>1 DEF registry, Usable, Resolved, HasModel, Names
<1>9. Settled(r)'
  BY <1>1, <1>3, <1>6, <1>7, <1>8 DEF Settled
<1>10. RequestInv(r)'
  BY <1>1, <1>2, <1>3, <1>7, <1>9 DEF RequestInv
<1>11. InLine(line, phase)'
  BY <1>1, <1>3, LineSame
<1> QED
  BY <1>2, <1>4, <1>10, <1>11, OneTouched

(* An accepted request waits in line with its number. *)
LEMMA AcceptKept ==
  ASSUME StartInv, AnswerInv, NEW r \in Requests, Accept(r)
  PROVE  AnswerInv'
<1>1. /\ phase[r] = "new" /\ stage \in {"serving", "stopped"} /\ BuildRequest(r) = ""
      /\ Arrives(r) /\ Submission(r) = "kAccepted" /\ NextRequestId(r)
      /\ line' = Append(line, r) /\ phase' = [phase EXCEPT ![r] = "queued"]
      /\ UNCHANGED <<registry, stage, conn, reply, result>>
  BY DEF Accept, Arrives
<1>2. /\ id'[r] = sequence /\ sequence' = sequence + 1 /\ sequence' \in Nat \ {0}
      /\ sequence <= sequence' /\ id'[r] \in 1 .. sequence' - 1
      /\ DOMAIN id' = Requests /\ \A q \in Requests \ {r} : id'[q] = id[q]
  BY <1>1, NumberFacts
<1>3. /\ phase'[r] = "queued" /\ DOMAIN phase' = Requests
      /\ \A q \in Requests \ {r} : phase'[q] = phase[q]
  BY <1>1 DEF AnswerInv
<1>4. Touches(r)
  BY <1>1, <1>2, <1>3 DEF Touches, AnswerInv
<1>5. Usable(r)
  BY <1>1, AcceptedHas DEF Usable
<1>6. Usable(r)' <=> Usable(r)
  BY <1>1 DEF registry, Usable, Resolved
<1>7. conn[r] /\ result[r] = "none" /\ reply[r] = NoAnswer /\ conn[r] \in BOOLEAN
  BY <1>1 DEF AnswerInv, RequestInv
<1>8. RequestInv(r)'
  BY <1>1, <1>2, <1>3, <1>5, <1>6, <1>7 DEF RequestInv
<1>9. InLine(line, phase)'
  <2>1. InLine(line, phase) /\ phase[r] # "queued"
    BY <1>1 DEF AnswerInv
  <2>2. InLine(Append(line, r), phase')
    BY <1>3, <2>1, LineAccept
  <2> QED
    BY <1>1, <2>2 DEF InLine
<1> QED
  BY <1>2, <1>4, <1>8, <1>9, OneTouched

(* The worker takes a request out of the line. *)
LEMMA TakeKept == ASSUME AnswerInv, Take PROVE AnswerInv'
<1>1. /\ line # <<>> /\ line' = Tail(line) /\ phase' = [phase EXCEPT ![Head(line)] = "running"]
      /\ UNCHANGED <<registry, stage, conn, sequence, id, reply, result>>
  BY DEF Take, names
<1>2. InLine(line, phase) /\ DOMAIN phase = Requests
  BY DEF AnswerInv
<1>3. PICK r : r = Head(line)
  OBVIOUS
<1>4. \A q \in Requests \ {Head(line)} : phase'[q] = phase[q]
  BY <1>1, <1>2
<1>5. InLine(Tail(line), phase') /\ Head(line) \in Requests /\ phase[Head(line)] = "queued"
  BY <1>1, <1>2, <1>4, LineTake
<1>6. r \in Requests /\ phase[r] = "queued" /\ phase'[r] = "running"
  BY <1>1, <1>2, <1>3, <1>5
<1>7. Touches(r)
  BY <1>1, <1>3, <1>4 DEF Touches, AnswerInv
<1>8. Usable(r)' <=> Usable(r)
  BY <1>1 DEF registry, Usable, Resolved
<1>9. RequestInv(r)
  BY <1>6 DEF AnswerInv
<1>10. RequestInv(r)'
  BY <1>1, <1>6, <1>8, <1>9 DEF RequestInv
<1>11. InLine(line, phase)'
  BY <1>1, <1>5 DEF InLine
<1>12. id'[r] = id[r] \/ (id'[r] = sequence /\ sequence' = sequence + 1)
  <2>1. id'[r] = id[r]
    BY <1>1
  <2> QED
    BY <2>1, Zenon
<1> QED
  BY <1>6, <1>7, <1>10, <1>11, <1>12, OneTouched

(* The worker completes a request with its result. *)
LEMMA CompleteKept ==
  ASSUME AnswerInv, NEW r \in Requests, Complete(r)
  PROVE  AnswerInv'
<1>1. PICK outcome \in Outcomes : result' = [result EXCEPT ![r] = outcome]
  BY DEF Complete
<1>2. /\ phase[r] = "running"
      /\ phase' = [phase EXCEPT ![r] = IF conn[r] THEN "answering" ELSE "done"]
      /\ UNCHANGED <<registry, stage, line, conn, sequence, id, reply>>
  BY DEF Complete, names
<1>3. /\ result'[r] = outcome /\ DOMAIN result' = Requests /\ DOMAIN phase' = Requests
      /\ phase'[r] = IF conn[r] THEN "answering" ELSE "done"
      /\ \A q \in Requests \ {r} : phase'[q] = phase[q] /\ result'[q] = result[q]
  BY <1>1, <1>2 DEF AnswerInv
<1>4. Touches(r)
  BY <1>2, <1>3 DEF Touches, AnswerInv
<1>5. Usable(r)' <=> Usable(r)
  BY <1>2 DEF registry, Usable, Resolved
<1>6. RequestInv(r)
  BY DEF AnswerInv
<1>7. conn[r] \in BOOLEAN /\ reply[r] = NoAnswer /\ BuildRequest(r) = "" /\ Usable(r)
  BY <1>2, <1>6 DEF RequestInv
<1>8. Settled(r)'
  BY <1>2, <1>3, <1>7 DEF Settled
<1>9. RequestInv(r)'
  BY <1>2, <1>3, <1>5, <1>6, <1>7, <1>8 DEF RequestInv
<1>10. InLine(line, phase)'
  BY <1>2, <1>3, LineSame
<1>11. id'[r] = id[r] \/ (id'[r] = sequence /\ sequence' = sequence + 1)
  <2>1. id'[r] = id[r]
    BY <1>2
  <2> QED
    BY <2>1, Zenon
<1> QED
  BY <1>4, <1>9, <1>10, <1>11, OneTouched

(* The completion is answered in the connection's loop. *)
LEMMA RespondKept ==
  ASSUME AnswerInv, NEW r \in Requests, Respond(r)
  PROVE  AnswerInv'
<1>1. /\ phase[r] = "answering"
      /\ UNCHANGED <<registry, stage, line, conn, sequence, id, result>>
  BY DEF Respond, names
<1>2. RequestInv(r)
  BY DEF AnswerInv
<1>3. /\ conn[r] \in BOOLEAN /\ reply[r] = NoAnswer /\ BuildRequest(r) = "" /\ Usable(r)
      /\ result[r] \in Outcomes
  BY <1>1, <1>2 DEF RequestInv
<1>4. /\ phase'[r] = "done" /\ DOMAIN phase' = Requests /\ DOMAIN reply' = Requests
      /\ \A q \in Requests \ {r} : phase'[q] = phase[q] /\ reply'[q] = reply[q]
      /\ \/ conn[r] /\ reply'[r].code = result[r] /\ reply'[r].id = id[r]
         \/ reply'[r] = NoAnswer
  <2>1. CASE conn[r] /\ Answer(r, result[r], id[r])
    <3>1. /\ reply'[r].code = result[r] /\ reply'[r].id = id[r] /\ phase'[r] = "done"
          /\ DOMAIN reply' = Requests /\ DOMAIN phase' = Requests
          /\ \A q \in Requests \ {r} : reply'[q] = reply[q] /\ phase'[q] = phase[q]
      BY <2>1, AnswerFacts
    <3> QED
      BY <2>1, <3>1
  <2>2. CASE phase' = [phase EXCEPT ![r] = "done"] /\ UNCHANGED reply
    BY <1>3, <2>2 DEF AnswerInv
  <2> QED
    BY <2>1, <2>2 DEF Respond
<1>5. Touches(r)
  BY <1>1, <1>4 DEF Touches, AnswerInv
<1>6. Usable(r)'
  BY <1>1, <1>3 DEF registry, Usable, Resolved
<1>7. Settled(r)'
  BY <1>1, <1>3, <1>4, <1>6 DEF Settled
<1>8. RequestInv(r)'
  BY <1>1, <1>2, <1>3, <1>4, <1>7 DEF RequestInv
<1>9. InLine(line, phase)'
  BY <1>1, <1>4, LineSame
<1>10. id'[r] = id[r] \/ (id'[r] = sequence /\ sequence' = sequence + 1)
  <2>1. id'[r] = id[r]
    BY <1>1
  <2> QED
    BY <2>1, Zenon
<1> QED
  BY <1>5, <1>8, <1>9, <1>10, OneTouched

(* A connection that is lost changes no answer that was given. *)
LEMMA ConnectionLostKept ==
  ASSUME AnswerInv, NEW r \in Requests, ConnectionLost(r)
  PROVE  AnswerInv'
<1>1. /\ phase[r] \in {"queued", "running", "answering"}
      /\ conn' = [conn EXCEPT ![r] = FALSE]
      /\ UNCHANGED <<registry, stage, line, phase, sequence, id, reply, result>>
  BY DEF ConnectionLost, names
<1>2. /\ conn'[r] = FALSE /\ DOMAIN conn' = Requests
      /\ \A q \in Requests \ {r} : conn'[q] = conn[q]
  BY <1>1 DEF AnswerInv
<1>3. Touches(r)
  BY <1>1, <1>2 DEF Touches, AnswerInv
<1>4. Usable(r)' <=> Usable(r)
  BY <1>1 DEF registry, Usable, Resolved
<1>5. RequestInv(r)
  BY DEF AnswerInv
<1>6. RequestInv(r)'
  BY <1>1, <1>2, <1>4, <1>5 DEF RequestInv
<1>7. InLine(line, phase)'
  BY <1>1 DEF InLine, AnswerInv
<1>8. id'[r] = id[r] \/ (id'[r] = sequence /\ sequence' = sequence + 1)
  <2>1. id'[r] = id[r]
    BY <1>1
  <2> QED
    BY <2>1, Zenon
<1> QED
  BY <1>3, <1>6, <1>7, <1>8, OneTouched

(* Every step keeps AnswerInv. *)
LEMMA AnswerStep ==
  ASSUME StartInv, AnswerInv, [ServiceNext]_serviceVars
  PROVE  AnswerInv'
<1>1. CASE ReadSettings \/ LoadFromFile \/ AddMock \/ Initialize
  <2>1. /\ stage \notin {"serving", "stopped"}
        /\ UNCHANGED <<line, phase, conn, sequence, id, reply, result>>
    BY <1>1 DEF ReadSettings, LoadFromFile, AddMock, Initialize, names
  <2>2. \A r \in Requests : phase[r] = "new"
    BY <2>1 DEF AnswerInv, RequestInv
  <2>3. \A r \in Requests : RequestInv(r)'
    BY <2>1, <2>2 DEF AnswerInv, RequestInv
  <2> QED
    BY <2>1, <2>3 DEF AnswerInv, InLine
<1>2. CASE StopScheduler \/ Scrape \/ UNCHANGED serviceVars
  <2>1. /\ stage' = stage \/ stage' = "stopped"
        /\ UNCHANGED <<registry, line, phase, conn, sequence, id, reply, result>>
    BY <1>2 DEF StopScheduler, Scrape, serviceVars, names
  <2>2. \A r \in Requests : RequestInv(r)'
    BY <2>1, OthersKept DEF AnswerInv
  <2> QED
    BY <2>1, <2>2 DEF AnswerInv, InLine
<1> QED
  BY <1>1, <1>2, RejectInvalidKept, RejectSubmissionKept, AcceptKept, TakeKept, CompleteKept,
     RespondKept, ConnectionLostKept DEF ServiceNext

(* AnswerInv holds before the first request. *)
LEMMA AnswerHolds == ServiceInit => AnswerInv
<1> SUFFICES ASSUME ServiceInit PROVE AnswerInv
  OBVIOUS
<1>1. line = <<>> /\ <<>> \in Seq(Requests) /\ Len(<<>>) = 0
  BY EmptySeq DEF ServiceInit
<1>2. 1 .. 0 = {}
  OBVIOUS
<1>3. InLine(line, phase)
  BY <1>1, <1>2 DEF InLine
<1>4. /\ DOMAIN phase = Requests /\ DOMAIN conn = Requests /\ DOMAIN id = Requests
      /\ DOMAIN reply = Requests /\ DOMAIN result = Requests
  BY DEF ServiceInit
<1>5. \A r \in Requests : /\ phase[r] = "new" /\ conn[r] = TRUE /\ id[r] = 0
                          /\ reply[r] = NoAnswer /\ result[r] = "none"
  BY DEF ServiceInit
<1>6. \A r \in Requests : RequestInv(r)
  BY <1>5 DEF RequestInv
<1>7. sequence = 1
  BY Zenon DEF ServiceInit
<1>8. 1 \in Nat \ {0}
  OBVIOUS
<1> QED
  BY <1>3, <1>4, <1>5, <1>6, <1>7, <1>8 DEF AnswerInv

(* /healthz does not say "healthy" while a registered backend is not available. *)
LEMMA NotHealthy ==
  ASSUME registrations \in Seq(Reg), NEW i \in 1 .. Len(registrations),
         ~registrations[i].available
  PROVE  Health # "healthy"
<1> DEFINE healthy == {j \in 1 .. Len(registrations) :
                         registrations[j].available /\ registrations[j].present}
<1>1. PICK n \in Nat : n = Len(registrations)
  OBVIOUS
<1>2. IsFiniteSet(1 .. n) /\ Cardinality(1 .. n) = n
  <2>1. 1 \in Int /\ n \in Int /\ ~(1 > n) /\ (n - 1) + 1 = n
    BY <1>1
  <2> QED
    BY <2>1, FS_Interval
<1>3. healthy \in SUBSET (1 .. n) /\ healthy # 1 .. n
  BY <1>1
<1>4. PICK c : c = Cardinality(healthy)
  OBVIOUS
<1>5. c \in Nat /\ c <= n /\ c # n
  BY <1>2, <1>3, <1>4, FS_Subset, FS_CardinalityType
<1>6. HealthyBackendCount = c
  BY <1>4 DEF HealthyBackendCount
<1>7. CASE c = 0
  BY <1>1, <1>6, <1>7 DEF Health
<1>8. CASE c # 0
  <2>1. c \in 1 .. n - 1 /\ ~(c = 0) /\ ~(c > 0 /\ c = n)
    BY <1>5, <1>8
  <2> QED
    BY <1>1, <1>6, <2>1 DEF Health
<1> QED
  BY <1>7, <1>8

(* What a refusal for want of a backend or of a model says of the reports. *)
LEMMA RefusalFacts ==
  ASSUME StartInv, NEW r \in Requests, stage \in {"serving", "stopped"}
  PROVE  /\ HasModel(ModelName(r)) /\ ~Usable(r) /\ BackendOf(r) = "auto" =>
              Health # "healthy"
         /\ ~HasModel(ModelName(r)) => ~\E m \in Models : m.name = ModelName(r)
<1>1. registrations \in Seq(Reg) /\ defaultModel \in Names(registrations)
  BY DEF StartInv, Loaded
<1>2. ASSUME HasModel(ModelName(r)), ~Usable(r), BackendOf(r) = "auto"
      PROVE  Health # "healthy"
  <2>1. PICK i \in 1 .. Len(registrations) : registrations[i].name = Resolved(ModelName(r))
    BY <1>2 DEF HasModel, Names
  <2>2. ~registrations[i].available
    BY <1>2, <2>1 DEF Usable, Candidate
  <2> QED
    BY <1>1, <2>2, NotHealthy
<1>3. ASSUME ~HasModel(ModelName(r)), NEW m \in Models, m.name = ModelName(r)
      PROVE  FALSE
  <2>1. PICK i \in 1 .. Len(registrations) : m.name = registrations[i].name
    BY DEF Models
  <2>2. m.name \in Names(registrations)
    BY <2>1 DEF Names
  <2> QED
    BY <1>1, <1>3, <2>2 DEF HasModel, Resolved
<1> QED
  BY <1>2, <1>3

(* The sets of the reference are what submit() asks the registry. *)
LEMMA DeservesFacts ==
  ASSUME NEW r \in Requests, NEW code,
         \/ BuildRequest(r) \in CheckCodes /\ code = BuildRequest(r)
         \/ /\ BuildRequest(r) = ""
            /\ \/ code = "SCHEDULER_UNAVAILABLE" /\ stage = "stopped"
               \/ code = "MODEL_UNAVAILABLE" /\ ~HasModel(ModelName(r))
               \/ code = "BACKEND_UNAVAILABLE" /\ HasModel(ModelName(r)) /\ ~Usable(r)
               \/ code = "INFERENCE_QUEUE_FULL" /\ Usable(r)
               \/ code \in Outcomes /\ code = result[r] /\ Usable(r)
  PROVE  Deserves(r, code)
<1> DEFINE model  == IF ModelName(r) = "default" THEN defaultModel ELSE ModelName(r)
           named  == {i \in 1 .. Len(registrations) : registrations[i].name = model}
           usable == {i \in named : /\ registrations[i].available
                                    /\ BackendOf(r) \in {"auto", registrations[i].backend}}
           wrong  == {n \in 1 .. Len(Checks(r)) : Checks(r)[n][2]}
           given  == CASE code = "SCHEDULER_UNAVAILABLE" -> stage = "stopped"
                       [] code = "MODEL_UNAVAILABLE"     -> named = {}
                       [] code = "BACKEND_UNAVAILABLE"   -> named # {} /\ usable = {}
                       [] code = "INFERENCE_QUEUE_FULL"  -> usable # {}
                       [] OTHER -> usable # {} /\ code = result[r]
<1>1. /\ wrong = {} => BuildRequest(r) = ""
      /\ wrong # {} => /\ BuildRequest(r) = Checks(r)[Min(wrong)][1]
                       /\ BuildRequest(r) \in CheckCodes
  BY BuildRight
<1>2. Deserves(r, code) <=> CASE wrong # {} -> code = Checks(r)[Min(wrong)][1]
                              [] OTHER -> given
  BY DEF Deserves
<1>3. model = Resolved(ModelName(r))
  BY DEF Resolved
<1>4. HasModel(ModelName(r)) <=> named # {}
  BY <1>3 DEF HasModel, Names
<1>5. Usable(r) <=> usable # {}
  BY <1>3 DEF Usable, Candidate
<1>6. "" \notin CheckCodes
  BY DEF CheckCodes
<1>7. CASE wrong # {}
  <2>1. code = Checks(r)[Min(wrong)][1]
    BY <1>1, <1>6, <1>7
  <2> HIDE DEF wrong, given
  <2> QED
    BY <1>2, <1>7, <2>1
<1>8. CASE wrong = {}
  <2>1. BuildRequest(r) = ""
    BY <1>1, <1>8
  <2>2. \/ code = "SCHEDULER_UNAVAILABLE" /\ stage = "stopped"
        \/ code = "MODEL_UNAVAILABLE" /\ named = {}
        \/ code = "BACKEND_UNAVAILABLE" /\ named # {} /\ usable = {}
        \/ code = "INFERENCE_QUEUE_FULL" /\ usable # {}
        \/ code \in Outcomes /\ code = result[r] /\ usable # {}
    BY <1>4, <1>5, <1>6, <2>1
  <2> HIDE DEF named, usable
  <2>3. given
    BY <2>2 DEF Outcomes
  <2> HIDE DEF wrong, given
  <2> QED
    BY <1>2, <1>8, <2>3
<1> QED
  BY <1>7, <1>8

(* The capacity, once the settings are read, is a number. *)
LEMMA CapacityNumber ==
  ASSUME StartInv, stage \in {"serving", "stopped"}
  PROVE  Capacity \in Nat
<1>1. SettingsIn /\ document \in Installations /\ "capacity" \in DOMAIN Settings
  BY ServiceAssumption DEF StartInv
<1>2. Setting("capacity") # <<>>
  BY <1>1, SettingRefused DEF SettingsIn
<1>3. Head(Setting("capacity")) \in 1 .. Settings["capacity"].maximum
  BY <1>1, <1>2, SettingRefused
<1>4. Settings["capacity"].maximum \in Nat
  BY <1>1, ServiceAssumption
<1> QED
  BY <1>3, <1>4 DEF Capacity

(* The capacity of the queue is fixed at the start. *)
LEMMA CapacityFixed == ASSUME [ServiceNext]_serviceVars PROVE Capacity' = Capacity
<1>1. UNCHANGED document
  BY DEF ServiceNext, ReadSettings, LoadFromFile, AddMock, Initialize, StopScheduler, Take,
         Scrape, RejectInvalid, RejectSubmission, Accept, Complete, Respond, ConnectionLost,
         registry, serviceVars
<1> QED
  BY <1>1, DocumentOnly

(* No request answered with a full line came before enough others to fill it. *)
FullInv == \A r \in Requests : reply[r].code = "INFERENCE_QUEUE_FULL" => LineWasFull

(* What was accepted stays accepted. *)
LEMMA AcceptedGrows ==
  ASSUME AnswerInv, [ServiceNext]_serviceVars
  PROVE  Accepted \subseteq Accepted'
<1>1. CASE \/ ReadSettings \/ LoadFromFile \/ AddMock \/ Initialize \/ StopScheduler
           \/ Scrape \/ UNCHANGED serviceVars \/ (\E r \in Requests : ConnectionLost(r))
  <2>1. UNCHANGED <<phase, result>>
    BY <1>1 DEF ReadSettings, LoadFromFile, AddMock, Initialize, StopScheduler, Scrape,
                ConnectionLost, serviceVars
  <2> QED
    BY <2>1 DEF Accepted
<1>2. ASSUME NEW r \in Requests, RejectInvalid(r) \/ RejectSubmission(r) \/ Accept(r)
      PROVE  Accepted \subseteq Accepted'
  <2>1. /\ phase[r] = "new" /\ UNCHANGED result
        /\ \A q \in Requests \ {r} : phase'[q] = phase[q]
    BY <1>2 DEF RejectInvalid, RejectSubmission, Accept, Arrives, Answer, AnswerInv
  <2>2. result[r] = "none"
    BY <2>1 DEF AnswerInv, RequestInv
  <2> QED
    BY <2>1, <2>2 DEF Accepted
<1>3. CASE Take
  <2>1. \A q \in Requests : phase'[q] = phase[q] \/ phase'[q] = "running"
    BY <1>3 DEF Take, AnswerInv
  <2>2. UNCHANGED result
    BY <1>3 DEF Take
  <2> QED
    BY <2>1, <2>2 DEF Accepted
<1>4. ASSUME NEW r \in Requests, Complete(r) PROVE Accepted \subseteq Accepted'
  <2>1. /\ \A q \in Requests \ {r} : phase'[q] = phase[q] /\ result'[q] = result[q]
        /\ result'[r] \in Outcomes
    BY <1>4 DEF Complete, AnswerInv
  <2>2. result'[r] # "none"
    BY <2>1 DEF Outcomes
  <2> QED
    BY <2>1, <2>2 DEF Accepted
<1>5. ASSUME NEW r \in Requests, Respond(r) PROVE Accepted \subseteq Accepted'
  <2>1. /\ phase[r] = "answering" /\ UNCHANGED result
        /\ \A q \in Requests \ {r} : phase'[q] = phase[q]
    BY <1>5 DEF Respond, Answer, AnswerInv
  <2> QED
    BY <2>1 DEF Accepted
<1> QED
  BY <1>1, <1>2, <1>3, <1>4, <1>5 DEF ServiceNext

(* The requests that wait in a full line fill it. *)
LEMMA FullLine ==
  ASSUME StartInv, AnswerInv, stage = "serving", Len(line) >= Capacity
  PROVE  LineWasFull
<1>1. Capacity \in Nat
  BY CapacityNumber
<1>2. PICK c \in Nat : c = Capacity
  BY <1>1
<1>3. PICK n \in Nat : n = Len(line) /\ \A i \in 1 .. n : line[i] \in Requests
  BY DEF AnswerInv, InLine
<1>4. c <= n
  BY <1>2, <1>3
<1>5. /\ \A i \in 1 .. n : phase[line[i]] = "queued"
      /\ \A i, j \in 1 .. n : i # j => line[i] # line[j]
  BY <1>3 DEF AnswerInv, InLine
<1> DEFINE first   == [i \in 1 .. c |-> line[i]]
           waiting == {line[i] : i \in 1 .. c}
<1>6. \A i \in 1 .. c : i \in 1 .. n
  BY <1>4
<1>7. waiting \in SUBSET Accepted
  BY <1>3, <1>5, <1>6 DEF Accepted
<1>8. first \in Bijection(1 .. c, waiting)
  <2>1. first \in [1 .. c -> waiting]
    OBVIOUS
  <2>2. \A i, j \in 1 .. c : first[i] = first[j] => i = j
    BY <1>5, <1>6
  <2>3. \A w \in waiting : \E i \in 1 .. c : first[i] = w
    OBVIOUS
  <2> QED
    BY <2>1, <2>2, <2>3 DEF Bijection, Injection, Surjection, IsInjective
<1>9. Cardinality(waiting) = c
  <2>1. ExistsBijection(1 .. c, waiting)
    BY <1>8 DEF ExistsBijection
  <2>2. IsFiniteSet(1 .. c) /\ Cardinality(1 .. c) = c
    <3>1. /\ 1 \in Int /\ c \in Int
          /\ c = (IF 1 > c THEN 0 ELSE (c - 1) + 1)
      BY <1>2
    <3> QED
      BY <3>1, FS_Interval
  <2> QED
    BY <2>1, <2>2, FS_Bijection
<1> QED
  BY <1>2, <1>7, <1>9 DEF LineWasFull

(* Every step keeps FullInv. *)
LEMMA FullStep ==
  ASSUME StartInv, AnswerInv, FullInv, [ServiceNext]_serviceVars
  PROVE  FullInv'
<1>1. LineWasFull => LineWasFull'
  <2>1. Accepted \subseteq Accepted' /\ Capacity' = Capacity
    BY AcceptedGrows, CapacityFixed
  <2> QED
    BY <2>1 DEF LineWasFull
<1>2. CASE UNCHANGED reply
  BY <1>1, <1>2 DEF FullInv
<1>3. ASSUME NEW r \in Requests, RejectInvalid(r) PROVE FullInv'
  <2>1. /\ reply'[r].code = BuildRequest(r) /\ BuildRequest(r) \in CheckCodes
        /\ \A q \in Requests \ {r} : reply'[q] = reply[q]
    BY <1>3, BuildRight, AnswerFacts DEF RejectInvalid
  <2>2. reply'[r].code # "INFERENCE_QUEUE_FULL"
    BY <2>1 DEF CheckCodes
  <2> QED
    BY <1>1, <2>1, <2>2 DEF FullInv
<1>4. ASSUME NEW r \in Requests, RejectSubmission(r) PROVE FullInv'
  <2>1. /\ reply'[r].code = Submission(r) /\ stage \in {"serving", "stopped"}
        /\ \A q \in Requests \ {r} : reply'[q] = reply[q]
    BY <1>4, AnswerFacts DEF RejectSubmission, Arrives
  <2>2. Submission(r) = "INFERENCE_QUEUE_FULL" => stage # "stopped" /\ Len(line) >= Capacity
    BY DEF Submission
  <2>3. Submission(r) = "INFERENCE_QUEUE_FULL" => LineWasFull
    BY <2>1, <2>2, FullLine
  <2> QED
    BY <1>1, <2>1, <2>3 DEF FullInv
<1>5. ASSUME NEW r \in Requests, Respond(r), reply' # reply PROVE FullInv'
  <2>1. /\ phase[r] = "answering" /\ Answer(r, result[r], id[r])
    BY <1>5 DEF Respond
  <2>2. /\ reply'[r].code = result[r] /\ \A q \in Requests \ {r} : reply'[q] = reply[q]
    BY <2>1, AnswerFacts
  <2>3. result[r] # "INFERENCE_QUEUE_FULL"
    BY <2>1 DEF AnswerInv, RequestInv, Outcomes
  <2> QED
    BY <1>1, <2>2, <2>3 DEF FullInv
<1> QED
  BY <1>2, <1>3, <1>4, <1>5 DEF ServiceNext, ReadSettings, LoadFromFile, AddMock, Initialize,
     StopScheduler, Take, Scrape, Accept, Complete, Respond, ConnectionLost, serviceVars

(* Nobody has been answered at the start. *)
LEMMA FullHolds == ServiceInit => FullInv
<1>1. NoAnswer.code # "INFERENCE_QUEUE_FULL"
  BY DEF NoAnswer
<1> QED
  BY <1>1 DEF ServiceInit, FullInv

(* The invariants say that every answer is deserved. *)
LEMMA AnswerRight == StartInv /\ AnswerInv /\ FullInv => AnswerDeserved
<1> SUFFICES ASSUME StartInv, AnswerInv, FullInv, NEW r \in Requests, reply[r] # NoAnswer
             PROVE  /\ Deserves(r, reply[r].code) /\ conn[r]
                    /\ \A q \in Requests \ {r} : reply[r].id # id[q]
                    /\ reply[r].code = "BACKEND_UNAVAILABLE" /\ BackendOf(r) = "auto" =>
                         Health # "healthy"
                    /\ reply[r].code = "MODEL_UNAVAILABLE" =>
                         ~\E m \in Models : m.name = ModelName(r)
                    /\ reply[r].code = "INFERENCE_QUEUE_FULL" => LineWasFull
  BY DEF AnswerDeserved
<1>1. RequestInv(r)
  BY DEF AnswerInv
<1>2. /\ phase[r] = "done" /\ Settled(r) /\ stage \in {"serving", "stopped"}
      /\ id[r] \in 1 .. sequence - 1
  BY <1>1 DEF RequestInv
<1>3. PICK code : code = reply[r].code
  OBVIOUS
<1>4. /\ conn[r] /\ reply[r].id = id[r]
      /\ \/ BuildRequest(r) \in CheckCodes /\ code = BuildRequest(r)
         \/ /\ BuildRequest(r) = ""
            /\ \/ code = "SCHEDULER_UNAVAILABLE" /\ stage = "stopped"
               \/ code = "MODEL_UNAVAILABLE" /\ ~HasModel(ModelName(r))
               \/ code = "BACKEND_UNAVAILABLE" /\ HasModel(ModelName(r)) /\ ~Usable(r)
               \/ code = "INFERENCE_QUEUE_FULL" /\ Usable(r)
               \/ code \in Outcomes /\ code = result[r] /\ Usable(r)
  BY <1>2, <1>3 DEF Settled
<1>5. Deserves(r, code)
  BY <1>4, DeservesFacts
<1>6. sequence \in Nat
  BY DEF AnswerInv
<1>7. id[r] # 0
  BY <1>2, <1>6
<1>8. \A q \in Requests \ {r} : reply[r].id # id[q]
  BY <1>4, <1>7 DEF AnswerInv
<1>9. code = "BACKEND_UNAVAILABLE" => HasModel(ModelName(r)) /\ ~Usable(r)
  BY <1>4 DEF CheckCodes, Outcomes
<1>10. code = "MODEL_UNAVAILABLE" => ~HasModel(ModelName(r))
  BY <1>4 DEF CheckCodes, Outcomes
<1>11. /\ HasModel(ModelName(r)) /\ ~Usable(r) /\ BackendOf(r) = "auto" => Health # "healthy"
       /\ ~HasModel(ModelName(r)) => ~\E m \in Models : m.name = ModelName(r)
  BY <1>2, RefusalFacts
<1>12. code = "INFERENCE_QUEUE_FULL" => LineWasFull
  BY <1>3 DEF FullInv
<1> QED
  BY <1>3, <1>4, <1>5, <1>8, <1>9, <1>10, <1>11, <1>12

(* No request is answered with anything but what it deserves, on a connection    *)
(* that is up and under its own number, a full line only after enough others to  *)
(* fill it, and no report contradicts an answer: for any installation, any       *)
(* number of requests and every order of completions, lost connections and       *)
(* stop().                                                                       *)
THEOREM ServiceAnswersDeserved == ServiceSafe => []AnswerDeserved
<1> DEFINE Inv == StartInv /\ AnswerInv /\ FullInv
<1>1. ServiceInit => Inv
  BY StartHolds, AnswerHolds, FullHolds
<1>2. Inv /\ [ServiceNext]_serviceVars => Inv'
  BY StartStep, AnswerStep, FullStep
<1>3. Inv => AnswerDeserved
  BY AnswerRight
<1> QED
  BY <1>1, <1>2, <1>3, PTL DEF ServiceSafe

-----------------------------------------------------------------------------
(* The metrics *)

(* The counters count the members of S, each under its label. *)
Tally(counters, S, label) ==
  /\ DOMAIN counters = {label[q] : q \in S}
  /\ \A l \in DOMAIN counters : counters[l] = Cardinality({q \in S : label[q] = l})

Numeric(counters) == \A l \in DOMAIN counters : counters[l] \in Nat

(* The increments of the counters, one by one; Total is their number. *)
Tickets(counters) == UNION {{l} \X (1 .. counters[l]) : l \in DOMAIN counters}

(* A counter that tallies a finite set has numbers only. *)
LEMMA TallyNumeric ==
  ASSUME NEW c, NEW S, IsFiniteSet(S), NEW f, Tally(c, S, f)
  PROVE  Numeric(c)
<1> SUFFICES ASSUME NEW l \in DOMAIN c PROVE c[l] \in Nat
  BY DEF Numeric
<1>1. {q \in S : f[q] = l} \in SUBSET S
  OBVIOUS
<1> QED
  BY <1>1, FS_Subset, FS_CardinalityType DEF Tally

(* increment(): one label is counted once more, or for the first time. *)
LEMMA CountedFacts ==
  ASSUME NEW c, NEW label
  PROVE  /\ DOMAIN Counted(c, label) = DOMAIN c \union {label}
         /\ \A l \in DOMAIN Counted(c, label) :
              Counted(c, label)[l] = (IF l \in DOMAIN c THEN c[l] ELSE 0)
                                     + (IF l = label THEN 1 ELSE 0)
BY DEF Counted

(* Counting a member that was not counted extends the tally by it. *)
LEMMA CountedTally ==
  ASSUME NEW c, NEW S, IsFiniteSet(S), NEW f, Tally(c, S, f), NEW r, r \notin S,
         NEW g, \A q \in S : g[q] = f[q]
  PROVE  Tally(Counted(c, g[r]), S \union {r}, g)
<1>1. PICK label : label = g[r]
  OBVIOUS
<1>2. PICK d : d = Counted(c, label)
  OBVIOUS
<1>3. /\ DOMAIN d = DOMAIN c \union {label}
      /\ \A l \in DOMAIN d : d[l] = (IF l \in DOMAIN c THEN c[l] ELSE 0)
                                    + (IF l = label THEN 1 ELSE 0)
  <2>1. /\ DOMAIN Counted(c, label) = DOMAIN c \union {label}
        /\ \A l \in DOMAIN Counted(c, label) :
             Counted(c, label)[l] = (IF l \in DOMAIN c THEN c[l] ELSE 0)
                                    + (IF l = label THEN 1 ELSE 0)
    BY Zenon DEF Counted
  <2> QED
    BY <1>2, <2>1
<1>4. DOMAIN c = {f[q] : q \in S}
  BY DEF Tally
<1>5. DOMAIN d = {g[q] : q \in S \union {r}}
  BY <1>3, <1>4, <1>1
<1>6. ASSUME NEW l \in DOMAIN d
      PROVE  d[l] = Cardinality({q \in S \union {r} : g[q] = l})
  <2>1. PICK old : old = {q \in S : f[q] = l}
    OBVIOUS
  <2>2. IsFiniteSet(old) /\ Cardinality(old) \in Nat /\ r \notin old
    BY <2>1, FS_Subset, FS_CardinalityType
  <2>3. l \in DOMAIN c => c[l] = Cardinality(old)
    BY <2>1 DEF Tally
  <2>4. l \notin DOMAIN c => Cardinality(old) = 0
    BY <1>4, <2>1, FS_EmptySet
  <2>5. CASE l = label
    <3>1. {q \in S \union {r} : g[q] = l} = old \union {r}
      BY <1>1, <2>1, <2>5
    <3>2. Cardinality(old \union {r}) = Cardinality(old) + 1
      BY <2>2, FS_AddElement
    <3>3. d[l] = Cardinality(old) + 1
      BY <1>3, <2>2, <2>3, <2>4, <2>5
    <3> QED
      BY <3>1, <3>2, <3>3
  <2>6. CASE l # label
    <3>1. {q \in S \union {r} : g[q] = l} = old
      BY <1>1, <2>1, <2>6
    <3>2. d[l] = c[l] + 0 /\ c[l] = Cardinality(old)
      BY <1>3, <2>3, <2>6
    <3> QED
      BY <2>2, <3>1, <3>2
  <2> QED
    BY <2>5, <2>6
<1> QED
  BY <1>2, <1>5, <1>6, <1>1 DEF Tally

(* The sum over the labels grows by one. *)
LEMMA CountedTotal ==
  ASSUME NEW c, Numeric(c), IsFiniteSet(Tickets(c)), NEW label
  PROVE  /\ IsFiniteSet(Tickets(Counted(c, label)))
         /\ Total(Counted(c, label)) = Total(c) + 1 /\ Total(c) \in Nat
<1>1. PICK d : d = Counted(c, label)
  OBVIOUS
<1>2. PICK n \in Nat : n = IF label \in DOMAIN c THEN c[label] ELSE 0
  BY DEF Numeric
<1>3. /\ DOMAIN d = DOMAIN c \union {label}
      /\ \A l \in DOMAIN d : d[l] = (IF l \in DOMAIN c THEN c[l] ELSE 0)
                                    + (IF l = label THEN 1 ELSE 0)
  <2>1. /\ DOMAIN Counted(c, label) = DOMAIN c \union {label}
        /\ \A l \in DOMAIN Counted(c, label) :
             Counted(c, label)[l] = (IF l \in DOMAIN c THEN c[l] ELSE 0)
                                    + (IF l = label THEN 1 ELSE 0)
    BY CountedFacts
  <2> QED
    BY <1>1, <2>1
<1>4. d[label] = n + 1
  BY <1>2, <1>3
<1>5. \A l \in DOMAIN c \ {label} : d[l] = c[l]
  <2>1. \A l \in DOMAIN c \ {label} : d[l] = c[l] + 0 /\ c[l] \in Nat
    BY <1>3 DEF Numeric
  <2> QED
    BY <2>1
<1>6. \A k : k \in 1 .. n + 1 <=> k \in 1 .. n \/ k = n + 1
  BY <1>2
<1>7. \A k : ~(k \in 1 .. 0)
  OBVIOUS
<1>8. Tickets(d) = Tickets(c) \union {<<label, n + 1>>}
  <2>1. ASSUME NEW x \in Tickets(d) PROVE x \in Tickets(c) \union {<<label, n + 1>>}
    <3>1. PICK l \in DOMAIN d : x \in {l} \X (1 .. d[l])
      BY DEF Tickets
    <3>2. PICK k \in 1 .. d[l] : x = <<l, k>>
      BY <3>1
    <3>3. CASE l = label
      <4>1. CASE k \in 1 .. n
        <5>1. l \in DOMAIN c /\ k \in 1 .. c[l]
          BY <1>2, <1>7, <3>3, <4>1
        <5> QED
          BY <3>2, <5>1 DEF Tickets
      <4>2. CASE k = n + 1
        BY <3>2, <3>3, <4>2
      <4> QED
        BY <1>4, <1>6, <3>3, <4>1, <4>2
    <3>4. CASE l # label
      <4>1. l \in DOMAIN c /\ k \in 1 .. c[l]
        BY <1>3, <1>5, <3>4
      <4> QED
        BY <3>2, <4>1 DEF Tickets
    <3> QED
      BY <3>3, <3>4
  <2>2. ASSUME NEW x \in Tickets(c) PROVE x \in Tickets(d)
    <3>1. PICK l \in DOMAIN c : x \in {l} \X (1 .. c[l])
      BY DEF Tickets
    <3>2. PICK k \in 1 .. c[l] : x = <<l, k>>
      BY <3>1
    <3>3. l \in DOMAIN d /\ k \in 1 .. d[l]
      BY <1>2, <1>3, <1>4, <1>5, <1>6
    <3> QED
      BY <3>2, <3>3 DEF Tickets
  <2>3. <<label, n + 1>> \in Tickets(d)
    <3>1. label \in DOMAIN d /\ n + 1 \in 1 .. d[label]
      BY <1>2, <1>3, <1>4
    <3> QED
      BY <3>1 DEF Tickets
  <2> QED
    BY <2>1, <2>2, <2>3
<1>9. <<label, n + 1>> \notin Tickets(c)
  <2> SUFFICES ASSUME <<label, n + 1>> \in Tickets(c) PROVE FALSE
    OBVIOUS
  <2>1. PICK l \in DOMAIN c : <<label, n + 1>> \in {l} \X (1 .. c[l])
    BY DEF Tickets
  <2>2. l = label /\ n + 1 \in 1 .. c[l]
    BY <2>1
  <2> QED
    BY <1>2, <2>2
<1>10. /\ IsFiniteSet(Tickets(d)) /\ Cardinality(Tickets(d)) = Cardinality(Tickets(c)) + 1
       /\ Cardinality(Tickets(c)) \in Nat
  BY <1>8, <1>9, FS_AddElement, FS_CardinalityType
<1> QED
  BY <1>1, <1>10 DEF Total, Tickets

(* A counter that was not ahead of another is not ahead after the other *)
(* grows.                                                               *)
LEMMA CountedAhead ==
  ASSUME NEW old, NEW c, NEW label, Numeric(old), Numeric(c), NeverAhead(old, c)
  PROVE  NeverAhead(old, Counted(c, label))
<1>1. PICK d : d = Counted(c, label)
  OBVIOUS
<1>2. /\ DOMAIN d = DOMAIN c \union {label}
      /\ \A l \in DOMAIN d : d[l] = (IF l \in DOMAIN c THEN c[l] ELSE 0)
                                    + (IF l = label THEN 1 ELSE 0)
  <2>1. /\ DOMAIN Counted(c, label) = DOMAIN c \union {label}
        /\ \A l \in DOMAIN Counted(c, label) :
             Counted(c, label)[l] = (IF l \in DOMAIN c THEN c[l] ELSE 0)
                                    + (IF l = label THEN 1 ELSE 0)
    BY CountedFacts
  <2> QED
    BY <1>1, <2>1
<1>3. \A l \in DOMAIN c : c[l] \in Nat /\ (d[l] = c[l] + 1 \/ d[l] = c[l] + 0)
  BY <1>2 DEF Numeric
<1>4. \A l \in DOMAIN old : old[l] \in Nat /\ l \in DOMAIN c /\ old[l] <= c[l]
  BY DEF Numeric, NeverAhead
<1>5. \A l \in DOMAIN old : old[l] <= d[l] /\ l \in DOMAIN d
  BY <1>2, <1>3, <1>4
<1> QED
  BY <1>1, <1>5 DEF NeverAhead

(* The empty counters count nothing. *)
LEMMA NothingCounted ==
  /\ \A f : Tally(NoCounters, {}, f)
  /\ Numeric(NoCounters) /\ Tickets(NoCounters) = {} /\ Total(NoCounters) = 0
  /\ \A c : NeverAhead(NoCounters, c)
<1>1. DOMAIN NoCounters = {}
  BY EmptySeq DEF NoCounters
<1>2. Tickets(NoCounters) = {}
  BY <1>1 DEF Tickets
<1>3. Total(NoCounters) = 0
  BY <1>2, FS_EmptySet DEF Total, Tickets
<1> QED
  BY <1>1, <1>2, <1>3 DEF Tally, Numeric, NeverAhead

(* The histogram of a part is never behind that of the whole, and both are      *)
(* cumulative.                                                                   *)
Histogram(h) ==
  /\ h.count \in Nat
  /\ \A i \in 1 .. Len(Bounds) :
       /\ h.buckets[i] \in Nat /\ h.buckets[i] <= h.count
       /\ i > 1 => h.buckets[i - 1] <= h.buckets[i]

NotBehind(total, part) ==
  part.count = total.count /\ \A i \in 1 .. Len(Bounds) : total.buckets[i] <= part.buckets[i]

(* observe(): which buckets of the histogram grow. *)
LEMMA ObserveFacts ==
  ASSUME NEW h, NEW d
  PROVE  /\ Observe(h, d).count = h.count + 1
         /\ \A i \in 1 .. Len(Bounds) :
              Observe(h, d).buckets[i] = IF d <= Bounds[i] THEN h.buckets[i] + 1
                                                           ELSE h.buckets[i]
BY DEF Observe

(* observe() leaves the buckets cumulative. *)
LEMMA ObserveKept ==
  ASSUME NEW h, Histogram(h), NEW d \in Nat
  PROVE  Histogram(Observe(h, d))
<1>1. PICK o : o = Observe(h, d)
  OBVIOUS
<1>2. /\ o.count = h.count + 1
      /\ \A i \in 1 .. Len(Bounds) :
           o.buckets[i] = IF d <= Bounds[i] THEN h.buckets[i] + 1 ELSE h.buckets[i]
  BY <1>1, ObserveFacts
<1>3. h.count \in Nat
  BY DEF Histogram
<1>4. PICK n \in Nat : n = Len(Bounds) /\ \A i \in 1 .. n : Bounds[i] \in Nat
  BY ServiceAssumption
<1>5. ASSUME NEW i \in 1 .. n
      PROVE  /\ o.buckets[i] \in Nat /\ o.buckets[i] <= o.count
             /\ i > 1 => o.buckets[i - 1] <= o.buckets[i]
  <2>1. h.buckets[i] \in Nat /\ h.buckets[i] <= h.count
    BY <1>4 DEF Histogram
  <2>2. o.buckets[i] \in Nat /\ o.buckets[i] <= o.count
    BY <1>2, <1>3, <1>4, <2>1
  <2>3. ASSUME i > 1 PROVE o.buckets[i - 1] <= o.buckets[i]
    <3>1. i - 1 \in 1 .. n /\ i - 1 \in 1 .. n - 1 /\ (i - 1) + 1 = i
      BY <1>4, <2>3
    <3>2. h.buckets[i - 1] \in Nat /\ h.buckets[i - 1] <= h.buckets[i]
      BY <1>4, <2>3, <3>1 DEF Histogram
    <3>3. Bounds[i - 1] < Bounds[i] /\ Bounds[i - 1] \in Nat /\ Bounds[i] \in Nat
      BY <1>4, <3>1, ServiceAssumption
    <3>4. d <= Bounds[i - 1] => d <= Bounds[i]
      BY <3>3
    <3>5. /\ o.buckets[i] = IF d <= Bounds[i] THEN h.buckets[i] + 1 ELSE h.buckets[i]
          /\ o.buckets[i - 1] = IF d <= Bounds[i - 1] THEN h.buckets[i - 1] + 1
                                                      ELSE h.buckets[i - 1]
      BY <1>2, <1>4, <3>1
    <3> QED
      BY <2>1, <3>2, <3>4, <3>5
  <2> QED
    BY <2>2, <2>3
<1>6. o.count \in Nat
  BY <1>2, <1>3
<1>7. \A i \in 1 .. Len(Bounds) : /\ o.buckets[i] \in Nat /\ o.buckets[i] <= o.count
                                  /\ i > 1 => o.buckets[i - 1] <= o.buckets[i]
  BY <1>4, <1>5
<1> QED
  BY <1>1, <1>6, <1>7 DEF Histogram

(* The total time is never below its part: the histograms stay in that *)
(* order.                                                              *)
LEMMA ObserveBoth ==
  ASSUME NEW h, NEW p, Histogram(h), Histogram(p), NotBehind(h, p),
         NEW d \in Nat, NEW e \in Nat, e <= d
  PROVE  NotBehind(Observe(h, d), Observe(p, e))
<1>1. PICK o : o = Observe(h, d)
  OBVIOUS
<1>2. PICK u : u = Observe(p, e)
  OBVIOUS
<1>3. /\ o.count = h.count + 1
      /\ \A i \in 1 .. Len(Bounds) :
           o.buckets[i] = IF d <= Bounds[i] THEN h.buckets[i] + 1 ELSE h.buckets[i]
  BY <1>1, ObserveFacts
<1>4. /\ u.count = p.count + 1
      /\ \A i \in 1 .. Len(Bounds) :
           u.buckets[i] = IF e <= Bounds[i] THEN p.buckets[i] + 1 ELSE p.buckets[i]
  BY <1>2, ObserveFacts
<1>5. PICK n \in Nat : n = Len(Bounds) /\ \A i \in 1 .. n : Bounds[i] \in Nat
  BY ServiceAssumption
<1>6. ASSUME NEW i \in 1 .. n PROVE o.buckets[i] <= u.buckets[i]
  <2>1. /\ h.buckets[i] \in Nat /\ p.buckets[i] \in Nat /\ h.buckets[i] <= p.buckets[i]
        /\ Bounds[i] \in Nat
    BY <1>5 DEF Histogram, NotBehind
  <2>2. d <= Bounds[i] => e <= Bounds[i]
    BY <2>1
  <2> QED
    BY <1>3, <1>4, <1>5, <2>1, <2>2
<1> QED
  BY <1>1, <1>2, <1>3, <1>4, <1>5, <1>6 DEF NotBehind

Completed == {r \in Requests : result[r] # "none"}

LabelOf == [r \in Requests |-> Outcome(r)]
ReasonOf == [r \in Requests |-> reply[r].code]

(* What the counters count, for the requests decided so far, which are finitely   *)
(* many; and every increment of requests_ comes with one of rejections_ or one of *)
(* the histograms.                                                                *)
CountInv ==
  /\ IsFiniteSet(Decided)
  /\ Tally(requests, Decided, LabelOf) /\ Tally(rejections, Refused, ReasonOf)
  /\ IsFiniteSet(Tickets(requests)) /\ IsFiniteSet(Tickets(rejections))
  /\ Total(requests) = Total(rejections) + totalDuration.count
  /\ totalDuration.count = Cardinality(Completed)

HistogramInv ==
  /\ Histogram(totalDuration) /\ Histogram(queueDuration) /\ Histogram(backendDuration)
  /\ NotBehind(totalDuration, queueDuration) /\ NotBehind(totalDuration, backendDuration)

(* The line is within its capacity, and a report was right when it was made. *)
ReportInv ==
  /\ gauge = Len(line) /\ (line = <<>> \/ Len(line) <= Capacity)
  /\ Numeric(scraped.requests) /\ Numeric(scraped.rejections)
  /\ NeverAhead(scraped.requests, requests) /\ NeverAhead(scraped.rejections, rejections)
  /\ Total(scraped.requests) = Total(scraped.rejections) + scraped.completed
  /\ scraped # NotScraped => scraped.queueDepth <= Capacity

MetricsInv == CountInv /\ HistogramInv /\ ReportInv

(* The requests that count are the same as before, and so are their labels. *)
SameCount ==
  /\ UNCHANGED <<result, requests, rejections, totalDuration>>
  /\ Decided' = Decided
  /\ \A q \in Decided : task'[q] = task[q]
  /\ \A q \in Refused : reply'[q].code = reply[q].code

(* The refused and the completed requests are finite sets of decided ones. *)
LEMMA SubsetsOfDecided ==
  ASSUME IsFiniteSet(Decided)
  PROVE  /\ IsFiniteSet(Refused) /\ IsFiniteSet(Completed)
         /\ Refused \subseteq Decided /\ Completed \subseteq Decided
         /\ Decided \subseteq Requests
<1>1. Refused \in SUBSET Decided /\ Completed \in SUBSET Decided /\ Decided \subseteq Requests
  BY DEF Refused, Completed, Decided
<1> QED
  BY <1>1, FS_Subset

(* A tally depends on the labels of what it counts only. *)
LEMMA TallySame ==
  ASSUME NEW c, NEW S, NEW f, NEW g, Tally(c, S, f), \A q \in S : g[q] = f[q]
  PROVE  Tally(c, S, g)
<1>1. {f[q] : q \in S} = {g[q] : q \in S}
  OBVIOUS
<1>2. \A l : {q \in S : f[q] = l} = {q \in S : g[q] = l}
  OBVIOUS
<1> QED
  BY <1>1, <1>2 DEF Tally

(* The label of a request that a step leaves alone. *)
LEMMA SameLabel ==
  ASSUME NEW q \in Requests, result'[q] = result[q], task'[q] = task[q]
  PROVE  LabelOf'[q] = LabelOf[q]
<1>1. Outcome(q)' = Outcome(q)
  BY DEF Outcome
<1> QED
  BY <1>1 DEF LabelOf

(* A step that counts nothing keeps the counters right. *)
LEMMA CountSame == ASSUME CountInv, SameCount PROVE CountInv'
<1>1. Decided' = Decided /\ Decided \subseteq Requests /\ Refused \subseteq Decided
  BY SubsetsOfDecided DEF SameCount, CountInv
<1>2. Refused' = Refused /\ Completed' = Completed
  BY <1>1 DEF Refused, Completed, SameCount
<1>3. \A q \in Decided : LabelOf'[q] = LabelOf[q]
  BY <1>1, SameLabel DEF SameCount
<1>4. \A q \in Refused : ReasonOf'[q] = ReasonOf[q]
  BY <1>1 DEF ReasonOf, SameCount
<1>5. Tally(requests, Decided, LabelOf')
  BY <1>3, TallySame DEF CountInv
<1>6. Tally(rejections, Refused, ReasonOf')
  BY <1>4, TallySame DEF CountInv
<1>7. UNCHANGED <<requests, rejections, totalDuration>>
  BY DEF SameCount
<1>8. Tally(requests, Decided, LabelOf)' /\ Tally(rejections, Refused, ReasonOf)'
  BY <1>1, <1>2, <1>5, <1>6, <1>7 DEF Tally
<1>9. Total(requests)' = Total(requests) /\ Total(rejections)' = Total(rejections)
  BY <1>7 DEF Total
<1>10. Tickets(requests)' = Tickets(requests) /\ Tickets(rejections)' = Tickets(rejections)
  BY <1>7 DEF Tickets
<1> QED
  BY <1>1, <1>2, <1>7, <1>8, <1>9, <1>10 DEF CountInv

(* The counters are numbers. *)
LEMMA CountNumeric ==
  ASSUME CountInv
  PROVE  Numeric(requests) /\ Numeric(rejections)
<1>1. IsFiniteSet(Refused)
  BY SubsetsOfDecided DEF CountInv
<1> QED
  BY <1>1, TallyNumeric DEF CountInv

(* A refusal is counted once, under its reason. *)
LEMMA RefusalCounted ==
  ASSUME AnswerInv, CountInv, NEW r \in Requests, RejectSubmission(r)
  PROVE  CountInv'
<1>1. /\ phase[r] = "new" /\ BuildRequest(r) = "" /\ Answer(r, Submission(r), id'[r])
      /\ requests' = Counted(requests, Labels(ModelName(r), BackendOf(r), "rejected"))
      /\ rejections' = Counted(rejections, Submission(r))
      /\ UNCHANGED <<task, result, totalDuration>>
  BY DEF RejectSubmission, Arrives, histograms
<1>2. /\ reply'[r].code = Submission(r) /\ phase'[r] = "done"
      /\ \A q \in Requests \ {r} : reply'[q] = reply[q] /\ phase'[q] = phase[q]
  BY <1>1, AnswerFacts
<1>3. result[r] = "none"
  BY <1>1 DEF AnswerInv, RequestInv
<1>4. r \notin Decided /\ r \notin Refused
  BY <1>1, <1>3 DEF Decided, Refused
<1>5. Decided' = Decided \union {r}
  BY <1>1, <1>2 DEF Decided
<1>6. Refused' = Refused \union {r}
  BY <1>1, <1>3, <1>5 DEF Refused
<1>7. Completed' = Completed
  BY <1>1 DEF Completed
<1>8. /\ IsFiniteSet(Decided) /\ IsFiniteSet(Refused) /\ Refused \subseteq Decided
      /\ Decided \subseteq Requests
  BY SubsetsOfDecided DEF CountInv
<1>9. Outcome(r)' = Labels(ModelName(r), BackendOf(r), "rejected")
  BY <1>1, <1>3 DEF Outcome
<1>10. LabelOf'[r] = Labels(ModelName(r), BackendOf(r), "rejected")
  BY <1>9 DEF LabelOf
<1>11. ReasonOf'[r] = Submission(r)
  BY <1>2 DEF ReasonOf
<1>12. \A q \in Decided : LabelOf'[q] = LabelOf[q]
  BY <1>1, <1>8, SameLabel
<1>13. \A q \in Refused : ReasonOf'[q] = ReasonOf[q]
  BY <1>2, <1>4, <1>8 DEF ReasonOf
<1>14. Tally(Counted(requests, LabelOf'[r]), Decided \union {r}, LabelOf')
  BY <1>4, <1>8, <1>12, CountedTally DEF CountInv
<1>15. Tally(Counted(rejections, ReasonOf'[r]), Refused \union {r}, ReasonOf')
  BY <1>4, <1>8, <1>13, CountedTally DEF CountInv
<1>16. Tally(requests', Decided', LabelOf')
  BY <1>1, <1>5, <1>10, <1>14
<1>17. Tally(rejections', Refused', ReasonOf')
  BY <1>1, <1>6, <1>11, <1>15
<1>18. /\ IsFiniteSet(Tickets(Counted(requests, LabelOf'[r])))
       /\ Total(Counted(requests, LabelOf'[r])) = Total(requests) + 1
       /\ Total(requests) \in Nat
  BY CountNumeric, CountedTotal DEF CountInv
<1>19. /\ IsFiniteSet(Tickets(Counted(rejections, ReasonOf'[r])))
       /\ Total(Counted(rejections, ReasonOf'[r])) = Total(rejections) + 1
       /\ Total(rejections) \in Nat
  BY CountNumeric, CountedTotal DEF CountInv
<1>20. /\ IsFiniteSet(Tickets(requests')) /\ Total(requests') = Total(requests) + 1
       /\ IsFiniteSet(Tickets(rejections')) /\ Total(rejections') = Total(rejections) + 1
  BY <1>1, <1>10, <1>11, <1>18, <1>19
<1>21. totalDuration.count \in Nat
  BY SubsetsOfDecided, FS_CardinalityType DEF CountInv
<1>22. Total(requests') = Total(rejections') + totalDuration'.count
  <2>1. totalDuration' = totalDuration /\ Total(requests) = Total(rejections) + totalDuration.count
    BY <1>1 DEF CountInv
  <2> QED
    BY <1>18, <1>19, <1>20, <1>21, <2>1
<1>23. IsFiniteSet(Decided')
  BY <1>5, <1>8, FS_AddElement
<1>24. totalDuration'.count = Cardinality(Completed')
  BY <1>1, <1>7 DEF CountInv
<1> QED
  BY <1>16, <1>17, <1>20, <1>22, <1>23, <1>24 DEF CountInv, Tally, Tickets, Total

(* A completion is counted once, under its outcome. *)
LEMMA CompletionCounted ==
  ASSUME AnswerInv, CountInv, NEW r \in Requests, Complete(r)
  PROVE  CountInv'
<1>1. PICK outcome \in Outcomes, took \in Timings :
        /\ result' = [result EXCEPT ![r] = outcome]
        /\ requests' = Counted(requests, Labels(task[r].model, task[r].backend,
                         IF outcome = "success" THEN "success" ELSE "error"))
        /\ totalDuration' = Observe(totalDuration, took.total)
  BY DEF Complete
<1>2. /\ phase[r] = "running"
      /\ phase' = [phase EXCEPT ![r] = IF conn[r] THEN "answering" ELSE "done"]
      /\ UNCHANGED <<task, reply, rejections>>
  BY DEF Complete
<1>3. /\ result'[r] = outcome /\ outcome # "none"
      /\ \A q \in Requests \ {r} : phase'[q] = phase[q] /\ result'[q] = result[q]
  BY <1>1, <1>2 DEF AnswerInv, Outcomes
<1>4. result[r] = "none"
  BY <1>2 DEF AnswerInv, RequestInv
<1>5. r \notin Decided /\ r \notin Refused /\ r \notin Completed
  BY <1>2, <1>4 DEF Decided, Refused, Completed
<1>6. Decided' = Decided \union {r}
  BY <1>3 DEF Decided
<1>7. Refused' = Refused
  BY <1>3, <1>5, <1>6 DEF Refused, Decided
<1>8. Completed' = Completed \union {r}
  BY <1>3 DEF Completed
<1>9. /\ IsFiniteSet(Decided) /\ IsFiniteSet(Refused) /\ IsFiniteSet(Completed)
      /\ Refused \subseteq Decided /\ Decided \subseteq Requests
  BY SubsetsOfDecided DEF CountInv
<1>10. Outcome(r)' = Labels(task[r].model, task[r].backend,
                            IF outcome = "success" THEN "success" ELSE "error")
  BY <1>2, <1>3 DEF Outcome
<1>11. LabelOf'[r] = Labels(task[r].model, task[r].backend,
                            IF outcome = "success" THEN "success" ELSE "error")
  BY <1>10 DEF LabelOf
<1>12. \A q \in Decided : LabelOf'[q] = LabelOf[q]
  BY <1>2, <1>3, <1>5, <1>9, SameLabel
<1>13. \A q \in Refused : ReasonOf'[q] = ReasonOf[q]
  BY <1>2 DEF ReasonOf
<1>14. Tally(Counted(requests, LabelOf'[r]), Decided \union {r}, LabelOf')
  BY <1>5, <1>9, <1>12, CountedTally DEF CountInv
<1>15. Tally(rejections, Refused, ReasonOf')
  BY <1>13, TallySame DEF CountInv
<1>16. Tally(requests', Decided', LabelOf')
  BY <1>1, <1>6, <1>11, <1>14
<1>17. Tally(rejections', Refused', ReasonOf')
  BY <1>2, <1>7, <1>15
<1>18. /\ IsFiniteSet(Tickets(Counted(requests, LabelOf'[r])))
       /\ Total(Counted(requests, LabelOf'[r])) = Total(requests) + 1
       /\ Total(requests) \in Nat
  BY CountNumeric, CountedTotal DEF CountInv
<1>19. /\ IsFiniteSet(Tickets(requests')) /\ Total(requests') = Total(requests) + 1
       /\ IsFiniteSet(Tickets(rejections')) /\ Total(rejections') = Total(rejections)
  BY <1>1, <1>2, <1>11, <1>18 DEF CountInv
<1>20. totalDuration'.count = totalDuration.count + 1
  BY <1>1, ObserveFacts
<1>21. totalDuration.count \in Nat /\ totalDuration.count = Cardinality(Completed)
  BY <1>9, FS_CardinalityType DEF CountInv
<1>22. Total(rejections) \in Nat
  BY CountNumeric, CountedTotal DEF CountInv
<1>23. Total(requests') = Total(rejections') + totalDuration'.count
  <2>1. Total(requests) = Total(rejections) + totalDuration.count
    BY DEF CountInv
  <2> QED
    BY <1>18, <1>19, <1>20, <1>21, <1>22, <2>1
<1>24. IsFiniteSet(Decided')
  BY <1>6, <1>9, FS_AddElement
<1>25. totalDuration'.count = Cardinality(Completed')
  <2>1. Cardinality(Completed \union {r}) = Cardinality(Completed) + 1
    BY <1>5, <1>9, FS_AddElement
  <2> QED
    BY <1>8, <1>20, <1>21, <2>1
<1> QED
  BY <1>16, <1>17, <1>19, <1>23, <1>24, <1>25 DEF CountInv, Tally, Tickets, Total

(* Every step keeps the counters equal to what happened. *)
LEMMA CountStep ==
  ASSUME AnswerInv, CountInv, [ServiceNext]_serviceVars
  PROVE  CountInv'
<1>1. CASE \/ ReadSettings \/ LoadFromFile \/ AddMock \/ Initialize \/ StopScheduler
           \/ Scrape \/ UNCHANGED serviceVars \/ (\E r \in Requests : ConnectionLost(r))
  <2>1. UNCHANGED <<task, phase, reply, result, requests, rejections, totalDuration>>
    BY <1>1 DEF ReadSettings, LoadFromFile, AddMock, Initialize, StopScheduler, Scrape,
                ConnectionLost, serviceVars, metrics, histograms
  <2>2. Decided' = Decided
    BY <2>1 DEF Decided
  <2>3. SameCount
    BY <2>1, <2>2 DEF SameCount
  <2> QED
    BY <2>3, CountSame
<1>2. ASSUME NEW r \in Requests, RejectInvalid(r) PROVE CountInv'
  <2>1. /\ phase[r] = "new" /\ BuildRequest(r) # "" /\ Answer(r, BuildRequest(r), id'[r])
        /\ UNCHANGED <<task, result, requests, rejections, totalDuration>>
    BY <1>2 DEF RejectInvalid, Arrives, metrics, histograms
  <2>2. \A q \in Requests \ {r} : reply'[q] = reply[q] /\ phase'[q] = phase[q]
    BY <2>1, AnswerFacts
  <2>3. result[r] = "none"
    BY <2>1 DEF AnswerInv, RequestInv
  <2>4. Decided' = Decided /\ r \notin Refused /\ Refused \subseteq Requests
    BY <2>1, <2>2, <2>3 DEF Decided, Refused
  <2>5. SameCount
    BY <2>1, <2>2, <2>4 DEF SameCount
  <2> QED
    BY <2>5, CountSame
<1>3. ASSUME NEW r \in Requests, Accept(r) PROVE CountInv'
  <2>1. /\ phase[r] = "new" /\ phase' = [phase EXCEPT ![r] = "queued"]
        /\ UNCHANGED <<reply, result, requests, rejections, totalDuration>>
    BY <1>3 DEF Accept, Arrives, histograms
  <2>2. /\ phase'[r] = "queued" /\ \A q \in Requests \ {r} : phase'[q] = phase[q]
    BY <2>1 DEF AnswerInv
  <2>3. result[r] = "none"
    BY <2>1 DEF AnswerInv, RequestInv
  <2>4. Decided' = Decided /\ r \notin Decided /\ Decided \subseteq Requests
    BY <2>1, <2>2, <2>3 DEF Decided
  <2>5. PICK t : task' = [task EXCEPT ![r] = t]
    BY <1>3 DEF Accept
  <2>6. \A q \in Decided : task'[q] = task[q]
    BY <2>4, <2>5
  <2>7. SameCount
    BY <2>1, <2>4, <2>6 DEF SameCount
  <2> QED
    BY <2>7, CountSame
<1>4. CASE Take
  <2>1. /\ phase' = [phase EXCEPT ![Head(line)] = "running"] /\ line # <<>>
        /\ UNCHANGED <<task, reply, result, requests, rejections, totalDuration>>
    BY <1>4 DEF Take, histograms
  <2>2. Head(line) \in Requests /\ phase[Head(line)] = "queued" /\ DOMAIN phase = Requests
    <3>1. InLine(line, phase) /\ DOMAIN phase = Requests
      BY DEF AnswerInv
    <3>2. \A q \in Requests \ {Head(line)} : phase'[q] = phase[q]
      BY <2>1, <3>1
    <3> QED
      BY <2>1, <3>1, <3>2, LineTake
  <2>3. \A q \in Requests : phase'[q] = "done" <=> phase[q] = "done"
    BY <2>1, <2>2
  <2>4. Decided' = Decided
    BY <2>1, <2>3 DEF Decided
  <2>5. SameCount
    BY <2>1, <2>4 DEF SameCount
  <2> QED
    BY <2>5, CountSame
<1>5. ASSUME NEW r \in Requests, Respond(r) PROVE CountInv'
  <2>1. /\ phase[r] = "answering"
        /\ UNCHANGED <<task, result, requests, rejections, totalDuration>>
    BY <1>5 DEF Respond, metrics, histograms
  <2>2. result[r] \in Outcomes /\ result[r] # "none"
    BY <2>1 DEF AnswerInv, RequestInv, Outcomes
  <2>3. \A q \in Requests \ {r} : reply'[q] = reply[q] /\ phase'[q] = phase[q]
    BY <1>5 DEF Respond, Answer, AnswerInv
  <2>4. Decided' = Decided /\ r \notin Refused /\ Refused \subseteq Requests
    BY <2>1, <2>2, <2>3 DEF Decided, Refused
  <2>5. SameCount
    BY <2>1, <2>3, <2>4 DEF SameCount
  <2> QED
    BY <2>5, CountSame
<1> QED
  BY <1>1, <1>2, <1>3, <1>4, <1>5, RefusalCounted, CompletionCounted DEF ServiceNext

(* Every step keeps the histograms cumulative and in order. *)
LEMMA HistogramStep ==
  ASSUME HistogramInv, [ServiceNext]_serviceVars
  PROVE  HistogramInv'
<1>1. ASSUME UNCHANGED histograms PROVE HistogramInv'
  BY <1>1 DEF HistogramInv, histograms, Histogram, NotBehind
<1>2. ASSUME NEW r \in Requests, Complete(r) PROVE HistogramInv'
  <2>1. PICK took \in Timings :
          /\ totalDuration' = Observe(totalDuration, took.total)
          /\ queueDuration' = Observe(queueDuration, took.queue)
          /\ backendDuration' = Observe(backendDuration, took.backend)
    BY <1>2 DEF Complete
  <2>2. /\ took.queue \in Nat /\ took.backend \in Nat /\ took.total \in Nat
        /\ took.queue + took.backend <= took.total
    BY <2>1, ServiceAssumption
  <2>3. took.queue <= took.total /\ took.backend <= took.total
    BY <2>2
  <2>4. /\ Histogram(Observe(totalDuration, took.total))
        /\ Histogram(Observe(queueDuration, took.queue))
        /\ Histogram(Observe(backendDuration, took.backend))
    BY <2>2, ObserveKept DEF HistogramInv
  <2>5. /\ NotBehind(Observe(totalDuration, took.total), Observe(queueDuration, took.queue))
        /\ NotBehind(Observe(totalDuration, took.total), Observe(backendDuration, took.backend))
    BY <2>2, <2>3, ObserveBoth DEF HistogramInv
  <2>6. /\ Histogram(totalDuration') /\ Histogram(queueDuration') /\ Histogram(backendDuration')
        /\ NotBehind(totalDuration', queueDuration') /\ NotBehind(totalDuration', backendDuration')
    BY <2>1, <2>4, <2>5
  <2> QED
    BY <2>6 DEF HistogramInv, Histogram, NotBehind
<1>3. CASE ReadSettings \/ LoadFromFile \/ AddMock \/ Initialize \/ StopScheduler \/ Take
           \/ Scrape \/ UNCHANGED serviceVars
  BY <1>1, <1>3 DEF ReadSettings, LoadFromFile, AddMock, Initialize, StopScheduler, Take,
                    Scrape, serviceVars, metrics
<1>4. CASE \E r \in Requests : RejectInvalid(r) \/ RejectSubmission(r) \/ Accept(r)
  BY <1>1, <1>4 DEF RejectInvalid, RejectSubmission, Accept, metrics
<1>5. CASE \E r \in Requests : Respond(r) \/ ConnectionLost(r)
  BY <1>1, <1>5 DEF Respond, ConnectionLost, metrics
<1> QED
  BY <1>2, <1>3, <1>4, <1>5 DEF ServiceNext

(* The counters a report is compared with never go back. *)
LEMMA NoneGoesBack ==
  ASSUME CountInv, ReportInv, [ServiceNext]_serviceVars, UNCHANGED scraped
  PROVE  NeverAhead(scraped.requests, requests)' /\ NeverAhead(scraped.rejections, rejections)'
<1>1. Numeric(requests) /\ Numeric(rejections)
  BY CountNumeric
<1>2. /\ NeverAhead(scraped.requests, requests) /\ NeverAhead(scraped.rejections, rejections)
      /\ Numeric(scraped.requests) /\ Numeric(scraped.rejections)
  BY DEF ReportInv
<1>3. /\ \A l : NeverAhead(scraped.requests, Counted(requests, l))
      /\ \A l : NeverAhead(scraped.rejections, Counted(rejections, l))
  BY <1>1, <1>2, CountedAhead
<1>4. requests' = requests \/ \E l : requests' = Counted(requests, l)
  BY DEF ServiceNext, ReadSettings, LoadFromFile, AddMock, Initialize, StopScheduler, Take,
         Scrape, RejectInvalid, RejectSubmission, Accept, Complete, Respond, ConnectionLost,
         metrics, serviceVars
<1>5. rejections' = rejections \/ \E l : rejections' = Counted(rejections, l)
  BY DEF ServiceNext, ReadSettings, LoadFromFile, AddMock, Initialize, StopScheduler, Take,
         Scrape, RejectInvalid, RejectSubmission, Accept, Complete, Respond, ConnectionLost,
         metrics, serviceVars
<1>6. NeverAhead(scraped.requests, requests') /\ NeverAhead(scraped.rejections, rejections')
  BY <1>2, <1>3, <1>4, <1>5
<1> QED
  BY <1>6 DEF NeverAhead

(* Where the line may grow. *)
LEMMA LineBounded ==
  ASSUME StartInv, AnswerInv, ReportInv, [ServiceNext]_serviceVars
  PROVE  gauge' = Len(line') /\ (line' = <<>> \/ Len(line') <= Capacity)
<1>1. PICK n \in Nat : n = Len(line)
  BY DEF AnswerInv, InLine
<1>2. gauge = n /\ (line = <<>> \/ n <= Capacity)
  BY <1>1 DEF ReportInv
<1>3. CASE UNCHANGED <<line, gauge>>
  BY <1>1, <1>2, <1>3
<1>4. ASSUME NEW r \in Requests, Accept(r)
      PROVE  gauge' = Len(line') /\ Len(line') <= Capacity
  <2>1. Arrives(r) /\ Submission(r) = "kAccepted" /\ line' = Append(line, r) /\ gauge' = Len(line')
    BY <1>4 DEF Accept
  <2>2. stage = "serving" /\ ~(Len(line) >= Capacity)
    BY <2>1, AcceptedHas
  <2>3. Capacity \in Nat
    BY <2>2, CapacityNumber
  <2>4. Len(Append(line, r)) = n + 1
    BY <1>1, AppendProperties DEF AnswerInv, InLine
  <2> QED
    BY <1>1, <2>1, <2>2, <2>3, <2>4
<1>5. CASE Take
  <2>1. line # <<>> /\ line' = Tail(line) /\ gauge' = Len(line')
    BY <1>5 DEF Take
  <2>2. Len(Tail(line)) = n - 1 /\ n # 0 /\ Tail(line) \in Seq(Requests)
    BY <1>1, <2>1, HeadTailProperties, EmptySeq DEF AnswerInv, InLine
  <2>3. stage \in {"serving", "stopped"}
    <3>1. Head(line) \in Requests /\ phase[Head(line)] = "queued"
      BY <2>1, LineTake DEF AnswerInv
    <3> QED
      BY <3>1 DEF AnswerInv, RequestInv
  <2>4. Capacity \in Nat
    BY <2>3, CapacityNumber
  <2> QED
    BY <1>2, <2>1, <2>2, <2>4
<1>6. CASE ReadSettings \/ LoadFromFile \/ AddMock \/ Initialize \/ StopScheduler \/ Scrape
           \/ UNCHANGED serviceVars
  BY <1>3, <1>6 DEF ReadSettings, LoadFromFile, AddMock, Initialize, StopScheduler, Scrape,
                    serviceVars, metrics
<1>7. CASE \E r \in Requests : RejectInvalid(r) \/ RejectSubmission(r)
  BY <1>3, <1>7 DEF RejectInvalid, RejectSubmission, metrics
<1>8. CASE \E r \in Requests : Complete(r) \/ Respond(r) \/ ConnectionLost(r)
  BY <1>3, <1>8 DEF Complete, Respond, ConnectionLost, metrics
<1> QED
  BY <1>4, <1>5, <1>6, <1>7, <1>8 DEF ServiceNext

(* A report that is being written never shows more than was counted. *)
LEMMA ReportStep ==
  ASSUME StartInv, AnswerInv, CountInv, ReportInv, [ServiceNext]_serviceVars
  PROVE  ReportInv'
<1>1. gauge' = Len(line') /\ (line' = <<>> \/ Len(line') <= Capacity') /\ Capacity' = Capacity
  BY LineBounded, CapacityFixed
<1>2. CASE UNCHANGED scraped
  <2>1. NeverAhead(scraped.requests, requests)' /\ NeverAhead(scraped.rejections, rejections)'
    BY <1>2, NoneGoesBack
  <2>2. /\ Numeric(scraped.requests)' /\ Numeric(scraped.rejections)'
        /\ (Total(scraped.requests) = Total(scraped.rejections) + scraped.completed)'
    BY <1>2 DEF ReportInv, Numeric, Total
  <2>3. (scraped # NotScraped => scraped.queueDepth <= Capacity)'
    BY <1>1, <1>2 DEF ReportInv, NotScraped
  <2> QED
    BY <1>1, <2>1, <2>2, <2>3 DEF ReportInv
<1>3. CASE Scrape
  <2>1. /\ stage = "serving" /\ UNCHANGED <<requests, rejections, totalDuration, gauge, line>>
        /\ scraped' = [requests |-> requests, rejections |-> rejections,
                       queueDepth |-> gauge, completed |-> totalDuration.count]
    BY <1>3 DEF Scrape, metrics, histograms
  <2>2. /\ scraped'.requests = requests /\ scraped'.rejections = rejections
        /\ scraped'.queueDepth = gauge /\ scraped'.completed = totalDuration.count
    BY <2>1
  <2>3. Numeric(requests) /\ Numeric(rejections)
    BY CountNumeric
  <2>4. NeverAhead(requests, requests) /\ NeverAhead(rejections, rejections)
    BY <2>3 DEF NeverAhead, Numeric
  <2>5. Capacity \in Nat
    BY <2>1, CapacityNumber
  <2>6. gauge <= Capacity
    <3>1. gauge = Len(line) /\ (line = <<>> \/ Len(line) <= Capacity)
      BY DEF ReportInv
    <3>2. Len(<<>>) = 0
      BY EmptySeq
    <3> QED
      BY <2>5, <3>1, <3>2
  <2>7. Total(requests) = Total(rejections) + totalDuration.count
    BY DEF CountInv
  <2>8. /\ NeverAhead(scraped'.requests, requests') /\ NeverAhead(scraped'.rejections, rejections')
        /\ Numeric(scraped'.requests) /\ Numeric(scraped'.rejections)
    BY <2>1, <2>2, <2>3, <2>4
  <2>9. Total(scraped'.requests) = Total(scraped'.rejections) + scraped'.completed
    BY <2>2, <2>7
  <2>10. scraped'.queueDepth <= Capacity'
    BY <1>1, <2>2, <2>6
  <2> QED
    BY <1>1, <2>8, <2>9, <2>10 DEF ReportInv, NeverAhead, Numeric, Total
<1> QED
  BY <1>2, <1>3 DEF ServiceNext, ReadSettings, LoadFromFile, AddMock, Initialize,
     StopScheduler, Take, RejectInvalid, RejectSubmission, Accept, Complete, Respond,
     ConnectionLost, serviceVars

(* MetricsInv holds before the first request. *)
LEMMA MetricsHold == ServiceInit => MetricsInv
<1> SUFFICES ASSUME ServiceInit PROVE MetricsInv
  OBVIOUS
<1>1. /\ requests = NoCounters /\ rejections = NoCounters /\ gauge = 0 /\ line = <<>>
      /\ scraped = NotScraped
      /\ totalDuration = EmptyHistogram /\ queueDuration = EmptyHistogram
      /\ backendDuration = EmptyHistogram
  BY DEF ServiceInit
<1>2. \A r \in Requests : phase[r] = "new" /\ result[r] = "none"
  BY DEF ServiceInit
<1>3. Decided = {} /\ Refused = {} /\ Completed = {}
  BY <1>2 DEF Decided, Refused, Completed
<1>4. EmptyHistogram.count = 0 /\ \A i \in 1 .. Len(Bounds) : EmptyHistogram.buckets[i] = 0
  BY DEF EmptyHistogram
<1>5. CountInv
  <2>1. IsFiniteSet({}) /\ Cardinality({}) = 0
    BY FS_EmptySet
  <2>2. /\ Tally(requests, Decided, LabelOf) /\ Tally(rejections, Refused, ReasonOf)
        /\ IsFiniteSet(Tickets(requests)) /\ IsFiniteSet(Tickets(rejections))
    BY <1>1, <1>3, <2>1, NothingCounted
  <2>3. Total(requests) = 0 /\ Total(rejections) = 0 /\ 0 = 0 + 0
    BY <1>1, NothingCounted
  <2> QED
    BY <1>1, <1>3, <1>4, <2>1, <2>2, <2>3 DEF CountInv
<1>6. HistogramInv
  <2>1. PICK n : n = Len(Bounds)
    OBVIOUS
  <2>2. n \in Nat
    BY <2>1, ServiceAssumption
  <2>3. \A i \in 1 .. n : i > 1 => i - 1 \in 1 .. n
    BY <2>2
  <2>4. Histogram(EmptyHistogram)
    BY <1>4, <2>1, <2>3 DEF Histogram
  <2>5. NotBehind(EmptyHistogram, EmptyHistogram)
    BY <1>4 DEF NotBehind
  <2> QED
    BY <1>1, <2>4, <2>5 DEF HistogramInv
<1>7. ReportInv
  <2>1. /\ scraped.requests = NoCounters /\ scraped.rejections = NoCounters
        /\ scraped.completed = 0
    BY <1>1 DEF NotScraped
  <2>2. Len(<<>>) = 0 /\ 0 = 0 + 0
    BY EmptySeq
  <2> QED
    BY <1>1, <2>1, <2>2, NothingCounted DEF ReportInv
<1> QED
  BY <1>5, <1>6, <1>7 DEF MetricsInv

(* MetricsInv says that the metrics agree. *)
LEMMA MetricsRight == MetricsInv => MetricsAgree
<1> SUFFICES ASSUME MetricsInv PROVE MetricsAgree
  OBVIOUS
<1>1. CountInv /\ HistogramInv /\ ReportInv
  BY DEF MetricsInv
<1>2. CountsMatch
  <2>1. Tally(requests, Decided, LabelOf) /\ Tally(rejections, Refused, ReasonOf)
    BY <1>1 DEF CountInv
  <2>2. \A r \in Decided : LabelOf[r] = Outcome(r)
    BY DEF LabelOf, Decided
  <2>3. \A r \in Refused : ReasonOf[r] = reply[r].code
    BY DEF ReasonOf, Refused, Decided
  <2>4. /\ {LabelOf[r] : r \in Decided} = {Outcome(r) : r \in Decided}
        /\ {ReasonOf[r] : r \in Refused} = {reply[r].code : r \in Refused}
    BY <2>2, <2>3
  <2>5. /\ \A l : {r \in Decided : LabelOf[r] = l} = {r \in Decided : Outcome(r) = l}
        /\ \A l : {r \in Refused : ReasonOf[r] = l} = {r \in Refused : reply[r].code = l}
    BY <2>2, <2>3
  <2> QED
    BY <2>1, <2>4, <2>5 DEF CountsMatch, Tally
<1>3. HistogramsNest
  BY <1>1 DEF CountInv, HistogramInv, Histogram, NotBehind, HistogramsNest, Completed
<1>4. ScrapeAddsUp /\ gauge = Len(line)
  BY <1>1 DEF ReportInv, ScrapeAddsUp
<1> QED
  BY <1>2, <1>3, <1>4 DEF MetricsAgree

(* Every decided request is counted exactly once under the right label, a refused  *)
(* one under its reason too, the histograms nest and hold one observation per      *)
(* completed task, the gauge is the length of the line, and a report adds up and   *)
(* is never ahead of the counters: for any number of requests and any buckets.     *)
THEOREM ServiceMetricsAgree == ServiceSafe => []MetricsAgree
<1> DEFINE Inv == StartInv /\ AnswerInv /\ MetricsInv
<1>1. ServiceInit => Inv
  BY StartHolds, AnswerHolds, MetricsHold
<1>2. Inv /\ [ServiceNext]_serviceVars => Inv'
  BY StartStep, AnswerStep, CountStep, HistogramStep, ReportStep DEF MetricsInv
<1>3. Inv => MetricsAgree
  BY MetricsRight
<1> QED
  BY <1>1, <1>2, <1>3, PTL DEF ServiceSafe
=============================================================================
