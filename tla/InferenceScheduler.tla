-------------------------- MODULE InferenceScheduler --------------------------
(***************************************************************************)
(* inference/InferenceScheduler.cc: a bounded queue of tasks, a fixed set   *)
(* of worker threads that wait on a condition variable, submit() from the   *)
(* I/O threads, start() and stop() from the owner (the main thread).        *)
(*                                                                          *)
(* Every region the code runs under mutex_ is one step.  What happens       *)
(* between regions (notify_all after the unlock, backend->infer(), the      *)
(* metrics, the completion, the joins) are steps of their own.              *)
(***************************************************************************)
EXTENDS Naturals, Sequences, FiniteSets, Functions

CONSTANTS Workers,        \* the worker threads, workerCount_ of them
          Tasks,          \* requests with their completion
          QueueCapacity,  \* queueCapacity_
          Route           \* what the registry says of a task's model and backend

Routes == {"ok", "noModel", "noBackend"}

ASSUME SchedulerAssumption ==
  /\ QueueCapacity \in Nat \ {0}
  /\ Workers # {} /\ IsFiniteSet(Workers)
  /\ Route \in [Tasks -> Routes]

NoTask == "no task"

ASSUME NoTaskAssumption == NoTask \notin Tasks

VARIABLES
  running,    \* running_
  stopping,   \* stopping_
  tasks,      \* tasks_
  wpc,        \* where each worker is in workerLoop(); "none": no such thread
  cur,        \* the task a worker has taken
  owner,      \* where the owner is in stop(); "idle": in no call
  queueDepth, \* InferenceMetrics::queueDepth_
  completions,\* InferenceMetrics: the number of recordCompletion() calls
  answer,     \* the last SubmitResult given for a task
  begun,      \* history: the tasks taken from the queue, in order
  accepted,   \* history: the tasks accepted, in order
  completed   \* history: the tasks whose completion was called, in order

vars == <<running, stopping, tasks, wpc, cur, owner, queueDepth, completions,
          answer, begun, accepted, completed>>

SubmitResults == {"kAccepted", "kQueueFull", "kStopped", "kBackendUnavailable",
                  "kModelUnavailable"}

Init == /\ running = FALSE /\ stopping = FALSE
        /\ tasks = <<>>
        /\ wpc = [w \in Workers |-> "none"]
        /\ cur = [w \in Workers |-> NoTask]
        /\ owner = "idle"
        /\ queueDepth = 0 /\ completions = 0
        /\ answer = [t \in Tasks |-> "none"]
        /\ begun = <<>> /\ accepted = <<>> /\ completed = <<>>

-----------------------------------------------------------------------------
(* The owner: start() and stop(). *)

(* start(): the registry loads its models and the workers are created.  It  *)
(* changes nothing when already running or when initialize() fails.         *)
Start ==
  /\ owner = "idle"
  /\ ~running
  /\ running' = TRUE /\ stopping' = FALSE
  /\ wpc' = [w \in Workers |-> "enter"]
  /\ UNCHANGED <<tasks, cur, owner, queueDepth, completions, answer, begun,
                 accepted, completed>>

(* stop(), first region: nothing to do unless running. *)
StopRequest ==
  /\ owner = "idle"
  /\ running
  /\ stopping' = TRUE
  /\ owner' = "notify"
  /\ UNCHANGED <<running, tasks, wpc, cur, queueDepth, completions, answer,
                 begun, accepted, completed>>

(* notEmpty_.notify_all(): every waiting worker will look again. *)
NotifyAll(pcs) == [w \in Workers |-> IF pcs[w] = "waiting" THEN "enter" ELSE pcs[w]]

(* Fault: stop() notifies nobody. *)
StopForgetsNotify ==
  /\ owner = "notify"
  /\ owner' = "join"
  /\ UNCHANGED <<running, stopping, tasks, wpc, cur, queueDepth, completions,
                 answer, begun, accepted, completed>>

StopNotify ==
  /\ owner = "notify"
  /\ owner' = "join"
  /\ wpc' = NotifyAll(wpc)
  /\ UNCHANGED <<running, stopping, tasks, cur, queueDepth, completions, answer,
                 begun, accepted, completed>>

(* worker.join() for each of them, workers_.clear(). *)
StopJoin ==
  /\ owner = "join"
  /\ \A w \in Workers : wpc[w] = "exited"
  /\ owner' = "finish"
  /\ wpc' = [w \in Workers |-> "none"]
  /\ UNCHANGED <<running, stopping, tasks, cur, queueDepth, completions, answer,
                 begun, accepted, completed>>

(* stop(), last region. *)
StopFinish ==
  /\ owner = "finish"
  /\ owner' = "idle"
  /\ running' = FALSE /\ stopping' = FALSE
  /\ UNCHANGED <<tasks, wpc, cur, queueDepth, completions, answer, begun,
                 accepted, completed>>

-----------------------------------------------------------------------------
(* submit() *)

Waiting == {w \in Workers : wpc[w] = "waiting"}

(* Fault: submit() notifies only when the queue was empty. *)
NotifyWhenEmpty ==
  IF tasks = <<>> /\ Waiting # {}
    THEN \E w \in Waiting : wpc' = [wpc EXCEPT ![w] = "enter"]
    ELSE wpc' = wpc

(* Fault: submit() does not notify. *)
NotifyNobody == wpc' = wpc

(* notEmpty_.notify_one(): one waiting worker, if there is one. *)
NotifyOne ==
  \/ Waiting = {} /\ wpc' = wpc
  \/ \E w \in Waiting : wpc' = [wpc EXCEPT ![w] = "enter"]

(* Fault: stopping_ is not looked at. *)
VerdictIgnoresStopping(t) ==
  IF ~running THEN "kStopped"
  ELSE IF Route[t] = "noModel" THEN "kModelUnavailable"
  ELSE IF Route[t] = "noBackend" THEN "kBackendUnavailable"
  ELSE IF Len(tasks) >= QueueCapacity THEN "kQueueFull"
  ELSE "kAccepted"

(* The checks of submit(), in its order. *)
SubmitVerdict(t) ==
  IF ~running \/ stopping THEN "kStopped"
  ELSE IF Route[t] = "noModel" THEN "kModelUnavailable"
  ELSE IF Route[t] = "noBackend" THEN "kBackendUnavailable"
  ELSE IF Len(tasks) >= QueueCapacity THEN "kQueueFull"
  ELSE "kAccepted"

(* The task is enqueued, the gauge follows, one worker is notified, all     *)
(* under mutex_.                                                            *)
SubmitAccepted(t) ==
  /\ answer[t] # "kAccepted"
  /\ SubmitVerdict(t) = "kAccepted"
  /\ answer' = [answer EXCEPT ![t] = "kAccepted"]
  /\ tasks' = Append(tasks, t)
  /\ accepted' = Append(accepted, t)
  /\ queueDepth' = Len(tasks')
  /\ NotifyOne
  /\ UNCHANGED <<running, stopping, cur, owner, completions, begun, completed>>

(* An early return; the caller may try the same request again. *)
SubmitRejected(t) ==
  /\ answer[t] # "kAccepted"
  /\ SubmitVerdict(t) # "kAccepted"
  /\ answer' = [answer EXCEPT ![t] = SubmitVerdict(t)]
  /\ UNCHANGED <<running, stopping, tasks, wpc, cur, owner, queueDepth,
                 completions, begun, accepted, completed>>

-----------------------------------------------------------------------------
(* workerLoop() *)

Predicate == stopping \/ tasks # <<>>

(* The predicate is false: the worker blocks and releases mutex_. *)
WorkerWait(w) ==
  /\ wpc[w] = "enter"
  /\ ~Predicate
  /\ wpc' = [wpc EXCEPT ![w] = "waiting"]
  /\ UNCHANGED <<running, stopping, tasks, cur, owner, queueDepth, completions,
                 answer, begun, accepted, completed>>

(* condition_variable::wait() may return without a notification. *)
SpuriousWakeup(w) ==
  /\ wpc[w] = "waiting"
  /\ wpc' = [wpc EXCEPT ![w] = "enter"]
  /\ UNCHANGED <<running, stopping, tasks, cur, owner, queueDepth, completions,
                 answer, begun, accepted, completed>>

(* Fault: "if (stopping_) return" without looking at the queue. *)
WorkerExitsEarly(w) ==
  /\ wpc[w] = "enter"
  /\ stopping
  /\ wpc' = [wpc EXCEPT ![w] = "exited"]
  /\ UNCHANGED <<running, stopping, tasks, cur, owner, queueDepth, completions,
                 answer, begun, accepted, completed>>

(* stopping_ and nothing left: the thread returns. *)
WorkerExit(w) ==
  /\ wpc[w] = "enter"
  /\ stopping /\ tasks = <<>>
  /\ wpc' = [wpc EXCEPT ![w] = "exited"]
  /\ UNCHANGED <<running, stopping, tasks, cur, owner, queueDepth, completions,
                 answer, begun, accepted, completed>>

(* The front of the queue is taken, also while stopping. *)
WorkerTake(w) ==
  /\ wpc[w] = "enter"
  /\ tasks # <<>>
  /\ wpc' = [wpc EXCEPT ![w] = "infer"]
  /\ cur' = [cur EXCEPT ![w] = Head(tasks)]
  /\ tasks' = Tail(tasks)
  /\ begun' = Append(begun, Head(tasks))
  /\ queueDepth' = Len(tasks')
  /\ UNCHANGED <<running, stopping, owner, completions, answer, accepted,
                 completed>>

(* backend->infer() returns and the metrics are recorded. *)
WorkerInfer(w) ==
  /\ wpc[w] = "infer"
  /\ wpc' = [wpc EXCEPT ![w] = "complete"]
  /\ completions' = completions + 1
  /\ UNCHANGED <<running, stopping, tasks, cur, owner, queueDepth, answer,
                 begun, accepted, completed>>

(* task.completion(result); the task is destroyed and the loop goes round. *)
WorkerComplete(w) ==
  /\ wpc[w] = "complete"
  /\ wpc' = [wpc EXCEPT ![w] = "enter"]
  /\ completed' = Append(completed, cur[w])
  /\ cur' = [cur EXCEPT ![w] = NoTask]
  /\ UNCHANGED <<running, stopping, tasks, owner, queueDepth, completions,
                 answer, begun, accepted>>

-----------------------------------------------------------------------------
WorkerStep(w) == \/ WorkerWait(w) \/ WorkerExit(w) \/ WorkerTake(w)
                 \/ WorkerInfer(w) \/ WorkerComplete(w)

StopStep == StopNotify \/ StopJoin \/ StopFinish

Next == \/ Start \/ StopRequest \/ StopStep
        \/ \E t \in Tasks : SubmitAccepted(t) \/ SubmitRejected(t)
        \/ \E w \in Workers : WorkerStep(w) \/ SpuriousWakeup(w)

SafeSpec == Init /\ [][Next]_vars

(* Threads are scheduled, mutex_ is granted eventually and infer() returns. *)
(* Nobody has to submit, to stop or to start, and no spurious wakeup helps. *)
Fairness == /\ WF_vars(StopStep)
            /\ \A w \in Workers : WF_vars(WorkerStep(w))

Spec == SafeSpec /\ Fairness

-----------------------------------------------------------------------------
WorkerPcs == {"none", "enter", "waiting", "infer", "complete", "exited"}

(* The variables keep their types; a worker holds a task exactly between    *)
(* taking it and completing it.                                             *)
TypeOK ==
  /\ running \in BOOLEAN /\ stopping \in BOOLEAN
  /\ tasks \in Seq(Tasks)
  /\ wpc \in [Workers -> WorkerPcs]
  /\ cur \in [Workers -> Tasks \union {NoTask}]
  /\ \A w \in Workers : (cur[w] \in Tasks) <=> (wpc[w] \in {"infer", "complete"})
  /\ owner \in {"idle", "notify", "join", "finish"}
  /\ queueDepth \in Nat /\ completions \in Nat
  /\ answer \in [Tasks -> SubmitResults \union {"none"}]
  /\ begun \in Seq(Tasks) /\ accepted \in Seq(Tasks) /\ completed \in Seq(Tasks)

(* submit() never lets more than queueCapacity_ tasks wait (back pressure). *)
BoundedQueue == Len(tasks) <= QueueCapacity

(* The gauge the metrics publish is the length of the queue whenever        *)
(* mutex_ is free, whoever changed the queue last.                          *)
GaugeExact == queueDepth = Len(tasks)

(* Tasks are taken in the order they were accepted, none lost or repeated,  *)
(* across stop() and start().                                               *)
FirstInFirstOut == accepted = begun \o tasks

(* Somebody will look at the queue while it holds work: a worker sleeps     *)
(* only if every waiting task has an awake worker of its own, so notify_one *)
(* is enough in submit().                                                   *)
NoIdleWorker ==
  Waiting # {} => Len(tasks) <= Cardinality({w \in Workers : wpc[w] = "enter"})

(* A stopped scheduler holds nothing: stop() returns only when the queue is *)
(* empty, every worker has exited and every accepted task was completed.    *)
StoppedIsDrained ==
  ~running => /\ tasks = <<>>
              /\ \A w \in Workers : wpc[w] = "none"
              /\ Range(completed) = Range(accepted)

(* No completion is called twice, and none for a task that was not accepted *)
(* and taken by a worker.                                                   *)
CompletedOnce ==
  /\ \A i, j \in 1 .. Len(completed) : i # j => completed[i] # completed[j]
  /\ Range(completed) \subseteq Range(begun)
  /\ \A w \in Workers : cur[w] \notin Range(completed)

(* The protocol of stop(): stopping_ is raised exactly while stop() is on   *)
(* its way, the threads exist exactly between start() and the end of the    *)
(* joins, and a worker has left, or all were joined, only once the queue is *)
(* empty; nothing enters it afterwards.                                     *)
StopProtocol ==
  /\ stopping <=> owner # "idle"
  /\ stopping => running
  /\ \A w \in Workers : wpc[w] = "none" <=> ~running \/ owner = "finish"
  /\ \A w \in Workers : wpc[w] = "exited" => stopping /\ tasks = <<>>
  /\ owner = "finish" => tasks = <<>>

(* The tasks the workers have taken and not completed. *)
Held == {t \in Tasks : \E w \in Workers : cur[w] = t}

(* Where a task is: accepted once, and from then on in the queue, with one  *)
(* worker or completed, never in two of these places.                       *)
TaskLedger ==
  /\ IsInjective(accepted)
  /\ Range(accepted) = {t \in Tasks : answer[t] = "kAccepted"}
  /\ Range(begun) = Range(completed) \union Held
  /\ \A v, w \in Workers : cur[v] = cur[w] => v = w \/ cur[v] = NoTask

(* What mutex_ protects: whenever it is free the state is well-typed, the   *)
(* queue is within its bound, published by the gauge and served in order, a *)
(* stopped scheduler is drained, no completion is called twice, and every   *)
(* accepted task is in exactly one place.                                   *)
MonitorInv == /\ TypeOK /\ BoundedQueue /\ GaugeExact /\ FirstInFirstOut
              /\ StoppedIsDrained /\ CompletedOnce
              /\ StopProtocol /\ TaskLedger

(* Every accepted task is completed, also when stop() comes first. *)
AcceptedCompletes ==
  \A t \in Tasks : answer[t] = "kAccepted" ~> t \in Range(completed)

(* stop() returns. *)
StopReturns == owner = "notify" ~> owner = "idle"

(* The scheduler implements the pool its callers rely on. *)
Pool == INSTANCE BoundedTaskPool WITH
  Capacity   <- QueueCapacity,
  Width      <- Cardinality(Workers),
  line       <- tasks,
  inProgress <- Held,
  finished   <- Range(completed)

PoolSpec == Pool!Spec
=============================================================================
