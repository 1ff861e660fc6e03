----------------------------- MODULE ServerProgram -----------------------------
(***************************************************************************)
(* The threads of the HTTP program from the construction of its server to   *)
(* the end of main(): the main thread with the base loop, the signal        *)
(* thread, the I/O threads of EventLoopThreadPool, and the scheduler's      *)
(* workers.                                                                 *)
(*                                                                          *)
(* A loop is what EventLoop.tla makes of it, with the steps that start-up   *)
(* and shutdown can fall between: the test of quit_, the poll with the      *)
(* handlers of what it reports, the swap, and each functor.  queueInLoop()  *)
(* is one step, its wake-up included; quit() is two, since the loop may be  *)
(* gone before the second.  A connection asks for at most one inference;    *)
(* once it is accepted, stopRead() keeps the loop from seeing more.         *)
(***************************************************************************)
EXTENDS Naturals, Sequences, SequencesExt, FiniteSetsExt

CONSTANTS NumThreads,  \* numThreads_
          Conns        \* connections

ASSUME ProgramAssumption == NumThreads \in Nat \ {0}

Base  == 0
Loops == 1 .. NumThreads
All   == Loops \union {Base}

VARIABLES
  mpc,      \* where main() is
  k,        \* the I/O thread that start() or the destructors have come to
  sig,      \* where the signal thread is: "none", "wait", "caught", "wake", "done"
  lpc,      \* where a loop's thread is; "none": not started, "gone": returned
  quit,     \* quit_
  wake,     \* whether the eventfd is readable
  pending,  \* pendingFunctors_
  todo,     \* functors of doPendingFunctors()
  loops,    \* loops_ of the pool
  next,     \* next_ of the pool, counted from 1
  owner,    \* the loop of a connection; NumThreads + 1: not accepted yet
  state,    \* state_ of a connection
  inMap,    \* whether it is in connections_
  request,  \* its inference: "none", "refused", "accepted", "computed" or
            \*   "answered"
  ended     \* history: how often connectDestroyed() ran

main == <<mpc, k, sig, loops>>
loop == <<lpc, quit, wake, todo>>
conn == <<owner, inMap>>
vars == <<main, loop, pending, next, conn, state, request, ended>>

Nowhere == NumThreads + 1

Init == /\ mpc = "construct" /\ k = 1 /\ sig = "none"
        /\ lpc = [l \in All |-> "none"]
        /\ quit = [l \in All |-> FALSE] /\ wake = [l \in All |-> FALSE]
        /\ pending = [l \in All |-> <<>>] /\ todo = [l \in All |-> <<>>]
        /\ loops = <<>> /\ next = 1
        /\ owner = [c \in Conns |-> Nowhere]
        /\ state = [c \in Conns |-> "kConnecting"]
        /\ inMap = [c \in Conns |-> FALSE]
        /\ request = [c \in Conns |-> "none"]
        /\ ended = [c \in Conns |-> 0]

-----------------------------------------------------------------------------
(* Start-up *)

(* LOG_FATAL ends in exit(-1): every thread is gone. *)
ExitFatal ==
  /\ mpc' = "failed" /\ sig' = "done"
  /\ lpc' = [l \in All |-> "gone"]
  /\ UNCHANGED <<k, loops, quit, wake, todo, pending, next, conn, state, request,
                 ended>>

(* createNonblocking() in the Acceptor's constructor, and its failure. *)
CreateNonblocking ==
  /\ mpc = "construct" /\ mpc' = "bind"
  /\ UNCHANGED <<k, sig, loops, loop, pending, next, conn, state, request, ended>>

CreateFails == mpc = "construct" /\ ExitFatal

(* The socket is bound, the server complete, and the signal thread runs. *)
BindAddress ==
  /\ mpc = "bind" /\ mpc' = "spawn"
  /\ sig' = "wait"
  /\ UNCHANGED <<k, loops, loop, pending, next, conn, state, request, ended>>

BindFails == mpc = "bind" /\ ExitFatal

(* Thread::start(): the thread runs when it returns. *)
ThreadStart(l) == lpc' = [lpc EXCEPT ![l] = "construct"]

(* EventLoopThreadPool::start() comes to the next thread. *)
SpawnThread ==
  /\ mpc = "spawn" /\ k <= NumThreads
  /\ ThreadStart(k)
  /\ mpc' = "await"
  /\ UNCHANGED <<k, sig, loops, quit, wake, todo, pending, next, conn, state,
                 request, ended>>

(* threadFunc(): the loop is built and loop_ set. *)
PublishLoop(l) ==
  /\ lpc[l] = "construct"
  /\ lpc' = [lpc EXCEPT ![l] = "published"]
  /\ UNCHANGED <<main, quit, wake, todo, pending, next, conn, state, request,
                 ended>>

(* The constructor of the loop gets no eventfd. *)
CreateEventfdFails(l) == lpc[l] = "construct" /\ ExitFatal

Published(l) == lpc[l] \notin {"none", "construct", "gone"}

(* startLoop() returns the loop, and the pool goes on. *)
StartLoop ==
  /\ mpc = "await" /\ Published(k)
  /\ loops' = Append(loops, k)
  /\ k' = k + 1 /\ mpc' = "spawn"
  /\ UNCHANGED <<sig, loop, pending, next, conn, state, request, ended>>

(* TcpServer::start() listens when the pool is complete. *)
PoolStarted == mpc = "spawn" /\ k > NumThreads

(* listen() on the main thread, after which main() enters the base loop. *)
Listen ==
  /\ PoolStarted
  /\ mpc' = "running" /\ k' = 1
  /\ lpc' = [lpc EXCEPT ![Base] = "published"]
  /\ UNCHANGED <<sig, loops, quit, wake, todo, pending, next, conn, state,
                 request, ended>>

ListenFails == PoolStarted /\ ExitFatal

-----------------------------------------------------------------------------
(* The loops *)

(* Fault: loop() reads the eventfd before its first poll. *)
EnterDrains(l) ==
  /\ lpc[l] = "published"
  /\ quit' = [quit EXCEPT ![l] = FALSE]
  /\ wake' = [wake EXCEPT ![l] = FALSE]
  /\ lpc' = [lpc EXCEPT ![l] = "check"]
  /\ UNCHANGED <<main, todo, pending, next, conn, state, request, ended>>

(* loop(): quit_ = false. *)
EnterLoop(l) ==
  /\ lpc[l] = "published"
  /\ quit' = [quit EXCEPT ![l] = FALSE]
  /\ lpc' = [lpc EXCEPT ![l] = "check"]
  /\ UNCHANGED <<main, wake, todo, pending, next, conn, state, request, ended>>

CheckQuit(l) ==
  /\ lpc[l] = "check"
  /\ lpc' = [lpc EXCEPT ![l] = IF quit[l] THEN "returned" ELSE "poll"]
  /\ UNCHANGED <<main, quit, wake, todo, pending, next, conn, state, request,
                 ended>>

(* queueInLoop() with its wake-up. *)
Queue(l, functor) ==
  /\ pending' = [pending EXCEPT ![l] = Append(@, functor)]
  /\ wake' = [wake EXCEPT ![l] = TRUE]

Polled(l) == /\ lpc[l] = "poll"
             /\ lpc' = [lpc EXCEPT ![l] = "swap"]

(* The eventfd is readable. *)
PollWakeup(l) ==
  /\ Polled(l)
  /\ wake[l]
  /\ wake' = [wake EXCEPT ![l] = FALSE]
  /\ UNCHANGED <<main, quit, todo, pending, next, conn, state, request, ended>>

(* kPollTimeMs have passed, 10^7 ms. *)
PollTimeout(l) ==
  /\ Polled(l)
  /\ ~wake[l]
  /\ UNCHANGED <<main, quit, wake, todo, pending, next, conn, state, request,
                 ended>>

(* getNextLoop(): next_ after loops_[next_] was chosen. *)
NextLoop == IF next + 1 > Len(loops) THEN 1 ELSE next + 1

(* Acceptor::handleRead() and newConnection() on the base loop. *)
Accept(c) ==
  /\ Polled(Base)
  /\ owner[c] = Nowhere
  /\ owner' = [owner EXCEPT ![c] = loops[next]]
  /\ next' = NextLoop
  /\ inMap' = [inMap EXCEPT ![c] = TRUE]
  /\ Queue(loops[next], <<"connectEstablished", c>>)
  /\ UNCHANGED <<main, quit, todo, state, request, ended>>

(* accept() fails, with EMFILE or because the peer has gone: logged only. *)
AcceptFails ==
  /\ Polled(Base)
  /\ \E c \in Conns : owner[c] = Nowhere
  /\ UNCHANGED <<main, quit, wake, todo, pending, next, conn, state, request,
                 ended>>

Stopping == mpc \notin {"construct", "bind", "spawn", "await", "running"}

(* The connection's events reach its loop: stopRead() ends that. *)
Watched(l, c) ==
  owner[c] = l /\ state[c] = "kConnected" /\ request[c] \in {"none", "refused"}

(* handleAsync() on the connection's loop: accepted and stopRead(), or      *)
(* refused, as everything is once the scheduler has stopped, and answered   *)
(* at once with shutdown(), after which nothing more is parsed.             *)
RequestArrives(l, c) ==
  /\ Polled(l)
  /\ Watched(l, c) /\ request[c] = "none"
  /\ \/ request' = [request EXCEPT ![c] = "refused"]
     \/ ~Stopping /\ request' = [request EXCEPT ![c] = "accepted"]
  /\ UNCHANGED <<main, quit, wake, todo, pending, next, conn, state, ended>>

(* handleClose() on the connection's loop, and removeConnection(), which    *)
(* hands the removal to the base loop.                                      *)
PeerCloses(l, c) ==
  /\ Polled(l)
  /\ Watched(l, c)
  /\ state' = [state EXCEPT ![c] = "kDisconnected"]
  /\ Queue(Base, <<"removeConnectionInLoop", c>>)
  /\ UNCHANGED <<main, quit, todo, next, conn, request, ended>>

(* doPendingFunctors() takes what is queued. *)
SwapPending(l) ==
  /\ lpc[l] = "swap"
  /\ todo' = [todo EXCEPT ![l] = pending[l]]
  /\ pending' = [pending EXCEPT ![l] = <<>>]
  /\ lpc' = [lpc EXCEPT ![l] = IF pending[l] = <<>> THEN "check" ELSE "run"]
  /\ UNCHANGED <<main, quit, wake, next, conn, state, request, ended>>

Running(l, functor, c) ==
  /\ lpc[l] = "run" /\ Head(todo[l]) = <<functor, c>>
  /\ todo' = [todo EXCEPT ![l] = Tail(@)]
  /\ lpc' = [lpc EXCEPT ![l] = IF Len(todo[l]) = 1 THEN "check" ELSE "run"]
  /\ UNCHANGED <<main, quit, next>>

ConnectEstablished(l, c) ==
  /\ Running(l, "connectEstablished", c)
  /\ state' = [state EXCEPT ![c] = "kConnected"]
  /\ UNCHANGED <<wake, pending, conn, request, ended>>

ConnectDestroyed(l, c) ==
  /\ Running(l, "connectDestroyed", c)
  /\ state' = [state EXCEPT ![c] = "kDisconnected"]
  /\ ended' = [ended EXCEPT ![c] = @ + 1]
  /\ UNCHANGED <<wake, pending, conn, request>>

(* Fault: the connection stays in connections_. *)
RemoveForgetsErase(c) ==
  /\ Running(Base, "removeConnectionInLoop", c)
  /\ Queue(owner[c], <<"connectDestroyed", c>>)
  /\ UNCHANGED <<conn, state, request, ended>>

RemoveConnectionInLoop(c) ==
  /\ Running(Base, "removeConnectionInLoop", c)
  /\ inMap' = [inMap EXCEPT ![c] = FALSE]
  /\ Queue(owner[c], <<"connectDestroyed", c>>)
  /\ UNCHANGED <<owner, state, request, ended>>

(* The functor a completion queued: the answer, if still connected. *)
SendResponse(l, c) ==
  /\ Running(l, "response", c)
  /\ request' = [request EXCEPT ![c] = IF state[c] = "kConnected" THEN "answered" ELSE @]
  /\ UNCHANGED <<wake, pending, conn, state, ended>>

(* A worker has computed an accepted request and calls its completion. *)
WorkerCompletes(c) ==
  /\ request[c] = "accepted"
  /\ request' = [request EXCEPT ![c] = "computed"]
  /\ Queue(owner[c], <<"response", c>>)
  /\ UNCHANGED <<main, lpc, quit, todo, next, conn, state, ended>>

(* threadFunc() of an I/O loop returns: loop_ = nullptr, the loop destroyed. *)
ThreadReturns(l) ==
  /\ lpc[l] = "returned"
  /\ lpc' = [lpc EXCEPT ![l] = "gone"]
  /\ UNCHANGED <<main, quit, wake, todo, pending, next, conn, state, request,
                 ended>>

-----------------------------------------------------------------------------
(* Shutdown *)

MainGoes(from, to) ==
  /\ mpc = from /\ mpc' = to
  /\ UNCHANGED <<sig, loops, lpc, todo, next, owner, state, request, ended>>

(* sigwait() returns SIGINT or SIGTERM. *)
Signal ==
  /\ sig = "wait" /\ sig' = "caught"
  /\ UNCHANGED <<mpc, k, loops, loop, pending, next, conn, state, request, ended>>

(* loop.quit() by the signal thread: the flag, then the eventfd. *)
SignalQuits ==
  /\ sig = "caught" /\ sig' = "wake"
  /\ quit' = [quit EXCEPT ![Base] = TRUE]
  /\ UNCHANGED <<mpc, k, loops, lpc, wake, todo, pending, next, conn, state,
                 request, ended>>

SignalWakes ==
  /\ sig = "wake" /\ sig' = "done"
  /\ wake' = [wake EXCEPT ![Base] = TRUE]
  /\ UNCHANGED <<mpc, k, loops, lpc, quit, todo, pending, next, conn, state,
                 request, ended>>

(* scheduler.stop(), entered when the base loop has returned. *)
StopScheduler ==
  /\ lpc[Base] = "returned"
  /\ MainGoes("running", "stop")
  /\ UNCHANGED <<k, quit, wake, pending, inMap>>

(* Fault: stop() does not wait for the workers. *)
StopWithoutJoin ==
  /\ MainGoes("stop", "join")
  /\ UNCHANGED <<k, quit, wake, pending, inMap>>

(* The workers have drained the queue and are joined. *)
StopReturns ==
  /\ \A c \in Conns : request[c] # "accepted"
  /\ MainGoes("stop", "join")
  /\ UNCHANGED <<k, quit, wake, pending, inMap>>

JoinSignalThread ==
  /\ sig = "done"
  /\ MainGoes("join", "destroy")
  /\ UNCHANGED <<k, quit, wake, pending, inMap>>

(* ~TcpServer(): every connection left is to be destroyed by its loop. *)
DestroyConnection(c) ==
  /\ inMap[c]
  /\ MainGoes("destroy", "destroy")
  /\ inMap' = [inMap EXCEPT ![c] = FALSE]
  /\ Queue(owner[c], <<"connectDestroyed", c>>)
  /\ UNCHANGED <<k, quit>>

DestroyPool ==
  /\ \A c \in Conns : ~inMap[c]
  /\ MainGoes("destroy", "quit")
  /\ UNCHANGED <<k, quit, wake, pending, inMap>>

(* Fault: the eventfd is not written. *)
QuitWithoutWakeup ==
  /\ MainGoes("quit", "joinThread")
  /\ k <= NumThreads /\ Published(loops[k])
  /\ quit' = [quit EXCEPT ![loops[k]] = TRUE]
  /\ UNCHANGED <<k, wake, pending, inMap>>

(* ~EventLoopThread(): quit() of its loop, the flag first. *)
QuitThread ==
  /\ MainGoes("quit", "wakeThread")
  /\ k <= NumThreads /\ Published(loops[k])
  /\ quit' = [quit EXCEPT ![loops[k]] = TRUE]
  /\ UNCHANGED <<k, wake, pending, inMap>>

(* The write to the eventfd, which a loop that has gone no longer has. *)
WakeThread ==
  /\ MainGoes("wakeThread", "joinThread")
  /\ wake' = IF Published(loops[k]) THEN [wake EXCEPT ![loops[k]] = TRUE] ELSE wake
  /\ UNCHANGED <<k, quit, pending, inMap>>

JoinThread ==
  /\ MainGoes("joinThread", "quit")
  /\ lpc[loops[k]] = "gone"
  /\ k' = k + 1
  /\ UNCHANGED <<quit, wake, pending, inMap>>

(* The rest of main()'s locals go: scheduler, registry and base loop. *)
Exit ==
  /\ k > NumThreads
  /\ MainGoes("quit", "exit")
  /\ UNCHANGED <<k, quit, wake, pending, inMap>>

-----------------------------------------------------------------------------
MainStep == \/ CreateNonblocking \/ CreateFails \/ BindAddress \/ BindFails
            \/ ListenFails
            \/ SpawnThread \/ StartLoop \/ Listen \/ StopScheduler \/ StopReturns
            \/ JoinSignalThread \/ DestroyPool \/ QuitThread \/ WakeThread
            \/ JoinThread \/ Exit
            \/ \E c \in Conns : DestroyConnection(c)

RunFunctor(l) ==
  \/ \E c \in Conns : \/ ConnectEstablished(l, c) \/ ConnectDestroyed(l, c)
                      \/ SendResponse(l, c)
  \/ l = Base /\ \E c \in Conns : RemoveConnectionInLoop(c)

LoopStep(l) == \/ EnterLoop(l) \/ CheckQuit(l) \/ PollWakeup(l) \/ SwapPending(l)
               \/ RunFunctor(l)

ThreadStep(l) == PublishLoop(l) \/ CreateEventfdFails(l) \/ ThreadReturns(l)

Handle(l) == \E c \in Conns : RequestArrives(l, c) \/ PeerCloses(l, c)

Next == \/ MainStep \/ Signal \/ SignalQuits \/ SignalWakes
        \/ \E l \in All : LoopStep(l) \/ PollTimeout(l)
        \/ \E l \in Loops : ThreadStep(l) \/ Handle(l)
        \/ \E c \in Conns : Accept(c) \/ WorkerCompletes(c)
        \/ AcceptFails

SafeSpec == Init /\ [][Next]_vars

(* Every thread is scheduled and infer() returns.  Nothing is assumed of    *)
(* clients, of signals or of the time-out of the poll.                      *)
Spec == /\ SafeSpec
        /\ WF_vars(MainStep) /\ WF_vars(SignalQuits) /\ WF_vars(SignalWakes)
        /\ \A l \in All : WF_vars(LoopStep(l))
        /\ \A l \in Loops : WF_vars(ThreadStep(l))
        /\ \A c \in Conns : WF_vars(WorkerCompletes(c))

-----------------------------------------------------------------------------
(* No functor is handed to a loop that does not exist yet or any more,      *)
(* whether a new connection, an answer of a worker or the end of the server *)
(* hands it over: start() waits for the loops, and the workers and the      *)
(* connections are done with before the loops are.                          *)
HandedToLiveLoop ==
  [][\A l \in All : Len(pending'[l]) > Len(pending[l]) => Published(l)]_vars

(* What a loop has still to run, and how often a functor is in it. *)
Left(l) == todo[l] \o pending[l]

Queued(l, functor) == Cardinality({i \in 1 .. Len(Left(l)) : Left(l)[i] = functor})

(* A connection that was accepted and not destroyed is in connections_ or   *)
(* its destruction is queued to its loop, once; it is destroyed at most     *)
(* once, however the peer's close, the removal and the server's end meet.   *)
DestroyedOnce ==
  \A c \in Conns : owner[c] # Nowhere =>
    ended[c] + Queued(owner[c], <<"connectDestroyed", c>>) + (IF inMap[c] THEN 1 ELSE 0) = 1

(* A connection handed to a loop that has not reached loop() yet is not     *)
(* forgotten: it is established, unless the server shuts down.              *)
AcceptedIsEstablished ==
  \A c \in Conns : owner[c] # Nowhere ~> (state[c] # "kConnecting" \/ Stopping)

(* Once all loops run, a signal ends the program: base loop, workers and    *)
(* I/O threads all come to their end and no join waits for ever.            *)
SignalEndsRunningProgram ==
  (sig = "caught" /\ \A l \in All : lpc[l] \in {"check", "poll", "swap", "run"})
    ~> mpc = "exit"
=============================================================================
