------------------------------ MODULE EventLoop ------------------------------
(***************************************************************************)
(* One EventLoop (muduo_core/EventLoop.cc): the loop thread alternates      *)
(* between poll(), the handlers of the active channels and the pending      *)
(* functors; other threads hand functors over with queueInLoop() or         *)
(* runInLoop(), wake the loop through its eventfd and may call quit().      *)
(*                                                                          *)
(* A step of the model is what one thread does between two points where     *)
(* another thread can observe or influence it: the push under mutex_ and    *)
(* the write to the eventfd are two steps, and so are the store to quit_    *)
(* and its wakeup.                                                          *)
(***************************************************************************)
EXTENDS Naturals, Sequences, Functions

CONSTANTS Threads,      \* the threads other than the loop's own
          Loop,         \* the thread the loop belongs to (threadId_)
          Functors,     \* callbacks; each is handed over at most once
          Channels      \* the I/O channels registered with the poller

ASSUME LoopAssumption == Loop \notin Threads

Actors == Threads \union {Loop}

Wakeup == "wakeupChannel_"

VARIABLES
  lpc,        \* where the loop thread is in loop()
  quit,       \* quit_
  looping,    \* looping_
  calling,    \* callingPendingFunctors_
  pending,    \* pendingFunctors_
  functors,   \* the vector swapped out by doPendingFunctors(), what is left of it
  wakeupFd,   \* the counter of the eventfd
  active,     \* activeChannels_ still to be handled
  ready,      \* the I/O channels whose descriptor has an event
  wake,       \* the actors that are about to call wakeup()
  queued,     \* history: every functor queued, in the order of the pushes
  ran,        \* history: every functor doPendingFunctors() ran, in order
  direct,     \* history: the functors runInLoop() ran in place
  quitBy      \* history: the actors that have called quit()

vars == <<lpc, quit, looping, calling, pending, functors, wakeupFd, active,
          ready, wake, queued, ran, direct, quitBy>>

queueVars == <<pending, functors, queued, ran, direct>>

Used == Range(queued) \union direct

Init == /\ lpc = "created"
        /\ quit = FALSE /\ looping = FALSE /\ calling = FALSE
        /\ pending = <<>> /\ functors = <<>>
        /\ wakeupFd = 0
        /\ active = {} /\ ready = {}
        /\ wake = {}
        /\ queued = <<>> /\ ran = <<>> /\ direct = {}
        /\ quitBy = {}

-----------------------------------------------------------------------------
(* Calls that any thread may make.                                         *)

(* User code of the loop thread runs in a channel handler or in a functor.  *)
InCallback == lpc \in {"handler", "functor"}

(* The actor can make a call: it is not inside one, and the loop thread     *)
(* calls only from the callbacks it runs.                                   *)
MayCall(a) == /\ a \notin wake
              /\ a = Loop => InCallback

(* Fault: "|| callingPendingFunctors_" is forgotten. *)
QueueInLoopForgetsNested(a, f) ==
  /\ MayCall(a)
  /\ f \notin Used
  /\ pending' = Append(pending, f)
  /\ queued' = Append(queued, f)
  /\ wake' = IF a # Loop THEN wake \union {a} ELSE wake
  /\ UNCHANGED <<lpc, quit, looping, calling, functors, wakeupFd, active,
                 ready, ran, direct, quitBy>>

(* push under mutex_; then wakeup() unless the loop thread itself queued    *)
(* outside doPendingFunctors(), which it will reach before the next poll(). *)
QueueInLoop(a, f) ==
  /\ MayCall(a)
  /\ f \notin Used
  /\ pending' = Append(pending, f)
  /\ queued' = Append(queued, f)
  /\ wake' = IF a # Loop \/ calling THEN wake \union {a} ELSE wake
  /\ UNCHANGED <<lpc, quit, looping, calling, functors, wakeupFd, active,
                 ready, ran, direct, quitBy>>

(* On the loop thread cb() runs at once, also before loop() was entered     *)
(* (TcpServer::start() does that); elsewhere it is queueInLoop().           *)
RunInLoop(a, f) ==
  \/ /\ a = Loop
     /\ InCallback \/ lpc = "created"
     /\ a \notin wake
     /\ f \notin Used
     /\ direct' = direct \union {f}
     /\ UNCHANGED <<lpc, quit, looping, calling, pending, functors, wakeupFd,
                    active, ready, wake, queued, ran, quitBy>>
  \/ a # Loop /\ QueueInLoop(a, f)

(* Fault: quit() only sets the flag. *)
QuitWithoutWakeup(a) ==
  /\ MayCall(a)
  /\ a \notin quitBy
  /\ quit' = TRUE
  /\ quitBy' = quitBy \union {a}
  /\ UNCHANGED <<lpc, looping, calling, wakeupFd, active, ready, wake, queueVars>>

(* quit_ = true; then wakeup() when called off the loop thread.             *)
(* Bound: each actor calls quit() at most once.                             *)
Quit(a) ==
  /\ MayCall(a)
  /\ a \notin quitBy
  /\ quit' = TRUE
  /\ quitBy' = quitBy \union {a}
  /\ wake' = IF a # Loop THEN wake \union {a} ELSE wake
  /\ UNCHANGED <<lpc, looping, calling, wakeupFd, active, ready, queueVars>>

(* The write to the eventfd that ends queueInLoop() and quit().             *)
WriteWakeup(a) ==
  /\ a \in wake
  /\ wake' = wake \ {a}
  /\ wakeupFd' = wakeupFd + 1
  /\ UNCHANGED <<lpc, quit, looping, calling, active, ready, quitBy, queueVars>>

-----------------------------------------------------------------------------
(* The loop thread.                                                        *)

(* loop() begins: looping_ = true, quit_ = false. *)
EnterLoop ==
  /\ lpc = "created"
  /\ lpc' = "check" /\ looping' = TRUE /\ quit' = FALSE
  /\ UNCHANGED <<calling, wakeupFd, active, ready, wake, quitBy, queueVars>>

(* while (!quit_): leave the loop, or go into poll(). *)
CheckQuit ==
  /\ lpc = "check"
  /\ lpc' = IF quit THEN "exited" ELSE "poll"
  /\ looping' = ~quit
  /\ active' = {}
  /\ UNCHANGED <<quit, calling, wakeupFd, ready, wake, quitBy, queueVars>>

(* Fault: the constructor forgets wakeupChannel_->enableReading(). *)
EventsWithoutWakeup == ready

(* The channels epoll_wait() reports (level triggered). *)
Events == ready \union (IF wakeupFd > 0 THEN {Wakeup} ELSE {})

(* epoll_wait() returns because something is ready. *)
Poll ==
  /\ lpc = "poll"
  /\ Events # {}
  /\ lpc' = "dispatch"
  /\ active' = Events
  /\ UNCHANGED <<quit, looping, calling, wakeupFd, ready, wake, quitBy,
                 queueVars>>

(* epoll_wait() returns empty handed: the timeout of 10^7 ms, or EINTR. *)
PollEmpty ==
  /\ lpc = "poll"
  /\ lpc' = "dispatch"
  /\ active' = {}
  /\ UNCHANGED <<quit, looping, calling, wakeupFd, ready, wake, quitBy,
                 queueVars>>

(* handleRead(): the read of the eventfd takes the whole counter. *)
HandleRead ==
  /\ lpc = "dispatch"
  /\ Wakeup \in active
  /\ active' = active \ {Wakeup}
  /\ wakeupFd' = 0
  /\ UNCHANGED <<lpc, quit, looping, calling, ready, wake, quitBy, queueVars>>

(* channel->handleEvent() of an I/O channel: it consumes the event and runs *)
(* the user's callback, which may call into the loop.                       *)
HandleEvent(c) ==
  /\ lpc = "dispatch"
  /\ c \in active
  /\ active' = active \ {c}
  /\ ready' = ready \ {c}
  /\ lpc' = "handler"
  /\ UNCHANGED <<quit, looping, calling, wakeupFd, wake, quitBy, queueVars>>

(* Fault: the vector is copied instead of swapped. *)
CopyPending ==
  /\ lpc = "dispatch"
  /\ active = {}
  /\ lpc' = "run"
  /\ calling' = TRUE
  /\ functors' = pending
  /\ UNCHANGED <<quit, looping, wakeupFd, active, ready, wake, quitBy,
                 pending, queued, ran, direct>>

(* doPendingFunctors(): callingPendingFunctors_ = true and the swap. *)
SwapPending ==
  /\ lpc = "dispatch"
  /\ active = {}
  /\ lpc' = "run"
  /\ calling' = TRUE
  /\ functors' = pending
  /\ pending' = <<>>
  /\ UNCHANGED <<quit, looping, wakeupFd, active, ready, wake, quitBy,
                 queued, ran, direct>>

(* The next functor of the vector is called. *)
RunFunctor ==
  /\ lpc = "run"
  /\ functors # <<>>
  /\ lpc' = "functor"
  /\ ran' = Append(ran, Head(functors))
  /\ functors' = Tail(functors)
  /\ UNCHANGED <<quit, looping, calling, wakeupFd, active, ready, wake, quitBy,
                 pending, queued, direct>>

(* The handler or the functor returns. *)
CallbackReturns ==
  /\ InCallback
  /\ Loop \notin wake
  /\ lpc' = IF lpc = "handler" THEN "dispatch" ELSE "run"
  /\ UNCHANGED <<quit, looping, calling, wakeupFd, active, ready, wake, quitBy,
                 queueVars>>

(* callingPendingFunctors_ = false: back to the test of quit_. *)
PendingDone ==
  /\ lpc = "run"
  /\ functors = <<>>
  /\ lpc' = "check"
  /\ calling' = FALSE
  /\ UNCHANGED <<quit, looping, wakeupFd, active, ready, wake, quitBy,
                 queueVars>>

(* The kernel: a descriptor gets an event. *)
IoEvent(c) ==
  /\ c \notin ready
  /\ ready' = ready \union {c}
  /\ UNCHANGED <<lpc, quit, looping, calling, wakeupFd, active, wake, quitBy,
                 queueVars>>

-----------------------------------------------------------------------------
LoopStep == \/ EnterLoop \/ CheckQuit \/ Poll \/ HandleRead
            \/ \E c \in Channels : HandleEvent(c)
            \/ SwapPending \/ RunFunctor \/ CallbackReturns \/ PendingDone

Next == \/ LoopStep \/ PollEmpty
        \/ \E a \in Actors : \/ \E f \in Functors : \/ QueueInLoop(a, f)
                                                    \/ RunInLoop(a, f)
                             \/ Quit(a)
                             \/ WriteWakeup(a)
        \/ \E c \in Channels : IoEvent(c)

SafeSpec == Init /\ [][Next]_vars

(* The operating system runs every thread, and callbacks return.  Nothing   *)
(* forces poll() to time out, a thread to call, or an event to happen.      *)
Fairness == /\ WF_vars(LoopStep)
            /\ \A a \in Actors : WF_vars(WriteWakeup(a))

Spec == SafeSpec /\ Fairness

-----------------------------------------------------------------------------
(* What makes the loop correct.                                            *)

(* The variables keep their types, and callingPendingFunctors_ is true      *)
(* exactly while doPendingFunctors() runs.                                  *)
TypeOK ==
  /\ lpc \in {"created", "check", "poll", "dispatch", "handler", "run",
              "functor", "exited"}
  /\ quit \in BOOLEAN /\ looping \in BOOLEAN
  /\ calling \in BOOLEAN /\ (calling <=> lpc \in {"run", "functor"})
  /\ pending \in Seq(Functors) /\ functors \in Seq(Functors)
  /\ wakeupFd \in Nat
  /\ active \subseteq Channels \union {Wakeup}
  /\ ready \subseteq Channels
  /\ wake \subseteq Actors
  /\ queued \in Seq(Functors) /\ ran \in Seq(Functors)
  /\ direct \subseteq Functors
  /\ quitBy \subseteq Actors

(* The eventfd is raised, or a thread is on its way to raise it. *)
WakeupComing == wakeupFd > 0 \/ wake # {}

(* No lost wakeup (queueInLoop, quit, handleRead, doPendingFunctors): the   *)
(* loop never sits in poll() over a functor or a quit() it has not been,    *)
(* and is not about to be, woken for.                                       *)
NoLostWakeup == lpc = "poll" /\ (pending # <<>> \/ quit) => WakeupComing

(* Nothing is lost, duplicated or reordered between the push in             *)
(* queueInLoop() and the call in doPendingFunctors(), whatever the threads  *)
(* and nested queueInLoop() calls do around the swap.                       *)
HandoverInOrder == queued = ran \o functors \o pending

(* ... and outside doPendingFunctors() nothing is left swapped out. *)
HandoverInv ==
  /\ HandoverInOrder
  /\ lpc \notin {"run", "functor"} => functors = <<>>

(* The strengthening that makes NoLostWakeup inductive: what it says of     *)
(* functors holds before loop() and from every swap on, and quit_ can only  *)
(* be found set in poll() when another thread set it after the test.        *)
WakeupInv ==
  /\ lpc \in {"created", "run", "functor", "check", "poll"} /\ pending # <<>>
       => WakeupComing
  /\ lpc = "poll" /\ quit => WakeupComing

(* A quit() that finds the loop looping stops it. *)
QuitStopsRunningLoop == quit /\ looping ~> lpc = "exited"

(* The loop implements the executor its callers rely on. *)
Executor == INSTANCE FunctorExecutor WITH
  waiting <- functors \o pending,
  done    <- ran,
  asked   <- quitBy # {},
  stopped <- lpc = "exited"

ExecutorSpec == Executor!Spec
=============================================================================
