--------------------------- MODULE EventLoopProofs ---------------------------
(***************************************************************************)
(* Proofs about EventLoop, for any number of threads, functors and          *)
(* channels: types, no lost wakeup, no lost quit, hand-over in order, and   *)
(* the safety part of the refinement of FunctorExecutor.                    *)
(***************************************************************************)
EXTENDS EventLoop, SequenceFacts, TLAPS

(* Every variable keeps its type, and callingPendingFunctors_ is set        *)
(* exactly while doPendingFunctors() runs.                                  *)
THEOREM TypeCorrect == SafeSpec => []TypeOK
<1>1. Init => TypeOK
  <2> SUFFICES ASSUME Init PROVE TypeOK
    OBVIOUS
  <2>1. ~calling /\ calling \in BOOLEAN /\ quit \in BOOLEAN /\ looping \in BOOLEAN
    BY Zenon DEF Init
  <2> QED
    BY <2>1 DEF Init, TypeOK
<1>2. TypeOK /\ [Next]_vars => TypeOK'
  <2> SUFFICES ASSUME TypeOK, [Next]_vars PROVE TypeOK'
    OBVIOUS
  <2> USE DEF TypeOK, queueVars
  <2>1. ASSUME NEW a \in Actors, NEW f \in Functors, QueueInLoop(a, f)
        PROVE  TypeOK'
    BY <2>1 DEF QueueInLoop
  <2>2. ASSUME NEW a \in Actors, NEW f \in Functors, RunInLoop(a, f)
        PROVE  TypeOK'
    BY <2>1, <2>2 DEF RunInLoop
  <2>3. ASSUME NEW a \in Actors, Quit(a) PROVE TypeOK'
    BY <2>3 DEF Quit
  <2>4. ASSUME NEW a \in Actors, WriteWakeup(a) PROVE TypeOK'
    BY <2>4 DEF WriteWakeup
  <2>5. CASE EnterLoop
    BY <2>5 DEF EnterLoop
  <2>6. CASE CheckQuit
    BY <2>6 DEF CheckQuit
  <2>7. CASE Poll
    BY <2>7 DEF Poll, Events
  <2>8. CASE PollEmpty
    BY <2>8 DEF PollEmpty
  <2>9. CASE HandleRead
    BY <2>9 DEF HandleRead
  <2>10. ASSUME NEW c \in Channels, HandleEvent(c) PROVE TypeOK'
    BY <2>10 DEF HandleEvent
  <2>11. CASE SwapPending
    BY <2>11 DEF SwapPending
  <2>12. CASE RunFunctor
    BY <2>12 DEF RunFunctor
  <2>13. CASE CallbackReturns
    BY <2>13 DEF CallbackReturns, InCallback
  <2>14. CASE PendingDone
    BY <2>14 DEF PendingDone
  <2>15. ASSUME NEW c \in Channels, IoEvent(c) PROVE TypeOK'
    BY <2>15 DEF IoEvent
  <2>16. CASE UNCHANGED vars
    BY <2>16 DEF vars
  <2> QED
    BY <2>1, <2>2, <2>3, <2>4, <2>5, <2>6, <2>7, <2>8, <2>9, <2>10, <2>11,
       <2>12, <2>13, <2>14, <2>15, <2>16 DEF Next, LoopStep
<1> QED
  BY <1>1, <1>2, PTL DEF SafeSpec

-----------------------------------------------------------------------------
(* The wakeup strengthening is inductive: the pending vector is emptied by  *)
(* the swap, and whoever fills it afterwards raises the eventfd, which is   *)
(* drained only before the next swap.                                       *)
LEMMA WakeupStep == TypeOK /\ WakeupInv /\ [Next]_vars => WakeupInv'
<1> SUFFICES ASSUME TypeOK, WakeupInv, [Next]_vars PROVE WakeupInv'
  OBVIOUS
<1> USE DEF TypeOK, WakeupInv, WakeupComing, queueVars
<1>1. ASSUME NEW a \in Actors, NEW f \in Functors, QueueInLoop(a, f)
      PROVE  WakeupInv'
  <2>1. CASE a # Loop \/ calling
    BY <1>1, <2>1 DEF QueueInLoop
  <2>2. CASE a = Loop /\ ~calling
    BY <1>1, <2>2 DEF QueueInLoop, MayCall, InCallback
  <2> QED
    BY <2>1, <2>2
<1>2. ASSUME NEW a \in Actors, NEW f \in Functors, RunInLoop(a, f)
      PROVE  WakeupInv'
  BY <1>1, <1>2 DEF RunInLoop
<1>3. ASSUME NEW a \in Actors, Quit(a) PROVE WakeupInv'
  BY <1>3 DEF Quit, MayCall, InCallback
<1>4. ASSUME NEW a \in Actors, WriteWakeup(a) PROVE WakeupInv'
  BY <1>4 DEF WriteWakeup
<1>5. CASE EnterLoop \/ CheckQuit
  BY <1>5 DEF EnterLoop, CheckQuit
<1>6. CASE Poll \/ PollEmpty \/ HandleRead
  BY <1>6 DEF Poll, PollEmpty, HandleRead
<1>7. ASSUME NEW c \in Channels, HandleEvent(c) \/ IoEvent(c) PROVE WakeupInv'
  BY <1>7 DEF HandleEvent, IoEvent
<1>8. CASE SwapPending \/ RunFunctor \/ PendingDone
  BY <1>8 DEF SwapPending, RunFunctor, PendingDone
<1>9. CASE CallbackReturns
  BY <1>9 DEF CallbackReturns, InCallback
<1>10. CASE UNCHANGED vars
  BY <1>10 DEF vars
<1> QED
  BY <1>1, <1>2, <1>3, <1>4, <1>5, <1>6, <1>7, <1>8, <1>9, <1>10
     DEF Next, LoopStep

(* queueInLoop() and quit() never leave the loop asleep: whenever it is in  *)
(* poll() with a functor pending or quit_ set, its eventfd is raised or a   *)
(* thread is about to raise it.                                             *)
THEOREM WakeupsNotLost == SafeSpec => []NoLostWakeup
<1>1. Init => WakeupInv
  BY DEF Init, WakeupInv
<1>2. WakeupInv => NoLostWakeup
  BY DEF WakeupInv, NoLostWakeup
<1> QED
  BY <1>1, <1>2, TypeCorrect, WakeupStep, PTL DEF SafeSpec

-----------------------------------------------------------------------------
(* The hand-over equation is inductive: a push extends both sides at the    *)
(* back, the swap moves the border, a call moves a head.                    *)
LEMMA HandoverStep ==
  TypeOK /\ HandoverInv /\ [Next]_vars => HandoverInv'
<1> SUFFICES ASSUME TypeOK, HandoverInv, [Next]_vars PROVE HandoverInv'
  OBVIOUS
<1>t. /\ pending \in Seq(Functors) /\ functors \in Seq(Functors)
      /\ ran \in Seq(Functors)
  BY DEF TypeOK
<1>c. functors \o pending \in Seq(Functors) /\ ran \o functors \in Seq(Functors)
  BY <1>t, ConcatProperties
<1> USE DEF HandoverInv, HandoverInOrder, queueVars
<1>1. ASSUME NEW a \in Actors, NEW f \in Functors, QueueInLoop(a, f)
      PROVE  HandoverInv'
  <2>1. ran \o functors \o Append(pending, f) = Append(ran \o functors \o pending, f)
    BY <1>t, <1>c, ConcatAppend
  <2>2. UNCHANGED <<lpc, ran, functors>> /\ pending' = Append(pending, f)
        /\ queued' = Append(queued, f)
    BY <1>1 DEF QueueInLoop
  <2> QED
    BY <2>1, <2>2
<1>2. ASSUME NEW a \in Actors, NEW f \in Functors, RunInLoop(a, f)
      PROVE  HandoverInv'
  BY <1>1, <1>2 DEF RunInLoop
<1>3. ASSUME NEW a \in Actors, Quit(a) \/ WriteWakeup(a) PROVE HandoverInv'
  BY <1>3 DEF Quit, WriteWakeup
<1>4. CASE EnterLoop \/ CheckQuit \/ Poll \/ PollEmpty \/ HandleRead \/ PendingDone
  BY <1>4 DEF EnterLoop, CheckQuit, Poll, PollEmpty, HandleRead, PendingDone
<1>5. ASSUME NEW c \in Channels, HandleEvent(c) \/ IoEvent(c) PROVE HandoverInv'
  BY <1>5 DEF HandleEvent, IoEvent
<1>6. CASE SwapPending
  <2>1. functors = <<>> /\ functors' = pending /\ pending' = <<>>
        /\ UNCHANGED <<ran, queued>> /\ lpc' = "run"
    BY <1>6 DEF SwapPending
  <2>2. ran \o <<>> = ran /\ ran \o pending \in Seq(Functors)
    BY <1>t, ConcatEmptySeq, ConcatProperties
  <2>3. (ran \o pending) \o <<>> = ran \o pending
    BY <2>2, ConcatEmptySeq
  <2> QED
    BY <2>1, <2>2, <2>3
<1>7. CASE RunFunctor
  <2>1. /\ functors # <<>> /\ ran' = Append(ran, Head(functors))
        /\ functors' = Tail(functors) /\ UNCHANGED <<pending, queued>>
        /\ lpc' = "functor"
    BY <1>7 DEF RunFunctor
  <2>2. Append(ran, Head(functors)) \o Tail(functors) = ran \o functors
    BY <1>t, <2>1, MoveHead
  <2> QED
    BY <2>1, <2>2
<1>8. CASE CallbackReturns
  BY <1>8 DEF CallbackReturns, InCallback
<1>9. CASE UNCHANGED vars
  BY <1>9 DEF vars
<1> QED
  BY <1>1, <1>2, <1>3, <1>4, <1>5, <1>6, <1>7, <1>8, <1>9 DEF Next, LoopStep

(* queueInLoop() to doPendingFunctors(): the functors that were run, then   *)
(* those swapped out, then those pending are the functors queued, in the    *)
(* order they were queued.                                                  *)
THEOREM HandedOverInOrder == SafeSpec => []HandoverInOrder
<1>1. Init => HandoverInv
  BY DEF Init, HandoverInv, HandoverInOrder
<1>2. HandoverInv => HandoverInOrder
  BY DEF HandoverInv
<1> QED
  BY <1>1, <1>2, TypeCorrect, HandoverStep, PTL DEF SafeSpec

(* quit_ is only ever set by quit(). *)
Asked == quit => quitBy # {}

(* Only quit() sets quit_, and it records who called it. *)
LEMMA AskedStep == TypeOK /\ Asked /\ [Next]_vars => Asked'
<1> SUFFICES ASSUME TypeOK, Asked, [Next]_vars PROVE Asked'
  OBVIOUS
<1> USE DEF Asked, TypeOK, queueVars
<1>1. ASSUME NEW a \in Actors, Quit(a) PROVE Asked'
  BY <1>1 DEF Quit
<1>2. CASE EnterLoop
  BY <1>2 DEF EnterLoop
<1>3. ASSUME UNCHANGED <<quit, quitBy>> PROVE Asked'
  BY <1>3
<1> QED
  BY <1>1, <1>2, <1>3
     DEF Next, LoopStep, vars, QueueInLoop, RunInLoop, WriteWakeup, CheckQuit,
         Poll, PollEmpty, HandleRead, HandleEvent, SwapPending, RunFunctor,
         CallbackReturns, PendingDone, IoEvent

(* Every behaviour of the loop is, through the refinement mapping, a        *)
(* behaviour of the executor of FunctorExecutor (without its fairness).     *)
THEOREM ImplementsExecutor == SafeSpec => Executor!SafeSpec
<1>1. Init => Executor!Init
  BY ConcatEmptySeq, SMT DEF Init, Executor!Init
<1>2. TypeOK /\ HandoverInv /\ Asked /\ [Next]_vars => [Executor!Next]_(Executor!avars)
  <2> SUFFICES ASSUME TypeOK, HandoverInv, Asked, [Next]_vars
               PROVE  Executor!Next \/ UNCHANGED Executor!avars
    OBVIOUS
  <2>t. /\ pending \in Seq(Functors) /\ functors \in Seq(Functors)
        /\ ran \in Seq(Functors)
    BY DEF TypeOK
  <2> USE DEF queueVars, Executor!avars
  <2>1. ASSUME NEW a \in Actors, NEW f \in Functors, QueueInLoop(a, f)
        PROVE  Executor!Next
    <3>1. /\ UNCHANGED <<lpc, ran, functors, quitBy>>
          /\ pending' = Append(pending, f)
      BY <2>1 DEF QueueInLoop
    <3>2. functors \o Append(pending, f) = Append(functors \o pending, f)
      BY <2>t, ConcatAppend
    <3>3. (functors \o pending)' = Append(functors \o pending, f)
      BY <3>1, <3>2
    <3>4. Executor!Submit
      BY <3>1, <3>3 DEF Executor!Submit
    <3> QED
      BY <3>4 DEF Executor!Next
  <2>2. ASSUME NEW a \in Actors, NEW f \in Functors, RunInLoop(a, f)
        PROVE  Executor!Next \/ UNCHANGED Executor!avars
    BY <2>1, <2>2 DEF RunInLoop
  <2>3. ASSUME NEW a \in Actors, Quit(a) PROVE Executor!Next
    BY <2>3 DEF Quit, Executor!Next, Executor!Ask
  <2>4. ASSUME NEW a \in Actors, WriteWakeup(a) PROVE UNCHANGED Executor!avars
    BY <2>4 DEF WriteWakeup
  <2>5. CASE EnterLoop \/ Poll \/ PollEmpty \/ HandleRead \/ PendingDone
    BY <2>5 DEF EnterLoop, Poll, PollEmpty, HandleRead, PendingDone
  <2>6. CASE CheckQuit
    BY <2>6 DEF CheckQuit, Asked, Executor!Next, Executor!Stop
  <2>7. ASSUME NEW c \in Channels, HandleEvent(c) \/ IoEvent(c)
        PROVE  UNCHANGED Executor!avars
    BY <2>7 DEF HandleEvent, IoEvent
  <2>8. CASE SwapPending
    <3>1. /\ functors = <<>> /\ functors' = pending /\ pending' = <<>>
          /\ UNCHANGED <<ran, quitBy>> /\ lpc = "dispatch" /\ lpc' = "run"
      BY <2>8 DEF SwapPending, HandoverInv
    <3>2. functors \o pending = pending \o <<>>
      BY <2>t, <3>1, ConcatEmptySeq
    <3> QED
      BY <3>1, <3>2
  <2>9. CASE RunFunctor
    <3>1. /\ functors # <<>> /\ ran' = Append(ran, Head(functors))
          /\ functors' = Tail(functors) /\ UNCHANGED <<pending, quitBy>>
          /\ lpc = "run" /\ lpc' = "functor"
      BY <2>9 DEF RunFunctor
    <3>2. /\ functors \o pending # <<>>
          /\ Head(functors \o pending) = Head(functors)
          /\ Tail(functors \o pending) = Tail(functors) \o pending
      BY <2>t, <3>1, ConcatHeadTail
    <3> QED
      BY <3>1, <3>2 DEF Executor!Next, Executor!Execute
  <2>10. CASE CallbackReturns
    BY <2>10 DEF CallbackReturns, InCallback
  <2>11. CASE UNCHANGED vars
    BY <2>11 DEF vars
  <2> QED
    BY <2>1, <2>2, <2>3, <2>4, <2>5, <2>6, <2>7, <2>8, <2>9, <2>10, <2>11
       DEF Next, LoopStep
<1>3. Init => HandoverInv /\ Asked
  BY DEF Init, HandoverInv, HandoverInOrder, Asked
<1> QED
  BY <1>1, <1>2, <1>3, TypeCorrect, HandoverStep, AskedStep, PTL
     DEF SafeSpec, Executor!SafeSpec
=============================================================================
