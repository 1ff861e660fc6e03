--------------------------- MODULE FunctorExecutor ---------------------------
(***************************************************************************)
(* What EventLoop::queueInLoop promises to its callers, with no mention of  *)
(* locks, eventfds or poll: the functors handed to a loop run one after     *)
(* another, each at most once, in the order they were handed over, until    *)
(* somebody asks the loop to stop.                                          *)
(***************************************************************************)
EXTENDS Sequences

CONSTANT Functors       \* the callbacks that may be handed to the loop

VARIABLES waiting,      \* handed over and not yet run
          done,         \* run, in the order they ran
          asked,        \* somebody asked the loop to stop
          stopped       \* the loop has stopped

avars == <<waiting, done, asked, stopped>>

Init == /\ waiting = <<>>
        /\ done = <<>>
        /\ asked = FALSE
        /\ stopped = FALSE

(* Handing over is possible at any time, even to a stopped loop. *)
Submit == /\ \E f \in Functors : waiting' = Append(waiting, f)
          /\ UNCHANGED <<done, asked, stopped>>

Execute == /\ ~stopped
           /\ waiting # <<>>
           /\ waiting' = Tail(waiting)
           /\ done' = Append(done, Head(waiting))
           /\ UNCHANGED <<asked, stopped>>

Ask == /\ asked' = TRUE
       /\ UNCHANGED <<waiting, done, stopped>>

(* Stopping is never spontaneous; what still waits then never runs. *)
Stop == /\ asked
        /\ stopped' = TRUE
        /\ UNCHANGED <<waiting, done, asked>>

Next == Submit \/ Execute \/ Ask \/ Stop

SafeSpec == Init /\ [][Next]_avars

(* A loop that is not stopped keeps running what waits. *)
Spec == SafeSpec /\ WF_avars(Execute)
=============================================================================
