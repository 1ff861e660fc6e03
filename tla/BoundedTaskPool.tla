--------------------------- MODULE BoundedTaskPool ---------------------------
(***************************************************************************)
(* What InferenceScheduler promises to the code that submits to it, without *)
(* locks, condition variables or a stop protocol: at most Capacity tasks    *)
(* wait, at most Width are in progress, tasks begin in the order they were  *)
(* accepted, and every accepted task is finished exactly once.              *)
(***************************************************************************)
EXTENDS Naturals, Sequences, FiniteSets

CONSTANTS Tasks, Capacity, Width

VARIABLES line,         \* accepted and waiting, first in first out
          inProgress,   \* taken from the line and not finished
          finished      \* completion called

pvars == <<line, inProgress, finished>>

Init == line = <<>> /\ inProgress = {} /\ finished = {}

Known == {line[i] : i \in 1 .. Len(line)} \union inProgress \union finished

Accept(t) == /\ t \notin Known
             /\ Len(line) < Capacity
             /\ line' = Append(line, t)
             /\ UNCHANGED <<inProgress, finished>>

Begin == /\ line # <<>>
         /\ Cardinality(inProgress) < Width
         /\ inProgress' = inProgress \union {Head(line)}
         /\ line' = Tail(line)
         /\ UNCHANGED finished

Finish(t) == /\ t \in inProgress
             /\ inProgress' = inProgress \ {t}
             /\ finished' = finished \union {t}
             /\ UNCHANGED line

Next == Begin \/ \E t \in Tasks : Accept(t) \/ Finish(t)

Fairness == WF_pvars(Begin) /\ \A t \in Tasks : WF_pvars(Finish(t))

SafeSpec == Init /\ [][Next]_pvars

Spec == SafeSpec /\ Fairness
=============================================================================
