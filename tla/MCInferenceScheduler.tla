------------------------ MODULE MCInferenceScheduler ------------------------
(* Two workers, a queue of two and five requests, one of them for a model    *)
(* and one for a backend the registry does not have: the queue fills up and  *)
(* overflows, both workers are busy at once, and stop() finds tasks waiting. *)
EXTENDS InferenceScheduler

CONSTANTS w1, w2, r1, r2, r3, noModel, noBackend

MCWorkers == {w1, w2}
MCTasks   == {r1, r2, r3, noModel, noBackend}
MCRoute   == [t \in MCTasks |-> CASE t = noModel   -> "noModel"
                                  [] t = noBackend -> "noBackend"
                                  [] OTHER         -> "ok"]
=============================================================================
