-------------------------- MODULE MCInferenceService --------------------------
(* Registry files with valid, invalid, disabled and repeated entries,        *)
(* against builds with both, one or no backend, and settings in and out of   *)
(* range; three requests, one of them invalid in one way or two, with a line *)
(* of one and a single worker unless the settings say otherwise; durations   *)
(* within both bounds of the histograms, one or none.                        *)
EXTENDS InferenceService

Entry(name, backend, priority, enabled, valid) ==
  [name |-> name, backend |-> backend, priority |-> priority,
   enabled |-> enabled, valid |-> valid]

TF  == Entry("m1", "tensorflow", 1, TRUE, TRUE)
RT  == Entry("m1", "tensorrt", 2, TRUE, TRUE)
Off == Entry("m1", "tensorrt", 1, FALSE, FALSE)
Bad == Entry("m2", "tensorrt", 1, TRUE, FALSE)
M2  == Entry("m2", "tensorrt", 1, TRUE, TRUE)

Both == {"tensorflow", "tensorrt"}

Unset == [port |-> <<>>, workers |-> <<>>, capacity |-> <<>>]

Doc(models, backends) == [settings |-> Unset, readable |-> TRUE, default |-> "m1",
                          models |-> models, built |-> backends]

MCInstallations ==
  {[Doc(<<TF>>, Both) EXCEPT !.readable = FALSE],
   [Doc(<<TF>>, Both) EXCEPT !.settings.port = <<9>>],
   [Doc(<<TF>>, Both) EXCEPT !.settings.workers = <<0>>],
   [Doc(<<RT>>, Both) EXCEPT !.settings.capacity = <<2>>], Doc(<<>>, Both), Doc(<<>>, {}),
   Doc(<<RT, TF>>, {"tensorflow"}), Doc(<<TF, M2, RT>>, Both),
   Doc(<<RT, Off, TF, RT>>, Both), Doc(<<M2>>, Both), Doc(<<TF, M2, Bad>>, Both)}
    \union {[Doc(<<Off, M2, TF>>, Both) EXCEPT !.default = ""]}
    \union {Doc(<<TF, e>>, Both) : e \in {TF, Off, Bad}}

Ask(model, backend) ==
  [method |-> "POST", files |-> 1, field |-> "image", bytes |-> 9, type |-> "image/png",
   model |-> model, backend |-> backend, threshold |-> <<>>]

MCRequests == 1 .. 3

MCWanted == <<Ask("", ""),
              [Ask("m1", "tensorrt") EXCEPT !.threshold = <<10>>],
              [Ask("m1", "auto") EXCEPT !.bytes = 0, !.threshold = <<11>>]>>

MCSettings == [port     |-> [fallback |-> 3, maximum |-> 4],
               workers  |-> [fallback |-> 1, maximum |-> 2],
               capacity |-> [fallback |-> 1, maximum |-> 2]]

MCBounds == <<0, 1>>

Took(queue, backend) == [queue |-> queue, backend |-> backend, total |-> queue + backend]

MCTimings == {Took(0, 0), Took(0, 1), Took(1, 1)}
=============================================================================
