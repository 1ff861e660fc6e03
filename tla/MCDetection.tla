----------------------------- MODULE MCDetection ------------------------------
(* The three parts of detection, which share no state: a behaviour is one of *)
(* any of them.  Images of all shapes around a canvas of six by six, outputs *)
(* of three candidates that overlap, tie, lie outside or are too unsure; two *)
(* workers on each kind of backend; and the stand-alone detector on pictures *)
(* and short videos.                                                         *)
EXTENDS End2End, InferenceBackend

VARIABLE part

MCImages == {[encoding |-> "whole", width |-> w, height |-> h] :
               w \in {0, 1, 2, 5, 7, 9, 10}, h \in {1, 3, 6, 8, 9, 10}}
            \union {[encoding |-> e, width |-> 3, height |-> 3] :
                      e \in {"empty", "unknown", "truncated"}}

Box(x, y, w, h, s) == [x |-> x, y |-> y, w |-> w, h |-> h, score |-> s]
Boxes == {Box(x, 3, w, 4, s) : x \in {1, 3, 4}, w \in {4, 6}, s \in {<<2, 1>>, <<1, 1>>}}
         \union {Box(2, 5, 8, 3, <<0, 3>>), Box(3, 3, 4, 4, <<1, 2>>),
                 Box(0, 0, 1, 1, <<3, 3>>), Box(3, 3, 9, 9, <<0, 0>>)}

MCOutputs == {<<a, b, c>> : a, b, c \in Boxes} \union {<<b>> : b \in Boxes}

Tensor(input, elements, dsize) == [input |-> input, elements |-> elements, dsize |-> dsize]
Canvas  == Tensor(TRUE, 3 * 6 * 6, 4)
Results == <<Tensor(FALSE, 1, 4), Tensor(FALSE, 8, 4), Tensor(FALSE, 2, 4), Tensor(FALSE, 2, 4)>>
MCEngines == {<<>>, <<Canvas>> \o Results, <<Head(Results), Canvas>> \o Tail(Results),
              <<[Canvas EXCEPT !.dsize = 2]>> \o Results, <<Canvas>> \o SubSeq(Results, 1, 3),
              <<Canvas, Results[1], Results[3]>> \o SubSeq(Results, 3, 4)}

Mat(w, h) == [width |-> w, height |-> h]
Argument(count, exists, suffix, opens, mats) ==
  [count |-> count, exists |-> exists, suffix |-> suffix, opens |-> opens, frames |-> mats]
MCArguments ==
  {Argument(2, FALSE, "other", FALSE, <<>>), Argument(3, TRUE, "other", FALSE, <<>>),
   Argument(3, FALSE, "image", FALSE, <<>>), Argument(3, TRUE, "video", FALSE, <<Mat(4, 4)>>),
   Argument(3, TRUE, "image", TRUE, <<Mat(0, 0)>>)}
  \union {Argument(3, TRUE, "image", TRUE, <<Mat(w, h)>>) : w, h \in {1, 2, 5, 7, 13}}
  \union {Argument(3, TRUE, "video", TRUE, <<Mat(w, 5), Mat(w, 5), Mat(8, w)>>) : w \in {3, 6, 7}}
MCFindings == {[x0 |-> 0, y0 |-> 0, x1 |-> 6, y1 |-> 6], [x0 |-> 2, y0 |-> 1, x1 |-> 4, y1 |-> 6]}

MCInit ==
  /\ part \in {"processor", "backend", "end2end"}
  /\ ProcessorInit /\ BackendInit /\ End2EndInit
  /\ part # "processor" => image = [encoding |-> "empty", width |-> 3, height |-> 3]
  /\ part # "backend" => kind = "mock" /\ contract
  /\ part # "end2end" => engine = <<>> /\ argument.count # 3

MCNext ==
  \/ part = "processor" /\ ProcessorNext /\ UNCHANGED <<backendVars, end2endVars, part>>
  \/ part = "backend" /\ BackendNext /\ UNCHANGED <<processorVars, end2endVars, part>>
  \/ part = "end2end" /\ End2EndNext /\ UNCHANGED <<processorVars, backendVars, part>>

MCSpec == MCInit /\ [][MCNext]_<<processorVars, backendVars, end2endVars, part>>
=============================================================================
