---------------------------- MODULE YoloV8Processor ----------------------------
(***************************************************************************)
(* inference/YoloV8Processor.cc: an encoded image becomes the input tensor  *)
(* of the network (decoded, scaled to fit and centred on grey), and the raw *)
(* output of the network becomes detections in the image's own pixels.      *)
(*                                                                          *)
(* Floats are read as the rationals they stand for.  The scale is           *)
(* num / den; lengths in the image are counted in units of 1 / (2 num), in  *)
(* which every coordinate of a box is an integer.                           *)
(***************************************************************************)
EXTENDS Integers, Sequences, SequencesExt, FiniteSets, FiniteSetsExt

CONSTANTS InputWidth, InputHeight,  \* kInputWidth, kInputHeight
          ClassCount,               \* kClassCount
          CandidateCount,           \* kCandidateCount
          MaxSide, MaxPixels,       \* the limits on an image
          ConfidenceThreshold,      \* of a request, on the scale of the scores
          NmsPercent,               \* nmsThreshold in percent
          Images,                   \* bound: the images of requests
          Outputs                   \* bound: the outputs of the network

ASSUME ProcessorAssumption ==
  /\ {InputWidth, InputHeight, ClassCount, CandidateCount, MaxSide} \subseteq Nat \ {0}
  /\ NmsPercent \in 0 .. 100

(* A candidate of the network: a box of the canvas, and a score per class. *)
Candidate == [x : Int, y : Int, w : Int, h : Int, score : [1 .. ClassCount -> Int]]

ASSUME OutputAssumption ==
  /\ ConfidenceThreshold \in Int
  /\ \A output \in Outputs : output \in Seq(Candidate)

VARIABLES image,     \* the ImageData of a request
          pre,       \* the PreprocessedImage; NoImage before it is there
          raw,       \* the network's output; <<>> before it is there
          detections \* what postprocess() returned

processorVars == <<image, pre, raw, detections>>

NoImage == [ok |-> FALSE, error |-> ""]

-----------------------------------------------------------------------------
(* preprocess() *)

(* stbi_info_from_memory() knows the header, stbi_load_from_memory() the rest. *)
HeaderRead(img) == img.encoding \in {"truncated", "whole"}
Decoded(img)    == img.encoding = "whole"

WithinLimits(img) == /\ img.width \in 1 .. MaxSide /\ img.height \in 1 .. MaxSide
                     /\ img.width * img.height <= MaxPixels

(* std::round() of n / d >= 0 *)
Rounded(n, d) == (2 * n + d) \div (2 * d)

Scale(width, height) == IF InputWidth * height <= InputHeight * width
                          THEN [num |-> InputWidth,  den |-> width]
                          ELSE [num |-> InputHeight, den |-> height]

(* Fault: the image is scaled to cover the canvas instead of to fit in it. *)
LetterboxCovers(width, height) ==
  LET s == IF InputWidth * height >= InputHeight * width
             THEN [num |-> InputWidth,  den |-> width]
             ELSE [num |-> InputHeight, den |-> height]
      w == Rounded(width * s.num, s.den)
      h == Rounded(height * s.num, s.den)
  IN [ok |-> TRUE, width |-> width, height |-> height, num |-> s.num, den |-> s.den,
      resizedWidth |-> w, resizedHeight |-> h,
      padX |-> (InputWidth - w) \div 2, padY |-> (InputHeight - h) \div 2]

Letterbox(width, height) ==
  LET s == Scale(width, height)
      w == Rounded(width * s.num, s.den)
      h == Rounded(height * s.num, s.den)
  IN [ok |-> TRUE, width |-> width, height |-> height, num |-> s.num, den |-> s.den,
      resizedWidth |-> w, resizedHeight |-> h,
      padX |-> (InputWidth - w) \div 2, padY |-> (InputHeight - h) \div 2]

(* The bilinear sample for row (or column) t of the scaled image: the two   *)
(* source rows, and the weight of the second in units of 1 / (2 num).       *)
Sample(t, p, size) ==
  LET position == (2 * t + 1) * p.den - p.num
      first == Max({0, Min({size - 1, position \div (2 * p.num)})})
  IN [first |-> first, second |-> Min({size - 1, first + 1}),
      weight |-> position % (2 * p.num)]

(* The place of channel c of pixel (x, y) in the tensor, and the one of a   *)
(* sample in the decoded pixels.                                            *)
Target(p, x, y, c)     == ((p.padY + y) * InputWidth + p.padX + x) * 3 + c
Source(p, row, col, c) == (row * p.width + col) * 3 + c

Preprocess ==
  /\ pre = NoImage
  /\ LET error == IF image.encoding = "empty" THEN "empty"
                  ELSE IF ~(HeaderRead(image) /\ WithinLimits(image)) THEN "limits"
                  ELSE IF ~Decoded(image) THEN "decode" ELSE ""
     IN pre' = IF error # "" THEN [ok |-> FALSE, error |-> error]
                             ELSE Letterbox(image.width, image.height)
  /\ UNCHANGED <<image, raw, detections>>

-----------------------------------------------------------------------------
(* postprocess() *)

BestClass(score) ==
  CHOOSE c \in 1 .. ClassCount :
    /\ \A d \in 1 .. ClassCount : score[d] <= score[c]
    /\ \A d \in 1 .. c - 1 : score[d] < score[c]

Detection(candidate, p) ==
  LET left(center, length, pad) == Max({0, (2 * center - length - 2 * pad) * p.den})
      right(center, length, pad, size) ==
        Min({2 * size * p.num, (2 * center + length - 2 * pad) * p.den})
  IN [classId |-> BestClass(candidate.score),
      confidence |-> candidate.score[BestClass(candidate.score)],
      x1 |-> left(candidate.x, candidate.w, p.padX),
      y1 |-> left(candidate.y, candidate.h, p.padY),
      x2 |-> right(candidate.x, candidate.w, p.padX, p.width),
      y2 |-> right(candidate.y, candidate.h, p.padY, p.height)]

(* A candidate that is unsure, or whose box is empty, is passed over. *)
Collect(candidates, d) ==
  IF d.confidence >= ConfidenceThreshold /\ d.x2 > d.x1 /\ d.y2 > d.y1
    THEN Append(candidates, d) ELSE candidates

Candidates(output, p) ==
  FoldLeft(Collect, <<>>, [i \in 1 .. Len(output) |-> Detection(output[i], p)])

Area(d) == Max({0, d.x2 - d.x1}) * Max({0, d.y2 - d.y1})

(* intersectionOverUnion(a, b) > nmsThreshold *)
Overlap(a, b) ==
  LET both == Max({0, Min({a.x2, b.x2}) - Max({a.x1, b.x1})})
              * Max({0, Min({a.y2, b.y2}) - Max({a.y1, b.y1})})
      total == Area(a) + Area(b) - both
  IN total > 0 /\ 100 * both > NmsPercent * total

(* std::sort() by falling confidence: equal ones may come in any order. *)
Sorted(list) ==
  {[i \in 1 .. Len(list) |-> list[order[i]]] :
     order \in {o \in SetToSeqs(1 .. Len(list)) :
                  \A i \in 1 .. Len(list) - 1 :
                    list[o[i]].confidence >= list[o[i + 1]].confidence}}

(* Fault: a box is suppressed by any better one, kept or not. *)
SuppressAll(list) ==
  LET Best(i) == \A j \in 1 .. i - 1 : ~(list[i].classId = list[j].classId
                                         /\ Overlap(list[i], list[j]))
  IN FoldLeft(LAMBDA kept, i : IF Best(i) THEN Append(kept, list[i]) ELSE kept,
              <<>>, [i \in 1 .. Len(list) |-> i])

Select(selected, d) ==
  IF \E k \in Range(selected) : k.classId = d.classId /\ Overlap(d, k)
    THEN selected ELSE Append(selected, d)

Suppress(list) == FoldLeft(Select, <<>>, list)

(* An output of the wrong size has no detections at all. *)
Postprocess ==
  /\ pre.ok /\ raw = <<>>
  /\ raw' \in Outputs
  /\ IF Len(raw') # CandidateCount THEN detections' = <<>>
     ELSE \E sorted \in Sorted(Candidates(raw', pre)) : detections' = Suppress(sorted)
  /\ UNCHANGED <<image, pre>>

ProcessorInit == image \in Images /\ pre = NoImage /\ raw = <<>> /\ detections = <<>>
ProcessorNext == Preprocess \/ Postprocess
ProcessorSpec == ProcessorInit /\ [][ProcessorNext]_processorVars

-----------------------------------------------------------------------------
(* The scaled image lies inside the canvas and is centred to within a pixel, *)
(* so every store into the tensor is in range; every bilinear sample reads   *)
(* pixels that were decoded, whatever the shape of the image (a side may     *)
(* shrink to nothing).                                                       *)
TensorInBounds ==
  pre.ok =>
    /\ InputWidth - pre.resizedWidth - 2 * pre.padX \in {0, 1}
    /\ InputHeight - pre.resizedHeight - 2 * pre.padY \in {0, 1}
    /\ \A y \in 0 .. pre.resizedHeight - 1, x \in 0 .. pre.resizedWidth - 1 :
         LET row == Sample(y, pre, pre.height)
             col == Sample(x, pre, pre.width)
         IN /\ {Target(pre, x, y, 0), Target(pre, x, y, 2)}
                 \subseteq 0 .. 3 * InputWidth * InputHeight - 1
            /\ \A r \in {row.first, row.second}, k \in {col.first, col.second} :
                 Source(pre, r, k, 2) \in 2 .. 3 * pre.width * pre.height - 1

(* The detections are the ones non-maximum suppression stands for: each is a *)
(* candidate inside the image, best first; no two of a class overlap; and a  *)
(* candidate is missing only because a detection of its class at least as    *)
(* sure overlaps it.  Equal confidences may make the result differ, never    *)
(* wrong.                                                                    *)
SelectionRight ==
  Len(raw) = CandidateCount =>
    LET found == Range(detections)
        all   == Range(Candidates(raw, pre))
        Better(a, b) == a.classId = b.classId /\ a.confidence >= b.confidence /\ Overlap(a, b)
    IN /\ found \subseteq all
       /\ \A d \in found : 0 <= d.x1 /\ d.x1 < d.x2 /\ d.x2 <= 2 * pre.width * pre.num
                           /\ 0 <= d.y1 /\ d.y1 < d.y2 /\ d.y2 <= 2 * pre.height * pre.num
       /\ \A i, j \in 1 .. Len(detections) : i < j =>
            /\ detections[i].confidence >= detections[j].confidence
            /\ ~Better(detections[i], detections[j])
       /\ \A d \in all \ found : \E k \in found : Better(k, d)
=============================================================================
