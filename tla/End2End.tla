-------------------------------- MODULE End2End --------------------------------
(***************************************************************************)
(* The stand-alone detector: end2end/main.cpp and include/yolov8.hpp, on an *)
(* engine with non-maximum suppression inside, built for TensorRT 10 (where *)
(* buffers are set by the names of the bindings).  main() loads the engine, *)
(* allocates a device buffer for every binding and a host buffer for every  *)
(* output, then runs the frames of one file through them.                   *)
(*                                                                          *)
(* Lengths are counted as in YoloV8Processor, so that a half pixel is 1 and *)
(* a length in the image is a multiple of 1 / (2 num).                      *)
(***************************************************************************)
EXTENDS YoloV8Processor

CONSTANTS Engines,   \* sequences of bindings: [input, elements, dsize]
          Arguments, \* what the command line names:
                     \*   [count, exists, suffix, opens, frames]
          Findings   \* bound: boxes of an engine, [x0, y0, x1, y1] in its input

Mats == [width : Nat, height : Nat]    \* 0: what imread() makes of no image

Binding == [input : BOOLEAN, elements : Nat, dsize : Nat]

(* An engine takes one image: copy_from_Mat() looks at input_bindings[0]      *)
(* only, and the warm-up uses device_ptrs[0] for every input.  A file that    *)
(* exists and has the suffix of an image is one Mat; a box has its corners    *)
(* in order.                                                                  *)
ASSUME End2EndAssumption ==
  /\ \A e \in Engines : /\ e \in Seq(Binding)
                        /\ \A i, j \in 1 .. Len(e) : e[i].input /\ e[j].input => i = j
  /\ \A a \in Arguments : /\ a.frames \in Seq(Mats)
                          /\ a.exists /\ a.suffix = "image" => a.frames # <<>>
  /\ IsFiniteSet(Findings)
  /\ \A b \in Findings : /\ {b.x0, b.y0, b.x1, b.y1} \subseteq Int
                         /\ b.x0 <= b.x1 /\ b.y0 <= b.y1

VARIABLES
  engine, argument,
  pc,        \* where main() is
  inputs, outputs,         \* input_bindings, output_bindings
  devicePtrs, hostPtrs,    \* the sizes behind device_ptrs and host_ptrs
  address,   \* the device buffer set for each binding, by its name
  frames,    \* the frames not yet read
  frame,     \* image: the Mat that is processed
  pparam,    \* the letterbox of the frame; NoImage before there is one
  found,     \* the host buffers: whose output, and its boxes
  objs,      \* objs
  overrun    \* whether anything was copied or read past a buffer

pipe        == <<inputs, outputs, devicePtrs, hostPtrs, address>>
end2endVars == <<engine, argument, pc, pipe, frames, frame, pparam, found, objs, overrun>>

Nothing == [width |-> 0, height |-> 0]
Unread  == [of |-> Nothing, boxes |-> {}]

(* The elements of the tensor that letterbox() makes, floats of four bytes. *)
CanvasBytes == 3 * InputWidth * InputHeight * 4

Bytes(binding) == binding.elements * binding.dsize

End2EndInit ==
  /\ engine \in Engines /\ argument \in Arguments
  /\ pc = "start" /\ frames = <<>> /\ frame = Nothing
  /\ inputs = <<>> /\ outputs = <<>> /\ devicePtrs = <<>> /\ hostPtrs = <<>>
  /\ address = <<>> /\ pparam = NoImage /\ found = Unread /\ objs = <<>>
  /\ overrun = FALSE

Still == <<engine, argument>>

(* Wrong usage ends the program before it loads anything. *)
Usage ==
  /\ pc = "start" /\ argument.count # 3
  /\ pc' = "failed"
  /\ UNCHANGED <<Still, pipe, frames, frame, pparam, found, objs, overrun>>

Named(binding, i) == [name |-> i, bytes |-> Bytes(binding)]

NoBindings == [inputs |-> <<>>, outputs |-> <<>>]

(* A binding goes to input_bindings or to output_bindings. *)
Apart(parts, b) ==
  IF engine[b.name].input THEN [parts EXCEPT !.inputs = Append(@, b)]
                          ELSE [parts EXCEPT !.outputs = Append(@, b)]

Bindings == FoldLeft(Apart, NoBindings, [i \in 1 .. Len(engine) |-> Named(engine[i], i)])

(* YOLOv8::YOLOv8(): the bindings, inputs and outputs apart; the asserts    *)
(* abort on an engine that cannot be read.                                  *)
LoadEngine ==
  /\ pc = "start" /\ argument.count = 3
  /\ IF engine = <<>> THEN pc' = "aborted" /\ UNCHANGED <<inputs, outputs>>
     ELSE inputs' = Bindings.inputs /\ outputs' = Bindings.outputs /\ pc' = "make_pipe"
  /\ UNCHANGED <<Still, devicePtrs, hostPtrs, address, frames, frame, pparam,
                 found, objs, overrun>>

(* make_pipe(true): buffers for the inputs, then for the outputs, each set  *)
(* for its binding; ten warm-up runs copy every input to the first buffer.  *)
(* CHECK() ends the program when a call reports an error, here and below.   *)
MakePipe ==
  /\ pc = "make_pipe"
  /\ devicePtrs' = [i \in 1 .. Len(inputs \o outputs) |-> (inputs \o outputs)[i].bytes]
  /\ hostPtrs' = [i \in 1 .. Len(outputs) |-> outputs[i].bytes]
  /\ address' = [n \in 1 .. Len(engine) |->
                   CHOOSE i \in 1 .. Len(engine) : (inputs \o outputs)[i].name = n]
  /\ overrun' = \E i \in 1 .. Len(inputs) : inputs[i].bytes > devicePtrs'[1]
  /\ pc' \in {"arguments", "failed"}
  /\ UNCHANGED <<Still, inputs, outputs, frames, frame, pparam, found, objs>>

(* A path that exists is taken by its suffix, a directory too, which       *)
(* therefore ends in abort(); a path that does not exist names no images.   *)
ReadArguments ==
  /\ pc = "arguments"
  /\ \/ /\ argument.exists /\ argument.suffix = "image"
        /\ frames' = <<Head(argument.frames)>> /\ pc' = "frame"
     \/ /\ argument.exists /\ argument.suffix = "video"
        /\ frames' = argument.frames
        /\ pc' = IF argument.opens THEN "frame" ELSE "failed"
     \/ /\ argument.exists /\ argument.suffix = "other"
        /\ pc' = "aborted" /\ UNCHANGED frames
     \/ /\ ~argument.exists
        /\ pc' = "frame" /\ frames' = <<>>
  /\ UNCHANGED <<Still, pipe, frame, pparam, found, objs, overrun>>

-----------------------------------------------------------------------------
(* letterbox() *)

(* int(std::round(d / 2 - 0.1f)) and int(std::round(d / 2 + 0.1f)) *)
Before(d) == Rounded(Max({0, 5 * d - 1}), 10)
After(d)  == Rounded(5 * d + 1, 10)

(* Fault: both sides are rounded the same way. *)
LetterboxRounded(width, height) ==
  LET box == Letterbox(width, height)
      dw == InputWidth - box.resizedWidth
      dh == InputHeight - box.resizedHeight
  IN [ok |-> TRUE, width |-> width, height |-> height, num |-> box.num, den |-> box.den,
      dw |-> dw, dh |-> dh,
      canvasWidth  |-> Rounded(dw, 2) + box.resizedWidth + Rounded(dw, 2),
      canvasHeight |-> Rounded(dh, 2) + box.resizedHeight + Rounded(dh, 2)]

(* The scale and size as in preprocess(); dw and dh are kept in halves.     *)
LetterboxMat(width, height) ==
  LET s == Scale(width, height)
      padw == Rounded(width * s.num, s.den)
      padh == Rounded(height * s.num, s.den)
      dw == InputWidth - padw
      dh == InputHeight - padh
  IN [ok |-> TRUE, width |-> width, height |-> height, num |-> s.num, den |-> s.den,
      dw |-> dw, dh |-> dh,
      canvasWidth  |-> Before(dw) + padw + After(dw),
      canvasHeight |-> Before(dh) + padh + After(dh)]

(* A side that shrinks to nothing, or an image that cannot be read, ends    *)
(* in an exception of cv::resize().                                         *)
Resizable(f) == /\ f.width > 0 /\ f.height > 0
                /\ LET s == Scale(f.width, f.height)
                   IN Rounded(f.width * s.num, s.den) > 0 /\ Rounded(f.height * s.num, s.den) > 0

(* The first device buffer is that of an input, and takes the canvas.       *)
CanvasFits == inputs # <<>> /\ CanvasBytes <= devicePtrs[1]

(* copy_from_Mat(image, size): the canvas is copied to the first device     *)
(* buffer, of whatever size that is.  When it does not fit, the call may    *)
(* report it, or the copy may go past the buffer.                           *)
CopyFromMat ==
  /\ pc = "frame" /\ frames # <<>>
  /\ frame' = Head(frames) /\ frames' = Tail(frames) /\ objs' = <<>>
  /\ \/ ~Resizable(frame') /\ pc' = "aborted" /\ UNCHANGED <<pparam, overrun>>
     \/ /\ Resizable(frame')
        /\ pparam' = LetterboxMat(frame'.width, frame'.height)
        /\ overrun' = (overrun \/ ~CanvasFits)
        /\ \/ pc' \in {"infer", "failed"}
           \/ ~CanvasFits /\ pc' = "aborted"
  /\ UNCHANGED <<Still, pipe, found>>

(* infer(): the engine finds boxes, and every output is copied from the     *)
(* device buffer after those of the inputs.                                 *)
InferFrame ==
  /\ pc = "infer"
  /\ \E boxes \in SUBSET Findings : found' = [of |-> frame, boxes |-> boxes]
  /\ overrun' = (overrun \/ \E i \in 1 .. Len(outputs) :
                    \/ outputs[i].bytes # hostPtrs[i]
                    \/ outputs[i].bytes # devicePtrs[i + Len(inputs)]
                    \/ address[outputs[i].name] # i + Len(inputs))
  /\ pc' \in {"postprocess", "failed"}
  /\ UNCHANGED <<Still, pipe, frames, frame, pparam, objs>>

Clamp(val, low, high) == IF val > low THEN (IF val < high THEN val ELSE high) ELSE low

ObjectOf(b, p) ==
  [x0 |-> Clamp((2 * b.x0 - p.dw) * p.den, 0, 2 * p.width * p.num),
   y0 |-> Clamp((2 * b.y0 - p.dh) * p.den, 0, 2 * p.height * p.num),
   x1 |-> Clamp((2 * b.x1 - p.dw) * p.den, 0, 2 * p.width * p.num),
   y1 |-> Clamp((2 * b.y1 - p.dh) * p.den, 0, 2 * p.height * p.num)]

(* Four buffers of these sizes hold a count, and a box, a score and a label *)
(* for each of n findings.                                                  *)
HoldFindings(sizes, n) == /\ Len(sizes) >= 4 /\ sizes[1] >= 4
                          /\ sizes[2] >= 16 * n /\ sizes[3] >= 4 * n /\ sizes[4] >= 4 * n

(* postprocess() reads the first four host buffers, whatever there is.  Past *)
(* the end of host_ptrs or of a buffer it finds anything, of which some      *)
(* boxes stand for all, or it crashes.                                       *)
PostprocessMat ==
  /\ pc = "postprocess"
  /\ LET within == HoldFindings(hostPtrs, Cardinality(found.boxes))
     IN \/ /\ within
           /\ objs' = SetToSeq({ObjectOf(b, pparam) : b \in found.boxes})
           /\ pc' = "draw" /\ UNCHANGED overrun
        \/ /\ ~within /\ overrun' = TRUE /\ pc' \in {"draw", "aborted"}
           /\ \E boxes \in SUBSET Findings :
                objs' = SetToSeq({ObjectOf(b, pparam) : b \in boxes})
  /\ UNCHANGED <<Still, pipe, frames, frame, pparam, found>>

(* draw_objects(), and for a video the user's 'q'. *)
DrawObjects ==
  /\ pc = "draw"
  /\ \/ pc' = "frame" /\ UNCHANGED frames
     \/ argument.suffix = "video" /\ pc' = "frame" /\ frames' = <<>>
  /\ UNCHANGED <<Still, pipe, frame, pparam, found, objs, overrun>>

(* delete yolov8 *)
DeleteYolo ==
  /\ pc = "frame" /\ frames = <<>>
  /\ pc' \in {"done", "failed"} /\ devicePtrs' = <<>> /\ hostPtrs' = <<>> /\ address' = <<>>
  /\ UNCHANGED <<Still, inputs, outputs, frames, frame, pparam, found, objs, overrun>>

End2EndNext == \/ Usage \/ LoadEngine \/ MakePipe \/ ReadArguments \/ CopyFromMat
               \/ InferFrame \/ PostprocessMat \/ DrawObjects \/ DeleteYolo

End2EndSpec == End2EndInit /\ [][End2EndNext]_end2endVars

-----------------------------------------------------------------------------
(* The engine is of the shape the detector expects of it: its input takes   *)
(* the canvas of floats, and its first four outputs hold what it may find.  *)
Suits == /\ inputs # <<>> /\ inputs[1].bytes >= CanvasBytes
         /\ HoldFindings([i \in DOMAIN outputs |-> outputs[i].bytes], Cardinality(Findings))

(* Nothing is copied or read past the buffer a binding was given. *)
CopiesFit == ~overrun

(* The border fills the canvas exactly, although half pixels are rounded on  *)
(* each side, and the letterbox is the one of the frame; it agrees to within *)
(* a pixel of the canvas with the one the server's processor computes.       *)
CanvasFilled ==
  pc \in {"infer", "postprocess", "draw"} =>
    /\ pparam.canvasWidth = InputWidth /\ pparam.canvasHeight = InputHeight
    /\ [width |-> pparam.width, height |-> pparam.height] = frame
    /\ LET p == Letterbox(frame.width, frame.height)
       IN pparam.dw - 2 * p.padX \in {0, 1} /\ pparam.dh - 2 * p.padY \in {0, 1}

(* A frame is drawn with all objects found in it and no other, inside it. *)
ObjectsInFrame ==
  pc = "draw" =>
    /\ found.of = frame
    /\ Range(objs) = {ObjectOf(b, pparam) : b \in found.boxes}
    /\ \A o \in Range(objs) :
         /\ 0 <= o.x0 /\ o.x0 <= o.x1 /\ o.x1 <= 2 * frame.width * pparam.num
         /\ 0 <= o.y0 /\ o.y0 <= o.y1 /\ o.y1 <= 2 * frame.height * pparam.num

(* On every engine the canvas of a frame is filled.  On an engine of the     *)
(* shape expected, which nothing checks, no buffer is overrun and a frame is *)
(* drawn with objects of its own, in its own pixels.                         *)
FrameRight == CanvasFilled /\ (Suits => CopiesFit /\ ObjectsInFrame)
=============================================================================
