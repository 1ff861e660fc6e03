--------------------------- MODULE InferenceBackend ---------------------------
(***************************************************************************)
(* One backend of the registry, from load() to its destructor:              *)
(* inference/TensorRTBackend.cc, TensorFlowBackend.cc or MockBackend.cc.    *)
(* ModelRegistry::initialize() loads it and warms it up on the main thread; *)
(* then the workers of the scheduler share it.  CUDA, TensorRT and          *)
(* TensorFlow are external: a call of theirs succeeds or fails.             *)
(*                                                                          *)
(* An image stands for itself, for its tensor and for what the network      *)
(* finds in it.                                                             *)
(***************************************************************************)
EXTENDS Naturals, Sequences, FiniteSets

CONSTANTS Workers,    \* the scheduler's threads
          Main,       \* the thread that loads
          GoodImages, \* images preprocess() accepts
          BadImages,  \* images it does not
          None        \* no thread, no image

ASSUME BackendAssumption ==
  /\ Main \notin Workers /\ None \notin Workers \union {Main}
  /\ None \notin GoodImages

VARIABLES kind,      \* "tensorrt", "tensorflow" or "mock"
          contract,  \* whether the model's tensors are the ones of YOLOv8
          held,      \* the library's objects that are not null
          loaded,    \* loaded_
          stage,     \* "new", "warmup", "serving", "unavailable", "gone"
          mutex,     \* who holds executionMutex_
          deviceInput, deviceOutput, \* what is in the device buffers
          status,    \* the code in status_
          job        \* what each thread does in warmup() or infer()

device      == <<deviceInput, deviceOutput>>
backendVars == <<kind, contract, held, loaded, stage, mutex, device, status, job>>

Grey == "grey"    \* the input of warmup()

(* A step of load(): what it creates, and whether its failure calls close(). *)
Step(creates, closes) == [creates |-> creates, closes |-> closes]

(* cudaSetDevice, open, tellg, read; runtime, engine, context, the tensor   *)
(* contract, stream, the two device buffers, the two setTensorAddress.      *)
TensorRTLoad ==
  <<Step({}, FALSE), Step({}, FALSE), Step({}, FALSE), Step({}, FALSE),
    Step({"runtime"}, TRUE), Step({"engine"}, TRUE), Step({"context"}, TRUE),
    Step({}, TRUE), Step({"stream"}, TRUE), Step({"deviceInput"}, TRUE),
    Step({"deviceOutput"}, TRUE), Step({}, TRUE)>>

(* The graph and the session, then the two operations by name. *)
TensorFlowLoad == <<Step({"graph", "session"}, TRUE), Step({}, TRUE)>>

LoadSteps == [tensorrt |-> TensorRTLoad, tensorflow |-> TensorFlowLoad, mock |-> <<>>]

ContractStep == 8

Idle == [pc |-> "idle", image |-> None, out |-> None, result |-> "none", found |-> None]

(* The constructors: only status_ is there from the beginning. *)
BackendInit ==
  /\ kind \in {"tensorrt", "tensorflow", "mock"} /\ contract \in BOOLEAN
  /\ held = IF kind = "tensorflow" THEN {"status"} ELSE {}
  /\ loaded = FALSE /\ stage = "new" /\ mutex = None /\ status = "ok"
  /\ deviceInput = None /\ deviceOutput = None
  /\ job = [t \in Workers \union {Main} |-> Idle]

Closed == held \intersect {"status"}

(* Fault: an engine with other tensors is refused and kept. *)
LoadKeepsEngine ==
  /\ stage = "new"
  /\ \E n \in 0 .. Len(LoadSteps[kind]) :
       LET steps == LoadSteps[kind]
           got   == UNION {steps[i].creates : i \in 1 .. n}
           done  == n = Len(steps)
       IN /\ kind = "tensorrt" /\ ~contract => n < ContractStep
          /\ held' = IF ~done /\ steps[n + 1].closes /\ n + 1 # ContractStep
                       THEN Closed ELSE Closed \union got
          /\ loaded' = done
          /\ stage' = IF done THEN "warmup" ELSE "unavailable"
  /\ UNCHANGED <<kind, contract, mutex, device, status, job>>

(* load(): the first n steps succeed.  Only TensorRT looks at the tensors.  *)
Load ==
  /\ stage = "new"
  /\ \E n \in 0 .. Len(LoadSteps[kind]) :
       LET steps == LoadSteps[kind]
           got   == UNION {steps[i].creates : i \in 1 .. n}
           done  == n = Len(steps)
       IN /\ kind = "tensorrt" /\ ~contract => n < ContractStep
          /\ held' = IF ~done /\ steps[n + 1].closes THEN Closed ELSE Closed \union got
          /\ loaded' = done
          /\ stage' = IF done THEN "warmup" ELSE "unavailable"
  /\ UNCHANGED <<kind, contract, mutex, device, status, job>>

-----------------------------------------------------------------------------
(* The end of run(): a worker's infer() goes on to postprocess(), which     *)
(* finds nothing in an output of the wrong size; warmup() wants the right   *)
(* size.                                                                    *)
Finish(t, ok, out) ==
  /\ job' = [job EXCEPT ![t] =
       [@ EXCEPT !.pc = "idle", !.out = out,
                 !.result = IF ok THEN "success" ELSE "failed",
                 !.found = IF ok /\ contract THEN out ELSE None]]
  /\ stage' = IF t \in Workers THEN stage
              ELSE IF ok /\ contract THEN "serving" ELSE "unavailable"

Begin(t, image) == job' = [job EXCEPT ![t] = [Idle EXCEPT !.pc = "run", !.image = image]]

Warmup ==
  /\ stage = "warmup" /\ job[Main].pc = "idle"
  /\ IF kind = "mock" THEN stage' = "serving" /\ UNCHANGED job
                      ELSE Begin(Main, Grey) /\ UNCHANGED stage
  /\ UNCHANGED <<kind, contract, held, loaded, mutex, device, status>>

(* infer() up to run(): the backend is loaded and the image can be read. *)
Infer(w, image) ==
  /\ stage = "serving" /\ kind # "mock" /\ job[w].pc = "idle"
  /\ IF loaded /\ image \in GoodImages THEN Begin(w, image)
     ELSE job' = [job EXCEPT ![w] = [Idle EXCEPT !.image = image,
            !.result = IF loaded THEN "IMAGE_DECODE_FAILED" ELSE "BACKEND_NOT_READY"]]
  /\ UNCHANGED <<kind, contract, held, loaded, stage, mutex, device, status>>

(* MockBackend::infer(): the same object in every image, readable or not. *)
MockInfer(w, image) ==
  /\ stage = "serving" /\ kind = "mock"
  /\ job' = [job EXCEPT ![w] = [Idle EXCEPT !.image = image, !.found = "mock",
       !.result = IF loaded THEN "success" ELSE "BACKEND_NOT_READY"]]
  /\ UNCHANGED <<kind, contract, held, loaded, stage, mutex, device, status>>

-----------------------------------------------------------------------------
(* TensorRTBackend::run() *)

RunSteps == <<"copy in", "enqueue", "copy out", "synchronize">>

RtLock(t) ==
  /\ kind = "tensorrt" /\ job[t].pc = "run" /\ mutex = None
  /\ IF loaded THEN /\ job' = [job EXCEPT ![t].pc = RunSteps[1]]
                    /\ mutex' = t /\ UNCHANGED stage
               ELSE Finish(t, FALSE, None) /\ UNCHANGED mutex
  /\ UNCHANGED <<kind, contract, held, loaded, device, status>>

RtFails(t) ==
  /\ job[t].pc \in {RunSteps[i] : i \in 1 .. 4}
  /\ Finish(t, FALSE, None) /\ mutex' = None
  /\ UNCHANGED <<kind, contract, held, loaded, device, status>>

(* Fault: the lock covers the copy to the device and the kernel only. *)
RtStepShortLock(t, i) ==
  /\ job[t].pc = RunSteps[i]
  /\ mutex' = IF i = 2 THEN None ELSE mutex
  /\ deviceInput' = IF i = 1 THEN job[t].image ELSE deviceInput
  /\ deviceOutput' = IF i = 2 THEN deviceInput ELSE deviceOutput
  /\ IF i = 4 THEN Finish(t, TRUE, job[t].out)
     ELSE /\ job' = [job EXCEPT ![t].pc = RunSteps[i + 1],
                                ![t].out = IF i = 3 THEN deviceOutput ELSE @]
          /\ UNCHANGED stage
  /\ UNCHANGED <<kind, contract, held, loaded, status>>

(* The calls on the stream, which the lock covers to the last. *)
RtStep(t, i) ==
  /\ job[t].pc = RunSteps[i]
  /\ mutex' = IF i = 4 THEN None ELSE mutex
  /\ deviceInput' = IF i = 1 THEN job[t].image ELSE deviceInput
  /\ deviceOutput' = IF i = 2 THEN deviceInput ELSE deviceOutput
  /\ IF i = 4 THEN Finish(t, TRUE, job[t].out)
     ELSE /\ job' = [job EXCEPT ![t].pc = RunSteps[i + 1],
                                ![t].out = IF i = 3 THEN deviceOutput ELSE @]
          /\ UNCHANGED stage
  /\ UNCHANGED <<kind, contract, held, loaded, status>>

-----------------------------------------------------------------------------
(* TensorFlowBackend::run() *)

(* The input tensor is made, or there is no memory for it. *)
TfTensor(t) ==
  /\ kind = "tensorflow" /\ job[t].pc = "run"
  /\ \/ job' = [job EXCEPT ![t].pc = "session"] /\ UNCHANGED stage
     \/ Finish(t, FALSE, None)
  /\ UNCHANGED <<kind, contract, held, loaded, mutex, device, status>>

(* TF_SessionRun() under the lock: an output of its own, or none. *)
TfSessionRun(t) ==
  /\ job[t].pc = "session"
  /\ \E ok \in BOOLEAN :
       /\ status' = IF ok THEN "ok" ELSE "error"
       /\ job' = [job EXCEPT ![t].pc = "status",
                             ![t].out = IF ok THEN job[t].image ELSE None]
  /\ UNCHANGED <<kind, contract, held, loaded, stage, mutex, device>>

(* After the lock: status_ may be the one of another thread's run by now. *)
TfStatus(t) ==
  /\ job[t].pc = "status"
  /\ Finish(t, status = "ok" /\ job[t].out # None, job[t].out)
  /\ UNCHANGED <<kind, contract, held, loaded, mutex, device, status>>

-----------------------------------------------------------------------------
(* The registry goes after the scheduler has stopped: close(), and the      *)
(* TF_Status.                                                               *)
DestroyBackend ==
  /\ stage \in {"serving", "unavailable"}
  /\ \A t \in DOMAIN job : job[t].pc = "idle"
  /\ held' = {} /\ loaded' = FALSE /\ stage' = "gone"
  /\ UNCHANGED <<kind, contract, mutex, device, status, job>>

BackendNext ==
  \/ Load \/ Warmup \/ DestroyBackend
  \/ \E w \in Workers, image \in GoodImages \union BadImages :
       Infer(w, image) \/ MockInfer(w, image)
  \/ \E t \in DOMAIN job : \/ RtLock(t) \/ RtFails(t) \/ \E i \in 1 .. 4 : RtStep(t, i)
                           \/ TfTensor(t) \/ TfSessionRun(t) \/ TfStatus(t)

BackendSpec == BackendInit /\ [][BackendNext]_backendVars

-----------------------------------------------------------------------------
(* A success is about the request's own image, although the workers share    *)
(* the device buffers and the status; and "nothing found" means that the     *)
(* network found nothing, not that its output could not be read.             *)
OwnDetections ==
  \A w \in Workers : job[w].result = "success" =>
    job[w].found = IF kind = "mock" THEN "mock" ELSE job[w].image

(* What the libraries gave is all there while a thread runs, and given back: *)
(* by the load() that did not succeed, wherever it stopped, and at the end.  *)
HeldExactlyWhenLoaded ==
  LET all == UNION {LoadSteps[kind][i].creates : i \in 1 .. Len(LoadSteps[kind])}
  IN /\ held \ {"status"} = IF loaded THEN all ELSE {}
     /\ \A t \in DOMAIN job : job[t].pc # "idle" => loaded
     /\ stage = "gone" => held = {}
=============================================================================
