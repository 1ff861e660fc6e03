---------------------------- MODULE DetectionProofs ----------------------------
(***************************************************************************)
(* What is proved of detection: the shared backend (InferenceBackend), the  *)
(* letterbox and the suppression of the server's processor                  *)
(* (YoloV8Processor), and the stand-alone detector (End2End).               *)
(***************************************************************************)
EXTENDS End2End, InferenceBackend, SequenceFacts, FiniteSetTheorems, TLAPS

-----------------------------------------------------------------------------
(* The backend *)

Threads == Workers \union {Main}

Pictures == GoodImages \union BadImages \union {Grey, None}

RtSteps == {"copy in", "enqueue", "copy out", "synchronize"}

Job == [pc : {"idle", "run", "session", "status"} \union RtSteps,
        image : Pictures, out : Pictures, found : Pictures \union {"mock"},
        result : {"none", "success", "failed", "IMAGE_DECODE_FAILED",
                  "BACKEND_NOT_READY"}]

BackendType ==
  /\ kind \in {"tensorrt", "tensorflow", "mock"} /\ contract \in BOOLEAN
  /\ loaded \in BOOLEAN
  /\ stage \in {"new", "warmup", "serving", "unavailable", "gone"}
  /\ job \in [Threads -> Job]
  /\ deviceInput \in Pictures /\ deviceOutput \in Pictures

(* A thread is in run() only while its stage lasts, on a loaded backend; a  *)
(* backend that serves has passed its warm-up.                              *)
StageInv ==
  /\ stage \in {"warmup", "serving"} => loaded
  /\ stage = "serving" /\ kind # "mock" => contract
  /\ job[Main].pc # "idle" => stage = "warmup"
  /\ \A w \in Workers : job[w].pc # "idle" => stage = "serving"

(* What a thread in run() may rely on: between the lock and its release the *)
(* device buffers are its own.                                              *)
RunInv ==
  \A t \in Threads :
    /\ job[t].pc # "idle" => job[t].result = "none" /\ kind # "mock"
    /\ job[t].pc \in RtSteps => kind = "tensorrt" /\ mutex = t
    /\ job[t].pc \in {"session", "status"} => kind = "tensorflow"
    /\ job[t].pc \in RtSteps \ {"copy in"} => deviceInput = job[t].image
    /\ job[t].pc \in {"copy out", "synchronize"} => deviceOutput = job[t].image
    /\ job[t].pc = "synchronize" => job[t].out = job[t].image
    /\ job[t].pc = "status" => job[t].out \in {job[t].image, None}

BackendInv == BackendType /\ StageInv /\ RunInv /\ OwnDetections

(* Of the steps of load(), the first four of TensorRT hold nothing and do   *)
(* not call close(); every other failure does.                              *)
LEMMA LoadFacts ==
  /\ Len(LoadSteps["tensorrt"]) = 12 /\ Len(LoadSteps["tensorflow"]) = 2
  /\ Len(LoadSteps["mock"]) = 0
  /\ \A i \in 1 .. 12 : /\ LoadSteps["tensorrt"][i].closes <=> i > 4
                        /\ i <= 4 => LoadSteps["tensorrt"][i].creates = {}
                        /\ "status" \notin LoadSteps["tensorrt"][i].creates
  /\ \A i \in 1 .. 2 : /\ LoadSteps["tensorflow"][i].closes
                       /\ "status" \notin LoadSteps["tensorflow"][i].creates
<1>1. /\ LoadSteps["tensorrt"] = TensorRTLoad
      /\ LoadSteps["tensorflow"] = TensorFlowLoad
      /\ LoadSteps["mock"] = <<>>
  BY DEF LoadSteps
<1>2. Len(TensorRTLoad) = 12 /\ Len(TensorFlowLoad) = 2
  BY DEF TensorRTLoad, TensorFlowLoad
<1>3. \A i \in 1 .. 12 : /\ TensorRTLoad[i].closes <=> i > 4
                         /\ i <= 4 => TensorRTLoad[i].creates = {}
                         /\ "status" \notin TensorRTLoad[i].creates
  BY DEF TensorRTLoad, Step
<1>4. \A i \in 1 .. 2 : TensorFlowLoad[i].closes /\ "status" \notin TensorFlowLoad[i].creates
  BY DEF TensorFlowLoad, Step
<1> QED BY <1>1, <1>2, <1>3, <1>4

(* Of the parts of HeldExactlyWhenLoaded, the one about what is held. *)
HeldParts ==
  /\ held \ {"status"} = IF loaded
       THEN UNION {LoadSteps[kind][i].creates : i \in 1 .. Len(LoadSteps[kind])}
       ELSE {}
  /\ stage = "gone" => held = {}

(* The end of run() keeps the books, whoever it is and however it ends, as   *)
(* long as a success is about the thread's own image.                        *)
LEMMA FinishKeeps ==
  ASSUME BackendInv, NEW t \in Threads, NEW ok \in BOOLEAN, NEW out \in Pictures,
         Finish(t, ok, out), job[t].pc # "idle",
         ok => out = job[t].image,
         mutex' = mutex \/ mutex = t,
         UNCHANGED <<kind, contract, loaded, device>>
  PROVE  BackendInv'
<1> USE BackendAssumption DEF Threads
<1> DEFINE j == [job[t] EXCEPT !.pc = "idle", !.out = out,
                   !.result = IF ok THEN "success" ELSE "failed",
                   !.found = IF ok /\ contract THEN out ELSE None]
<1>1. job' = [job EXCEPT ![t] = j]
  BY DEF Finish
<1>2. job \in [Threads -> Job]
  BY DEF BackendInv, BackendType
<1>3. /\ j.pc = "idle" /\ j.image = job[t].image
      /\ j.found = IF ok /\ contract THEN out ELSE None
      /\ j.result = IF ok THEN "success" ELSE "failed"
      /\ j \in Job
  <2>1. job[t] \in Job
    BY <1>2
  <2>2. (IF ok /\ contract THEN out ELSE None) \in Pictures
    BY DEF Pictures
  <2>3. (IF ok THEN "success" ELSE "failed") \in {"success", "failed"}
    OBVIOUS
  <2> QED BY <2>1, <2>2, <2>3 DEF Job
<1> HIDE DEF j
<1>4. job'[t] = j /\ \A u \in Threads : u # t => job'[u] = job[u]
  BY <1>1, <1>2
<1>5. BackendType'
  <2>1. job' \in [Threads -> Job]
    BY <1>1, <1>2, <1>3
  <2>2. stage' \in {"new", "warmup", "serving", "unavailable", "gone"}
    BY DEF BackendInv, BackendType, Finish
  <2> QED BY <2>1, <2>2 DEF BackendInv, BackendType, device
<1>6. StageInv'
  <2>1. CASE t \in Workers
    BY <2>1, <1>3, <1>4 DEF BackendInv, StageInv, Finish
  <2>2. CASE t = Main
    BY <2>2, <1>3, <1>4 DEF BackendInv, StageInv, Finish
  <2> QED BY <2>1, <2>2
<1>7. RunInv'
  BY ZenonT(40), <1>3, <1>4 DEF BackendInv, RunInv, RtSteps, device
<1>8. OwnDetections'
  <2> SUFFICES ASSUME NEW w \in Workers, (job[w].result = "success")'
               PROVE  (job[w].found = IF kind = "mock" THEN "mock" ELSE job[w].image)'
    BY DEF OwnDetections
  <2>1. CASE w = t
    <3>1. ok /\ contract /\ kind # "mock"
      BY <2>1, <1>3, <1>4 DEF BackendInv, RunInv, StageInv
    <3> QED BY <3>1, <2>1, <1>3, <1>4
  <2>2. CASE w # t
    BY <2>2, <1>4 DEF BackendInv, OwnDetections
  <2> QED BY <2>1, <2>2
<1> QED BY <1>5, <1>6, <1>7, <1>8 DEF BackendInv

(* A thread that is idle or does not use the device takes up a new job. *)
LEMMA BeginKeeps ==
  ASSUME BackendInv, NEW t \in Threads, NEW j \in Job,
         job' = [job EXCEPT ![t] = j], job[t].pc \notin RtSteps,
         j.pc # "idle" => /\ j.pc \in {"run", "session", "status"}
                          /\ j.result = "none" /\ kind # "mock"
                          /\ stage = IF t = Main THEN "warmup" ELSE "serving",
         j.pc \in {"session", "status"} => kind = "tensorflow",
         j.pc = "status" => j.out \in {j.image, None},
         j.result = "success" => kind = "mock" /\ j.found = "mock",
         UNCHANGED <<kind, contract, loaded, stage, mutex, device>>
  PROVE  BackendInv'
<1> USE BackendAssumption DEF Threads
<1>1. job'[t] = j /\ \A u \in Threads : u # t => job'[u] = job[u]
  BY DEF BackendInv, BackendType
<1>2. BackendType'
  BY DEF BackendInv, BackendType, device
<1>3. StageInv'
  BY <1>1 DEF BackendInv, StageInv
<1>4. RunInv'
  BY ZenonT(40), <1>1 DEF BackendInv, RunInv, RtSteps, device
<1>5. OwnDetections'
  BY <1>1 DEF BackendInv, OwnDetections
<1> QED BY <1>2, <1>3, <1>4, <1>5 DEF BackendInv

(* The steps of TensorRT's run() before the last: only the holder of the     *)
(* lock moves the device buffers.                                            *)
LEMMA RtStepKeeps ==
  ASSUME BackendInv, NEW t \in Threads, NEW i \in 1 .. 3, RtStep(t, i)
  PROVE  BackendInv'
<1> USE BackendAssumption DEF Threads
<1> DEFINE j == [job[t] EXCEPT !.pc = RunSteps[i + 1],
                               !.out = IF i = 3 THEN deviceOutput ELSE @]
<1>0. i # 4 /\ i + 1 \in 2 .. 4 /\ (i = 1 \/ i = 2 \/ i = 3)
  OBVIOUS
<1>s. /\ RunSteps[1] = "copy in" /\ RunSteps[2] = "enqueue" /\ RunSteps[3] = "copy out"
      /\ RunSteps[4] = "synchronize"
  BY DEF RunSteps
<1>1. /\ job[t].pc = RunSteps[i] /\ mutex' = mutex
      /\ deviceInput' = IF i = 1 THEN job[t].image ELSE deviceInput
      /\ deviceOutput' = IF i = 2 THEN deviceInput ELSE deviceOutput
      /\ UNCHANGED <<kind, contract, loaded, stage>>
  BY <1>0, Zenon DEF RtStep
<1>2. job' = [job EXCEPT ![t] = j]
  BY <1>0 DEF RtStep, BackendInv, BackendType
<1>3. job[t] \in Job /\ deviceInput \in Pictures /\ deviceOutput \in Pictures
  BY DEF BackendInv, BackendType
<1>4. RunSteps[i] \in RtSteps /\ RunSteps[i + 1] \in RtSteps \ {"copy in"}
  <2>1. RunSteps[i] \in RtSteps
    BY <1>0, <1>s DEF RtSteps
  <2>2. i + 1 = 2 \/ i + 1 = 3 \/ i + 1 = 4
    BY <1>0
  <2> QED BY <2>1, <2>2, <1>s DEF RtSteps
<1>5. /\ j \in Job /\ j.pc = RunSteps[i + 1] /\ j.image = job[t].image
      /\ j.result = job[t].result
      /\ j.out = IF i = 3 THEN deviceOutput ELSE job[t].out
  <2>1. (IF i = 3 THEN deviceOutput ELSE job[t].out) \in Pictures
    BY <1>3 DEF Job
  <2> QED BY <2>1, <1>3, <1>4 DEF Job
<1> HIDE DEF j
<1>6. job'[t] = j /\ \A u \in Threads : u # t => job'[u] = job[u]
  BY <1>2 DEF BackendInv, BackendType
<1>7. BackendType'
  <2>1. job' \in [Threads -> Job]
    BY <1>2, <1>5 DEF BackendInv, BackendType
  <2>2. deviceInput' \in Pictures /\ deviceOutput' \in Pictures
    BY <1>1, <1>3 DEF Job
  <2> QED BY <2>1, <2>2, <1>1 DEF BackendInv, BackendType
<1>8. StageInv'
  BY <1>1, <1>4, <1>6, <1>5 DEF BackendInv, StageInv, RtSteps
<1>9. RunInv'
  <2>1. mutex = t /\ kind = "tensorrt" /\ job[t].result = "none"
    BY <1>1, <1>4 DEF BackendInv, RunInv, RtSteps
  <2>2. \A u \in Threads : u # t => job[u].pc \notin RtSteps
    BY <2>1 DEF BackendInv, RunInv
  <2>3. 1 + 1 = 2 /\ 2 + 1 = 3 /\ 3 + 1 = 4
    OBVIOUS
  <2>4. i = 1 => job[t].pc = "copy in" /\ j.pc = "enqueue"
    BY <2>3, <1>1, <1>5, <1>s
  <2>5. i = 2 => job[t].pc = "enqueue" /\ j.pc = "copy out"
    BY <2>3, <1>1, <1>5, <1>s
  <2>6. i = 3 => job[t].pc = "copy out" /\ j.pc = "synchronize"
    BY <2>3, <1>1, <1>5, <1>s
  <2> SUFFICES ASSUME NEW u \in Threads
               PROVE  (/\ job[u].pc # "idle" => job[u].result = "none" /\ kind # "mock"
                       /\ job[u].pc \in RtSteps => kind = "tensorrt" /\ mutex = u
                       /\ job[u].pc \in {"session", "status"} => kind = "tensorflow"
                       /\ job[u].pc \in RtSteps \ {"copy in"} => deviceInput = job[u].image
                       /\ job[u].pc \in {"copy out", "synchronize"} =>
                            deviceOutput = job[u].image
                       /\ job[u].pc = "synchronize" => job[u].out = job[u].image
                       /\ job[u].pc = "status" => job[u].out \in {job[u].image, None})'
    BY DEF RunInv
  <2>7. CASE u = t
    BY <2>7, <2>1, <2>4, <2>5, <2>6, <1>0, <1>1, <1>5, <1>6
       DEF BackendInv, RunInv, RtSteps
  <2>8. CASE u # t
    BY <2>8, <2>2, <1>1, <1>6 DEF BackendInv, RunInv, RtSteps
  <2> QED BY <2>7, <2>8
<1>10. OwnDetections'
  BY ZenonT(40), <1>1, <1>4, <1>5, <1>6 DEF BackendInv, OwnDetections, RunInv, RtSteps
<1> QED BY <1>7, <1>8, <1>9, <1>10 DEF BackendInv

(* The job of a thread, moved to another step of run(). *)
LEMMA MovedJob ==
  ASSUME NEW j \in Job, NEW at \in {"run", "session", "status"} \union RtSteps,
         NEW out \in Pictures
  PROVE  /\ [j EXCEPT !.pc = at] \in Job
         /\ [j EXCEPT !.pc = at, !.out = out] \in Job
BY DEF Job

(* The jobs infer() and warmup() begin or refuse. *)
LEMMA NewJob ==
  ASSUME NEW of \in Pictures, NEW why \in {"IMAGE_DECODE_FAILED", "BACKEND_NOT_READY", "success"}
  PROVE  /\ [Idle EXCEPT !.pc = "run", !.image = of] \in Job
         /\ [Idle EXCEPT !.image = of, !.result = why] \in Job
         /\ [Idle EXCEPT !.image = of, !.found = "mock", !.result = why] \in Job
BY DEF Idle, Job, Pictures

(* Every step of a backend keeps its books. *)
LEMMA BackendStep == BackendInv /\ [BackendNext]_backendVars => BackendInv'
<1> SUFFICES ASSUME BackendInv, [BackendNext]_backendVars PROVE BackendInv'
  OBVIOUS
<1> USE BackendAssumption
<1>0. DOMAIN job = Threads /\ job \in [Threads -> Job]
  BY DEF BackendInv, BackendType
<1>1. ASSUME Load PROVE BackendInv'
  <2>1. /\ loaded' \in BOOLEAN /\ stage' \in {"warmup", "unavailable"}
        /\ stage' = "warmup" => loaded'
    BY <1>1 DEF Load
  <2>2. /\ stage = "new" /\ UNCHANGED <<kind, contract, mutex, device, status, job>>
    BY <1>1 DEF Load
  <2> QED BY <2>1, <2>2 DEF BackendInv, BackendType, StageInv, RunInv, OwnDetections,
             RtSteps, device, Threads
<1>2. ASSUME Warmup PROVE BackendInv'
  <2>1. CASE kind = "mock"
    <3>1. /\ stage' = "serving" /\ stage = "warmup" /\ job[Main].pc = "idle"
          /\ UNCHANGED <<kind, contract, loaded, mutex, deviceInput, deviceOutput, job>>
      BY <2>1, <1>2 DEF Warmup, device
    <3> QED BY <2>1, <3>1 DEF BackendInv, BackendType, StageInv, RunInv, OwnDetections
  <2>2. CASE kind # "mock"
    <3> DEFINE j == [Idle EXCEPT !.pc = "run", !.image = Grey]
    <3>1. j \in Job
      BY NewJob DEF Pictures
    <3>2. j.pc = "run" /\ j.result = "none"
      BY DEF Idle
    <3>3. /\ job' = [job EXCEPT ![Main] = j] /\ stage = "warmup" /\ job[Main].pc = "idle"
          /\ UNCHANGED <<kind, contract, loaded, stage, mutex, device>>
      BY <2>2, <1>2 DEF Warmup, Begin
    <3> HIDE DEF j
    <3> QED BY <2>2, <3>1, <3>2, <3>3, BeginKeeps DEF Threads, RtSteps
  <2> QED BY <2>1, <2>2
<1>3. ASSUME DestroyBackend PROVE BackendInv'
  BY <1>3 DEF DestroyBackend, BackendInv, BackendType, StageInv, RunInv, OwnDetections,
             RtSteps, device, Threads
<1>4. ASSUME NEW w \in Workers, NEW img \in GoodImages \union BadImages, Infer(w, img)
      PROVE  BackendInv'
  <2> DEFINE why == IF loaded THEN "IMAGE_DECODE_FAILED" ELSE "BACKEND_NOT_READY"
             j == IF loaded /\ img \in GoodImages
                    THEN [Idle EXCEPT !.pc = "run", !.image = img]
                    ELSE [Idle EXCEPT !.image = img, !.result = why]
  <2>1. j \in Job
    BY NewJob DEF Pictures
  <2>2. /\ j.pc # "idle" => j.pc = "run" /\ j.result = "none"
        /\ j.pc \in {"idle", "run"} /\ j.result # "success"
    BY DEF Idle
  <2>3. /\ job' = [job EXCEPT ![w] = j] /\ stage = "serving" /\ job[w].pc = "idle"
        /\ kind # "mock"
        /\ UNCHANGED <<kind, contract, loaded, stage, mutex, device>>
    BY <1>4 DEF Infer, Begin
  <2> HIDE DEF j
  <2>4. w \in Threads /\ w # Main /\ job[w].pc \notin RtSteps
    BY <2>3 DEF Threads, RtSteps
  <2> QED BY <2>1, <2>2, <2>3, <2>4, BeginKeeps
<1>5. ASSUME NEW w \in Workers, NEW img \in GoodImages \union BadImages, MockInfer(w, img)
      PROVE  BackendInv'
  <2> DEFINE why == IF loaded THEN "success" ELSE "BACKEND_NOT_READY"
             j == [Idle EXCEPT !.image = img, !.found = "mock", !.result = why]
  <2>1. j \in Job
    BY NewJob DEF Pictures
  <2>2. j.pc = "idle" /\ j.found = "mock"
    BY DEF Idle
  <2>3. /\ job' = [job EXCEPT ![w] = j] /\ kind = "mock"
        /\ UNCHANGED <<kind, contract, loaded, stage, mutex, device>>
    BY <1>5 DEF MockInfer
  <2> HIDE DEF j
  <2>4. w \in Threads /\ job[w].pc \notin RtSteps
    BY <2>3 DEF Threads, RtSteps, BackendInv, RunInv
  <2> QED BY <2>1, <2>2, <2>3, <2>4, BeginKeeps
<1>6. ASSUME NEW t \in Threads, RtLock(t) PROVE BackendInv'
  <2> DEFINE j == [job[t] EXCEPT !.pc = "copy in"]
  <2>1. loaded /\ kind = "tensorrt" /\ job[t].pc = "run" /\ mutex = None
    BY <1>6 DEF RtLock, BackendInv, StageInv, Threads
  <2>2. RunSteps[1] = "copy in"
    BY DEF RunSteps
  <2>3. /\ job' = [job EXCEPT ![t] = j] /\ mutex' = t
        /\ UNCHANGED <<kind, contract, loaded, stage, device>>
    BY <2>1, <2>2, <1>6, <1>0 DEF RtLock
  <2>4. job[t] \in Job /\ job[t].out \in Pictures
    BY <1>0 DEF Job
  <2>5. j \in Job /\ j.pc = "copy in" /\ j.result = job[t].result
    BY <2>4, MovedJob DEF RtSteps, Job
  <2> HIDE DEF j
  <2>6. job'[t] = j /\ \A u \in Threads : u # t => job'[u] = job[u]
    BY <2>3, <1>0
  <2>7. \A u \in Threads : job[u].pc \notin RtSteps
    BY <2>1 DEF BackendInv, RunInv, Threads
  <2>8. BackendType'
    BY <2>3, <2>5, <1>0 DEF BackendInv, BackendType, device
  <2>9. StageInv'
    BY <2>1, <2>3, <2>5, <2>6 DEF BackendInv, StageInv, Threads
  <2>10. RunInv'
    BY <2>1, <2>3, <2>5, <2>6, <2>7 DEF BackendInv, RunInv, RtSteps, device
  <2>11. OwnDetections'
    <3>1. job'[t].result = "none"
      BY <2>1, <2>5, <2>6 DEF BackendInv, RunInv
    <3> QED BY <3>1, <2>3, <2>6 DEF BackendInv, OwnDetections, Threads
  <2> QED BY <2>8, <2>9, <2>10, <2>11 DEF BackendInv
<1>7. ASSUME NEW t \in Threads, RtFails(t) PROVE BackendInv'
  <2>1. job[t].pc \in RtSteps
    <3>1. /\ RunSteps[1] = "copy in" /\ RunSteps[2] = "enqueue"
          /\ RunSteps[3] = "copy out" /\ RunSteps[4] = "synchronize"
      BY DEF RunSteps
    <3>2. PICK i \in 1 .. 4 : job[t].pc = RunSteps[i]
      BY <1>7 DEF RtFails
    <3>3. i = 1 \/ i = 2 \/ i = 3 \/ i = 4
      OBVIOUS
    <3> QED BY <3>1, <3>2, <3>3 DEF RtSteps
  <2>2. mutex = t /\ job[t].pc # "idle"
    BY <2>1 DEF BackendInv, RunInv, RtSteps
  <2>3. None \in Pictures
    BY DEF Pictures
  <2>4. Finish(t, FALSE, None) /\ UNCHANGED <<kind, contract, loaded, device>>
    BY <1>7 DEF RtFails
  <2> QED BY <2>2, <2>3, <2>4, FinishKeeps
<1>8. ASSUME NEW t \in Threads, RtStep(t, 4) PROVE BackendInv'
  <2>1. job[t].pc = "synchronize"
    BY <1>8 DEF RtStep, RunSteps
  <2>2. mutex = t /\ job[t].out = job[t].image
    BY <2>1 DEF BackendInv, RunInv, RtSteps
  <2>3. job[t].out \in Pictures
    BY <1>0 DEF Job
  <2>4. Finish(t, TRUE, job[t].out) /\ UNCHANGED <<kind, contract, loaded, device>>
    <3>1. 4 # 1 /\ 4 # 2
      OBVIOUS
    <3> QED BY <1>8, <3>1, Zenon DEF RtStep, device
  <2> QED BY <2>1, <2>2, <2>3, <2>4, FinishKeeps
<1>9. ASSUME NEW t \in Threads, TfTensor(t) PROVE BackendInv'
  <2>1. kind = "tensorflow" /\ job[t].pc = "run"
        /\ UNCHANGED <<kind, contract, loaded, mutex, device>>
    BY <1>9 DEF TfTensor
  <2>2. CASE Finish(t, FALSE, None)
    <3>1. None \in Pictures
      BY DEF Pictures
    <3> QED BY <2>1, <2>2, <3>1, FinishKeeps
  <2>3. CASE job' = [job EXCEPT ![t].pc = "session"] /\ UNCHANGED stage
    <3> DEFINE j == [job[t] EXCEPT !.pc = "session"]
    <3>1. job[t] \in Job /\ job[t].out \in Pictures
      BY <1>0 DEF Job
    <3>2. j \in Job /\ j.pc = "session" /\ j.result = job[t].result
      BY <3>1, MovedJob DEF Job
    <3>3. job' = [job EXCEPT ![t] = j]
      BY <2>3, <1>0
    <3> HIDE DEF j
    <3>4. /\ stage = IF t = Main THEN "warmup" ELSE "serving"
          /\ job[t].result = "none"
      BY <2>1 DEF BackendInv, StageInv, RunInv, Threads
    <3> QED BY <2>1, <2>3, <3>2, <3>3, <3>4, BeginKeeps DEF RtSteps
  <2> QED BY <2>2, <2>3, <1>9 DEF TfTensor
<1>10. ASSUME NEW t \in Threads, TfSessionRun(t) PROVE BackendInv'
  <2>1. PICK ok \in BOOLEAN :
          job' = [job EXCEPT ![t].pc = "status",
                             ![t].out = IF ok THEN job[t].image ELSE None]
    BY <1>10 DEF TfSessionRun
  <2>2. job[t].pc = "session"
        /\ UNCHANGED <<kind, contract, loaded, stage, mutex, device>>
    BY <1>10 DEF TfSessionRun
  <2> DEFINE o == IF ok THEN job[t].image ELSE None
             j == [job[t] EXCEPT !.pc = "status", !.out = o]
  <2>3. job[t] \in Job /\ o \in Pictures
    BY <1>0 DEF Job, Pictures
  <2>4. /\ j \in Job /\ j.pc = "status" /\ j.result = job[t].result
        /\ j.out \in {job[t].image, None} /\ j.image = job[t].image
    BY <2>3, MovedJob DEF Job
  <2>5. job' = [job EXCEPT ![t] = j]
    BY <2>1, <1>0
  <2> HIDE DEF j
  <2>6. /\ stage = IF t = Main THEN "warmup" ELSE "serving"
        /\ job[t].result = "none" /\ kind = "tensorflow"
    BY <2>2 DEF BackendInv, StageInv, RunInv, Threads
  <2> QED BY <2>2, <2>4, <2>5, <2>6, BeginKeeps DEF RtSteps
<1>11. ASSUME NEW t \in Threads, TfStatus(t) PROVE BackendInv'
  <2> DEFINE ok == status = "ok" /\ job[t].out # None
  <2>1. job[t].pc = "status" /\ Finish(t, ok, job[t].out)
        /\ UNCHANGED <<kind, contract, loaded, mutex, device>>
    BY <1>11 DEF TfStatus
  <2>2. job[t].out \in Pictures /\ (ok => job[t].out = job[t].image)
    BY <2>1, <1>0 DEF Job, BackendInv, RunInv
  <2>3. ok \in BOOLEAN
    OBVIOUS
  <2> HIDE DEF ok
  <2> QED BY <2>1, <2>2, <2>3, FinishKeeps
<1>12. CASE UNCHANGED backendVars
  BY <1>12 DEF backendVars, device, BackendInv, BackendType, StageInv, RunInv,
     OwnDetections
<1>13. ASSUME NEW t \in Threads, NEW i \in 1 .. 4, RtStep(t, i) PROVE BackendInv'
  <2>1. i = 4 \/ i \in 1 .. 3
    OBVIOUS
  <2> QED BY <2>1, <1>8, <1>13, RtStepKeeps
<1> QED BY <1>0, <1>1, <1>2, <1>3, <1>4, <1>5, <1>6, <1>7, <1>9, <1>10, <1>11, <1>12,
           <1>13 DEF BackendNext

(* load() holds everything or nothing, wherever it stops. *)
LEMMA LoadHolds == BackendType /\ HeldParts /\ Load => HeldParts'
<1> SUFFICES ASSUME BackendType, HeldParts, Load PROVE HeldParts'
  OBVIOUS
<1> DEFINE steps == LoadSteps[kind]
           got(n) == UNION {steps[i].creates : i \in 1 .. n}
<1>1. PICK n \in 0 .. Len(steps) :
        /\ held' = IF n # Len(steps) /\ steps[n + 1].closes THEN Closed
                   ELSE Closed \union got(n)
        /\ loaded' = (n = Len(steps))
        /\ stage' = IF n = Len(steps) THEN "warmup" ELSE "unavailable"
  BY DEF Load
<1>2. kind' = kind
  BY DEF Load
<1>3. Closed \ {"status"} = {}
  BY DEF Closed
<1>4. /\ Len(steps) \in Nat
      /\ \A i \in 1 .. Len(steps) : "status" \notin steps[i].creates
      /\ \A i \in 1 .. Len(steps) : ~steps[i].closes =>
           \A m \in 1 .. i : steps[m].creates = {}
  <2>1. CASE kind = "tensorrt"
    BY <2>1, LoadFacts
  <2>2. CASE kind = "tensorflow"
    BY <2>2, LoadFacts
  <2>3. CASE kind = "mock"
    BY <2>3, LoadFacts
  <2> QED BY <2>1, <2>2, <2>3 DEF BackendType
<1> HIDE DEF steps
<1>5. CASE n = Len(steps)
  <2>1. got(n) \ {"status"} = got(n)
    BY <1>4, <1>5
  <2>2. held' = Closed \union got(n) /\ loaded'
    BY <1>1, <1>5
  <2>3. held' \ {"status"} = got(n)
    BY <2>1, <2>2, <1>3
  <2> QED BY <2>2, <2>3, <1>1, <1>2, <1>5 DEF HeldParts, steps
<1>6. CASE n # Len(steps)
  <2>1. n + 1 \in 1 .. Len(steps) /\ ~loaded' /\ stage' # "gone"
    <3>1. n + 1 \in 1 .. Len(steps)
      BY <1>4, <1>6
    <3>2. loaded' = FALSE /\ stage' = "unavailable"
      BY <1>1, <1>6
    <3> QED BY <3>1, <3>2
  <2>2. ~steps[n + 1].closes => got(n) = {}
    BY <2>1, <1>4
  <2>3. held' \ {"status"} = {}
    BY <2>1, <2>2, <1>1, <1>3, <1>6
  <2> QED BY <2>1, <2>3 DEF HeldParts
<1> QED BY <1>5, <1>6

(* Only load() and the destructor change what is held, and only they say     *)
(* whether the backend is loaded.                                            *)
LEMMA HeldStep == BackendInv /\ HeldParts /\ [BackendNext]_backendVars => HeldParts'
<1> SUFFICES ASSUME BackendInv, HeldParts, [BackendNext]_backendVars PROVE HeldParts'
  OBVIOUS
<1>1. CASE Load
  BY <1>1, LoadHolds DEF BackendInv
<1>2. CASE DestroyBackend
  BY <1>2 DEF DestroyBackend, HeldParts
<1>3. ASSUME UNCHANGED <<kind, held, loaded>>, stage' # "gone" \/ stage' = stage
      PROVE  HeldParts'
  BY <1>3 DEF HeldParts
<1>4. ASSUME NEW t, NEW ok, NEW out, Finish(t, ok, out)
      PROVE  stage' # "gone" \/ stage' = stage
  BY <1>4 DEF Finish
<1>5. CASE Warmup
  BY <1>5, <1>3 DEF Warmup
<1>6. ASSUME NEW w \in Workers, NEW img \in GoodImages \union BadImages,
             Infer(w, img) \/ MockInfer(w, img)
      PROVE  HeldParts'
  BY <1>6, <1>3 DEF Infer, MockInfer
<1>7. ASSUME NEW t \in DOMAIN job, RtLock(t) PROVE HeldParts'
  BY <1>7, <1>3, <1>4 DEF RtLock
<1>8. ASSUME NEW t \in DOMAIN job, RtFails(t) PROVE HeldParts'
  BY <1>8, <1>3, <1>4 DEF RtFails
<1>9. ASSUME NEW t \in DOMAIN job, NEW i \in 1 .. 4, RtStep(t, i) PROVE HeldParts'
  BY <1>9, <1>3, <1>4 DEF RtStep
<1>10. ASSUME NEW t \in DOMAIN job, TfTensor(t) PROVE HeldParts'
  BY <1>10, <1>3, <1>4 DEF TfTensor
<1>11. ASSUME NEW t \in DOMAIN job, TfSessionRun(t) PROVE HeldParts'
  BY <1>11, <1>3 DEF TfSessionRun
<1>12. ASSUME NEW t \in DOMAIN job, TfStatus(t) PROVE HeldParts'
  BY <1>12, <1>3, <1>4 DEF TfStatus
<1>13. CASE UNCHANGED backendVars
  BY <1>13, <1>3 DEF backendVars
<1> QED BY <1>1, <1>2, <1>5, <1>6, <1>7, <1>8, <1>9, <1>10, <1>11, <1>12, <1>13
        DEF BackendNext

(* A backend that was only constructed keeps them trivially. *)
LEMMA BackendStart == BackendInit => BackendInv /\ HeldParts
<1> SUFFICES ASSUME BackendInit PROVE BackendInv /\ HeldParts
  OBVIOUS
<1>1. Idle \in Job /\ Idle.pc = "idle" /\ Idle.result = "none" /\ None \in Pictures
  BY DEF Idle, Job, Pictures
<1>2. job \in [Threads -> Job] /\ \A t \in Threads : job[t] = Idle
  BY <1>1 DEF BackendInit, Threads
<1>3. BackendType
  BY <1>1, <1>2 DEF BackendInit, BackendType
<1>4. StageInv /\ RunInv /\ OwnDetections
  BY <1>1, <1>2 DEF BackendInit, StageInv, RunInv, OwnDetections, RtSteps, Threads
<1>5. HeldParts
  BY DEF BackendInit, HeldParts
<1> QED BY <1>3, <1>4, <1>5 DEF BackendInv

(* The inductive invariant of the backend. *)
LEMMA BackendCorrect == BackendSpec => [](BackendInv /\ HeldParts)
<1>1. BackendInv /\ HeldParts /\ [BackendNext]_backendVars => (BackendInv /\ HeldParts)'
  BY BackendStep, HeldStep
<1> QED BY <1>1, BackendStart, PTL DEF BackendSpec

(* Every successful infer() on a shared backend answers for its own image,   *)
(* for any number of workers and images: the lock covers the device buffers  *)
(* from the first copy to the last, TF_SessionRun() has an output per call,  *)
(* and a status_ overwritten by another thread never pairs with an output.   *)
THEOREM DetectionsAreOwn == BackendSpec => []OwnDetections
<1>1. BackendInv => OwnDetections
  BY DEF BackendInv
<1> QED BY <1>1, BackendCorrect, PTL

(* The library objects are all held or none: load() that stops at any step   *)
(* has given back what it made, and a thread in run() finds all of them.     *)
THEOREM HeldWhileLoaded == BackendSpec => []HeldExactlyWhenLoaded
<1>1. BackendInv /\ HeldParts => HeldExactlyWhenLoaded
  <2> SUFFICES ASSUME BackendInv, HeldParts PROVE HeldExactlyWhenLoaded
    OBVIOUS
  <2>1. \A t \in DOMAIN job : job[t].pc # "idle" => loaded
    BY DEF BackendInv, BackendType, StageInv, Threads
  <2> QED BY <2>1 DEF HeldParts, HeldExactlyWhenLoaded
<1> QED BY <1>1, BackendCorrect, PTL
-----------------------------------------------------------------------------
(* Arithmetic that both processors rest on *)

(* The larger of two. *)
LEMMA MaxOfTwo == ASSUME NEW a \in Int, NEW b \in Int
                  PROVE  Max({a, b}) = IF a >= b THEN a ELSE b
BY DEF Max

(* The smaller of two. *)
LEMMA MinOfTwo == ASSUME NEW a \in Int, NEW b \in Int
                  PROVE  Min({a, b}) = IF a <= b THEN a ELSE b
BY DEF Min

(* A product grows with a factor. *)
LEMMA MulMono == ASSUME NEW a \in Nat, NEW b \in Int, NEW c \in Int, b <= c
                 PROVE  a * b <= a * c
<1>1. PICK d \in Nat : c = b + d
  OBVIOUS
<1>2. a * c = a * b + a * d /\ a * d \in Nat /\ a * b \in Int
  BY <1>1
<1> QED BY <1>2

(* What a division leaves. *)
LEMMA DivBounds == ASSUME NEW a \in Int, NEW b \in Nat \ {0}
                   PROVE  /\ a \div b \in Int
                          /\ b * (a \div b) <= a /\ a < b * (a \div b) + b
                          /\ a >= 0 => a \div b >= 0
OBVIOUS

(* std::round() of a length that is a whole number is that number, and of a  *)
(* shorter one is no more.                                                   *)
LEMMA RoundedFacts ==
  ASSUME NEW n \in Nat, NEW d \in Nat \ {0}, NEW m \in Nat, n <= m * d
  PROVE  Rounded(n, d) \in 0 .. m /\ (n = m * d => Rounded(n, d) = m)
<1> DEFINE q == Rounded(n, d)
<1> DEFINE a == 2 * n + d
           b == 2 * d
<1>1. a \in Nat /\ b \in Nat \ {0}
  OBVIOUS
<1>2. q \in Nat /\ 2 * d * q <= 2 * n + d /\ 2 * n + d < 2 * d * q + 2 * d
  <2>1. q = a \div b
    BY DEF Rounded
  <2> HIDE DEF a, b
  <2>2. q \in Nat /\ b * q <= a /\ a < b * q + b
    BY <1>1, <2>1, DivBounds
  <2> QED BY <2>2 DEF a, b
<1> HIDE DEF q
<1>3. m * d = d * m /\ d * m \in Nat /\ d * q \in Nat
      /\ 2 * d * q = 2 * (d * q)
  BY <1>2
<1>4. q <= m
  <2> SUFFICES ASSUME q >= m + 1 PROVE FALSE
    BY <1>2
  <2>1. d * (m + 1) <= d * q /\ d * (m + 1) = d * m + d
    BY <1>2, MulMono
  <2> QED BY <2>1, <1>2, <1>3
<1>5. ASSUME n = m * d, q <= m - 1 PROVE FALSE
  <2>1. d * q <= d * (m - 1) /\ d * (m - 1) = d * m - d
    BY <1>2, <1>5, MulMono
  <2> QED BY <2>1, <1>2, <1>3, <1>5
<1> QED BY <1>2, <1>4, <1>5 DEF q

(* The image scaled to fit fits, and fills the canvas one way. *)
LEMMA ScaledFits ==
  ASSUME NEW width \in Nat \ {0}, NEW height \in Nat \ {0}
  PROVE  LET s == Scale(width, height)
         IN /\ s.num \in Nat \ {0} /\ s.den \in Nat \ {0}
            /\ Rounded(width * s.num, s.den) \in 0 .. InputWidth
            /\ Rounded(height * s.num, s.den) \in 0 .. InputHeight
<1> DEFINE s == Scale(width, height)
<1>0. InputWidth \in Nat \ {0} /\ InputHeight \in Nat \ {0}
  BY ProcessorAssumption
<1>1. CASE InputWidth * height <= InputHeight * width
  <2>1. s.num = InputWidth /\ s.den = width
    BY <1>1 DEF Scale
  <2>2. /\ width * InputWidth \in Nat /\ height * InputWidth \in Nat
        /\ width * InputWidth <= InputWidth * width
        /\ height * InputWidth <= InputHeight * width
    BY <1>0, <1>1
  <2> QED BY <1>0, <2>1, <2>2, RoundedFacts
<1>2. CASE ~(InputWidth * height <= InputHeight * width)
  <2>1. s.num = InputHeight /\ s.den = height
    BY <1>2 DEF Scale
  <2>2. /\ width * InputHeight \in Nat /\ height * InputHeight \in Nat
        /\ width * InputHeight <= InputWidth * height
        /\ height * InputHeight <= InputHeight * height
    BY <1>0, <1>2
  <2> QED BY <1>0, <2>1, <2>2, RoundedFacts
<1> QED BY <1>1, <1>2

-----------------------------------------------------------------------------
(* preprocess() *)

(* A bilinear sample stays in the image. *)
LEMMA SampleInside ==
  ASSUME NEW t \in Nat, NEW p, p.den \in Nat \ {0}, p.num \in Nat \ {0},
         NEW size \in Nat \ {0}
  PROVE  /\ Sample(t, p, size).first \in 0 .. size - 1
         /\ Sample(t, p, size).second \in 0 .. size - 1
<1> DEFINE position == (2 * t + 1) * p.den - p.num
           near  == Min({size - 1, position \div (2 * p.num)})
           first == Max({0, near})
<1>1. position \in Int /\ 2 * p.num \in Nat \ {0}
  OBVIOUS
<1>2. position \div (2 * p.num) \in Int
  BY <1>1, DivBounds
<1>3. near \in Int /\ near <= size - 1
  BY <1>2, MinOfTwo
<1>4. Sample(t, p, size).first = first /\ Sample(t, p, size).second = Min({size - 1, first + 1})
  BY DEF Sample
<1> HIDE DEF near
<1>5. first = IF 0 >= near THEN 0 ELSE near
  BY <1>3, MaxOfTwo
<1>6. first \in 0 .. size - 1
  BY <1>3, <1>5
<1> HIDE DEF first
<1>7. Min({size - 1, first + 1}) = IF size - 1 <= first + 1 THEN size - 1 ELSE first + 1
  BY <1>6, MinOfTwo
<1> QED BY <1>4, <1>6, <1>7

(* A cell of a grid of rows has a place of its own. *)
LEMMA CellInside ==
  ASSUME NEW row \in Nat, NEW col \in Nat, NEW width \in Nat, NEW height \in Nat,
         row <= height - 1, col <= width - 1
  PROVE  row * width + col \in 0 .. width * height - 1
<1>1. width * row <= width * (height - 1)
  BY MulMono
<1>2. width * (height - 1) = width * height - width /\ width * row = row * width
      /\ width * row \in Nat /\ width * height \in Nat
  OBVIOUS
<1> QED BY <1>1, <1>2

(* The letterbox of an image with pixels: inside the canvas and centred. *)
LEMMA LetterboxFacts ==
  ASSUME NEW width \in Nat \ {0}, NEW height \in Nat \ {0}
  PROVE  LET p == Letterbox(width, height)
         IN /\ p.width = width /\ p.height = height
            /\ p.num \in Nat \ {0} /\ p.den \in Nat \ {0}
            /\ p.resizedWidth \in 0 .. InputWidth /\ p.resizedHeight \in 0 .. InputHeight
            /\ p.padX \in Nat /\ p.padY \in Nat
            /\ InputWidth - p.resizedWidth - 2 * p.padX \in {0, 1}
            /\ InputHeight - p.resizedHeight - 2 * p.padY \in {0, 1}
<1> DEFINE s == Scale(width, height)
           w == Rounded(width * s.num, s.den)
           h == Rounded(height * s.num, s.den)
           p == Letterbox(width, height)
<1>0. InputWidth \in Nat /\ InputHeight \in Nat
  BY ProcessorAssumption
<1>1. /\ s.num \in Nat \ {0} /\ s.den \in Nat \ {0}
      /\ w \in 0 .. InputWidth /\ h \in 0 .. InputHeight
  BY ScaledFits
<1>2. /\ p.width = width /\ p.height = height /\ p.num = s.num /\ p.den = s.den
      /\ p.resizedWidth = w /\ p.resizedHeight = h
      /\ p.padX = (InputWidth - w) \div 2 /\ p.padY = (InputHeight - h) \div 2
  BY DEF Letterbox
<1> HIDE DEF s, w, h, p
<1>3. /\ (InputWidth - w) \div 2 \in Nat /\ (InputHeight - h) \div 2 \in Nat
      /\ InputWidth - w - 2 * ((InputWidth - w) \div 2) \in {0, 1}
      /\ InputHeight - h - 2 * ((InputHeight - h) \div 2) \in {0, 1}
  BY <1>0, <1>1
<1> QED BY <1>1, <1>2, <1>3 DEF p

(* A preprocessed image is the letterbox of one within the limits. *)
PreInv == pre.ok => /\ image.width \in Nat \ {0} /\ image.height \in Nat \ {0}
                    /\ pre = Letterbox(image.width, image.height)

(* Only preprocess() makes one. *)
LEMMA PreStep == PreInv /\ [ProcessorNext]_processorVars => PreInv'
<1> SUFFICES ASSUME PreInv, [ProcessorNext]_processorVars PROVE PreInv'
  OBVIOUS
<1>1. CASE Preprocess
  <2> DEFINE error == IF image.encoding = "empty" THEN "empty"
                      ELSE IF ~(HeaderRead(image) /\ WithinLimits(image)) THEN "limits"
                      ELSE IF ~Decoded(image) THEN "decode" ELSE ""
  <2>1. /\ image' = image
        /\ pre' = IF error # "" THEN [ok |-> FALSE, error |-> error]
                                ELSE Letterbox(image.width, image.height)
    BY <1>1 DEF Preprocess
  <2>2. error = "" => WithinLimits(image)
    OBVIOUS
  <2> HIDE DEF error
  <2>3. CASE error = ""
    <3>1. image.width \in 1 .. MaxSide /\ image.height \in 1 .. MaxSide /\ MaxSide \in Nat
      BY <2>2, <2>3, ProcessorAssumption DEF WithinLimits
    <3>2. image.width \in Nat \ {0} /\ image.height \in Nat \ {0}
      BY <3>1
    <3> QED BY <2>1, <2>3, <3>2 DEF PreInv
  <2>4. CASE error # ""
    BY <2>1, <2>4 DEF PreInv
  <2> QED BY <2>3, <2>4
<1>2. CASE Postprocess
  BY <1>2 DEF Postprocess, PreInv
<1>3. CASE UNCHANGED processorVars
  BY <1>3 DEF processorVars, PreInv
<1> QED BY <1>1, <1>2, <1>3 DEF ProcessorNext

(* Whatever the shape of the image, the canvas takes it. *)
LEMMA PreBounds == PreInv => TensorInBounds
<1> SUFFICES ASSUME PreInv, pre.ok PROVE TensorInBounds
  BY DEF TensorInBounds
<1>0. InputWidth \in Nat \ {0} /\ InputHeight \in Nat \ {0}
  BY ProcessorAssumption
<1>1. /\ pre.width \in Nat \ {0} /\ pre.height \in Nat \ {0}
      /\ pre.num \in Nat \ {0} /\ pre.den \in Nat \ {0}
      /\ pre.resizedWidth \in 0 .. InputWidth /\ pre.resizedHeight \in 0 .. InputHeight
      /\ pre.padX \in Nat /\ pre.padY \in Nat
      /\ InputWidth - pre.resizedWidth - 2 * pre.padX \in {0, 1}
      /\ InputHeight - pre.resizedHeight - 2 * pre.padY \in {0, 1}
  <2>1. PICK w \in Nat \ {0}, h \in Nat \ {0} : pre = Letterbox(w, h)
    BY DEF PreInv
  <2> QED BY <2>1, LetterboxFacts
<1>2. ASSUME NEW y \in 0 .. pre.resizedHeight - 1, NEW x \in 0 .. pre.resizedWidth - 1
      PROVE  {Target(pre, x, y, 0), Target(pre, x, y, 2)}
               \subseteq 0 .. 3 * InputWidth * InputHeight - 1
  <2> DEFINE row == pre.padY + y
             col == pre.padX + x
             cell == row * InputWidth + col
  <2>1. row \in Nat /\ col \in Nat /\ row <= InputHeight - 1 /\ col <= InputWidth - 1
    BY <1>0, <1>1
  <2>2. Target(pre, x, y, 0) = cell * 3 + 0 /\ Target(pre, x, y, 2) = cell * 3 + 2
    BY <1>0, <1>1, <2>1 DEF Target
  <2> HIDE DEF row, col
  <2>3. cell \in 0 .. InputWidth * InputHeight - 1
    BY <1>0, <2>1, CellInside
  <2>4. 3 * InputWidth * InputHeight = 3 * (InputWidth * InputHeight)
        /\ InputWidth * InputHeight \in Nat
    BY <1>0
  <2> HIDE DEF cell
  <2> QED BY <2>2, <2>3, <2>4
<1>3. ASSUME NEW y \in 0 .. pre.resizedHeight - 1, NEW x \in 0 .. pre.resizedWidth - 1,
             NEW r \in {Sample(y, pre, pre.height).first, Sample(y, pre, pre.height).second},
             NEW k \in {Sample(x, pre, pre.width).first, Sample(x, pre, pre.width).second}
      PROVE  Source(pre, r, k, 2) \in 2 .. 3 * pre.width * pre.height - 1
  <2>1. y \in Nat /\ x \in Nat
    BY <1>1
  <2>2. r \in 0 .. pre.height - 1
    BY <1>1, <2>1, SampleInside
  <2>3. k \in 0 .. pre.width - 1
    BY <1>1, <2>1, SampleInside
  <2> DEFINE cell == r * pre.width + k
  <2>4. cell \in 0 .. pre.width * pre.height - 1
    BY <1>1, <2>2, <2>3, CellInside
  <2>5. Source(pre, r, k, 2) = cell * 3 + 2
    BY DEF Source
  <2>6. 3 * pre.width * pre.height = 3 * (pre.width * pre.height)
        /\ pre.width * pre.height \in Nat
    BY <1>1
  <2> HIDE DEF cell
  <2> QED BY <2>4, <2>5, <2>6
<1> QED BY <1>1, <1>2, <1>3 DEF TensorInBounds

(* Every store into the tensor and every read of a decoded pixel is in       *)
(* range, for every size of the network's input and every limit on images.   *)
THEOREM TensorStaysInBounds == ProcessorSpec => []TensorInBounds
<1>1. ProcessorInit => PreInv
  <2>1. NoImage.ok = FALSE
    BY DEF NoImage
  <2> QED BY <2>1 DEF ProcessorInit, PreInv
<1> QED BY <1>1, PreStep, PreBounds, PTL DEF ProcessorSpec
-----------------------------------------------------------------------------
(* Non-maximum suppression *)

(* The first of the largest values of a list. *)
LEMMA FirstLargest ==
  ASSUME NEW n \in Nat \ {0}, NEW f \in [1 .. n -> Int]
  PROVE  \E c \in 1 .. n : /\ \A d \in 1 .. n : f[d] <= f[c]
                           /\ \A d \in 1 .. c - 1 : f[d] < f[c]
<1> DEFINE Fine(k) == \E c \in 1 .. k : /\ \A d \in 1 .. k : f[d] <= f[c]
                                        /\ \A d \in 1 .. c - 1 : f[d] < f[c]
           T == {k \in Nat : k + 1 <= n => Fine(k + 1)}
<1>1. 0 \in T
  <2>1. 1 \in 1 .. n /\ 1 .. 1 = {1} /\ 1 .. 1 - 1 = {} /\ 0 + 1 = 1
    OBVIOUS
  <2>2. f[1] \in Int
    BY <2>1
  <2>3. f[1] <= f[1]
    BY <2>2
  <2>4. Fine(1)
    BY <2>1, <2>3
  <2> HIDE DEF Fine
  <2> QED
    BY <2>1, <2>4
<1>2. ASSUME NEW k \in Nat, k \in T PROVE k + 1 \in T
  <2> SUFFICES ASSUME (k + 1) + 1 <= n PROVE Fine((k + 1) + 1)
    OBVIOUS
  <2>1. PICK m \in Nat : m = k + 1 + 1
    OBVIOUS
  <2>2. /\ m \in 1 .. n /\ k + 1 <= n /\ m - 1 = k + 1
        /\ \A d \in 1 .. k + 1 : d \in 1 .. n
        /\ \A d \in 1 .. m : d \in 1 .. k + 1 \/ d = m
        /\ \A d \in 1 .. k + 1 : d \in 1 .. m
    BY <2>1
  <2>3. Fine(k + 1)
    BY <1>2, <2>2
  <2>4. PICK c \in 1 .. k + 1 : /\ \A d \in 1 .. k + 1 : f[d] <= f[c]
                                /\ \A d \in 1 .. c - 1 : f[d] < f[c]
    BY <2>3
  <2>5. \A d \in 1 .. n : f[d] \in Int
    OBVIOUS
  <2>6. CASE f[m] > f[c]
    <3>1. \A d \in 1 .. m - 1 : f[d] < f[m]
      BY <2>2, <2>4, <2>5, <2>6
    <3>2. \A d \in 1 .. m : f[d] <= f[m]
      BY <2>2, <2>4, <2>5, <2>6
    <3> QED
      BY <2>1, <2>2, <3>1, <3>2
  <2>7. CASE ~(f[m] > f[c])
    <3>1. c \in 1 .. m
      BY <2>2
    <3>2. \A d \in 1 .. m : f[d] <= f[c]
      BY <2>2, <2>4, <2>5, <2>7
    <3> QED
      BY <2>1, <2>4, <3>1, <3>2
  <2> QED
    BY <2>6, <2>7
<1> HIDE DEF Fine
<1>3. Nat \subseteq T
  <2> HIDE DEF T
  <2> QED
    BY <1>1, <1>2, NatSetInduction
<1>4. n - 1 \in Nat /\ (n - 1) + 1 = n /\ n <= n
  OBVIOUS
<1>5. Fine(n)
  BY <1>3, <1>4
<1> QED
  BY <1>5 DEF Fine

(* The class of a candidate is one with the best score. *)
LEMMA BestClassFacts ==
  ASSUME NEW score \in [1 .. ClassCount -> Int]
  PROVE  BestClass(score) \in 1 .. ClassCount
<1>1. ClassCount \in Nat \ {0}
  BY ProcessorAssumption
<1>2. \E c \in 1 .. ClassCount : /\ \A d \in 1 .. ClassCount : score[d] <= score[c]
                                 /\ \A d \in 1 .. c - 1 : score[d] < score[c]
  BY <1>1, FirstLargest
<1> QED
  BY <1>2 DEF BestClass

(* What postprocess() makes of a candidate, and the ones it collects. *)
Found == [classId : 1 .. ClassCount, confidence : Int,
          x1 : Int, y1 : Int, x2 : Int, y2 : Int]

(* A box that does not reach past the image. *)
Inside(d, p) == /\ 0 <= d.x1 /\ d.x2 <= 2 * p.width * p.num
                /\ 0 <= d.y1 /\ d.y2 <= 2 * p.height * p.num

(* The corners are cut off at the borders of the image. *)
LEMMA DetectionFacts ==
  ASSUME NEW c \in Candidate, NEW p, p.padX \in Int, p.padY \in Int, p.den \in Int,
         p.num \in Int, p.width \in Int, p.height \in Int
  PROVE  Detection(c, p) \in Found /\ Inside(Detection(c, p), p)
<1> DEFINE d == Detection(c, p)
<1>1. /\ c.x \in Int /\ c.y \in Int /\ c.w \in Int /\ c.h \in Int
      /\ c.score \in [1 .. ClassCount -> Int]
  BY DEF Candidate
<1>2. PICK class \in 1 .. ClassCount : class = BestClass(c.score)
  BY <1>1, BestClassFacts
<1>3. c.score[class] \in Int
  BY <1>1, <1>2
<1>e. \A i, j, k, e \in Int : /\ (2 * i - j - 2 * k) * e \in Int
                              /\ (2 * i + j - 2 * k) * e \in Int
  OBVIOUS
<1>4. PICK l \in Int : l = (2 * c.x - c.w - 2 * p.padX) * p.den
  BY <1>1, <1>e
<1>5. PICK t \in Int : t = (2 * c.y - c.h - 2 * p.padY) * p.den
  BY <1>1, <1>e
<1>6. PICK r \in Int : r = (2 * c.x + c.w - 2 * p.padX) * p.den
  BY <1>1, <1>e
<1>7. PICK b \in Int : b = (2 * c.y + c.h - 2 * p.padY) * p.den
  BY <1>1, <1>e
<1>8. PICK xs \in Int : xs = 2 * p.width * p.num
  OBVIOUS
<1>9. PICK ys \in Int : ys = 2 * p.height * p.num
  OBVIOUS
<1>10. d = [classId |-> class, confidence |-> c.score[class],
            x1 |-> Max({0, l}), y1 |-> Max({0, t}),
            x2 |-> Min({xs, r}), y2 |-> Min({ys, b})]
  BY <1>2, <1>4, <1>5, <1>6, <1>7, <1>8, <1>9 DEF Detection
<1>11. /\ Max({0, l}) \in Int /\ 0 <= Max({0, l})
       /\ Max({0, t}) \in Int /\ 0 <= Max({0, t})
  BY MaxOfTwo
<1>12. /\ Min({xs, r}) \in Int /\ Min({xs, r}) <= xs
       /\ Min({ys, b}) \in Int /\ Min({ys, b}) <= ys
  BY MinOfTwo
<1> HIDE DEF d
<1>13. d \in Found
  BY <1>3, <1>10, <1>11, <1>12 DEF Found
<1>14. d.x1 = Max({0, l}) /\ d.y1 = Max({0, t}) /\ d.x2 = Min({xs, r}) /\ d.y2 = Min({ys, b})
  BY <1>10
<1>15. Inside(d, p)
  BY <1>8, <1>9, <1>11, <1>12, <1>14 DEF Inside
<1> QED
  BY <1>13, <1>15 DEF d

(* Overlap does not depend on which of two boxes is named first. *)
LEMMA OverlapSymmetric ==
  ASSUME NEW a \in Found, NEW b \in Found
  PROVE  Overlap(a, b) <=> Overlap(b, a)
<1>1. /\ a.x1 \in Int /\ a.x2 \in Int /\ a.y1 \in Int /\ a.y2 \in Int
      /\ b.x1 \in Int /\ b.x2 \in Int /\ b.y1 \in Int /\ b.y2 \in Int
  BY DEF Found
<1>2. ASSUME NEW d, d.x1 \in Int, d.x2 \in Int, d.y1 \in Int, d.y2 \in Int
      PROVE  Area(d) \in Int
  <2>1. PICK e \in Int : e = Max({0, d.x2 - d.x1})
    BY <1>2, MaxOfTwo
  <2>2. PICK f \in Int : f = Max({0, d.y2 - d.y1})
    BY <1>2, MaxOfTwo
  <2>3. Area(d) = e * f
    BY <2>1, <2>2 DEF Area
  <2> QED
    BY <2>3
<1>3. PICK m \in Int : m = Area(a)
  BY <1>1, <1>2
<1>4. PICK n \in Int : n = Area(b)
  BY <1>1, <1>2
<1>5. PICK e : e = Max({0, Min({a.x2, b.x2}) - Max({a.x1, b.x1})})
               * Max({0, Min({a.y2, b.y2}) - Max({a.y1, b.y1})})
  OBVIOUS
<1>6. e \in Int
  <2>1. PICK r \in Int : r = Min({a.x2, b.x2})
    BY <1>1, MinOfTwo
  <2>2. PICK l \in Int : l = Max({a.x1, b.x1})
    BY <1>1, MaxOfTwo
  <2>3. PICK u \in Int : u = Min({a.y2, b.y2})
    BY <1>1, MinOfTwo
  <2>4. PICK t \in Int : t = Max({a.y1, b.y1})
    BY <1>1, MaxOfTwo
  <2>5. PICK g \in Int : g = Max({0, r - l})
    BY MaxOfTwo
  <2>6. PICK h \in Int : h = Max({0, u - t})
    BY MaxOfTwo
  <2>7. e = g * h
    BY <1>5, <2>1, <2>2, <2>3, <2>4, <2>5, <2>6
  <2> QED
    BY <2>7
<1>7. \A x, y : {x, y} = {y, x}
  OBVIOUS
<1>8. e = Max({0, Min({b.x2, a.x2}) - Max({b.x1, a.x1})})
          * Max({0, Min({b.y2, a.y2}) - Max({b.y1, a.y1})})
  <2>1. {a.x2, b.x2} = {b.x2, a.x2} /\ {a.x1, b.x1} = {b.x1, a.x1}
    BY <1>7
  <2>2. {a.y2, b.y2} = {b.y2, a.y2} /\ {a.y1, b.y1} = {b.y1, a.y1}
    BY <1>7
  <2> QED
    BY <1>5, <2>1, <2>2
<1>9. Overlap(a, b) <=> m + n - e > 0 /\ 100 * e > NmsPercent * (m + n - e)
  BY <1>3, <1>4, <1>5 DEF Overlap
<1>10. Overlap(b, a) <=> n + m - e > 0 /\ 100 * e > NmsPercent * (n + m - e)
  BY <1>3, <1>4, <1>8 DEF Overlap
<1>11. m + n - e = n + m - e
  BY <1>6
<1> QED
  BY <1>9, <1>10, <1>11

(* The candidates among the boxes of an output. *)
Collected(list) == FoldLeft(Collect, <<>>, list)

(* The loop over the network's output, turn by turn. *)
LEMMA CollectTrace ==
  ASSUME NEW list \in Seq(Found)
  PROVE  \E g : /\ g[0] = <<>> /\ Collected(list) = g[Len(list)]
                /\ \A i \in 1 .. Len(list) : g[i] = Collect(g[i - 1], list[i])
<1>1. PICK n \in Nat : /\ n = Len(list) /\ DOMAIN list = 1 .. n
                       /\ \A i \in 1 .. n : list[i] \in Found
  OBVIOUS
<1> DEFINE S == Seq(Found)
           base == <<>>
           F == [p \in S \X (1 .. n) |-> Collect(p[1], list[p[2]])]
           Eq(it) == it = [t \in SUBSET (1 .. n) |->
                             IF t = {} THEN base ELSE Collect(it[t \ {Max(t)}], list[Max(t)])]
<1>2. \E it : Eq(it)
  <2>1. \A x \in S, i \in 1 .. n : F[<<x, i>>] = Collect(x, list[i])
    OBVIOUS
  <2>2. \A x \in S, i \in 1 .. n : Collect(x, list[i]) \in S
    <3> SUFFICES ASSUME NEW x \in S, NEW i \in 1 .. n PROVE Collect(x, list[i]) \in S
      OBVIOUS
    <3>1. Append(x, list[i]) \in S
      BY <1>1
    <3> QED
      BY <3>1 DEF Collect
  <2>3. base \in S
    OBVIOUS
  <2> HIDE DEF F, S, base
  <2>4. \A x \in S, i \in 1 .. n : F[<<x, i>>] \in S
    BY <2>1, <2>2
  <2>5. PICK it \in [SUBSET (1 .. n) -> S] : FoldEq(it, F, base, n)
    BY <2>3, <2>4, FoldExists
  <2>6. ASSUME NEW t \in SUBSET (1 .. n)
        PROVE  it[t] = IF t = {} THEN base ELSE Collect(it[t \ {Max(t)}], list[Max(t)])
    <3>1. CASE t = {}
      BY <2>5, <3>1 DEF FoldEq
    <3>2. CASE t # {}
      <4>1. PICK m \in 1 .. n : m = Max(t)
        BY <3>2, MaxInRange
      <4>2. t \ {m} \in SUBSET (1 .. n)
        OBVIOUS
      <4>3. it[t \ {m}] \in S
        BY <4>2
      <4>4. it[t] = F[<<it[t \ {m}], m>>]
        BY <2>5, <3>2, <4>1 DEF FoldEq
      <4>5. it[t] = Collect(it[t \ {m}], list[m])
        BY <2>1, <4>3, <4>4
      <4> QED
        BY <3>2, <4>1, <4>5
    <3> QED
      BY <3>1, <3>2
  <2>7. it = [t \in SUBSET (1 .. n) |-> it[t]]
    OBVIOUS
  <2> QED
    BY <2>6, <2>7
<1>3. PICK iter : iter = (CHOOSE it : Eq(it))
  OBVIOUS
<1>4. Eq(iter)
  BY <1>2, <1>3
<1>5. Collected(list) = iter[1 .. n]
  <2>1. Collected(list) = FoldLeft(Collect, <<>>, list)
    BY DEF Collected
  <2> QED
    BY <1>1, <1>3, <2>1 DEF FoldLeft, MapThenFoldSet
<1> DEFINE g == [done \in 0 .. n |-> iter[1 .. done]]
<1>6. g[0] = base
  <2>1. 1 .. 0 = {} /\ {} \in SUBSET (1 .. n)
    OBVIOUS
  <2>2. iter[{}] = base
    BY <1>4, <2>1
  <2> QED
    BY <2>1, <2>2
<1>7. ASSUME NEW done \in 1 .. n PROVE g[done] = Collect(g[done - 1], list[done])
  <2> DEFINE t == 1 .. done
  <2>1. t \in SUBSET (1 .. n) /\ t # {} /\ Max(t) = done /\ t \ {done} = 1 .. done - 1
    BY PrefixSets
  <2> HIDE DEF t, base
  <2>2. iter[t] = IF t = {} THEN base ELSE Collect(iter[t \ {Max(t)}], list[Max(t)])
    BY <1>4, <2>1
  <2>3. iter[1 .. done] = Collect(iter[1 .. done - 1], list[done])
    BY <2>1, <2>2 DEF t
  <2>4. g[done] = iter[1 .. done] /\ g[done - 1] = iter[1 .. done - 1]
    <3>1. done \in 0 .. n /\ done - 1 \in 0 .. n
      OBVIOUS
    <3> QED
      BY <3>1
  <2> HIDE DEF g
  <2> QED
    BY <2>3, <2>4
<1>8. Collected(list) = g[n]
  BY <1>5
<1> HIDE DEF g
<1> QED
  BY <1>1, <1>6, <1>7, <1>8

(* The loop of the suppression, turn by turn. *)
LEMMA SelectTrace ==
  ASSUME NEW list \in Seq(Found)
  PROVE  \E g : /\ g[0] = <<>> /\ Suppress(list) = g[Len(list)]
                /\ \A i \in 1 .. Len(list) : g[i] = Select(g[i - 1], list[i])
<1>1. PICK n \in Nat : /\ n = Len(list) /\ DOMAIN list = 1 .. n
                       /\ \A i \in 1 .. n : list[i] \in Found
  OBVIOUS
<1> DEFINE S == Seq(Found)
           base == <<>>
           F == [p \in S \X (1 .. n) |-> Select(p[1], list[p[2]])]
           Eq(it) == it = [t \in SUBSET (1 .. n) |->
                             IF t = {} THEN base ELSE Select(it[t \ {Max(t)}], list[Max(t)])]
<1>2. \E it : Eq(it)
  <2>1. \A x \in S, i \in 1 .. n : F[<<x, i>>] = Select(x, list[i])
    OBVIOUS
  <2>2. \A x \in S, i \in 1 .. n : Select(x, list[i]) \in S
    <3> SUFFICES ASSUME NEW x \in S, NEW i \in 1 .. n PROVE Select(x, list[i]) \in S
      OBVIOUS
    <3>1. Append(x, list[i]) \in S
      BY <1>1
    <3> QED
      BY <3>1 DEF Select
  <2>3. base \in S
    OBVIOUS
  <2> HIDE DEF F, S, base
  <2>4. \A x \in S, i \in 1 .. n : F[<<x, i>>] \in S
    BY <2>1, <2>2
  <2>5. PICK it \in [SUBSET (1 .. n) -> S] : FoldEq(it, F, base, n)
    BY <2>3, <2>4, FoldExists
  <2>6. ASSUME NEW t \in SUBSET (1 .. n)
        PROVE  it[t] = IF t = {} THEN base ELSE Select(it[t \ {Max(t)}], list[Max(t)])
    <3>1. CASE t = {}
      BY <2>5, <3>1 DEF FoldEq
    <3>2. CASE t # {}
      <4>1. PICK m \in 1 .. n : m = Max(t)
        BY <3>2, MaxInRange
      <4>2. t \ {m} \in SUBSET (1 .. n)
        OBVIOUS
      <4>3. it[t \ {m}] \in S
        BY <4>2
      <4>4. it[t] = F[<<it[t \ {m}], m>>]
        BY <2>5, <3>2, <4>1 DEF FoldEq
      <4>5. it[t] = Select(it[t \ {m}], list[m])
        BY <2>1, <4>3, <4>4
      <4> QED
        BY <3>2, <4>1, <4>5
    <3> QED
      BY <3>1, <3>2
  <2>7. it = [t \in SUBSET (1 .. n) |-> it[t]]
    OBVIOUS
  <2> QED
    BY <2>6, <2>7
<1>3. PICK iter : iter = (CHOOSE it : Eq(it))
  OBVIOUS
<1>4. Eq(iter)
  BY <1>2, <1>3
<1>5. Suppress(list) = iter[1 .. n]
  <2>1. Suppress(list) = FoldLeft(Select, <<>>, list)
    BY DEF Suppress
  <2> QED
    BY <1>1, <1>3, <2>1 DEF FoldLeft, MapThenFoldSet
<1> DEFINE g == [done \in 0 .. n |-> iter[1 .. done]]
<1>6. g[0] = base
  <2>1. 1 .. 0 = {} /\ {} \in SUBSET (1 .. n)
    OBVIOUS
  <2>2. iter[{}] = base
    BY <1>4, <2>1
  <2> QED
    BY <2>1, <2>2
<1>7. ASSUME NEW done \in 1 .. n PROVE g[done] = Select(g[done - 1], list[done])
  <2> DEFINE t == 1 .. done
  <2>1. t \in SUBSET (1 .. n) /\ t # {} /\ Max(t) = done /\ t \ {done} = 1 .. done - 1
    BY PrefixSets
  <2> HIDE DEF t, base
  <2>2. iter[t] = IF t = {} THEN base ELSE Select(iter[t \ {Max(t)}], list[Max(t)])
    BY <1>4, <2>1
  <2>3. iter[1 .. done] = Select(iter[1 .. done - 1], list[done])
    BY <2>1, <2>2 DEF t
  <2>4. g[done] = iter[1 .. done] /\ g[done - 1] = iter[1 .. done - 1]
    <3>1. done \in 0 .. n /\ done - 1 \in 0 .. n
      OBVIOUS
    <3> QED
      BY <3>1
  <2> HIDE DEF g
  <2> QED
    BY <2>3, <2>4
<1>8. Suppress(list) = g[n]
  BY <1>5
<1> HIDE DEF g
<1> QED
  BY <1>1, <1>6, <1>7, <1>8

(* Every candidate that is collected is a box inside the image. *)
LEMMA CollectedInside ==
  ASSUME NEW p, NEW list \in Seq(Found), \A i \in 1 .. Len(list) : Inside(list[i], p)
  PROVE  /\ Collected(list) \in Seq(Found)
         /\ \A i \in 1 .. Len(Collected(list)) :
              LET d == Collected(list)[i] IN Inside(d, p) /\ d.x1 < d.x2 /\ d.y1 < d.y2
<1>1. PICK n \in Nat : n = Len(list) /\ \A i \in 1 .. n : list[i] \in Found
  OBVIOUS
<1>2. PICK g : /\ g[0] = <<>> /\ Collected(list) = g[n]
               /\ \A i \in 1 .. n : g[i] = Collect(g[i - 1], list[i])
  BY <1>1, CollectTrace
<1> DEFINE Good == {d \in Found : Inside(d, p) /\ d.x1 < d.x2 /\ d.y1 < d.y2}
           R == {i \in 0 .. n : g[i] \in Seq(Good)}
<1>3. 0 \in R
  <2>1. <<>> \in Seq(Good)
    OBVIOUS
  <2>2. 0 \in 0 .. n
    OBVIOUS
  <2> HIDE DEF Good
  <2> QED
    BY <1>2, <2>1, <2>2
<1>4. ASSUME NEW i \in 1 .. n, i - 1 \in R PROVE i \in R
  <2>1. g[i - 1] \in Seq(Good) /\ i \in 0 .. n
    BY <1>4
  <2>2. list[i] \in Found /\ Inside(list[i], p)
    BY <1>1
  <2>3. /\ list[i].x1 \in Int /\ list[i].x2 \in Int
        /\ list[i].y1 \in Int /\ list[i].y2 \in Int
    BY <2>2 DEF Found
  <2>4. CASE list[i].confidence >= ConfidenceThreshold
             /\ list[i].x2 > list[i].x1 /\ list[i].y2 > list[i].y1
    <3>1. list[i] \in Good
      BY <2>2, <2>3, <2>4
    <3>2. g[i] = Append(g[i - 1], list[i])
      BY <1>2, <2>4 DEF Collect
    <3> HIDE DEF Good
    <3>3. g[i] \in Seq(Good)
      BY <2>1, <3>1, <3>2
    <3> QED
      BY <2>1, <3>3
  <2>5. CASE ~(list[i].confidence >= ConfidenceThreshold
               /\ list[i].x2 > list[i].x1 /\ list[i].y2 > list[i].y1)
    <3>1. g[i] = g[i - 1]
      BY <1>2, <2>5 DEF Collect
    <3> QED
      BY <2>1, <3>1
  <2> QED
    BY <2>4, <2>5
<1>5. n \in R
  <2> HIDE DEF R
  <2> QED
    BY <1>3, <1>4, TurnByTurn
<1>6. Collected(list) \in Seq(Good)
  BY <1>2, <1>5
<1>7. Good \subseteq Found /\ \A d \in Good : Inside(d, p) /\ d.x1 < d.x2 /\ d.y1 < d.y2
  OBVIOUS
<1> HIDE DEF Good
<1>8. Collected(list) \in Seq(Found)
  BY <1>6, <1>7
<1>9. \A i \in 1 .. Len(Collected(list)) : Collected(list)[i] \in Good
  BY <1>6
<1> QED
  BY <1>7, <1>8, <1>9

(* A list by falling confidence. *)
Falling(s) == \A i, j \in 1 .. Len(s) : i < j => s[i].confidence >= s[j].confidence

(* A list that falls from each place to the next falls from any to any later. *)
LEMMA FallsStepwise ==
  ASSUME NEW s \in Seq(Found),
         \A i \in 1 .. Len(s) - 1 : s[i].confidence >= s[i + 1].confidence
  PROVE  Falling(s)
<1>1. PICK n \in Nat : n = Len(s) /\ \A i \in 1 .. n : s[i] \in Found
  OBVIOUS
<1>2. \A i \in 1 .. n : s[i].confidence \in Int
  BY <1>1 DEF Found
<1>3. \A i \in 1 .. n - 1 : s[i].confidence >= s[i + 1].confidence
  BY <1>1
<1>4. ASSUME NEW i \in 1 .. n, NEW j \in 1 .. n, i < j
      PROVE  s[i].confidence >= s[j].confidence
  <2> DEFINE R == {k \in 0 .. n : k > i => s[i].confidence >= s[k].confidence}
  <2>1. 0 \in R
    OBVIOUS
  <2>2. ASSUME NEW k \in 1 .. n, k - 1 \in R PROVE k \in R
    <3> SUFFICES ASSUME k > i PROVE s[i].confidence >= s[k].confidence
      OBVIOUS
    <3>1. PICK l \in 1 .. n - 1 : l = k - 1 /\ l \in 1 .. n /\ k = l + 1
      OBVIOUS
    <3>2. s[l].confidence >= s[k].confidence
      BY <1>3, <3>1
    <3>3. CASE l = i
      BY <3>2, <3>3
    <3>4. CASE l > i
      <4>1. s[i].confidence >= s[l].confidence
        BY <2>2, <3>1, <3>4
      <4> QED
        BY <1>2, <3>1, <3>2, <4>1
    <3> QED
      BY <3>1, <3>3, <3>4
  <2>3. j \in Nat /\ \A k \in 1 .. j : k \in 1 .. n
    OBVIOUS
  <2>4. j \in R
    <3> HIDE DEF R
    <3> QED
      BY <2>1, <2>2, <2>3, TurnByTurn
  <2> QED
    BY <1>4, <2>4
<1> QED
  BY <1>1, <1>4 DEF Falling

(* std::sort() permutes the candidates and leaves them by falling confidence. *)
LEMMA SortedFacts ==
  ASSUME NEW list \in Seq(Found), NEW s \in Sorted(list)
  PROVE  s \in Seq(Found) /\ Falling(s) /\ Range(s) = Range(list)
<1>1. PICK n \in Nat : n = Len(list) /\ DOMAIN list = 1 .. n /\ \A i \in 1 .. n : list[i] \in Found
  OBVIOUS
<1>2. PICK o \in SetToSeqs(1 .. n) :
        /\ s = [i \in 1 .. n |-> list[o[i]]]
        /\ \A i \in 1 .. n - 1 : list[o[i]].confidence >= list[o[i + 1]].confidence
  BY <1>1 DEF Sorted
<1>3. Cardinality(1 .. n) = n /\ IsFiniteSet(1 .. n)
  BY FS_Interval
<1>4. o \in [1 .. n -> 1 .. n] /\ \A i, j \in 1 .. n : i # j => o[i] # o[j]
  BY <1>3 DEF SetToSeqs
<1>5. o \in Injection(1 .. n, 1 .. n)
  <2>1. DOMAIN o = 1 .. n
    BY <1>4
  <2>2. IsInjective(o)
    BY <1>4, <2>1 DEF IsInjective
  <2> QED
    BY <1>4, <2>2 DEF Injection
<1>6. o \in Surjection(1 .. n, 1 .. n)
  BY <1>3, <1>5, FS_Injection
<1>7. \A k \in 1 .. n : \E i \in 1 .. n : o[i] = k
  BY <1>6 DEF Surjection
<1>8. /\ DOMAIN s = 1 .. n /\ \A i \in 1 .. n : s[i] = list[o[i]] /\ o[i] \in 1 .. n
  BY <1>2, <1>4
<1>9. s \in Seq(Found) /\ Len(s) = n
  <2>1. s \in [1 .. n -> Found]
    BY <1>1, <1>2, <1>8
  <2> QED
    BY <2>1
<1>10. Range(s) = Range(list)
  <2>1. ASSUME NEW e \in Range(s) PROVE e \in Range(list)
    <3>1. PICK i \in 1 .. n : e = s[i]
      BY <1>8 DEF Range
    <3> QED
      BY <1>1, <1>8, <3>1 DEF Range
  <2>2. ASSUME NEW e \in Range(list) PROVE e \in Range(s)
    <3>1. PICK k \in 1 .. n : e = list[k]
      BY <1>1 DEF Range
    <3>2. PICK i \in 1 .. n : o[i] = k
      BY <1>7
    <3>3. e = s[i]
      BY <1>8, <3>1, <3>2
    <3> QED
      BY <1>8, <3>3 DEF Range
  <2> QED
    BY <2>1, <2>2
<1>11. \A i \in 1 .. n - 1 : s[i].confidence >= s[i + 1].confidence
  <2>1. \A i \in 1 .. n - 1 : i \in 1 .. n /\ i + 1 \in 1 .. n
    OBVIOUS
  <2> QED
    BY <1>2, <1>8, <2>1
<1>12. Falling(s)
  BY <1>9, <1>11, FallsStepwise
<1> QED
  BY <1>9, <1>10, <1>12

(* One detection stands for another of its class that it overlaps. *)
StandsFor(k, d) == /\ k.classId = d.classId /\ k.confidence >= d.confidence
                   /\ Overlap(d, k)

(* No two of a list are of one class and overlap. *)
SetApart(kept) ==
  \A i, j \in 1 .. Len(kept) :
    i < j => ~(kept[i].classId = kept[j].classId /\ Overlap(kept[j], kept[i]))

(* What the suppression has made of the first `done` candidates of s. *)
Selected(kept, s, done) ==
  /\ kept \in Seq(Found)
  /\ \A k \in Range(kept) : \E j \in 1 .. done : k = s[j]
  /\ Falling(kept) /\ SetApart(kept)
  /\ \A j \in 1 .. done : s[j] \in Range(kept) \/ \E k \in Range(kept) : StandsFor(k, s[j])

(* What a list holds, by its places. *)
LEMMA PlacesOf ==
  ASSUME NEW S, NEW s \in Seq(S)
  PROVE  /\ \A i \in 1 .. Len(s) : s[i] \in Range(s) /\ s[i] \in S
         /\ \A e \in Range(s) : \E i \in 1 .. Len(s) : e = s[i]
<1>1. DOMAIN s = 1 .. Len(s) /\ \A i \in 1 .. Len(s) : s[i] \in S
  OBVIOUS
<1> QED
  BY <1>1 DEF Range

(* One turn of the suppression. *)
LEMMA SelectTurn ==
  ASSUME NEW s \in Seq(Found), Falling(s), NEW i \in 1 .. Len(s), NEW kept,
         Selected(kept, s, i - 1)
  PROVE  Selected(Select(kept, s[i]), s, i)
<1> DEFINE before == i - 1
           e == s[i]
<1>0. before \in Nat /\ Len(s) \in Nat /\ i \in Nat
  OBVIOUS
<1>1. /\ kept \in Seq(Found)
      /\ \A k \in Range(kept) : \E j \in 1 .. before : k = s[j]
      /\ Falling(kept) /\ SetApart(kept)
      /\ \A j \in 1 .. before : s[j] \in Range(kept) \/ \E k \in Range(kept) : StandsFor(k, s[j])
  BY DEF Selected
<1>2. /\ \A j \in 1 .. before : j \in 1 .. i /\ j < i /\ j \in 1 .. Len(s)
      /\ \A j \in 1 .. i : j \in 1 .. before \/ j = i
      /\ i \in 1 .. i
  BY <1>0
<1> HIDE DEF before
<1>3. e \in Found
  OBVIOUS
<1>4. \A j \in 1 .. before : s[j].confidence >= e.confidence
  BY <1>2 DEF Falling
<1>5. \A k \in Range(kept) : k.confidence >= e.confidence
  BY <1>1, <1>4
<1> HIDE DEF e
<1>6. CASE \E k \in Range(kept) : k.classId = e.classId /\ Overlap(e, k)
  <2>1. Select(kept, e) = kept
    BY <1>6 DEF Select
  <2>2. \E k \in Range(kept) : StandsFor(k, e)
    BY <1>5, <1>6 DEF StandsFor
  <2>3. \A j \in 1 .. i : s[j] \in Range(kept) \/ \E k \in Range(kept) : StandsFor(k, s[j])
    BY <1>1, <1>2, <2>2 DEF e
  <2>4. \A k \in Range(kept) : \E j \in 1 .. i : k = s[j]
    BY <1>1, <1>2
  <2>5. Selected(kept, s, i)
    BY <1>1, <2>3, <2>4 DEF Selected
  <2> QED
    BY <2>1, <2>5 DEF e
<1>7. CASE ~\E k \in Range(kept) : k.classId = e.classId /\ Overlap(e, k)
  <2>1. PICK more : more = Append(kept, e)
    OBVIOUS
  <2>2. Select(kept, e) = more
    BY <1>7, <2>1 DEF Select
  <2>3. PICK m \in Nat : m = Len(kept)
    BY <1>1
  <2>4. /\ more \in Seq(Found) /\ Len(more) = m + 1 /\ more[m + 1] = e
        /\ \A j \in 1 .. m : more[j] = kept[j]
    BY <1>1, <1>3, <2>1, <2>3, AppendProperties
  <2>5. Range(more) = Range(kept) \union {e}
    BY <1>1, <1>3, <2>1, RangeAppend
  <2>6. \A j \in 1 .. m : kept[j] \in Range(kept)
    BY <1>1, <2>3, PlacesOf
  <2>7. \A j \in 1 .. m + 1 : j \in 1 .. m \/ j = m + 1
    OBVIOUS
  <2>8. \A a, b \in 1 .. m + 1 : a < b => a \in 1 .. m
    OBVIOUS
  <2>9. Falling(more)
    <3> SUFFICES ASSUME NEW a \in 1 .. m + 1, NEW b \in 1 .. m + 1, a < b
                 PROVE  more[a].confidence >= more[b].confidence
      BY <2>4 DEF Falling
    <3>1. a \in 1 .. m /\ more[a] = kept[a]
      BY <2>4, <2>8
    <3>2. CASE b = m + 1
      BY <1>5, <2>4, <2>6, <3>1, <3>2
    <3>3. CASE b \in 1 .. m
      BY <1>1, <2>3, <2>4, <3>1, <3>3 DEF Falling
    <3> QED
      BY <2>7, <3>2, <3>3
  <2>10. SetApart(more)
    <3> SUFFICES ASSUME NEW a \in 1 .. m + 1, NEW b \in 1 .. m + 1, a < b
                 PROVE  ~(more[a].classId = more[b].classId /\ Overlap(more[b], more[a]))
      BY <2>4 DEF SetApart
    <3>1. a \in 1 .. m /\ more[a] = kept[a]
      BY <2>4, <2>8
    <3>2. CASE b = m + 1
      <4>1. kept[a] \in Range(kept) /\ more[b] = e
        BY <2>4, <2>6, <3>1, <3>2
      <4> QED
        BY <1>7, <3>1, <4>1
    <3>3. CASE b \in 1 .. m
      <4>1. more[b] = kept[b]
        BY <2>4, <3>3
      <4> QED
        BY <1>1, <2>3, <3>1, <3>3, <4>1 DEF SetApart
    <3> QED
      BY <2>7, <3>2, <3>3
  <2>11. \A k \in Range(more) : \E j \in 1 .. i : k = s[j]
    BY <1>1, <1>2, <2>5 DEF e
  <2>12. \A j \in 1 .. i : s[j] \in Range(more) \/ \E k \in Range(more) : StandsFor(k, s[j])
    BY <1>1, <1>2, <2>5 DEF e
  <2>13. Selected(more, s, i)
    BY <2>4, <2>9, <2>10, <2>11, <2>12 DEF Selected
  <2> QED
    BY <2>2, <2>13 DEF e
<1> QED
  BY <1>6, <1>7

(* All turns of it. *)
LEMMA SuppressFacts ==
  ASSUME NEW s \in Seq(Found), Falling(s)
  PROVE  Selected(Suppress(s), s, Len(s))
<1>1. PICK n \in Nat : n = Len(s)
  OBVIOUS
<1>2. PICK g : /\ g[0] = <<>> /\ Suppress(s) = g[n]
               /\ \A i \in 1 .. n : g[i] = Select(g[i - 1], s[i])
  BY <1>1, SelectTrace
<1> DEFINE R == {i \in 0 .. n : Selected(g[i], s, i)}
<1>3. 0 \in R
  <2>1. <<>> \in Seq(Found) /\ Len(<<>>) = 0 /\ 1 .. 0 = {} /\ 0 \in 0 .. n
    OBVIOUS
  <2>2. Range(<<>>) = {}
    BY PlacesOf, <2>1
  <2>3. Falling(<<>>) /\ SetApart(<<>>)
    BY <2>1 DEF Falling, SetApart
  <2>4. Selected(<<>>, s, 0)
    BY <2>1, <2>2, <2>3 DEF Selected
  <2> QED
    BY <1>2, <2>1, <2>4
<1>4. ASSUME NEW i \in 1 .. n, i - 1 \in R PROVE i \in R
  <2>1. PICK kept : kept = g[i - 1]
    OBVIOUS
  <2>2. Selected(kept, s, i - 1)
    BY <1>4, <2>1
  <2>3. Selected(Select(kept, s[i]), s, i)
    BY <1>1, <2>2, SelectTurn
  <2>4. g[i] = Select(kept, s[i]) /\ i \in 0 .. n
    BY <1>2, <2>1
  <2> QED
    BY <2>3, <2>4
<1>5. n \in R
  <2> HIDE DEF R
  <2> QED
    BY <1>3, <1>4, TurnByTurn
<1> QED
  BY <1>1, <1>2, <1>5

(* What postprocess() returned is what it made of the network's output. *)
ChosenInv ==
  raw # <<>> =>
    /\ pre.ok /\ raw \in Outputs
    /\ Len(raw) = CandidateCount =>
         \E sorted \in Sorted(Candidates(raw, pre)) : detections = Suppress(sorted)

(* An image is preprocessed once, and its output is processed once. *)
LEMMA ChosenStep == ChosenInv /\ [ProcessorNext]_processorVars => ChosenInv'
<1> SUFFICES ASSUME ChosenInv, [ProcessorNext]_processorVars PROVE ChosenInv'
  OBVIOUS
<1>1. CASE Preprocess
  <2>1. NoImage.ok = FALSE
    BY DEF NoImage
  <2>2. pre = NoImage /\ raw' = raw
    BY <1>1 DEF Preprocess
  <2> QED
    BY <2>1, <2>2 DEF ChosenInv
<1>2. CASE Postprocess
  <2>1. pre.ok /\ pre' = pre /\ raw' \in Outputs
    BY <1>2 DEF Postprocess
  <2>2. Len(raw') = CandidateCount =>
          \E sorted \in Sorted(Candidates(raw', pre)) : detections' = Suppress(sorted)
    BY <1>2 DEF Postprocess
  <2> QED
    BY <2>1, <2>2 DEF ChosenInv
<1>3. CASE UNCHANGED processorVars
  BY <1>3 DEF processorVars, ChosenInv
<1> QED
  BY <1>1, <1>2, <1>3 DEF ProcessorNext

(* The candidates of an output are boxes inside the image they come from. *)
LEMMA CandidatesInside ==
  ASSUME NEW output \in Seq(Candidate), NEW width \in Nat \ {0}, NEW height \in Nat \ {0},
         NEW p, p = Letterbox(width, height)
  PROVE  /\ Candidates(output, p) \in Seq(Found)
         /\ \A d \in Range(Candidates(output, p)) :
              d \in Found /\ Inside(d, p) /\ d.x1 < d.x2 /\ d.y1 < d.y2
<1>1. /\ p.width \in Int /\ p.height \in Int /\ p.num \in Int /\ p.den \in Int
      /\ p.padX \in Int /\ p.padY \in Int
  BY LetterboxFacts
<1>2. PICK n \in Nat : n = Len(output) /\ \A i \in 1 .. n : output[i] \in Candidate
  OBVIOUS
<1>3. \A i \in 1 .. n : Detection(output[i], p) \in Found /\ Inside(Detection(output[i], p), p)
  BY <1>1, <1>2, DetectionFacts
<1>4. PICK list : list = [i \in 1 .. n |-> Detection(output[i], p)]
  OBVIOUS
<1>5. /\ list \in Seq(Found) /\ Len(list) = n
      /\ \A i \in 1 .. n : Inside(list[i], p)
  <2>1. list \in [1 .. n -> Found] /\ \A i \in 1 .. n : list[i] = Detection(output[i], p)
    BY <1>3, <1>4
  <2>2. list \in Seq(Found) /\ Len(list) = n
    BY <2>1
  <2> QED
    BY <1>3, <2>1, <2>2
<1>6. PICK all : all = Collected(list)
  OBVIOUS
<1>7. Candidates(output, p) = all
  BY <1>2, <1>4, <1>6 DEF Candidates, Collected
<1>8. /\ Collected(list) \in Seq(Found)
      /\ \A i \in 1 .. Len(Collected(list)) :
           LET d == Collected(list)[i] IN Inside(d, p) /\ d.x1 < d.x2 /\ d.y1 < d.y2
  BY <1>5, CollectedInside
<1>9. /\ all \in Seq(Found)
      /\ \A i \in 1 .. Len(all) : Inside(all[i], p) /\ all[i].x1 < all[i].x2 /\ all[i].y1 < all[i].y2
  BY <1>6, <1>8
<1>10. ASSUME NEW d \in Range(all)
       PROVE  d \in Found /\ Inside(d, p) /\ d.x1 < d.x2 /\ d.y1 < d.y2
  <2>1. PICK i \in 1 .. Len(all) : d = all[i]
    BY <1>9, PlacesOf
  <2>2. all[i] \in Found
    BY <1>9, PlacesOf
  <2> QED
    BY <1>9, <2>1, <2>2
<1> QED
  BY <1>7, <1>9, <1>10

(* Whatever order equal confidences are sorted in, the selection is right. *)
LEMMA ChosenRight == PreInv /\ ChosenInv => SelectionRight
<1> SUFFICES ASSUME PreInv, ChosenInv, Len(raw) = CandidateCount PROVE SelectionRight
  BY DEF SelectionRight
<1>1. raw # <<>>
  <2>1. Len(<<>>) = 0 /\ CandidateCount # 0
    BY ProcessorAssumption
  <2> QED
    BY <2>1
<1>2. /\ pre.ok /\ raw \in Seq(Candidate)
      /\ \E sorted \in Sorted(Candidates(raw, pre)) : detections = Suppress(sorted)
  BY <1>1, OutputAssumption DEF ChosenInv
<1>3. PICK w \in Nat \ {0}, h \in Nat \ {0} : pre = Letterbox(w, h)
  BY <1>2 DEF PreInv
<1>4. PICK p : p = pre
  OBVIOUS
<1>5. PICK list : list = Candidates(raw, p)
  OBVIOUS
<1>6. /\ list \in Seq(Found)
      /\ \A d \in Range(list) : d \in Found /\ Inside(d, p) /\ d.x1 < d.x2 /\ d.y1 < d.y2
  BY <1>2, <1>3, <1>4, <1>5, CandidatesInside
<1>7. PICK s \in Sorted(list) : detections = Suppress(s)
  BY <1>2, <1>4, <1>5
<1>8. s \in Seq(Found) /\ Falling(s) /\ Range(s) = Range(list)
  BY <1>6, <1>7, SortedFacts
<1>9. PICK kept : kept = Suppress(s)
  OBVIOUS
<1>10. Selected(kept, s, Len(s))
  BY <1>8, <1>9, SuppressFacts
<1>11. /\ kept \in Seq(Found)
       /\ \A k \in Range(kept) : \E j \in 1 .. Len(s) : k = s[j]
       /\ Falling(kept) /\ SetApart(kept)
       /\ \A j \in 1 .. Len(s) : s[j] \in Range(kept) \/ \E k \in Range(kept) : StandsFor(k, s[j])
  BY <1>10 DEF Selected
<1>12. \A j \in 1 .. Len(s) : s[j] \in Range(s)
  BY <1>8, PlacesOf
<1>13. Range(kept) \subseteq Range(list)
  BY <1>8, <1>11, <1>12
<1>14. \A d \in Range(kept) : /\ 0 <= d.x1 /\ d.x1 < d.x2 /\ d.x2 <= 2 * p.width * p.num
                              /\ 0 <= d.y1 /\ d.y1 < d.y2 /\ d.y2 <= 2 * p.height * p.num
  BY <1>6, <1>13 DEF Inside
<1>15. ASSUME NEW i \in 1 .. Len(kept), NEW j \in 1 .. Len(kept), i < j
       PROVE  /\ kept[i].confidence >= kept[j].confidence
              /\ ~(kept[i].classId = kept[j].classId /\ Overlap(kept[i], kept[j]))
  <2>1. kept[i] \in Found /\ kept[j] \in Found
    BY <1>11
  <2>2. Overlap(kept[i], kept[j]) <=> Overlap(kept[j], kept[i])
    BY <2>1, OverlapSymmetric
  <2>3. kept[i].confidence >= kept[j].confidence
    BY <1>11, <1>15 DEF Falling
  <2>4. ~(kept[i].classId = kept[j].classId /\ Overlap(kept[j], kept[i]))
    BY <1>11, <1>15 DEF SetApart
  <2> QED
    BY <2>2, <2>3, <2>4
<1>16. ASSUME NEW d \in Range(list) \ Range(kept)
       PROVE  \E k \in Range(kept) : /\ k.classId = d.classId /\ k.confidence >= d.confidence
                                     /\ Overlap(k, d)
  <2>1. PICK j \in 1 .. Len(s) : d = s[j]
    BY <1>8, PlacesOf
  <2>2. PICK k \in Range(kept) : StandsFor(k, d)
    BY <1>11, <2>1
  <2>3. k \in Found /\ d \in Found
    BY <1>6, <1>13
  <2>4. Overlap(k, d) <=> Overlap(d, k)
    BY <2>3, OverlapSymmetric
  <2> QED
    BY <2>2, <2>4 DEF StandsFor
<1>17. detections = kept /\ Candidates(raw, pre) = list
  BY <1>4, <1>5, <1>7, <1>9
<1> QED
  BY <1>4, <1>13, <1>14, <1>15, <1>16, <1>17 DEF SelectionRight

(* Non-maximum suppression for every output of the network, every number of   *)
(* candidates and classes, and every threshold: candidates inside the image,  *)
(* best first, apart, and none missing without a better one that overlaps it. *)
THEOREM SelectionIsRight == ProcessorSpec => []SelectionRight
<1>1. ProcessorInit => PreInv /\ ChosenInv
  <2>1. NoImage.ok = FALSE
    BY DEF NoImage
  <2> QED
    BY <2>1 DEF ProcessorInit, PreInv, ChosenInv
<1> QED
  BY <1>1, PreStep, ChosenStep, ChosenRight, PTL DEF ProcessorSpec

-----------------------------------------------------------------------------
(* The stand-alone detector *)

(* The two rounded borders of letterbox() make up the whole margin. *)
LEMMA BordersAddUp == ASSUME NEW d \in Nat PROVE Before(d) + After(d) = d
<1>1. Max({0, 5 * d - 1}) = IF 0 >= 5 * d - 1 THEN 0 ELSE 5 * d - 1
  BY MaxOfTwo
<1>2. CASE d = 0
  BY <1>1, <1>2 DEF Before, After, Rounded
<1>3. CASE d # 0
  <2>1. Before(d) = (10 * d + 8) \div 20 /\ After(d) = (10 * d + 12) \div 20
    BY <1>1, <1>3 DEF Before, After, Rounded
  <2>2. PICK k \in Nat : d = 2 * k \/ d = 2 * k + 1
    <3>1. /\ d \div 2 \in Nat
          /\ d = 2 * (d \div 2) \/ d = 2 * (d \div 2) + 1
      OBVIOUS
    <3> QED BY <3>1
  <2> QED BY <2>1, <2>2
<1> QED BY <1>2, <1>3

(* letterbox() of a frame with pixels. *)
LEMMA LetterboxMatFacts ==
  ASSUME NEW width \in Nat \ {0}, NEW height \in Nat \ {0}
  PROVE  LET p == LetterboxMat(width, height)
             l == Letterbox(width, height)
         IN /\ p.width = width /\ p.height = height
            /\ p.num \in Nat \ {0} /\ p.den \in Nat \ {0} /\ p.dw \in Nat /\ p.dh \in Nat
            /\ p.canvasWidth = InputWidth /\ p.canvasHeight = InputHeight
            /\ p.dw - 2 * l.padX \in {0, 1} /\ p.dh - 2 * l.padY \in {0, 1}
<1> DEFINE s == Scale(width, height)
           w == Rounded(width * s.num, s.den)
           h == Rounded(height * s.num, s.den)
           dw == InputWidth - w
           dh == InputHeight - h
           p == LetterboxMat(width, height)
           l == Letterbox(width, height)
<1>0. InputWidth \in Nat /\ InputHeight \in Nat
  BY ProcessorAssumption
<1>1. /\ s.num \in Nat \ {0} /\ s.den \in Nat \ {0}
      /\ w \in 0 .. InputWidth /\ h \in 0 .. InputHeight
  BY ScaledFits
<1>2. /\ p.width = width /\ p.height = height /\ p.num = s.num /\ p.den = s.den
      /\ p.dw = dw /\ p.dh = dh
      /\ p.canvasWidth = Before(dw) + w + After(dw)
      /\ p.canvasHeight = Before(dh) + h + After(dh)
  BY DEF LetterboxMat
<1>3. l.resizedWidth = w /\ l.resizedHeight = h
  BY DEF Letterbox
<1>4. /\ InputWidth - l.resizedWidth - 2 * l.padX \in {0, 1}
      /\ InputHeight - l.resizedHeight - 2 * l.padY \in {0, 1}
  BY LetterboxFacts
<1> HIDE DEF s, w, h, p, l
<1>5. dw \in Nat /\ dh \in Nat
  BY <1>0, <1>1
<1>6. Before(dw) + After(dw) = dw /\ Before(dh) + After(dh) = dh
  BY <1>5, BordersAddUp
<1>7. Before(dw) \in Int /\ After(dw) \in Int /\ Before(dh) \in Int /\ After(dh) \in Int
  <2>1. ASSUME NEW d \in Nat PROVE Before(d) \in Int /\ After(d) \in Int
    <3>1. Max({0, 5 * d - 1}) = IF 0 >= 5 * d - 1 THEN 0 ELSE 5 * d - 1
      BY MaxOfTwo
    <3> QED BY <3>1 DEF Before, After, Rounded
  <2> QED BY <2>1, <1>5
<1>8. p.canvasWidth = InputWidth /\ p.canvasHeight = InputHeight
  BY <1>0, <1>1, <1>2, <1>6, <1>7
<1>9. p.dw - 2 * l.padX \in {0, 1} /\ p.dh - 2 * l.padY \in {0, 1}
  BY <1>2, <1>3, <1>4
<1> QED BY <1>1, <1>2, <1>5, <1>8, <1>9 DEF p, l

(* A clamped coordinate lies between its limits, and clamping keeps order. *)
LEMMA ClampFacts ==
  ASSUME NEW a \in Int, NEW b \in Int, a <= b, NEW high \in Nat
  PROVE  /\ Clamp(a, 0, high) \in 0 .. high /\ Clamp(b, 0, high) \in 0 .. high
         /\ Clamp(a, 0, high) <= Clamp(b, 0, high)
BY DEF Clamp

(* So do the corners of an object. *)
LEMMA ObjectFacts ==
  ASSUME NEW b \in Findings, NEW p,
         p.num \in Nat, p.den \in Nat, p.width \in Nat, p.height \in Nat,
         p.dw \in Nat, p.dh \in Nat
  PROVE  LET o == ObjectOf(b, p)
         IN /\ 0 <= o.x0 /\ o.x0 <= o.x1 /\ o.x1 <= 2 * p.width * p.num
            /\ 0 <= o.y0 /\ o.y0 <= o.y1 /\ o.y1 <= 2 * p.height * p.num
<1>1. /\ b.x0 \in Int /\ b.y0 \in Int /\ b.x1 \in Int /\ b.y1 \in Int
      /\ b.x0 <= b.x1 /\ b.y0 <= b.y1
  BY End2EndAssumption
<1> DEFINE Place(v, d) == (2 * v - d) * p.den
<1>2. ASSUME NEW v \in Int, NEW u \in Int, NEW d \in Nat, v <= u
      PROVE  Place(v, d) \in Int /\ Place(u, d) \in Int /\ Place(v, d) <= Place(u, d)
  <2>1. p.den * (2 * v - d) <= p.den * (2 * u - d)
    BY <1>2, MulMono
  <2>2. p.den * (2 * v - d) = Place(v, d) /\ p.den * (2 * u - d) = Place(u, d)
    OBVIOUS
  <2> QED BY <2>1, <2>2
<1>3. 2 * p.width * p.num \in Nat /\ 2 * p.height * p.num \in Nat
  OBVIOUS
<1> DEFINE o == ObjectOf(b, p)
<1>4. /\ o.x0 = Clamp(Place(b.x0, p.dw), 0, 2 * p.width * p.num)
      /\ o.x1 = Clamp(Place(b.x1, p.dw), 0, 2 * p.width * p.num)
      /\ o.y0 = Clamp(Place(b.y0, p.dh), 0, 2 * p.height * p.num)
      /\ o.y1 = Clamp(Place(b.y1, p.dh), 0, 2 * p.height * p.num)
  BY DEF ObjectOf
<1>5. /\ Place(b.x0, p.dw) \in Int /\ Place(b.x1, p.dw) \in Int
      /\ Place(b.x0, p.dw) <= Place(b.x1, p.dw)
      /\ Place(b.y0, p.dh) \in Int /\ Place(b.y1, p.dh) \in Int
      /\ Place(b.y0, p.dh) <= Place(b.y1, p.dh)
  BY <1>1, <1>2
<1> HIDE DEF Place, o
<1>6. o.x0 \in 0 .. 2 * p.width * p.num /\ o.x1 \in 0 .. 2 * p.width * p.num /\ o.x0 <= o.x1
  BY <1>3, <1>4, <1>5, ClampFacts
<1>7. o.y0 \in 0 .. 2 * p.height * p.num /\ o.y1 \in 0 .. 2 * p.height * p.num /\ o.y0 <= o.y1
  BY <1>3, <1>4, <1>5, ClampFacts
<1> QED BY <1>3, <1>6, <1>7 DEF o

(* SetToSeq() lists a finite set. *)
LEMMA ListedSet == ASSUME NEW S, IsFiniteSet(S) PROVE Range(SetToSeq(S)) = S
<1> DEFINE n == Cardinality(S)
<1>1. n \in Nat /\ ExistsBijection(1 .. n, S)
  BY FS_CardinalityType
<1>2. \E f \in [1 .. n -> S] : IsInjective(f)
  BY <1>1 DEF ExistsBijection, Bijection, Injection
<1>3. SetToSeq(S) \in [1 .. n -> S] /\ IsInjective(SetToSeq(S))
  BY <1>2, Zenon DEF SetToSeq
<1> DEFINE f == SetToSeq(S)
<1> HIDE DEF f, n
<1>4. f \in Injection(1 .. n, S)
  BY <1>3 DEF f, n, Injection
<1>5. Cardinality(1 .. n) = n
  BY <1>1, FS_Interval
<1>6. f \in Surjection(1 .. n, S)
  BY <1>4, <1>5, FS_Injection DEF n
<1> QED BY <1>6 DEF Range, Surjection, f

(* What main() knows of its frame at each place; of the objects as long as    *)
(* nothing was read past a buffer.                                            *)
FrameInv ==
  /\ argument \in Arguments /\ frames \in Seq(Mats)
  /\ pc \in {"infer", "postprocess", "draw"} =>
       /\ frame \in Mats /\ frame.width # 0 /\ frame.height # 0
       /\ pparam = LetterboxMat(frame.width, frame.height)
  /\ pc \in {"postprocess", "draw"} => found.of = frame /\ found.boxes \subseteq Findings
  /\ pc = "draw" /\ ~overrun => objs = SetToSeq({ObjectOf(b, pparam) : b \in found.boxes})

(* The letterbox, the boxes and the objects are those of one frame. *)
LEMMA FrameStep == FrameInv /\ [End2EndNext]_end2endVars => FrameInv'
<1> SUFFICES ASSUME FrameInv, [End2EndNext]_end2endVars PROVE FrameInv'
  OBVIOUS
<1> USE DEF FrameInv, Still, pipe
<1>0. <<>> \in Seq(Mats) /\ frames \in Seq(Mats)
  OBVIOUS
<1>1. CASE Usage
  BY <1>1 DEF Usage
<1>2. CASE LoadEngine
  BY <1>2 DEF LoadEngine
<1>3. CASE MakePipe
  BY <1>3 DEF MakePipe
<1>4. CASE ReadArguments
  <2>1. /\ argument.frames \in Seq(Mats)
        /\ argument.exists /\ argument.suffix = "image" => argument.frames # <<>>
    <3>1. argument \in Arguments
      OBVIOUS
    <3> HIDE DEF FrameInv
    <3>2. argument.frames \in Seq(Mats)
      BY <3>1, End2EndAssumption
    <3>3. argument.exists /\ argument.suffix = "image" => argument.frames # <<>>
      BY <3>1, End2EndAssumption
    <3> QED BY <3>2, <3>3
  <2>2. argument.frames # <<>> => <<Head(argument.frames)>> \in Seq(Mats)
    BY <2>1
  <2>3. frames' \in {<<Head(argument.frames)>>, argument.frames, frames, <<>>}
        /\ (frames' = <<Head(argument.frames)>> =>
              argument.frames # <<>> \/ frames' \in {argument.frames, frames, <<>>})
    BY <1>4, <2>1 DEF ReadArguments
  <2>4. frames' \in Seq(Mats)
    <3> HIDE DEF FrameInv
    <3> QED BY <2>1, <2>2, <2>3, <1>0
  <2>5. pc' \notin {"infer", "postprocess", "draw"} /\ argument' = argument
    BY <1>4 DEF ReadArguments
  <2> QED BY <2>4, <2>5
<1>5. CASE CopyFromMat
  <2>1. frames # <<>> /\ frame' = Head(frames) /\ frames' = Tail(frames)
        /\ argument' = argument
    BY <1>5 DEF CopyFromMat
  <2>2. frame' \in Mats /\ frames' \in Seq(Mats)
    BY <2>1
  <2>3. pc' \in {"aborted", "failed", "infer"}
    BY <1>5 DEF CopyFromMat
  <2>4. pc' = "infer" => Resizable(frame') /\ pparam' = LetterboxMat(frame'.width, frame'.height)
    BY <1>5 DEF CopyFromMat
  <2>5. Resizable(frame') => frame'.width # 0 /\ frame'.height # 0
    BY <2>2 DEF Resizable, Mats
  <2> QED BY <2>1, <2>2, <2>3, <2>4, <2>5
<1>6. CASE InferFrame
  BY <1>6 DEF InferFrame
<1>7. CASE PostprocessMat
  <2>1. /\ pc = "postprocess" /\ pc' \in {"draw", "aborted"}
        /\ UNCHANGED <<argument, frames, frame, pparam, found>>
    BY <1>7 DEF PostprocessMat
  <2>2. ~overrun' => objs' = SetToSeq({ObjectOf(b, pparam) : b \in found.boxes})
    BY <1>7 DEF PostprocessMat
  <2>3. ~overrun' => objs' = SetToSeq({ObjectOf(b, pparam') : b \in found'.boxes})
    BY <2>1, <2>2
  <2> QED BY <2>1, <2>3
<1>8. CASE DrawObjects
  <2>1. pc' = "frame" /\ argument' = argument /\ frames' \in {frames, <<>>}
    BY <1>8 DEF DrawObjects
  <2>2. frames' \in Seq(Mats)
    BY <2>1, <1>0
  <2> QED BY <2>1, <2>2
<1>9. CASE DeleteYolo
  BY <1>9 DEF DeleteYolo
<1>10. CASE UNCHANGED end2endVars
  BY <1>10 DEF end2endVars
<1> QED BY <1>1, <1>2, <1>3, <1>4, <1>5, <1>6, <1>7, <1>8, <1>9, <1>10 DEF End2EndNext

(* The letterbox of every frame fills the network's input exactly and is the *)
(* server's to within a pixel, for every frame and every size of the input.  *)
THEOREM CanvasIsFilled == End2EndSpec => []CanvasFilled
<1>1. End2EndInit => FrameInv
  BY DEF End2EndInit, FrameInv
<1>2. FrameInv => CanvasFilled
  <2> SUFFICES ASSUME FrameInv, pc \in {"infer", "postprocess", "draw"} PROVE CanvasFilled
    BY DEF CanvasFilled
  <2>1. /\ frame.width \in Nat \ {0} /\ frame.height \in Nat \ {0}
        /\ frame = [width |-> frame.width, height |-> frame.height]
        /\ pparam = LetterboxMat(frame.width, frame.height)
    BY DEF FrameInv, Mats
  <2> HIDE DEF FrameInv
  <2> QED BY <2>1, LetterboxMatFacts DEF CanvasFilled
<1> QED BY <1>1, <1>2, FrameStep, PTL DEF End2EndSpec

(* What is drawn into a frame is all that was found in that frame, clipped   *)
(* to its pixels, whatever the engine finds, as long as nothing was copied   *)
(* or read past a buffer.                                                    *)
THEOREM ObjectsAreInFrame == End2EndSpec => [](CopiesFit => ObjectsInFrame)
<1>1. End2EndInit => FrameInv
  BY DEF End2EndInit, FrameInv
<1>2. FrameInv => (CopiesFit => ObjectsInFrame)
  <2> SUFFICES ASSUME FrameInv, ~overrun, pc = "draw" PROVE ObjectsInFrame
    BY DEF ObjectsInFrame, CopiesFit
  <2>1. /\ frame.width \in Nat \ {0} /\ frame.height \in Nat \ {0}
        /\ pparam = LetterboxMat(frame.width, frame.height)
        /\ found.of = frame /\ found.boxes \subseteq Findings
    BY DEF FrameInv, Mats
  <2> DEFINE Obj(b) == ObjectOf(b, pparam)
             S == {Obj(b) : b \in found.boxes}
  <2>2. objs = SetToSeq(S)
    BY DEF FrameInv
  <2> HIDE DEF FrameInv
  <2>3. IsFiniteSet(found.boxes)
    BY <2>1, End2EndAssumption, FS_Subset
  <2>4. IsFiniteSet(S)
    <3> DEFINE g == [b \in found.boxes |-> Obj(b)]
    <3> HIDE DEF Obj
    <3>1. g \in Surjection(found.boxes, S)
      BY DEF Surjection
    <3> QED BY <3>1, <2>3, FS_Surjection
  <2>5. Range(objs) = S
    BY <2>2, <2>4, ListedSet
  <2>6. /\ pparam.width = frame.width /\ pparam.height = frame.height
        /\ pparam.num \in Nat /\ pparam.den \in Nat /\ pparam.dw \in Nat /\ pparam.dh \in Nat
    BY <2>1, LetterboxMatFacts
  <2>7. ASSUME NEW b \in found.boxes
        PROVE  LET o == Obj(b)
               IN /\ 0 <= o.x0 /\ o.x0 <= o.x1 /\ o.x1 <= 2 * frame.width * pparam.num
                  /\ 0 <= o.y0 /\ o.y0 <= o.y1 /\ o.y1 <= 2 * frame.height * pparam.num
    BY <2>1, <2>6, ObjectFacts
  <2> QED BY <2>1, <2>5, <2>7 DEF ObjectsInFrame
<1> QED BY <1>1, <1>2, FrameStep, PTL DEF End2EndSpec

-----------------------------------------------------------------------------
(* The buffers of the stand-alone detector *)

NamedBinding == [name : Nat, bytes : Nat]

Parts == [inputs : Seq(NamedBinding), outputs : Seq(NamedBinding)]

(* One turn of the constructor's loop. *)
Turned(parts, b, isInput) ==
  IF isInput THEN [parts EXCEPT !.inputs = Append(@, b)]
             ELSE [parts EXCEPT !.outputs = Append(@, b)]

(* It grows one of the two lists. *)
LEMMA TurnedFacts ==
  ASSUME NEW parts \in Parts, NEW b \in NamedBinding, NEW isInput \in BOOLEAN
  PROVE  /\ Turned(parts, b, isInput) \in Parts
         /\ isInput => /\ Turned(parts, b, isInput).inputs = Append(parts.inputs, b)
                       /\ Turned(parts, b, isInput).outputs = parts.outputs
         /\ ~isInput => /\ Turned(parts, b, isInput).outputs = Append(parts.outputs, b)
                        /\ Turned(parts, b, isInput).inputs = parts.inputs
<1>1. parts.inputs \in Seq(NamedBinding) /\ parts.outputs \in Seq(NamedBinding)
  BY DEF Parts
<1>2. Append(parts.inputs, b) \in Seq(NamedBinding) /\ Append(parts.outputs, b) \in Seq(NamedBinding)
  BY <1>1
<1> QED
  BY <1>1, <1>2 DEF Turned, Parts

(* A binding keeps its place as its name. *)
LEMMA NamedFacts ==
  ASSUME NEW e \in Binding, NEW i \in Nat
  PROVE  Named(e, i) \in NamedBinding /\ Named(e, i).name = i
<1>1. PICK elements \in Nat, dsize \in Nat : elements = e.elements /\ dsize = e.dsize
  BY DEF Binding
<1>2. elements * dsize \in Nat
  OBVIOUS
<1>3. Bytes(e) \in Nat
  BY <1>1, <1>2 DEF Bytes
<1> QED
  BY <1>3 DEF Named, NamedBinding

(* The lists as they are after each turn of the loop. *)
LEMMA BindingsTrace ==
  ASSUME engine \in Seq(Binding)
  PROVE  \E g : /\ g[0] = NoBindings /\ Bindings = g[Len(engine)]
                /\ \A i \in 1 .. Len(engine) :
                     g[i] = Turned(g[i - 1], Named(engine[i], i), engine[i].input)
<1>1. PICK n \in Nat : /\ n = Len(engine)
                       /\ \A i \in 1 .. n : engine[i] \in Binding
  OBVIOUS
<1>2. PICK s : s = [i \in 1 .. n |-> Named(engine[i], i)]
  OBVIOUS
<1>3. \A i \in 1 .. n : /\ Named(engine[i], i) \in NamedBinding /\ engine[i].input \in BOOLEAN
                        /\ Named(engine[i], i).name = i
  <2>1. \A i \in 1 .. n : i \in Nat /\ engine[i].input \in BOOLEAN
    BY <1>1 DEF Binding
  <2> QED
    BY <1>1, <2>1, NamedFacts
<1>4. DOMAIN s = 1 .. n /\ \A i \in 1 .. n : s[i] = Named(engine[i], i)
  BY <1>2
<1>5. \A x, i : i \in 1 .. n => Apart(x, s[i]) = Turned(x, s[i], engine[i].input)
  BY <1>3, <1>4 DEF Apart, Turned
<1> DEFINE S == Parts
           base == NoBindings
           F == [p \in S \X (1 .. n) |-> Turned(p[1], s[p[2]], engine[p[2]].input)]
           Eq(it) == it = [t \in SUBSET (1 .. n) |->
                             IF t = {} THEN base ELSE Apart(it[t \ {Max(t)}], s[Max(t)])]
<1>6. \E it : Eq(it)
  <2>1. \A x \in S, i \in 1 .. n : F[<<x, i>>] = Turned(x, s[i], engine[i].input)
    OBVIOUS
  <2>2. \A x \in S, i \in 1 .. n : Turned(x, s[i], engine[i].input) \in S
    BY <1>3, <1>4, TurnedFacts
  <2>3. base \in S
    BY DEF NoBindings, Parts
  <2> HIDE DEF F, S, base
  <2>4. \A x \in S, i \in 1 .. n : F[<<x, i>>] \in S
    BY <2>1, <2>2
  <2>5. PICK it \in [SUBSET (1 .. n) -> S] : FoldEq(it, F, base, n)
    BY <2>3, <2>4, FoldExists
  <2>6. ASSUME NEW t \in SUBSET (1 .. n)
        PROVE  it[t] = IF t = {} THEN base ELSE Apart(it[t \ {Max(t)}], s[Max(t)])
    <3>1. CASE t = {}
      BY <2>5, <3>1 DEF FoldEq
    <3>2. CASE t # {}
      <4>1. PICK m \in 1 .. n : m = Max(t)
        BY <3>2, MaxInRange
      <4>2. t \ {m} \in SUBSET (1 .. n)
        OBVIOUS
      <4>3. it[t \ {m}] \in S
        BY <4>2
      <4>4. it[t] = F[<<it[t \ {m}], m>>]
        BY <2>5, <3>2, <4>1 DEF FoldEq
      <4>5. it[t] = Turned(it[t \ {m}], s[m], engine[m].input)
        BY <2>1, <4>3, <4>4
      <4>6. Apart(it[t \ {m}], s[m]) = Turned(it[t \ {m}], s[m], engine[m].input)
        BY <1>5
      <4> QED
        BY <3>2, <4>1, <4>5, <4>6
    <3> QED
      BY <3>1, <3>2
  <2>7. it = [t \in SUBSET (1 .. n) |-> it[t]]
    OBVIOUS
  <2> QED
    BY <2>6, <2>7
<1>7. PICK iter : iter = (CHOOSE it : Eq(it))
  OBVIOUS
<1>8. Eq(iter)
  BY <1>6, <1>7
<1>9. Bindings = iter[1 .. n]
  <2>1. Bindings = FoldLeft(Apart, NoBindings, s)
    BY <1>1, <1>2 DEF Bindings
  <2> QED
    BY <1>4, <1>7, <2>1 DEF FoldLeft, MapThenFoldSet
<1> DEFINE g == [done \in 0 .. n |-> iter[1 .. done]]
<1>10. g[0] = base
  <2>1. 1 .. 0 = {} /\ {} \in SUBSET (1 .. n)
    OBVIOUS
  <2>2. iter[{}] = base
    BY <1>8, <2>1
  <2> QED
    BY <2>1, <2>2
<1>11. ASSUME NEW done \in 1 .. n
       PROVE  g[done] = Turned(g[done - 1], Named(engine[done], done), engine[done].input)
  <2> DEFINE t == 1 .. done
  <2>1. t \in SUBSET (1 .. n) /\ t # {} /\ Max(t) = done /\ t \ {done} = 1 .. done - 1
    BY PrefixSets
  <2> HIDE DEF t, base
  <2>2. iter[t] = IF t = {} THEN base ELSE Apart(iter[t \ {Max(t)}], s[Max(t)])
    BY <1>8, <2>1
  <2>3. iter[1 .. done] = Turned(iter[1 .. done - 1], s[done], engine[done].input)
    BY <1>5, <2>1, <2>2 DEF t
  <2>4. g[done] = iter[1 .. done] /\ g[done - 1] = iter[1 .. done - 1]
    <3>1. done \in 0 .. n /\ done - 1 \in 0 .. n
      OBVIOUS
    <3> QED
      BY <3>1
  <2> HIDE DEF g
  <2> QED
    BY <1>4, <2>3, <2>4
<1>12. Bindings = g[n]
  BY <1>9
<1> HIDE DEF g
<1> QED
  BY <1>1, <1>10, <1>11, <1>12

(* A list that holds bindings with the names of S, each at most once. *)
Holds(list, S) ==
  /\ list \in Seq(NamedBinding)
  /\ \A i \in 1 .. Len(list) : list[i].name \in S
  /\ \A i, j \in 1 .. Len(list) : i # j => list[i].name # list[j].name

InputsIn(done)  == {i \in 1 .. done : engine[i].input}
OutputsIn(done) == {i \in 1 .. done : ~engine[i].input}

(* The bindings up to `done` are in the one list or in the other. *)
Parted(ins, outs, done) ==
  /\ Holds(ins, InputsIn(done)) /\ Holds(outs, OutputsIn(done))
  /\ Len(ins) + Len(outs) = done

(* A list may be seen as one over more names. *)
LEMMA HoldsMore ==
  ASSUME NEW list, NEW S, Holds(list, S), NEW T, S \subseteq T
  PROVE  Holds(list, T)
BY DEF Holds

(* A binding with a new name keeps the names apart. *)
LEMMA HoldsAppended ==
  ASSUME NEW list, NEW S, Holds(list, S), NEW b \in NamedBinding, b.name \notin S
  PROVE  Holds(Append(list, b), S \union {b.name}) /\ Len(Append(list, b)) = Len(list) + 1
<1>1. PICK n \in Nat : n = Len(list)
  BY DEF Holds
<1>2. PICK m : m = Append(list, b)
  OBVIOUS
<1>3. /\ m \in Seq(NamedBinding) /\ Len(m) = n + 1 /\ m[n + 1] = b
      /\ \A i \in 1 .. n : m[i] = list[i]
  BY <1>1, <1>2, AppendProperties DEF Holds
<1>4. \A i \in 1 .. n + 1 : i \in 1 .. n \/ i = n + 1
  OBVIOUS
<1>5. \A i \in 1 .. n : /\ list[i].name \in S
                        /\ \A j \in 1 .. n : i # j => list[i].name # list[j].name
  BY <1>1 DEF Holds
<1>6. \A i \in 1 .. n + 1 : m[i].name \in S \union {b.name}
  BY <1>3, <1>4, <1>5
<1>7. \A i, j \in 1 .. n + 1 : i # j => m[i].name # m[j].name
  BY <1>3, <1>4, <1>5
<1> QED
  BY <1>1, <1>2, <1>3, <1>6, <1>7 DEF Holds

(* The next binding goes to its list. *)
LEMMA PartedNext ==
  ASSUME NEW ins, NEW outs, NEW done \in Nat, Parted(ins, outs, done),
         NEW b \in NamedBinding, b.name = done + 1
  PROVE  /\ engine[done + 1].input => Parted(Append(ins, b), outs, done + 1)
         /\ ~engine[done + 1].input => Parted(ins, Append(outs, b), done + 1)
<1>1. /\ Holds(ins, InputsIn(done)) /\ Holds(outs, OutputsIn(done))
      /\ Len(ins) + Len(outs) = done
  BY DEF Parted
<1>2. PICK m \in Nat : m = Len(ins)
  BY <1>1 DEF Holds
<1>3. PICK n \in Nat : n = Len(outs)
  BY <1>1 DEF Holds
<1>4. /\ \A i : i \in 1 .. done + 1 <=> i \in 1 .. done \/ i = done + 1
      /\ done + 1 \notin 1 .. done
  OBVIOUS
<1>5. /\ done + 1 \notin InputsIn(done) /\ done + 1 \notin OutputsIn(done)
      /\ InputsIn(done) \subseteq InputsIn(done + 1)
      /\ OutputsIn(done) \subseteq OutputsIn(done + 1)
  BY <1>4 DEF InputsIn, OutputsIn
<1>6. ASSUME engine[done + 1].input PROVE Parted(Append(ins, b), outs, done + 1)
  <2>1. InputsIn(done) \union {b.name} = InputsIn(done + 1)
    BY <1>4, <1>6 DEF InputsIn
  <2>2. Holds(Append(ins, b), InputsIn(done + 1)) /\ Len(Append(ins, b)) = Len(ins) + 1
    BY <1>1, <1>5, <2>1, HoldsAppended
  <2>3. Holds(outs, OutputsIn(done + 1))
    BY <1>1, <1>5, HoldsMore
  <2>4. Len(Append(ins, b)) + Len(outs) = done + 1
    BY <1>1, <1>2, <1>3, <2>2
  <2> QED
    BY <2>2, <2>3, <2>4 DEF Parted
<1>7. ASSUME ~engine[done + 1].input PROVE Parted(ins, Append(outs, b), done + 1)
  <2>1. OutputsIn(done) \union {b.name} = OutputsIn(done + 1)
    BY <1>4, <1>7 DEF OutputsIn
  <2>2. Holds(Append(outs, b), OutputsIn(done + 1)) /\ Len(Append(outs, b)) = Len(outs) + 1
    BY <1>1, <1>5, <2>1, HoldsAppended
  <2>3. Holds(ins, InputsIn(done + 1))
    BY <1>1, <1>5, HoldsMore
  <2>4. Len(ins) + Len(Append(outs, b)) = done + 1
    BY <1>1, <1>2, <1>3, <2>2
  <2> QED
    BY <2>2, <2>3, <2>4 DEF Parted
<1> QED
  BY <1>6, <1>7

(* The constructor's loop puts every binding into one list, once. *)
LEMMA BindingsParted ==
  ASSUME engine \in Seq(Binding)
  PROVE  Parted(Bindings.inputs, Bindings.outputs, Len(engine))
<1>1. PICK n \in Nat : /\ n = Len(engine)
                       /\ \A i \in 1 .. n : engine[i] \in Binding
  OBVIOUS
<1>2. PICK g : /\ g[0] = NoBindings /\ Bindings = g[n]
               /\ \A i \in 1 .. n :
                    g[i] = Turned(g[i - 1], Named(engine[i], i), engine[i].input)
  BY <1>1, BindingsTrace
<1> DEFINE Fine(i) == g[i] \in Parts /\ Parted(g[i].inputs, g[i].outputs, i)
           T == {i \in Nat : i <= n => Fine(i)}
<1>3. 0 \in T
  <2>1. NoBindings.inputs = <<>> /\ NoBindings.outputs = <<>> /\ NoBindings \in Parts
    BY DEF NoBindings, Parts
  <2>2. <<>> \in Seq(NamedBinding) /\ Len(<<>>) = 0 /\ 0 + 0 = 0
    BY EmptySeq
  <2>3. 1 .. 0 = {}
    OBVIOUS
  <2>4. \A S : Holds(<<>>, S)
    BY <2>2, <2>3 DEF Holds
  <2>5. Parted(<<>>, <<>>, 0)
    BY <2>2, <2>4 DEF Parted
  <2> QED
    BY <1>2, <2>1, <2>5
<1>4. ASSUME NEW i \in Nat, i \in T PROVE i + 1 \in T
  <2> SUFFICES ASSUME i + 1 <= n PROVE Fine(i + 1)
    OBVIOUS
  <2>1. i + 1 \in 1 .. n /\ i <= n /\ (i + 1) - 1 = i /\ i + 1 \in Nat
    OBVIOUS
  <2>2. PICK p : p = g[i]
    OBVIOUS
  <2>3. p \in Parts /\ Parted(p.inputs, p.outputs, i)
    BY <1>4, <2>1, <2>2
  <2> HIDE DEF Fine, T
  <2>4. PICK b : b = Named(engine[i + 1], i + 1)
    OBVIOUS
  <2>5. engine[i + 1] \in Binding /\ engine[i + 1].input \in BOOLEAN
    BY <1>1, <2>1 DEF Binding
  <2>6. b \in NamedBinding /\ b.name = i + 1
    BY <2>1, <2>4, <2>5, NamedFacts
  <2>7. PICK q : q = g[i + 1]
    OBVIOUS
  <2>8. q = Turned(p, b, engine[i + 1].input)
    BY <1>2, <2>1, <2>2, <2>4, <2>7
  <2>9. /\ engine[i + 1].input => Parted(Append(p.inputs, b), p.outputs, i + 1)
        /\ ~engine[i + 1].input => Parted(p.inputs, Append(p.outputs, b), i + 1)
    BY <2>3, <2>6, PartedNext
  <2>10. /\ q \in Parts
         /\ engine[i + 1].input => q.inputs = Append(p.inputs, b) /\ q.outputs = p.outputs
         /\ ~engine[i + 1].input => q.outputs = Append(p.outputs, b) /\ q.inputs = p.inputs
    BY <2>3, <2>5, <2>6, <2>8, TurnedFacts
  <2>11. Parted(q.inputs, q.outputs, i + 1)
    BY <2>9, <2>10
  <2> QED
    BY <2>7, <2>10, <2>11 DEF Fine
<1>5. Nat \subseteq T
  <2> HIDE DEF T
  <2> QED
    BY <1>3, <1>4, NatSetInduction
<1>6. Fine(n)
  BY <1>5
<1> QED
  BY <1>1, <1>2, <1>6

(* At most one binding is an input. *)
OneInput == \A i, j \in 1 .. Len(engine) : engine[i].input /\ engine[j].input => i = j

(* make_pipe() walks over the inputs and then over the outputs. *)
Piped(ins, outs, all, n) ==
  /\ all \in Seq(NamedBinding) /\ Len(all) = n /\ Len(ins) \in Nat /\ Len(outs) \in Nat
  /\ \A i \in 1 .. Len(ins) : i \in 1 .. n /\ all[i] = ins[i]
  /\ \A i \in 1 .. Len(outs) : /\ i + Len(ins) \in 1 .. n
                               /\ all[i + Len(ins)] = outs[i]
                               /\ outs[i].name \in 1 .. n
  /\ \A i \in 1 .. Len(outs), j \in 1 .. n :
       all[j].name = outs[i].name => j = i + Len(ins)

(* An output has its place after the inputs, and no other binding its name. *)
LEMMA PipeFacts ==
  ASSUME NEW ins, NEW outs, NEW n \in Nat, Parted(ins, outs, n)
  PROVE  Piped(ins, outs, ins \o outs, n)
<1>0. PICK all : all = ins \o outs
  OBVIOUS
<1>1. /\ ins \in Seq(NamedBinding) /\ outs \in Seq(NamedBinding)
      /\ Len(ins) + Len(outs) = n
  BY DEF Parted, Holds
<1>2. PICK k \in Nat : k = Len(ins)
  BY <1>1
<1>3. PICK m \in Nat : m = Len(outs)
  BY <1>1
<1>4. /\ all \in Seq(NamedBinding) /\ Len(all) = k + m
      /\ \A i \in 1 .. k + m : all[i] = IF i <= k THEN ins[i] ELSE outs[i - k]
  BY <1>0, <1>1, <1>2, <1>3, ConcatProperties
<1>5. n = k + m
  BY <1>1, <1>2, <1>3
<1>6. ASSUME NEW i \in 1 .. k PROVE i \in 1 .. n /\ all[i] = ins[i]
  BY <1>4, <1>5
<1>7. ASSUME NEW i \in 1 .. m PROVE i + k \in 1 .. n /\ all[i + k] = outs[i]
  <2>1. i + k \in 1 .. k + m /\ ~(i + k <= k) /\ (i + k) - k = i
    OBVIOUS
  <2> QED
    BY <1>4, <1>5, <2>1
<1>8. \A i \in 1 .. m : outs[i].name \in OutputsIn(n)
  BY <1>3 DEF Parted, Holds
<1>9. \A i \in 1 .. k : ins[i].name \in InputsIn(n)
  BY <1>2 DEF Parted, Holds
<1>10. \A i, j \in 1 .. m : i # j => outs[i].name # outs[j].name
  BY <1>3 DEF Parted, Holds
<1>11. ASSUME NEW i \in 1 .. m, NEW j \in 1 .. n, all[j].name = outs[i].name
       PROVE  j = i + k
  <2>1. ~(j <= k)
    <3> SUFFICES ASSUME j <= k PROVE FALSE
      OBVIOUS
    <3>1. j \in 1 .. k
      OBVIOUS
    <3>2. outs[i].name \in InputsIn(n)
      BY <1>6, <1>9, <1>11, <3>1
    <3> QED
      BY <1>8, <3>2 DEF InputsIn, OutputsIn
  <2>2. j - k \in 1 .. m /\ j \in 1 .. k + m
    BY <1>5, <2>1
  <2>3. all[j] = outs[j - k]
    BY <1>4, <2>1, <2>2
  <2>4. j - k = i
    BY <1>10, <1>11, <2>2, <2>3
  <2> QED
    BY <2>4
<1>12. \A i \in 1 .. m : outs[i].name \in 1 .. n
  BY <1>8 DEF OutputsIn
<1> QED
  BY <1>0, <1>2, <1>3, <1>4, <1>5, <1>6, <1>7, <1>11, <1>12 DEF Piped

(* With one input the warm-up copies it to its own buffer. *)
LEMMA FewInputs ==
  ASSUME NEW ins, NEW outs, NEW n \in Nat, n = Len(engine), Parted(ins, outs, n), OneInput,
         NEW i \in 1 .. Len(ins)
  PROVE  i = 1
<1>1. PICK k \in Nat : k = Len(ins)
  BY DEF Parted, Holds
<1>2. \A j \in 1 .. k : ins[j].name \in InputsIn(n)
  BY <1>1 DEF Parted, Holds
<1>3. \A j, l \in 1 .. k : j # l => ins[j].name # ins[l].name
  BY <1>1 DEF Parted, Holds
<1>4. \A x, y \in InputsIn(n) : x = y
  BY DEF OneInput, InputsIn
<1>5. \A j, l \in 1 .. k : j = l
  BY <1>2, <1>3, <1>4
<1>6. 1 \in 1 .. k /\ i \in 1 .. k
  BY <1>1
<1> QED
  BY <1>5, <1>6

(* What the copies rely on: an output's host buffer and its device buffer are *)
(* of its size, the engine writes it where it is copied from, and the first   *)
(* device buffer is that of the input.                                        *)
BuffersRight ==
  /\ outputs \in Seq(NamedBinding)
  /\ hostPtrs = [i \in DOMAIN outputs |-> outputs[i].bytes]
  /\ inputs # <<>> => devicePtrs[1] = inputs[1].bytes
  /\ \A i \in 1 .. Len(outputs) :
       /\ outputs[i].bytes = hostPtrs[i]
       /\ outputs[i].bytes = devicePtrs[i + Len(inputs)]
       /\ address[outputs[i].name] = i + Len(inputs)

(* No copy has overrun before make_pipe(), nor later on an engine of the      *)
(* shape expected; the bindings are apart before make_pipe(), and its buffers *)
(* are right until they are deleted.                                          *)
CopyInv ==
  /\ engine \in Engines
  /\ pc \in {"start", "make_pipe"} \/ Suits => ~overrun
  /\ pc = "make_pipe" => Parted(inputs, outputs, Len(engine))
  /\ pc \in {"arguments", "frame", "infer", "postprocess", "draw"} => BuffersRight

(* What is assumed of an engine. *)
LEMMA EngineFacts ==
  ASSUME engine \in Engines
  PROVE  engine \in Seq(Binding) /\ OneInput /\ Len(engine) \in Nat
<1>1. engine \in Seq(Binding) /\ OneInput
  BY End2EndAssumption DEF OneInput
<1> QED
  BY <1>1

(* make_pipe() allocates what infer() copies, and its warm-up fits. *)
LEMMA PipeMade ==
  ASSUME CopyInv, MakePipe
  PROVE  BuffersRight' /\ ~overrun'
<1>1. engine \in Engines /\ Parted(inputs, outputs, Len(engine))
  BY DEF CopyInv, MakePipe
<1>2. PICK n \in Nat : n = Len(engine)
  BY <1>1, EngineFacts
<1>3. OneInput
  BY <1>1, EngineFacts
<1>4. PICK all : all = inputs \o outputs
  OBVIOUS
<1>5. /\ inputs' = inputs /\ outputs' = outputs
      /\ devicePtrs' = [i \in 1 .. Len(all) |-> all[i].bytes]
      /\ hostPtrs' = [i \in 1 .. Len(outputs) |-> outputs[i].bytes]
      /\ address' = [m \in 1 .. n |-> CHOOSE i \in 1 .. n : all[i].name = m]
      /\ overrun' = \E i \in 1 .. Len(inputs) : inputs[i].bytes > devicePtrs'[1]
  BY <1>2, <1>4 DEF MakePipe
<1>a. inputs \in Seq(NamedBinding) /\ outputs \in Seq(NamedBinding)
  BY <1>1 DEF Parted, Holds
<1>6. Parted(inputs, outputs, n)
  BY <1>1, <1>2
<1>7. /\ all \in Seq(NamedBinding) /\ Len(all) = n
      /\ Len(inputs) \in Nat /\ Len(outputs) \in Nat
      /\ \A i \in 1 .. Len(inputs) : i \in 1 .. n /\ all[i] = inputs[i]
      /\ \A i \in 1 .. Len(outputs) : /\ i + Len(inputs) \in 1 .. n
                                      /\ all[i + Len(inputs)] = outputs[i]
                                      /\ outputs[i].name \in 1 .. n
      /\ \A i \in 1 .. Len(outputs), j \in 1 .. n :
           all[j].name = outputs[i].name => j = i + Len(inputs)
  <2>1. Piped(inputs, outputs, all, n)
    BY <1>4, <1>6, PipeFacts
  <2> QED
    BY <2>1 DEF Piped
<1>8. ASSUME NEW i \in 1 .. Len(outputs)
      PROVE  /\ outputs[i].bytes = hostPtrs'[i]
             /\ outputs[i].bytes = devicePtrs'[i + Len(inputs)]
             /\ address'[outputs[i].name] = i + Len(inputs)
  <2>1. outputs[i].bytes = hostPtrs'[i]
    BY <1>5
  <2>2. PICK j \in 1 .. n : j = i + Len(inputs)
    BY <1>7
  <2>3. all[j] = outputs[i] /\ outputs[i].name \in 1 .. n
    BY <1>7, <2>2
  <2>4. devicePtrs'[j] = all[j].bytes
    BY <1>5, <1>7
  <2>5. PICK m \in 1 .. n : m = outputs[i].name
    BY <2>3
  <2>6. address'[m] = CHOOSE l \in 1 .. n : all[l].name = m
    BY <1>5
  <2>7. \A l \in 1 .. n : all[l].name = m => l = j
    BY <1>7, <2>2, <2>5
  <2>8. all[j].name = m
    BY <2>3, <2>5
  <2>9. address'[m] = j
    BY <2>6, <2>7, <2>8
  <2> QED
    BY <2>1, <2>2, <2>3, <2>4, <2>5, <2>9
<1>b. hostPtrs' = [i \in DOMAIN outputs |-> outputs[i].bytes]
  <2>1. DOMAIN outputs = 1 .. Len(outputs)
    BY <1>a
  <2> QED
    BY <1>5, <2>1
<1>c. ASSUME inputs # <<>> PROVE devicePtrs'[1] = inputs[1].bytes
  <2>1. 1 \in 1 .. Len(inputs)
    BY <1>a, <1>c
  <2>2. 1 \in 1 .. n /\ all[1] = inputs[1]
    BY <1>7, <2>1
  <2>3. devicePtrs'[1] = all[1].bytes
    BY <1>5, <1>7, <2>2
  <2> QED
    BY <2>2, <2>3
<1>9. BuffersRight'
  BY <1>5, <1>8, <1>a, <1>b, <1>c DEF BuffersRight
<1>10. ASSUME NEW i \in 1 .. Len(inputs) PROVE ~(inputs[i].bytes > devicePtrs'[1])
  <2>1. i = 1
    BY <1>2, <1>3, <1>6, FewInputs
  <2>2. 1 \in 1 .. n /\ all[1] = inputs[1]
    BY <1>7, <1>10, <2>1
  <2>3. devicePtrs'[1] = all[1].bytes
    BY <1>5, <1>7, <2>2
  <2>4. all[1] \in NamedBinding
    BY <1>7, <2>2
  <2>5. PICK b \in Nat : b = all[1].bytes
    BY <2>4 DEF NamedBinding
  <2> QED
    BY <2>1, <2>2, <2>3, <2>5
<1> QED
  BY <1>5, <1>9, <1>10

(* On an engine of the shape expected the canvas fits the first buffer. *)
LEMMA SuitableInput ==
  ASSUME BuffersRight, Suits
  PROVE  CanvasFits
BY DEF BuffersRight, Suits, CanvasFits, CanvasBytes

(* And postprocess() stays within the host buffers, whatever was found. *)
LEMMA SuitableOutputs ==
  ASSUME BuffersRight, Suits, found.boxes \subseteq Findings
  PROVE  HoldFindings(hostPtrs, Cardinality(found.boxes))
<1>1. PICK m \in Nat : m = Cardinality(Findings)
  BY End2EndAssumption, FS_CardinalityType
<1>2. PICK n \in Nat : n = Cardinality(found.boxes) /\ n <= m
  BY <1>1, End2EndAssumption, FS_Subset, FS_CardinalityType
<1>3. HoldFindings(hostPtrs, m)
  BY <1>1 DEF BuffersRight, Suits
<1>4. /\ outputs \in Seq(NamedBinding) /\ hostPtrs = [i \in DOMAIN outputs |-> outputs[i].bytes]
      /\ DOMAIN outputs = 1 .. Len(outputs)
  BY DEF BuffersRight
<1>5. Len(hostPtrs) = Len(outputs)
  BY <1>4
<1>6. ASSUME NEW i \in 1 .. Len(outputs) PROVE hostPtrs[i] \in Nat
  <2>1. outputs[i] \in NamedBinding
    BY <1>4
  <2>2. outputs[i].bytes \in Nat
    BY <2>1 DEF NamedBinding
  <2> QED
    BY <1>4, <2>2
<1>7. Len(outputs) \in Nat /\ Len(outputs) >= 4
  BY <1>3, <1>4, <1>5 DEF HoldFindings
<1>8. {1, 2, 3, 4} \subseteq 1 .. Len(outputs)
  BY <1>7
<1>9. PICK a \in Nat, b \in Nat, c \in Nat : a = hostPtrs[2] /\ b = hostPtrs[3] /\ c = hostPtrs[4]
  BY <1>6, <1>8
<1>10. a >= 16 * m /\ b >= 4 * m /\ c >= 4 * m
  BY <1>3, <1>9 DEF HoldFindings
<1>11. a >= 16 * n /\ b >= 4 * n /\ c >= 4 * n
  BY <1>2, <1>10
<1> QED
  BY <1>2, <1>3, <1>9, <1>11 DEF HoldFindings

(* Only make_pipe() and the destructor move the buffers. *)
LEMMA CopyStep == FrameInv /\ CopyInv /\ [End2EndNext]_end2endVars => CopyInv'
<1> SUFFICES ASSUME FrameInv, CopyInv, [End2EndNext]_end2endVars PROVE CopyInv'
  OBVIOUS
<1>e. engine \in Engines
  BY DEF CopyInv
<1>s. ASSUME UNCHANGED <<inputs, outputs>>, Suits' PROVE Suits /\ ~overrun
  <2>1. Suits
    BY <1>s DEF Suits
  <2> QED
    BY <2>1 DEF CopyInv
<1>1. CASE Usage
  BY <1>1, <1>s DEF Usage, CopyInv, Still, pipe
<1>2. CASE LoadEngine
  <2>1. engine' = engine /\ overrun' = overrun /\ pc = "start" /\ pc' \in {"aborted", "make_pipe"}
    BY <1>2 DEF LoadEngine, Still
  <2>2. pc' = "make_pipe" => inputs' = Bindings.inputs /\ outputs' = Bindings.outputs
    BY <1>2 DEF LoadEngine
  <2>3. Parted(Bindings.inputs, Bindings.outputs, Len(engine))
    BY <1>e, EngineFacts, BindingsParted
  <2>4. pc' = "make_pipe" => Parted(inputs', outputs', Len(engine))
    BY <2>2, <2>3
  <2>5. (pc = "make_pipe" => Parted(inputs, outputs, Len(engine)))'
    BY <2>1, <2>4 DEF Parted, Holds, InputsIn, OutputsIn
  <2>6. ~overrun'
    BY <2>1 DEF CopyInv
  <2> QED
    BY <1>e, <2>1, <2>5, <2>6 DEF CopyInv
<1>3. CASE MakePipe
  <2>1. engine' = engine /\ pc' \in {"arguments", "failed"}
    BY <1>3 DEF MakePipe, Still
  <2>2. BuffersRight' /\ ~overrun'
    BY <1>3, PipeMade
  <2> QED
    BY <1>e, <2>1, <2>2 DEF CopyInv
<1>4. CASE ReadArguments
  <2>1. /\ engine' = engine /\ overrun' = overrun /\ pc = "arguments"
        /\ pc' \notin {"start", "make_pipe"} /\ UNCHANGED pipe
    BY <1>4 DEF ReadArguments, Still
  <2> QED
    BY <2>1, <1>s DEF CopyInv, BuffersRight, pipe
<1>5. CASE CopyFromMat
  <2>1. /\ engine' = engine /\ pc = "frame"
        /\ pc' \notin {"start", "make_pipe"} /\ UNCHANGED pipe
        /\ overrun' = overrun \/ overrun' = (overrun \/ ~CanvasFits)
    BY <1>5 DEF CopyFromMat, Still
  <2>2. BuffersRight
    BY <2>1 DEF CopyInv
  <2>3. ASSUME Suits' PROVE ~overrun'
    <3>1. Suits /\ ~overrun
      BY <1>s, <2>1, <2>3 DEF pipe
    <3> QED
      BY <2>1, <2>2, <3>1, SuitableInput
  <2>4. BuffersRight'
    BY <2>1, <2>2 DEF BuffersRight, pipe
  <2> QED
    BY <1>e, <2>1, <2>3, <2>4 DEF CopyInv
<1>6. CASE InferFrame
  <2>1. /\ engine' = engine /\ pc = "infer" /\ pc' \in {"postprocess", "failed"} /\ UNCHANGED pipe
    BY <1>6 DEF InferFrame, Still
  <2>2. overrun' = (overrun \/ \E i \in 1 .. Len(outputs) :
                      \/ outputs[i].bytes # hostPtrs[i]
                      \/ outputs[i].bytes # devicePtrs[i + Len(inputs)]
                      \/ address[outputs[i].name] # i + Len(inputs))
    BY <1>6 DEF InferFrame
  <2>3. BuffersRight
    BY <2>1 DEF CopyInv
  <2>4. overrun' = overrun \/ ~overrun'
    BY <2>2, <2>3 DEF BuffersRight
  <2>5. BuffersRight'
    BY <2>1, <2>3 DEF BuffersRight, pipe
  <2>6. Suits' => ~overrun'
    BY <1>s, <2>1, <2>4 DEF pipe
  <2> QED
    BY <1>e, <2>1, <2>5, <2>6 DEF CopyInv
<1>7. CASE PostprocessMat
  <2>1. /\ engine' = engine /\ pc = "postprocess"
        /\ pc' \notin {"start", "make_pipe"} /\ UNCHANGED pipe
        /\ overrun' = overrun \/ ~HoldFindings(hostPtrs, Cardinality(found.boxes))
    BY <1>7 DEF PostprocessMat, Still
  <2>2. BuffersRight /\ found.boxes \subseteq Findings
    BY <2>1 DEF CopyInv, FrameInv
  <2>3. ASSUME Suits' PROVE ~overrun'
    <3>1. Suits /\ ~overrun
      BY <1>s, <2>1, <2>3 DEF pipe
    <3> QED
      BY <2>1, <2>2, <3>1, SuitableOutputs
  <2>4. BuffersRight'
    BY <2>1, <2>2 DEF BuffersRight, pipe
  <2> QED
    BY <1>e, <2>1, <2>3, <2>4 DEF CopyInv
<1>8. CASE DrawObjects
  <2>1. /\ engine' = engine /\ overrun' = overrun /\ pc = "draw"
        /\ pc' \notin {"start", "make_pipe"} /\ UNCHANGED pipe
    BY <1>8 DEF DrawObjects, Still
  <2> QED
    BY <2>1, <1>s DEF CopyInv, BuffersRight, pipe
<1>9. CASE DeleteYolo
  BY <1>9, <1>s DEF DeleteYolo, CopyInv, Still
<1>10. CASE UNCHANGED end2endVars
  <2>1. UNCHANGED <<engine, overrun, pc, inputs, outputs, hostPtrs, devicePtrs, address>>
    BY <1>10 DEF end2endVars, pipe
  <2> QED
    BY <2>1, <1>s DEF CopyInv, BuffersRight, Parted, Holds, InputsIn, OutputsIn
<1> QED
  BY <1>1, <1>2, <1>3, <1>4, <1>5, <1>6, <1>7, <1>8, <1>9, <1>10 DEF End2EndNext

(* The canvas is filled on every engine; on an engine whose input takes the   *)
(* canvas and whose outputs hold what it finds, whatever the order of its     *)
(* bindings, no buffer is overrun and what is drawn into a frame is its own.  *)
THEOREM FramesAreRight == End2EndSpec => []FrameRight
<1>1. End2EndInit => CopyInv /\ FrameInv
  BY DEF End2EndInit, CopyInv, FrameInv
<1>2. CopyInv => (Suits => CopiesFit)
  BY DEF CopyInv, CopiesFit
<1>3. End2EndSpec => [](Suits => CopiesFit)
  BY <1>1, <1>2, CopyStep, FrameStep, PTL DEF End2EndSpec
<1>4. /\ CanvasFilled /\ (Suits => CopiesFit) /\ (CopiesFit => ObjectsInFrame)
      => FrameRight
  BY DEF FrameRight
<1> QED
  BY <1>3, <1>4, CanvasIsFilled, ObjectsAreInFrame, PTL

=============================================================================
