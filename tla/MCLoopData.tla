------------------------------ MODULE MCLoopData ------------------------------
(* What the callbacks of one loop work on, four parts that share no state: a *)
(* behaviour is one of any of them, the others stay as they are.  Buffers of *)
(* three bytes behind a prepend area of two, with a stack buffer of two, so  *)
(* that growing, moving and the two-part readv() all happen; the messages of *)
(* MCHttpServer; three timers; and a wheel of three buckets.                 *)
EXTENDS MCHttpServer, Buffer, TimerQueue, IdleWheel

VARIABLE part

MCInit ==
  /\ part \in {"buffer", "parser", "queue", "wheel"}
  /\ Init /\ HttpInit /\ TimerInit /\ WheelInit
  /\ part # "parser" => script = <<Plain, Plain>> /\ page = Head(SetToSeq(ReadFileToString))

MCNext ==
  \/ part = "buffer" /\ Next /\ UNCHANGED <<httpVars, timerVars, wheelVars, part>>
  \/ part = "parser" /\ HttpNext /\ UNCHANGED <<vars, timerVars, wheelVars, part>>
  \/ part = "queue" /\ TimerNext /\ UNCHANGED <<vars, httpVars, wheelVars, part>>
  \/ part = "wheel" /\ WheelNext /\ UNCHANGED <<vars, httpVars, timerVars, part>>

MCSpec == MCInit /\ [][MCNext]_<<vars, httpVars, timerVars, wheelVars, part>>
=============================================================================
