---------------------------- MODULE MCAsyncLogging ----------------------------
(* The two front ends and the back end of the log, which share no state: a   *)
(* behaviour is one of any of them.  Buffers of one record and an unused     *)
(* slot: with six records the front can allocate a third buffer twice, so    *)
(* that destroyed memory is used again.  Statements that just fit into the   *)
(* small buffer, with or without their end, and numbers at every sign and    *)
(* carry.                                                                    *)
EXTENDS AsyncLogging, LogFrontEnd

VARIABLE part

Longs   == {Text(n) : n \in {0, 1, 3870, 3904, 3905, 3906, 3950, 3956, 3968, 3969, 3970, 5000}}
Numbers == {Number(v) : v \in {-128, -100, -10, -9, 0, 7, 10, 99, 127}}
MCMessages == {<<a, b>> : a \in Longs, b \in Longs \union Numbers \union {Real(19)}}
                \union {<<a, b, c>> : a \in {Text(3905), Text(3920)}, b \in Numbers, c \in Longs}

MCInit == part \in {"stream", "teller", "back"} /\ LogInit /\ FrontInit

MCNext ==
  \/ part = "back" /\ LogNext /\ UNCHANGED <<frontVars, part>>
  \/ part = "stream" /\ StreamNext /\ UNCHANGED <<logVars, tellerVars, part>>
  \/ part = "teller" /\ TellerNext /\ UNCHANGED <<logVars, streamVars, part>>

MCSpec == /\ MCInit /\ [][MCNext]_<<logVars, frontVars, part>>
          /\ WF_logVars(WriterStep /\ part = "back" /\ UNCHANGED <<frontVars, part>>)
          /\ WF_logVars(Join /\ part = "back" /\ UNCHANGED <<frontVars, part>>)
=============================================================================
