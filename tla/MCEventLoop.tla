----------------------------- MODULE MCEventLoop -----------------------------
(* Two foreign threads, three functors and one I/O channel: enough for a     *)
(* nested queueInLoop() to meet a foreign one, and for both to race quit().  *)
EXTENDS EventLoop

CONSTANTS t1, t2, f1, f2, f3, c1

MCThreads  == {t1, t2}
MCFunctors == {f1, f2, f3}
MCChannels == {c1}
=============================================================================
