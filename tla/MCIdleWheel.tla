------------------------------ MODULE MCIdleWheel ------------------------------
(* A wheel of eight buckets, as long as the echo server's document has it. *)
EXTENDS IdleWheel
=============================================================================
