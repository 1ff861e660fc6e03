---------------------------- MODULE MCServerProgram ----------------------------
(* Two I/O threads and two connections: one is accepted while its loop is    *)
(* still starting, one can be closed while the other is being answered.      *)
EXTENDS ServerProgram
=============================================================================
