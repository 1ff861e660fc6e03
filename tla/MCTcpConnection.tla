--------------------------- MODULE MCTcpConnection ---------------------------
(* The constants are numbers and Booleans, given in the cfg files. *)
EXTENDS TcpConnection
=============================================================================
