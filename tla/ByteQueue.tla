------------------------------ MODULE ByteQueue ------------------------------
(***************************************************************************)
(* What the users of muduo_core/Buffer.h rely on: an unbounded first-in     *)
(* first-out queue of bytes, whatever the buffer does with its memory.      *)
(***************************************************************************)
EXTENDS Naturals, Sequences

CONSTANTS Bytes, MaxChunk

VARIABLES content,  \* the bytes in the queue
          moved     \* the bytes the last operation took in or gave out

qvars == <<content, moved>>

Init == content = <<>> /\ moved = <<>>

(* Bytes arrive at the end ... *)
Push == \E n \in 0 .. MaxChunk : \E chunk \in [1 .. n -> Bytes] :
          /\ moved' = chunk
          /\ content' = content \o chunk

(* ... and leave at the front. *)
Pop == \E n \in 0 .. Len(content) :
         /\ moved' = SubSeq(content, 1, n)
         /\ content' = SubSeq(content, n + 1, Len(content))

Next == Push \/ Pop

Spec == Init /\ [][Next]_qvars
=============================================================================
