-------------------------------- MODULE Buffer --------------------------------
(***************************************************************************)
(* muduo_core/Buffer.h and Buffer.cc: a byte vector with a reader and a     *)
(* writer index.  Bytes are appended behind the writer index and retrieved  *)
(* at the reader index; makeSpace() either grows the vector or moves the    *)
(* readable bytes to the front.  A buffer is used by one loop thread only,  *)
(* so an operation is one step.                                             *)
(***************************************************************************)
EXTENDS Naturals, Sequences

CONSTANTS Bytes,        \* the values of a byte
          Zero,         \* the byte resize() fills with
          CheapPrepend, \* kCheapPrepend
          InitialSize,  \* initialSize
          ExtraSize,    \* sizeof extrabuf, in readFd()
          MaxChunk,     \* bound: bytes of one append() or of one readv()
          MaxReadable   \* bound: bytes that wait in the buffer

ASSUME BufferAssumption ==
  /\ Zero \in Bytes
  /\ CheapPrepend \in Nat /\ InitialSize \in Nat /\ ExtraSize \in Nat
  /\ MaxChunk \in Nat /\ MaxReadable \in Nat

VARIABLES
  mem,    \* buffer_, a function from its indices to bytes
  size,   \* buffer_.size()
  reader, \* readerIndex_
  writer, \* writerIndex_
  peak,   \* history: the most bytes that ever waited in the buffer
  moved   \* history: the bytes the last call took in or handed out

vars == <<mem, size, reader, writer, peak, moved>>

ReadableBytes    == writer - reader
WritableBytes    == size - writer
PrependableBytes == reader

(* The readable bytes, from peek() to beginWrite(). *)
Content == [i \in 1 .. ReadableBytes |-> mem[reader + i - 1]]

Chunk(n) == [1 .. n -> Bytes]

Init == /\ size = CheapPrepend + InitialSize
        /\ mem = [i \in 0 .. (size - 1) |-> Zero]
        /\ reader = CheapPrepend /\ writer = CheapPrepend
        /\ peak = 0 /\ moved = <<>>

Peaked(n) == IF n > peak THEN n ELSE peak

-----------------------------------------------------------------------------
(* makeSpace() returns a buffer in which len bytes can be written: b is its  *)
(* memory, its size and its indices.                                         *)

(* buffer_.resize(writerIndex_ + len): the new elements are zero. *)
Grown(b, len) ==
  [size   |-> b.writer + len,
   reader |-> b.reader,
   writer |-> b.writer,
   mem    |-> [i \in 0 .. (b.writer + len - 1) |->
                 IF i < b.size THEN b.mem[i] ELSE Zero]]

(* The readable bytes are moved to kCheapPrepend. *)
Moved(b) ==
  LET readable == b.writer - b.reader
  IN [size   |-> b.size,
      reader |-> CheapPrepend,
      writer |-> CheapPrepend + readable,
      mem    |-> [i \in 0 .. (b.size - 1) |->
                    IF CheapPrepend <= i /\ i < CheapPrepend + readable
                      THEN b.mem[b.reader + (i - CheapPrepend)] ELSE b.mem[i]]]

(* Fault: the vector grows whenever the tail is too short. *)
MakeSpaceNeverMoves(b, len) == Grown(b, len)

MakeSpace(b, len) ==
  IF (b.size - b.writer) + b.reader < len + CheapPrepend
    THEN Grown(b, len) ELSE Moved(b)

EnsureWriteableBytes(b, len) ==
  IF b.size - b.writer < len THEN MakeSpace(b, len) ELSE b

(* std::copy(data, data + len, beginWrite()), writerIndex_ += len. *)
Written(b, data) ==
  [size   |-> b.size,
   reader |-> b.reader,
   writer |-> b.writer + Len(data),
   mem    |-> [i \in 0 .. (b.size - 1) |->
                 IF b.writer <= i /\ i < b.writer + Len(data)
                   THEN data[i - b.writer + 1] ELSE b.mem[i]]]

(* append() *)
Appended(b, data) == Written(EnsureWriteableBytes(b, Len(data)), data)

Current == [mem |-> mem, size |-> size, reader |-> reader, writer |-> writer]

Become(b) == /\ mem' = b.mem /\ size' = b.size
             /\ reader' = b.reader /\ writer' = b.writer
             /\ peak' = Peaked(b.writer - b.reader)

-----------------------------------------------------------------------------
DoAppend(data) ==
  /\ ReadableBytes + Len(data) <= MaxReadable
  /\ Become(Appended(Current, data))
  /\ moved' = data

(* What one readv() can bring: the stack buffer is offered only when the     *)
(* writable space is smaller than it.                                        *)
ReadLimit ==
  IF WritableBytes < ExtraSize THEN WritableBytes + ExtraSize ELSE WritableBytes

(* Fault: writerIndex_ is not moved before append(). *)
ReadFdKeepsWriter(data) ==
  /\ Len(data) <= ReadLimit
  /\ ReadableBytes + Len(data) <= MaxReadable
  /\ IF Len(data) <= WritableBytes
       THEN Become(Written(Current, data))
       ELSE LET rest == SubSeq(data, WritableBytes + 1, Len(data))
            IN Become(Appended(Current, rest))
  /\ moved' = data

(* readFd() with data >= 0 bytes read; a failed readv() changes nothing.     *)
(* What does not fit is read into the stack buffer and appended.             *)
ReadFd(data) ==
  /\ Len(data) <= ReadLimit
  /\ ReadableBytes + Len(data) <= MaxReadable
  /\ IF Len(data) <= WritableBytes
       THEN Become(Written(Current, data))
       ELSE LET full == Written(Current, SubSeq(data, 1, WritableBytes))
                rest == SubSeq(data, WritableBytes + 1, Len(data))
            IN Become(Appended(full, rest))
  /\ moved' = data

(* retrieveAsString(len), or retrieve(len) after the caller has read the      *)
(* bytes at peek(): a len that is too long means everything.                 *)
Retrieve(len) ==
  /\ IF len < ReadableBytes
       THEN /\ reader' = reader + len /\ UNCHANGED writer
            /\ moved' = SubSeq(Content, 1, len)
       ELSE /\ reader' = CheapPrepend /\ writer' = CheapPrepend
            /\ moved' = Content
  /\ UNCHANGED <<mem, size, peak>>

Next == \/ \E n \in 0 .. MaxChunk : \E data \in Chunk(n) :
             DoAppend(data) \/ ReadFd(data)
        \/ \E len \in 0 .. (ReadableBytes + 1) : Retrieve(len)

Spec == Init /\ [][Next]_vars

-----------------------------------------------------------------------------
(* The variables keep their types, and the indices stay in order: the        *)
(* prepend area is never eaten and nothing is written outside the vector.    *)
TypeOK ==
  /\ size \in Nat /\ reader \in Nat /\ writer \in Nat /\ peak \in Nat
  /\ mem \in [0 .. (size - 1) -> Bytes]
  /\ CheapPrepend <= reader /\ reader <= writer /\ writer <= size

(* The memory of a connection's buffer is at most twice the largest backlog  *)
(* it ever held (or the initial size): moving the readable bytes to the      *)
(* front keeps a long exchange from growing the vector for ever.             *)
MemoryBounded ==
  \/ size <= CheapPrepend + InitialSize
  \/ size <= CheapPrepend + 2 * peak

(* The buffer implements the queue of bytes its users see. *)
Queue == INSTANCE ByteQueue WITH content <- Content, moved <- moved

QueueSpec == Queue!Spec
=============================================================================
