---------------------------- MODULE BufferProofs -----------------------------
(***************************************************************************)
(* Proofs about Buffer, for every byte set, prepend area, initial size,      *)
(* stack buffer and chunk: the indices stay in order, the memory is bounded  *)
(* by twice the peak, and the buffer implements a queue of bytes.  Then, for *)
(* the server that parses requests out of that buffer and for every script   *)
(* and every limit, that what waits in it is bounded and that every message  *)
(* is answered as it deserves, in order, however the stream is cut.          *)
(***************************************************************************)
EXTENDS Buffer, HttpServer, SequenceFacts, TLAPS

(* A buffer value as makeSpace() and append() pass it on. *)
Good(b) ==
  /\ b.size \in Nat /\ b.reader \in Nat /\ b.writer \in Nat
  /\ b.mem \in [0 .. (b.size - 1) -> Bytes]
  /\ CheapPrepend <= b.reader /\ b.reader <= b.writer /\ b.writer <= b.size

View(b) == [i \in 1 .. (b.writer - b.reader) |-> b.mem[b.reader + i - 1]]

(* resize() keeps the indices and the readable bytes and makes the room. *)
LEMMA GrownFacts ==
  ASSUME NEW b, Good(b), NEW len \in Nat, b.size - b.writer < len
  PROVE  /\ Good(Grown(b, len))
         /\ View(Grown(b, len)) = View(b)
         /\ Grown(b, len).size = b.writer + len
         /\ Grown(b, len).writer = b.writer
         /\ Grown(b, len).reader = b.reader
<1> DEFINE g == Grown(b, len)
<1> USE BufferAssumption
<1>1. /\ g.size = b.writer + len /\ g.writer = b.writer /\ g.reader = b.reader
      /\ g.mem = [i \in 0 .. (b.writer + len - 1) |->
                    IF i < b.size THEN b.mem[i] ELSE Zero]
  BY DEF Good, Grown
<1> HIDE DEF g
<1>2. g.mem \in [0 .. (b.writer + len - 1) -> Bytes]
  <2>1. ASSUME NEW i \in 0 .. (b.writer + len - 1)
        PROVE  (IF i < b.size THEN b.mem[i] ELSE Zero) \in Bytes
    <3>1. i < b.size => i \in 0 .. (b.size - 1)
      BY DEF Good
    <3> QED BY <3>1 DEF Good
  <2> QED BY <1>1, <2>1
<1>3. ASSUME NEW i \in 1 .. (b.writer - b.reader)
      PROVE  g.mem[b.reader + i - 1] = b.mem[b.reader + i - 1]
  <2>1. /\ b.reader + i - 1 \in 0 .. (b.writer + len - 1)
        /\ b.reader + i - 1 < b.size
    BY DEF Good
  <2> QED BY <1>1, <2>1
<1>4. View(g) = View(b)
  BY <1>1, <1>3 DEF View
<1>5. Good(g)
  <2>1. g.size = b.writer + len /\ g.writer = b.writer /\ g.reader = b.reader
    BY <1>1
  <2>2. g.size \in Nat /\ g.size - 1 = b.writer + len - 1
    BY <2>1 DEF Good
  <2>3. g.mem \in [0 .. (g.size - 1) -> Bytes]
    BY <1>2, <2>2, Zenon
  <2> QED BY <2>1, <2>2, <2>3 DEF Good
<1> QED BY <1>1, <1>4, <1>5 DEF g

(* Moving the readable bytes to kCheapPrepend keeps them. *)
LEMMA MovedFacts ==
  ASSUME NEW b, Good(b)
  PROVE  /\ Good(Moved(b))
         /\ View(Moved(b)) = View(b)
         /\ Moved(b).size = b.size
         /\ Moved(b).reader = CheapPrepend
         /\ Moved(b).writer = CheapPrepend + (b.writer - b.reader)
<1> DEFINE m == Moved(b)
<1> USE BufferAssumption
<1>1. /\ m.size = b.size /\ m.reader = CheapPrepend
      /\ m.writer = CheapPrepend + (b.writer - b.reader)
      /\ m.mem = [i \in 0 .. (b.size - 1) |->
                    IF CheapPrepend <= i /\ i < CheapPrepend + (b.writer - b.reader)
                      THEN b.mem[b.reader + (i - CheapPrepend)]
                      ELSE b.mem[i]]
  BY DEF Good, Moved
<1> HIDE DEF m
<1>2. m.mem \in [0 .. (m.size - 1) -> Bytes]
  <2>1. ASSUME NEW i \in 0 .. (b.size - 1)
        PROVE  (IF CheapPrepend <= i /\ i < CheapPrepend + (b.writer - b.reader)
                  THEN b.mem[b.reader + (i - CheapPrepend)]
                  ELSE b.mem[i]) \in Bytes
    <3>1. CheapPrepend <= i /\ i < CheapPrepend + (b.writer - b.reader)
            => b.reader + (i - CheapPrepend) \in 0 .. (b.size - 1)
      BY SMTT(20) DEF Good
    <3> QED BY <3>1 DEF Good
  <2> QED BY <1>1, <2>1
<1>3. ASSUME NEW i \in 1 .. (b.writer - b.reader)
      PROVE  m.mem[CheapPrepend + i - 1] = b.mem[b.reader + i - 1]
  <2>1. /\ CheapPrepend + i - 1 \in 0 .. (b.size - 1)
        /\ CheapPrepend <= CheapPrepend + i - 1
        /\ CheapPrepend + i - 1 < CheapPrepend + (b.writer - b.reader)
        /\ b.reader + ((CheapPrepend + i - 1) - CheapPrepend) = b.reader + i - 1
    BY DEF Good
  <2> QED BY <1>1, <2>1
<1>4. View(m) = View(b)
  BY SMTT(20), <1>1, <1>3 DEF View, Good
<1>5. Good(m)
  BY <1>1, <1>2 DEF Good
<1> QED BY <1>1, <1>4, <1>5 DEF m

(* ensureWriteableBytes(): the room is there, the readable bytes are the     *)
(* same, and the vector grows only when moving would not have been enough.   *)
LEMMA EnsureFacts ==
  ASSUME NEW b, Good(b), NEW len \in Nat,
         NEW e, e = EnsureWriteableBytes(b, len)
  PROVE  /\ Good(e)
         /\ View(e) = View(b)
         /\ len <= e.size - e.writer
         /\ e.writer - e.reader = b.writer - b.reader
         /\ \/ e.size = b.size
            \/ e.size <= CheapPrepend + 2 * ((b.writer - b.reader) + len)
<1> USE BufferAssumption
<1>1. CASE b.size - b.writer >= len
  BY <1>1 DEF EnsureWriteableBytes, Good
<1>2. CASE /\ b.size - b.writer < len
           /\ (b.size - b.writer) + b.reader < len + CheapPrepend
  <2>1. e = Grown(b, len)
    BY <1>2 DEF EnsureWriteableBytes, MakeSpace
  <2>2. b.writer + len <= CheapPrepend + 2 * ((b.writer - b.reader) + len)
    BY SMTT(20), <1>2 DEF Good
  <2>3. /\ Good(e) /\ View(e) = View(b)
        /\ e.size = b.writer + len /\ e.writer = b.writer /\ e.reader = b.reader
    BY <1>2, <2>1, GrownFacts
  <2>4. b.writer \in Nat /\ b.reader \in Nat
    BY DEF Good
  <2>5. len <= e.size - e.writer /\ e.writer - e.reader = b.writer - b.reader
    BY <2>3, <2>4
  <2> QED BY <2>2, <2>3, <2>5
<1>3. CASE /\ b.size - b.writer < len
           /\ ~((b.size - b.writer) + b.reader < len + CheapPrepend)
  <2>1. e = Moved(b)
    BY <1>3 DEF EnsureWriteableBytes, MakeSpace
  <2>2. /\ Good(e) /\ View(e) = View(b) /\ e.size = b.size
        /\ e.reader = CheapPrepend
        /\ e.writer = CheapPrepend + (b.writer - b.reader)
    BY <2>1, MovedFacts
  <2> QED BY SMTT(20), <1>3, <2>2 DEF Good
<1> QED BY <1>1, <1>2, <1>3 DEF Good

(* The readable bytes are a sequence of readableBytes() bytes. *)
LEMMA ViewFacts ==
  ASSUME NEW b, Good(b)
  PROVE  View(b) \in Seq(Bytes) /\ Len(View(b)) = b.writer - b.reader
<1> USE BufferAssumption
<1>1. b.writer - b.reader \in Nat
  BY DEF Good
<1>2. ASSUME NEW i \in 1 .. (b.writer - b.reader)
      PROVE  b.mem[b.reader + i - 1] \in Bytes
  <2>1. b.reader + i - 1 \in 0 .. (b.size - 1)
    <3>1. /\ b.reader \in Nat /\ b.writer \in Nat /\ b.size \in Nat
          /\ b.reader <= b.writer /\ b.writer <= b.size
      BY DEF Good
    <3> QED BY SMTT(20), <3>1
  <2> QED BY <2>1 DEF Good
<1> QED BY <1>1, <1>2 DEF View

(* The second part of a concatenation. *)
LEMMA ConcatTail ==
  ASSUME NEW S, NEW s \in Seq(S), NEW t \in Seq(S),
         NEW i \in Len(s) + 1 .. Len(s) + Len(t)
  PROVE  (s \o t)[i] = t[i - Len(s)]
OBVIOUS

(* Copying data behind the writer index puts it behind the readable bytes. *)
LEMMA WrittenFacts ==
  ASSUME NEW b, Good(b), NEW data \in Seq(Bytes), Len(data) <= b.size - b.writer
  PROVE  /\ Good(Written(b, data))
         /\ View(Written(b, data)) = View(b) \o data
         /\ Written(b, data).size = b.size
         /\ Written(b, data).reader = b.reader
         /\ Written(b, data).writer = b.writer + Len(data)
<1> DEFINE w == Written(b, data)
<1> USE BufferAssumption
<1>1. /\ w.size = b.size /\ w.reader = b.reader
      /\ w.writer = b.writer + Len(data)
      /\ w.mem = [i \in 0 .. (b.size - 1) |->
                    IF b.writer <= i /\ i < b.writer + Len(data)
                      THEN data[i - b.writer + 1] ELSE b.mem[i]]
  BY DEF Good, Written
<1> HIDE DEF w
<1>2. w.mem \in [0 .. (w.size - 1) -> Bytes]
  <2>1. ASSUME NEW i \in 0 .. (b.size - 1)
        PROVE  (IF b.writer <= i /\ i < b.writer + Len(data)
                  THEN data[i - b.writer + 1] ELSE b.mem[i]) \in Bytes
    <3>1. b.writer <= i /\ i < b.writer + Len(data)
            => i - b.writer + 1 \in 1 .. Len(data)
      BY DEF Good
    <3> QED BY SMTT(20), <3>1 DEF Good
  <2> QED BY <1>1, <2>1
<1>3. ASSUME NEW i \in 1 .. (b.writer - b.reader)
      PROVE  w.mem[b.reader + i - 1] = b.mem[b.reader + i - 1]
  <2>1. b.reader + i - 1 \in 0 .. (b.size - 1) /\ ~(b.writer <= b.reader + i - 1)
    BY DEF Good
  <2> QED BY <1>1, <2>1
<1>4. ASSUME NEW i \in (b.writer - b.reader) + 1
                       .. (b.writer - b.reader) + Len(data)
      PROVE  w.mem[b.reader + i - 1] = data[i - (b.writer - b.reader)]
  <2>1. /\ b.reader + i - 1 \in 0 .. (b.size - 1)
        /\ b.writer <= b.reader + i - 1
        /\ b.reader + i - 1 < b.writer + Len(data)
        /\ (b.reader + i - 1) - b.writer + 1 = i - (b.writer - b.reader)
    <3>1. /\ b.reader \in Nat /\ b.writer \in Nat /\ b.size \in Nat
          /\ b.reader <= b.writer /\ b.writer <= b.size
      BY DEF Good
    <3>2. Len(data) \in Nat
      OBVIOUS
    <3> QED BY SMTT(20), <3>1, <3>2
  <2> QED BY <1>1, <2>1
<1>5. Good(w)
  BY <1>1, <1>2 DEF Good
<1>6. View(b) \in Seq(Bytes) /\ Len(View(b)) = b.writer - b.reader
  BY ViewFacts
<1>7. View(w) \in Seq(Bytes) /\ Len(View(w)) = (b.writer - b.reader) + Len(data)
  <2>1. w.writer - w.reader = (b.writer - b.reader) + Len(data)
    BY <1>1 DEF Good
  <2> QED BY <1>5, <2>1, ViewFacts
<1>8. ASSUME NEW i \in 1 .. Len(View(w))
      PROVE  View(w)[i] = (View(b) \o data)[i]
  <2>1. View(w)[i] = w.mem[b.reader + i - 1]
    BY <1>1, <1>7 DEF View, Good
  <2>2. CASE i <= b.writer - b.reader
    <3>1. i \in 1 .. (b.writer - b.reader)
      BY <1>7, <2>2 DEF Good
    <3>2. (View(b) \o data)[i] = View(b)[i]
      BY <1>6, <3>1
    <3>3. View(b)[i] = b.mem[b.reader + i - 1]
      BY <3>1 DEF View
    <3>4. w.mem[b.reader + i - 1] = b.mem[b.reader + i - 1]
      BY <1>3, <3>1
    <3> QED BY <2>1, <3>2, <3>3, <3>4
  <2>3. CASE i > b.writer - b.reader
    <3>1. i \in (b.writer - b.reader) + 1 .. (b.writer - b.reader) + Len(data)
      BY <1>7, <2>3 DEF Good
    <3>2. (View(b) \o data)[i] = data[i - (b.writer - b.reader)]
      <4>1. i \in Len(View(b)) + 1 .. Len(View(b)) + Len(data)
        BY <1>6, <3>1
      <4>2. (View(b) \o data)[i] = data[i - Len(View(b))]
        BY <1>6, <4>1, ConcatTail
      <4> QED BY <1>6, <4>2
    <3> QED BY <1>4, <2>1, <3>1, <3>2
  <2>4. i <= b.writer - b.reader \/ i > b.writer - b.reader
    BY <1>7 DEF Good
  <2> QED BY <2>2, <2>3, <2>4
<1>9. View(w) = View(b) \o data
  BY <1>6, <1>7, <1>8
<1> QED BY <1>1, <1>5, <1>9 DEF w

(* append(): the data is behind the readable bytes, and the vector has its   *)
(* old size or at most twice what is now readable.                           *)
LEMMA AppendedFacts ==
  ASSUME NEW b, Good(b), NEW data \in Seq(Bytes),
         NEW a, a = Appended(b, data)
  PROVE  /\ Good(a)
         /\ View(a) = View(b) \o data
         /\ a.writer - a.reader = (b.writer - b.reader) + Len(data)
         /\ \/ a.size = b.size
            \/ a.size <= CheapPrepend + 2 * (a.writer - a.reader)
<1> USE BufferAssumption
<1> DEFINE e == EnsureWriteableBytes(b, Len(data))
<1>0. Len(data) \in Nat
  OBVIOUS
<1>1. /\ Good(e) /\ View(e) = View(b)
      /\ Len(data) <= e.size - e.writer
      /\ e.writer - e.reader = b.writer - b.reader
      /\ \/ e.size = b.size
         \/ e.size <= CheapPrepend + 2 * ((b.writer - b.reader) + Len(data))
  BY <1>0, EnsureFacts
<1>2. a = Written(e, data)
  BY DEF Appended
<1> HIDE DEF e
<1>3. /\ Good(a) /\ View(a) = View(e) \o data
      /\ a.size = e.size /\ a.reader = e.reader
      /\ a.writer = e.writer + Len(data)
  BY <1>1, <1>2, WrittenFacts
<1>4. a.writer - a.reader = (b.writer - b.reader) + Len(data)
  BY <1>0, <1>1, <1>3 DEF Good
<1> QED BY <1>1, <1>3, <1>4

-----------------------------------------------------------------------------
(* A step that takes the buffer to b keeps the bound on the memory. *)
LEMMA BecomeKeeps ==
  ASSUME TypeOK, MemoryBounded, NEW b, Good(b), Become(b),
         \/ b.size = size
         \/ b.size <= CheapPrepend + 2 * (b.writer - b.reader)
  PROVE  TypeOK' /\ MemoryBounded'
<1> USE BufferAssumption
<1>1. TypeOK'
  BY DEF TypeOK, Good, Become, Peaked
<1>2. peak <= peak' /\ b.writer - b.reader <= peak' /\ peak' \in Nat
  BY DEF TypeOK, Good, Become, Peaked
<1>3. size' = b.size
  BY DEF Become
<1>4. MemoryBounded'
  BY SMTT(20), <1>2, <1>3 DEF TypeOK, Good, MemoryBounded
<1> QED BY <1>1, <1>4

(* The buffer as it stands is a good one, and its view is the content. *)
LEMMA CurrentFacts ==
  ASSUME TypeOK
  PROVE  /\ Good(Current) /\ View(Current) = Content
         /\ Current.size = size
         /\ Current.writer - Current.reader = ReadableBytes
         /\ Current.size - Current.writer = WritableBytes
BY BufferAssumption DEF TypeOK, Good, View, Current, Content, ReadableBytes,
                        WritableBytes

(* After the step the content is the view of what the buffer became. *)
LEMMA BecomeContent ==
  ASSUME NEW b, Become(b)
  PROVE  Content' = View(b)
BY DEF Become, Content, View, ReadableBytes

(* Concatenation of sequences of bytes is associative. *)
LEMMA ConcatThree ==
  \A a, b, c \in Seq(Bytes) : (a \o b) \o c = a \o (b \o c)
BY ConcatAssociative

(* The two halves of a chunk make the chunk. *)
LEMMA SplitChunk ==
  ASSUME NEW data \in Seq(Bytes), NEW k \in Nat, k <= Len(data)
  PROVE  /\ SubSeq(data, 1, k) \in Seq(Bytes)
         /\ SubSeq(data, k + 1, Len(data)) \in Seq(Bytes)
         /\ Len(SubSeq(data, 1, k)) = k
         /\ SubSeq(data, 1, k) \o SubSeq(data, k + 1, Len(data)) = data
BY SplitSeq

-----------------------------------------------------------------------------
(* What a step that puts data into the buffer does, whichever way the bytes  *)
(* come in.                                                                  *)
Received(data) ==
  \E b : /\ Good(b) /\ Become(b) /\ moved' = data
         /\ View(b) = Content \o data
         /\ \/ b.size = size
            \/ b.size <= CheapPrepend + 2 * (b.writer - b.reader)

(* append() takes data in. *)
LEMMA AppendReceives ==
  ASSUME TypeOK, NEW data \in Seq(Bytes), DoAppend(data)
  PROVE  Received(data)
<1> DEFINE a == Appended(Current, data)
<1>1. /\ Good(a) /\ View(a) = Content \o data
      /\ \/ a.size = size
         \/ a.size <= CheapPrepend + 2 * (a.writer - a.reader)
  BY CurrentFacts, AppendedFacts
<1>2. Become(a) /\ moved' = data
  BY DEF DoAppend
<1> HIDE DEF a
<1> QED BY <1>1, <1>2 DEF Received

(* readFd() takes in what the socket had, in one part or two. *)
LEMMA ReadFdReceives ==
  ASSUME TypeOK, NEW data \in Seq(Bytes), ReadFd(data)
  PROVE  Received(data)
<1> USE BufferAssumption
<1>0. WritableBytes \in Nat /\ Len(data) \in Nat
  BY DEF TypeOK, WritableBytes
<1>1. CASE Len(data) <= WritableBytes
  <2> DEFINE w == Written(Current, data)
  <2>1. Good(w) /\ View(w) = Content \o data /\ w.size = size
    BY <1>1, CurrentFacts, WrittenFacts
  <2>2. Become(w) /\ moved' = data
    BY <1>1 DEF ReadFd
  <2> HIDE DEF w
  <2> QED BY <2>1, <2>2 DEF Received
<1>2. CASE ~(Len(data) <= WritableBytes)
  <2> DEFINE left  == SubSeq(data, 1, WritableBytes)
             right == SubSeq(data, WritableBytes + 1, Len(data))
             full  == Written(Current, left)
             a     == Appended(full, right)
  <2>1. Become(a) /\ moved' = data
    BY <1>2 DEF ReadFd
  <2>2. /\ left \in Seq(Bytes) /\ right \in Seq(Bytes)
        /\ Len(left) = WritableBytes /\ left \o right = data
    <3>1. WritableBytes <= Len(data)
      BY <1>0, <1>2
    <3> QED BY <1>0, <3>1, SplitChunk
  <2> HIDE DEF left, right
  <2>3. Good(full) /\ View(full) = Content \o left /\ full.size = size
    <3>1. Len(left) <= Current.size - Current.writer
      BY <1>0, <2>2, CurrentFacts
    <3> QED BY <2>2, <3>1, CurrentFacts, WrittenFacts
  <2> HIDE DEF full
  <2>4. /\ Good(a) /\ View(a) = View(full) \o right
        /\ \/ a.size = full.size
           \/ a.size <= CheapPrepend + 2 * (a.writer - a.reader)
    BY <2>2, <2>3, AppendedFacts
  <2>5. View(a) = Content \o data
    <3>1. Content \in Seq(Bytes)
      BY CurrentFacts, ViewFacts
    <3>2. (Content \o left) \o right = Content \o (left \o right)
      BY <2>2, <3>1, ConcatThree
    <3> QED BY <2>2, <2>3, <2>4, <3>2
  <2> HIDE DEF a
  <2> QED BY <2>1, <2>3, <2>4, <2>5 DEF Received
<1> QED BY <1>1, <1>2

(* retrieve() drops a prefix of the content and leaves the memory alone. *)
LEMMA RetrieveDrops ==
  ASSUME TypeOK, NEW len \in Nat, Retrieve(len)
  PROVE  /\ TypeOK'
         /\ \E n \in 0 .. Len(Content) :
              /\ moved' = SubSeq(Content, 1, n)
              /\ Content' = SubSeq(Content, n + 1, Len(Content))
<1> USE BufferAssumption
<1>0. Content \in Seq(Bytes) /\ Len(Content) = ReadableBytes
  BY CurrentFacts, ViewFacts
<1>1. TypeOK'
  BY DEF TypeOK, Retrieve, ReadableBytes
<1>2. CASE len < ReadableBytes
  <2>1. /\ reader' = reader + len /\ writer' = writer /\ mem' = mem
        /\ ReadableBytes' = ReadableBytes - len
    BY <1>2 DEF Retrieve, TypeOK, ReadableBytes
  <2>2. Content' \in Seq(Bytes) /\ Len(Content') = ReadableBytes - len
    <3>1. Content' = [i \in 1 .. (ReadableBytes - len) |-> mem[reader + len + i - 1]]
      BY <2>1 DEF Content
    <3>2. ASSUME NEW i \in 1 .. (ReadableBytes - len)
          PROVE  mem[reader + len + i - 1] \in Bytes
      <4>1. reader + len + i - 1 \in 0 .. (size - 1)
        BY <1>2 DEF TypeOK, ReadableBytes
      <4> QED BY <4>1 DEF TypeOK
    <3>3. ReadableBytes - len \in Nat
      BY <1>2 DEF TypeOK, ReadableBytes
    <3> QED BY <3>1, <3>2, <3>3
  <2>3. ASSUME NEW i \in 1 .. (ReadableBytes - len)
        PROVE  Content'[i] = SubSeq(Content, len + 1, Len(Content))[i]
    <3>1. Content'[i] = mem[reader + len + i - 1]
      BY <2>1 DEF Content
    <3>2. len + i \in 1 .. ReadableBytes
      BY <1>2 DEF TypeOK, ReadableBytes
    <3>3. Content[len + i] = mem[reader + (len + i) - 1]
      BY <3>2 DEF Content
    <3>4. SubSeq(Content, len + 1, Len(Content))[i] = Content[len + i]
      BY <1>0, <1>2 DEF TypeOK, ReadableBytes
    <3>5. reader + (len + i) - 1 = reader + len + i - 1
      BY DEF TypeOK
    <3> QED BY <3>1, <3>3, <3>4, <3>5
  <2>4. /\ SubSeq(Content, len + 1, Len(Content)) \in Seq(Bytes)
        /\ Len(SubSeq(Content, len + 1, Len(Content))) = ReadableBytes - len
    BY <1>0, <1>2 DEF TypeOK, ReadableBytes
  <2>5. Content' = SubSeq(Content, len + 1, Len(Content))
    BY <2>2, <2>3, <2>4, SeqEqual
  <2>6. len \in 0 .. Len(Content)
    BY <1>0, <1>2 DEF TypeOK, ReadableBytes
  <2>7. moved' = SubSeq(Content, 1, len)
    BY <1>2 DEF Retrieve
  <2> QED BY <1>1, <2>5, <2>6, <2>7
<1>3. CASE ~(len < ReadableBytes)
  <2>1. Content' = <<>>
    BY <1>3 DEF Retrieve, Content, ReadableBytes
  <2>2. SubSeq(Content, Len(Content) + 1, Len(Content)) = <<>>
    BY <1>0 DEF TypeOK, ReadableBytes
  <2>3. Len(Content) \in 0 .. Len(Content)
    BY <1>0 DEF TypeOK, ReadableBytes
  <2>4. moved' = SubSeq(Content, 1, Len(Content))
    <3>1. moved' = Content
      BY <1>3 DEF Retrieve
    <3>2. SubSeq(Content, 1, Len(Content)) = Content
      BY <1>0
    <3> QED BY <3>1, <3>2
  <2> QED BY <1>1, <2>1, <2>2, <2>3, <2>4
<1> QED BY <1>2, <1>3

-----------------------------------------------------------------------------
(* A chunk of n bytes is a sequence of bytes. *)
LEMMA ChunkIsSeq ==
  ASSUME NEW n \in Nat, NEW data \in Chunk(n)
  PROVE  data \in Seq(Bytes) /\ Len(data) = n
BY DEF Chunk

(* Every step receives a chunk or drops a prefix. *)
LEMMA StepCases ==
  ASSUME TypeOK, Next
  PROVE  \/ \E n \in 0 .. MaxChunk : \E data \in Chunk(n) : Received(data)
         \/ \E len \in Nat : Retrieve(len)
<1> USE BufferAssumption
<1>1. ASSUME NEW n \in 0 .. MaxChunk, NEW data \in Chunk(n),
             DoAppend(data) \/ ReadFd(data)
      PROVE  Received(data)
  <2>1. data \in Seq(Bytes)
    BY ChunkIsSeq
  <2> QED BY <1>1, <2>1, AppendReceives, ReadFdReceives
<1>2. \A len \in 0 .. (ReadableBytes + 1) : len \in Nat
  BY DEF TypeOK, ReadableBytes
<1> QED BY <1>1, <1>2 DEF Next

(* The indices of every buffer stay in order, whatever the sizes. *)
LEMMA StepKeeps ==
  ASSUME TypeOK, MemoryBounded, [Next]_vars
  PROVE  TypeOK' /\ MemoryBounded'
<1>1. CASE UNCHANGED vars
  BY <1>1 DEF vars, TypeOK, MemoryBounded
<1>2. ASSUME NEW data, Received(data)
      PROVE  TypeOK' /\ MemoryBounded'
  BY <1>2, BecomeKeeps DEF Received
<1>3. ASSUME NEW len \in Nat, Retrieve(len)
      PROVE  TypeOK' /\ MemoryBounded'
  <2>1. TypeOK'
    BY <1>3, RetrieveDrops
  <2>2. MemoryBounded'
    BY <1>3 DEF Retrieve, MemoryBounded
  <2> QED BY <2>1, <2>2
<1> QED BY <1>1, <1>2, <1>3, StepCases

(* The constructor leaves a buffer of the initial size. *)
LEMMA InitKeeps ==
  ASSUME Init
  PROVE  TypeOK /\ MemoryBounded
BY BufferAssumption DEF Init, TypeOK, MemoryBounded

(* The indices of Buffer stay in order: kCheapPrepend <= readerIndex_ <=     *)
(* writerIndex_ <= buffer_.size(), through append(), readFd(), makeSpace()   *)
(* and retrieve(), so no copy leaves the vector.                             *)
THEOREM IndicesInOrder == Spec => []TypeOK
<1>1. Init => TypeOK /\ MemoryBounded
  BY InitKeeps
<1>2. (TypeOK /\ MemoryBounded) /\ [Next]_vars => (TypeOK /\ MemoryBounded)'
  BY StepKeeps
<1> QED BY <1>1, <1>2, PTL DEF Spec

(* A buffer never takes more memory than twice its largest backlog, or its   *)
(* initial size: makeSpace() grows it only when moving cannot help.          *)
THEOREM MemoryIsBounded == Spec => []MemoryBounded
<1>1. Init => TypeOK /\ MemoryBounded
  BY InitKeeps
<1>2. (TypeOK /\ MemoryBounded) /\ [Next]_vars => (TypeOK /\ MemoryBounded)'
  BY StepKeeps
<1> QED BY <1>1, <1>2, PTL DEF Spec

(* The buffer implements a first-in first-out queue of bytes: growing,       *)
(* moving and the two-part readv() neither lose, repeat nor reorder any.     *)
THEOREM ImplementsQueue == Spec => QueueSpec
<1> USE BufferAssumption
<1>1. Init => Queue!Init
  BY DEF Init, Queue!Init, Content, ReadableBytes
<1>2. TypeOK /\ [Next]_vars => [Queue!Next]_(Queue!qvars)
  <2> SUFFICES ASSUME TypeOK, [Next]_vars PROVE [Queue!Next]_(Queue!qvars)
    OBVIOUS
  <2>1. CASE UNCHANGED vars
    BY <2>1 DEF vars, Content, ReadableBytes, Queue!qvars
  <2>2. ASSUME NEW n \in 0 .. MaxChunk, NEW data \in Chunk(n), Received(data)
        PROVE  Queue!Next
    <3>1. Content' = Content \o data /\ moved' = data
      BY <2>2, BecomeContent DEF Received
    <3> HIDE DEF Content
    <3> QED BY <3>1 DEF Queue!Next, Queue!Push, Chunk
  <2>3. ASSUME NEW len \in Nat, Retrieve(len)
        PROVE  Queue!Next
    <3>1. \E n \in 0 .. Len(Content) :
            /\ moved' = SubSeq(Content, 1, n)
            /\ Content' = SubSeq(Content, n + 1, Len(Content))
      BY <2>3, RetrieveDrops
    <3> HIDE DEF Content
    <3> QED BY <3>1 DEF Queue!Next, Queue!Pop
  <2> QED BY <2>1, <2>2, <2>3, StepCases
<1>3. Spec => []TypeOK
  BY IndicesInOrder
<1> QED BY <1>1, <1>2, <1>3, PTL DEF Spec, QueueSpec, Queue!Spec

-----------------------------------------------------------------------------
(* The HTTP server's input buffer *)

(* The stream of a script is a sequence of units. *)
LEMMA EncodeType ==
  ASSUME NEW m \in Message
  PROVE  Encode(m) \in Seq(Unit)
<1> DEFINE X == Seq(Unit)
<1>1. m.line \in X /\ m.headers \in Seq(X) /\ m.body \in X
  BY DEF Message
<1>2. <<>> \in X /\ Crlf \in X
  <2>1. "cr" \in Unit /\ "lf" \in Unit
    BY DEF Unit
  <2>2. <<"cr", "lf">> \in Seq(Unit)
    BY <2>1
  <2> QED
    BY <2>2 DEF Crlf
<1>3. \A u, v \in X : u \o v \in X
  BY ConcatProperties
<1> HIDE DEF X
<1>4. <<m.line>> \in Seq(X) /\ <<<<>>>> \in Seq(X)
  BY <1>1, <1>2
<1>5. \A u, v \in Seq(X) : u \o v \in Seq(X)
  BY ConcatProperties
<1>6. PICK l \in Seq(X) : l = Lines(m)
  BY <1>1, <1>4, <1>5 DEF Lines
<1>7. \A i \in 1 .. Len(l) : l[i] \o Crlf \in X
  BY <1>2, <1>3
<1>8. [i \in 1 .. Len(l) |-> l[i] \o Crlf] \in Seq(X)
  BY <1>7
<1>9. FlattenSeq([i \in 1 .. Len(l) |-> l[i] \o Crlf]) \in X
  BY <1>8, FlattenType DEF X
<1>10. Encode(m) \in X
  BY <1>1, <1>3, <1>6, <1>9 DEF Encode
<1> QED
  BY <1>10 DEF X

(* What the peer sends is a sequence of units. *)
LEMMA StreamType == script \in Seq(Message) => Stream \in Seq(Unit)
<1> SUFFICES ASSUME script \in Seq(Message) PROVE Stream \in Seq(Unit)
  OBVIOUS
<1>1. \A i \in 1 .. Len(script) : script[i] \in Message
  OBVIOUS
<1>2. \A i \in 1 .. Len(script) : Encode(script[i]) \in Seq(Unit)
  BY <1>1, EncodeType
<1>3. [i \in 1 .. Len(script) |-> Encode(script[i])] \in Seq(Seq(Unit))
  BY <1>2
<1> QED
  BY <1>3, FlattenType DEF Stream

(* The limits are applied before the parser waits, and a body is let in only *)
(* if its length is within its limit.                                        *)
WaitingInput ==
  \/ /\ pstate \in {"kExpectRequestLine", "kExpectHeaders"}
     /\ headerBytes + Len(buf) <= MaxHeaderBytes
  \/ pstate = "kExpectBody" /\ Len(buf) < contentLength

BoundInv ==
  /\ script \in Seq(Message) /\ fed \in Nat /\ fed <= Len(Stream)
  /\ buf \in Seq(Unit) /\ headerBytes \in Nat /\ contentLength \in Nat
  /\ pstate \in {"kExpectRequestLine", "kExpectHeaders", "kExpectBody", "kGotAll"}
  /\ pstate = "kExpectBody" => contentLength <= MaxBodyBytes
  /\ pc = "wait" /\ conn = "connected" => WaitingInput

(* Taking a line leaves a sequence of units in the buffer. *)
LEMMA LineFacts ==
  ASSUME buf \in Seq(Unit), LineEnds # {}
  PROVE  LineBytes \in Nat /\ SubSeq(buf, LineBytes + 1, Len(buf)) \in Seq(Unit)
<1>1. LineEnds \subseteq Nat /\ \A i \in LineEnds : i \in 1 .. Len(buf) - 1
  BY DEF LineEnds
<1>2. PICK m \in 1 .. Len(buf) - 1 : m = Min(LineEnds)
  BY <1>1, MinInRange
<1>3. Len(Line) = m - 1
  BY <1>2 DEF Line
<1>4. LineBytes = m + 1
  BY <1>2, <1>3 DEF LineBytes
<1> QED
  BY <1>2, <1>4

(* retrieve() leaves a sequence of units. *)
LEMMA DropType ==
  ASSUME NEW s \in Seq(Unit), NEW n \in Nat
  PROVE  SubSeq(s, n + 1, Len(s)) \in Seq(Unit)
OBVIOUS

(* What the digits of Content-Length stand for is a natural number. *)
LEMMA NumbersType == \A v \in DOMAIN Numbers : Numbers[v] \in Nat
BY HttpAssumption DEF Numbers

(* handleRead() runs the parser, or waits for a connection that is closing. *)
LEMMA FeedBounded == ASSUME BoundInv, Feed PROVE BoundInv'
<1>1. PICK n \in 1 .. Min({MaxFragment, Len(Stream) - fed}) :
        buf' = buf \o SubSeq(Stream, fed + 1, fed + n) /\ fed' = fed + n
  BY DEF Feed
<1>2. PICK st \in Seq(Unit) : st = Stream
  BY StreamType DEF BoundInv
<1>3. PICK a \in Nat, b \in Nat : a = MaxFragment /\ b = Len(st) - fed /\ fed \in Nat
  <2>1. fed <= Len(st) /\ fed \in Nat
    BY <1>2 DEF BoundInv
  <2>2. Len(st) \in Nat
    BY <1>2
  <2>3. Len(st) - fed \in Nat
    BY <2>1, <2>2
  <2>4. MaxFragment \in Nat
    BY HttpAssumption
  <2> QED
    BY <2>1, <2>3, <2>4
<1>4. Min({a, b}) \in Nat /\ Min({a, b}) <= b
  BY MinInRange
<1>5. n \in Nat /\ n <= b
  BY <1>1, <1>2, <1>3, <1>4
<1>6. SubSeq(st, fed + 1, fed + n) \in Seq(Unit) /\ fed + n <= Len(st)
  BY <1>3, <1>5
<1>7. buf' \in Seq(Unit)
  BY <1>1, <1>2, <1>6, ConcatProperties DEF BoundInv
<1>8. /\ pc' = (IF conn = "connected" THEN "parse" ELSE "wait")
      /\ UNCHANGED <<script, pstate, headerBytes, contentLength, conn>>
  BY DEF Feed, context
<1>9. Stream' = Stream
  BY <1>8 DEF Stream, Encode, Lines, Crlf
<1> QED
  BY <1>1, <1>2, <1>3, <1>5, <1>6, <1>7, <1>8, <1>9 DEF BoundInv

(* A step of the parser, which leaves the stream alone. *)
LEMMA ParserBounded ==
  ASSUME BoundInv,
         LineMissing \/ LineTooLong \/ RequestLine \/ HeaderLine \/ EndOfHeaders \/ BadLine
           \/ BodyMissing \/ Body \/ ServeInfer \/ Serve
  PROVE  BoundInv'
<1>1. UNCHANGED <<script, fed>> /\ pc = "parse"
  BY DEF LineMissing, LineTooLong, RequestLine, HeaderLine, EndOfHeaders, BadLine, BodyMissing,
         Body, ServeInfer, Serve, LineRead, InHeader
<1>2. /\ script' \in Seq(Message) /\ fed' \in Nat /\ fed' <= Len(Stream')
  <2>1. Stream' = Stream
    BY <1>1 DEF Stream, Encode, Lines, Crlf
  <2> QED
    BY <1>1, <2>1 DEF BoundInv
<1>3. MaxHeaderBytes \in Nat /\ MaxBodyBytes \in Nat /\ Len(buf) \in Nat
  BY HttpAssumption DEF BoundInv
<1>4. CASE LineMissing
  BY <1>2, <1>4 DEF LineMissing, BoundInv, WaitingInput, Refuse, context, InHeader
<1>5. CASE LineTooLong
  <2>1. LineBytes \in Nat
    BY <1>5, LineFacts DEF BoundInv, LineTooLong
  <2> QED
    BY <1>2, <1>5, <2>1 DEF LineTooLong, BoundInv, Refuse, InHeader
<1>6. ASSUME LineRead PROVE LineBytes \in Nat /\ headerBytes' \in Nat
                            /\ SubSeq(buf, LineBytes + 1, Len(buf)) \in Seq(Unit)
  BY <1>6, LineFacts DEF LineRead, BoundInv
<1>7. CASE RequestLine
  BY <1>1, <1>2, <1>6, <1>7 DEF RequestLine, BoundInv, Consume
<1>8. CASE HeaderLine
  BY <1>1, <1>2, <1>6, <1>8 DEF HeaderLine, BoundInv, Consume, LineRead
<1>9. CASE EndOfHeaders
  <2>1. contentLength' \in Nat
    BY <1>9, NumbersType DEF EndOfHeaders
  <2>2. CASE contentLength' > MaxBodyBytes /\ Refuse("413") /\ UNCHANGED <<buf, pstate>>
    BY <1>2, <1>6, <1>9, <2>1, <2>2 DEF EndOfHeaders, BoundInv, Refuse
  <2>3. CASE /\ contentLength' <= MaxBodyBytes /\ pstate' = "kExpectBody"
             /\ Consume(LineBytes) /\ UNCHANGED <<pc, conn, served>>
    BY <1>1, <1>2, <1>6, <1>9, <2>1, <2>3 DEF EndOfHeaders, BoundInv, Consume
  <2> QED
    BY <1>9, <2>2, <2>3 DEF EndOfHeaders
<1>10. CASE BadLine
  BY <1>2, <1>6, <1>10 DEF BadLine, BoundInv, Refuse
<1>11. CASE BodyMissing
  BY <1>2, <1>11 DEF BodyMissing, BoundInv, WaitingInput, context
<1>12. CASE Body
  <2>1. SubSeq(buf, contentLength + 1, Len(buf)) \in Seq(Unit)
    BY DropType DEF BoundInv
  <2>2. /\ buf' \in Seq(Unit) /\ UNCHANGED <<headerBytes, contentLength>>
        /\ \/ pstate' = "kGotAll" /\ UNCHANGED <<pc, conn>>
           \/ conn' = "closing" /\ UNCHANGED pstate
    BY <1>12, <2>1 DEF Body, Consume, Refuse
  <2> QED
    BY <1>1, <1>2, <2>2 DEF BoundInv
<1>13. CASE ServeInfer \/ Serve
  <2>1. pstate' = "kExpectRequestLine" /\ headerBytes' = 0 /\ contentLength' = 0 /\ UNCHANGED buf
    BY <1>13 DEF ServeInfer, Serve, Reset
  <2>2. pc' = "wait" /\ conn' = "connected" => buf = <<>>
    BY <1>13 DEF ServeInfer, Serve
  <2>3. pc' = "wait" /\ conn' = "connected" => WaitingInput'
    BY <1>3, <2>1, <2>2 DEF WaitingInput
  <2> QED
    BY <1>2, <2>1, <2>3 DEF BoundInv
<1> QED
  BY <1>4, <1>5, <1>7, <1>8, <1>9, <1>10, <1>11, <1>12, <1>13

(* What waits in the buffer of a connected client stays within the limits of *)
(* one header or one body, however the stream is cut and whatever it holds.  *)
THEOREM HttpInputBounded == HttpSpec => []InputBounded
<1>1. HttpInit => BoundInv
  <2> SUFFICES ASSUME HttpInit PROVE BoundInv
    OBVIOUS
  <2>1. script \in Seq(Message)
    BY HttpAssumption DEF HttpInit
  <2>2. Len(Stream) \in Nat
    BY <2>1, StreamType
  <2> QED
    BY <2>1, <2>2, HttpAssumption DEF HttpInit, BoundInv, WaitingInput
<1>2. BoundInv /\ [HttpNext]_httpVars => BoundInv'
  <2> SUFFICES ASSUME BoundInv, [HttpNext]_httpVars PROVE BoundInv'
    OBVIOUS
  <2>1. CASE UNCHANGED httpVars
    BY <2>1 DEF httpVars, context, BoundInv, WaitingInput, Stream, Encode, Lines, Crlf
  <2> QED
    BY <2>1, FeedBounded, ParserBounded DEF HttpNext
<1>3. BoundInv => InputBounded
  BY HttpAssumption DEF BoundInv, WaitingInput, InputBounded
<1> QED
  BY <1>1, <1>2, <1>3, PTL DEF HttpSpec

-----------------------------------------------------------------------------
(* The answers of the HTTP server.  The parser is always at a known place of  *)
(* the client's messages: what it has taken, what is in the buffer and what   *)
(* has not arrived are, in this order, what the client wrote.                 *)

(* What the client writes from its k-th message on, and from the j-th line of *)
(* a message on.                                                              *)
Following(k) == FlattenSeq([i \in 1 .. Len(script) - k |-> Encode(script[k + i])])

LinesFrom(m, j) == FlattenSeq([i \in 1 .. Len(Lines(m)) - j |-> Lines(m)[j + i] \o Crlf])

Unread(m, j) == LinesFrom(m, j) \o m.body

(* What has not been consumed: the input buffer, and what has not arrived. *)
Remaining == buf \o SubSeq(Stream, fed + 1, Len(Stream))

(* No message of the first n closes the connection, and each has its answer. *)
Answered(n) ==
  /\ served = [i \in 1 .. n |-> Deserved(script[i])]
  /\ \A i \in 1 .. n : ~Deserved(script[i]).close

(* The headers getHeader() is asked for. *)
HeaderNames == {"connection", "content-length", "content-type"}

(* The parser has taken the request line and j - 1 headers of m. *)
HeaderRead(m, j) ==
  /\ headerBytes = HeaderSize(m, j) /\ \A i \in 1 .. j : i \notin Offending(m)
  /\ DOMAIN request = DOMAIN NoRequest /\ request.line = RequestLines[m.line[1]]
  /\ \A name \in HeaderNames : GetHeader(request, name) = LastValue(m, name, j - 1)
  /\ request.form = <<>> /\ request.files = <<>>

AllRead(m) ==
  /\ Offending(m) = {} /\ ~BadLength(m) /\ Len(m.body) <= MaxBodyBytes
  /\ DOMAIN request = DOMAIN NoRequest /\ request.line = RequestLines[m.line[1]]
  /\ \A name \in HeaderNames : GetHeader(request, name) = LastValue(m, name, Len(m.headers))

(* Where the parser is in the n-th message after the answered ones. *)
Parsing(m, later) ==
  \/ /\ pstate = "kExpectRequestLine" /\ headerBytes = 0 /\ request = NoRequest
     /\ Remaining = Unread(m, 0) \o later
  \/ /\ pstate = "kExpectHeaders"
     /\ \E j \in 1 .. Len(m.headers) + 1 : HeaderRead(m, j) /\ Remaining = Unread(m, j) \o later
  \/ /\ pstate = "kExpectBody"
     /\ AllRead(m) /\ request.form = <<>> /\ request.files = <<>>
     /\ contentLength = Len(m.body) /\ Remaining = m.body \o later
  \/ /\ pstate = "kGotAll"
     /\ AllRead(m) /\ m.wellFormed /\ Agrees(m, request) /\ Remaining = later

Idle ==
  \/ pstate \in {"kExpectRequestLine", "kExpectHeaders"} /\ LineEnds = {}
  \/ pstate = "kExpectBody" /\ Len(buf) < contentLength

AtMessage(n) ==
  IF n = Len(script)
    THEN pstate = "kExpectRequestLine" /\ headerBytes = 0 /\ request = NoRequest /\ Remaining = <<>>
    ELSE Parsing(script[n + 1], Following(n + 1))

FrameInv ==
  /\ BoundInv /\ \A i \in 1 .. Len(script) : Truthful(script[i])
  /\ IF conn = "connected"
       THEN /\ \E n \in 0 .. Len(script) : Answered(n) /\ AtMessage(n)
            /\ pc = "wait" => Idle
            /\ pc = "parse" /\ pstate = "kExpectRequestLine" => buf # <<>>
       ELSE pc = "wait" /\ served = Expected
(* Concatenation is associative. *)
LEMMA UnitsAssoc ==
  ASSUME NEW S, NEW a \in Seq(S), NEW b \in Seq(S), NEW c \in Seq(S)
  PROVE  (a \o b) \o c = a \o (b \o c) /\ a \o b \in Seq(S) /\ b \o c \in Seq(S)
<1>1. (a \o b) \o c = a \o (b \o c)
  BY SMTT(30)
<1> QED
  BY <1>1, ConcatProperties

(* A sequence of one element. *)
LEMMA Singleton ==
  \A X : \A e \in X : <<e>> \in Seq(X) /\ Len(<<e>>) = 1 /\ <<e>>[1] = e
OBVIOUS

(* A sequence that is flattened begins with its first element. *)
LEMMA FlattenHead ==
  ASSUME NEW S, NEW ss \in Seq(Seq(S)), NEW tt \in Seq(Seq(S)), Len(ss) = Len(tt) + 1,
         \A i \in 1 .. Len(tt) : tt[i] = ss[i + 1]
  PROVE  /\ FlattenSeq(ss) = ss[1] \o FlattenSeq(tt)
         /\ ss[1] \in Seq(S) /\ FlattenSeq(tt) \in Seq(S)
<1>1. PICK n \in Nat : n = Len(tt) /\ Len(ss) = 1 + n
  OBVIOUS
<1>2. PICK e \in Seq(S) : e = ss[1]
  BY <1>1
<1>3. PICK h \in Seq(Seq(S)) : h = <<e>> /\ Len(h) = 1 /\ h[1] = e
  BY <1>2, Singleton
<1>4. \A i \in 1 .. 1 : ss[i] = h[i]
  BY <1>2, <1>3
<1>5. \A i \in 1 .. Len(tt) : ss[Len(h) + i] = tt[i]
  BY <1>1, <1>3
<1>6. ss = h \o tt
  <2> DEFINE X == Seq(S)
  <2> HIDE DEF X
  <2>1. h \in Seq(X) /\ tt \in Seq(X) /\ ss \in Seq(X)
    BY DEF X
  <2>2. Len(ss) = Len(h) + Len(tt) /\ \A i \in 1 .. Len(h) : ss[i] = h[i]
    BY <1>1, <1>3, <1>4
  <2> QED
    BY <1>5, <2>1, <2>2, IsConcat
<1>7. FlattenSeq(ss) = FlattenSeq(h) \o FlattenSeq(tt)
  BY <1>6, FlattenConcat
<1>8. FlattenSeq(h) = e
  BY <1>3, FlattenOne
<1> QED
  BY <1>2, <1>7, <1>8, FlattenType

(* An element, a sequence and an element. *)
LEMMA Framed ==
  ASSUME NEW X, NEW e \in X, NEW h \in Seq(X), NEW z \in X, NEW n \in Nat, n = Len(h)
  PROVE  /\ <<e>> \o h \o <<z>> \in Seq(X) /\ Len(<<e>> \o h \o <<z>>) = n + 2
         /\ (<<e>> \o h \o <<z>>)[1] = e /\ (<<e>> \o h \o <<z>>)[n + 2] = z
         /\ \A i \in 1 .. n : (<<e>> \o h \o <<z>>)[i + 1] = h[i]
<1>1. PICK a \in Seq(X) : a = <<e>> /\ Len(a) = 1 /\ a[1] = e
  BY Singleton
<1>2. PICK y \in Seq(X) : y = <<z>> /\ Len(y) = 1 /\ y[1] = z
  BY Singleton
<1>3. PICK b \in Seq(X) : /\ b = a \o h /\ Len(b) = 1 + n
                          /\ \A i \in 1 .. 1 : b[i] = a[i]
                          /\ \A i \in 1 .. n : b[1 + i] = h[i]
  <2>1. /\ a \o h \in Seq(X) /\ Len(a \o h) = Len(a) + Len(h)
        /\ \A i \in 1 .. Len(a) : (a \o h)[i] = a[i]
        /\ \A i \in 1 .. Len(h) : (a \o h)[Len(a) + i] = h[i]
    BY ConcatIs
  <2>2. Len(a) = 1 /\ Len(h) = n
    BY <1>1
  <2> QED
    BY <2>1, <2>2
<1>4. PICK c \in Seq(X) : /\ c = b \o y /\ Len(c) = 1 + n + 1
                          /\ \A i \in 1 .. 1 + n : c[i] = b[i]
                          /\ \A i \in 1 .. 1 : c[1 + n + i] = y[i]
  <2>1. /\ b \o y \in Seq(X) /\ Len(b \o y) = Len(b) + Len(y)
        /\ \A i \in 1 .. Len(b) : (b \o y)[i] = b[i]
        /\ \A i \in 1 .. Len(y) : (b \o y)[Len(b) + i] = y[i]
    BY ConcatIs
  <2>2. Len(b) = 1 + n /\ Len(y) = 1
    BY <1>2, <1>3
  <2> QED
    BY <2>1, <2>2, Zenon
<1>5. c[1] = e
  BY <1>1, <1>3, <1>4
<1>6. c[n + 2] = z /\ Len(c) = n + 2
  <2>1. 1 + n + 1 = n + 2 /\ 1 \in 1 .. 1
    OBVIOUS
  <2> QED
    BY <1>2, <1>4, <2>1
<1>7. \A i \in 1 .. n : c[i + 1] = h[i]
  <2>1. \A i \in 1 .. n : i + 1 = 1 + i /\ 1 + i \in 1 .. 1 + n
    OBVIOUS
  <2> QED
    BY <1>3, <1>4, <2>1
<1>8. c = <<e>> \o h \o <<z>>
  BY <1>1, <1>2, <1>3, <1>4
<1> QED
  BY <1>5, <1>6, <1>7, <1>8

(* The lines of a message. *)
LEMMA LinesType ==
  ASSUME NEW m \in Message
  PROVE  /\ Lines(m) \in Seq(Seq(Unit)) /\ Len(m.headers) \in Nat
         /\ Len(Lines(m)) = Len(m.headers) + 2
         /\ Lines(m)[1] = m.line
         /\ \A i \in 1 .. Len(m.headers) : Lines(m)[i + 1] = m.headers[i]
         /\ Lines(m)[Len(m.headers) + 2] = <<>>
<1> DEFINE X == Seq(Unit)
<1>0. m.line \in X /\ m.headers \in Seq(X) /\ <<>> \in X
  BY DEF Message
<1> HIDE DEF X
<1>1. PICK e \in X, h \in Seq(X), z \in X : e = m.line /\ h = m.headers /\ z = <<>>
  BY <1>0, Zenon
<1>2. PICK n \in Nat : n = Len(h)
  OBVIOUS
<1>3. PICK c \in Seq(X) : /\ c = <<e>> \o h \o <<z>> /\ Len(c) = n + 2
                          /\ c[1] = e /\ c[n + 2] = z
                          /\ \A i \in 1 .. n : c[i + 1] = h[i]
  <2>1. /\ <<e>> \o h \o <<z>> \in Seq(X) /\ Len(<<e>> \o h \o <<z>>) = n + 2
        /\ (<<e>> \o h \o <<z>>)[1] = e /\ (<<e>> \o h \o <<z>>)[n + 2] = z
        /\ \A i \in 1 .. n : (<<e>> \o h \o <<z>>)[i + 1] = h[i]
    BY <1>2, Framed
  <2> QED
    BY <2>1
<1>4. Lines(m) = c
  BY <1>1, <1>3 DEF Lines
<1> QED
  BY <1>1, <1>2, <1>3, <1>4 DEF X

(* The end of a line. *)
LEMMA CrlfIs == Crlf \in Seq(Unit) /\ Len(Crlf) = 2 /\ Crlf[1] = "cr" /\ Crlf[2] = "lf"
<1>1. "cr" \in Unit /\ "lf" \in Unit
  BY DEF Unit
<1> QED
  BY <1>1 DEF Crlf

(* From a line on, a message is that line, its end, and the rest. *)
LEMMA LinesStep ==
  ASSUME NEW m \in Message, NEW j \in Nat, j < Len(Lines(m))
  PROVE  /\ LinesFrom(m, j) = (Lines(m)[j + 1] \o Crlf) \o LinesFrom(m, j + 1)
         /\ Lines(m)[j + 1] \in Seq(Unit) /\ LinesFrom(m, j + 1) \in Seq(Unit)
         /\ LinesFrom(m, j) \in Seq(Unit)
<1>1. PICK l \in Seq(Seq(Unit)), n \in Nat : l = Lines(m) /\ n = Len(l) /\ j < n
  BY LinesType
<1>2. \A i \in 1 .. n : l[i] \in Seq(Unit) /\ l[i] \o Crlf \in Seq(Unit)
  <2>1. \A i \in 1 .. n : l[i] \in Seq(Unit)
    BY <1>1
  <2> QED
    BY <2>1, CrlfIs, ConcatProperties
<1> DEFINE ss == [i \in 1 .. n - j |-> l[j + i] \o Crlf]
           tt == [i \in 1 .. n - (j + 1) |-> l[(j + 1) + i] \o Crlf]
<1>3. \A i \in 1 .. n - j : j + i \in 1 .. n
  BY <1>1
<1>4. ss \in Seq(Seq(Unit)) /\ Len(ss) = n - j
  <2>1. n - j \in Nat /\ \A i \in 1 .. n - j : l[j + i] \o Crlf \in Seq(Unit)
    BY <1>1, <1>2, <1>3
  <2> QED
    BY <2>1
<1>5. tt \in Seq(Seq(Unit)) /\ Len(tt) = n - (j + 1)
  <2>1. n - (j + 1) \in Nat /\ \A i \in 1 .. n - (j + 1) : j + 1 + i \in 1 .. n
    BY <1>1
  <2>2. \A i \in 1 .. n - (j + 1) : l[(j + 1) + i] \o Crlf \in Seq(Unit)
    BY <1>2, <2>1
  <2> QED
    BY <2>1, <2>2
<1>6. \A i \in 1 .. n - (j + 1) : tt[i] = ss[i + 1]
  <2>1. \A i \in 1 .. n - (j + 1) : i + 1 \in 1 .. n - j /\ (j + 1) + i = j + (i + 1)
    BY <1>1
  <2> QED
    BY <2>1
<1>7. 1 \in 1 .. n - j /\ ss[1] = l[j + 1] \o Crlf
  <2>1. 1 \in 1 .. n - j
    BY <1>1
  <2> QED
    BY <2>1
<1>8. LinesFrom(m, j) = FlattenSeq(ss) /\ LinesFrom(m, j + 1) = FlattenSeq(tt)
  BY <1>1 DEF LinesFrom
<1> HIDE DEF ss, tt
<1>9. /\ FlattenSeq(ss) = ss[1] \o FlattenSeq(tt)
      /\ FlattenSeq(tt) \in Seq(Unit) /\ FlattenSeq(ss) \in Seq(Unit)
  <2>1. Len(ss) = Len(tt) + 1
    BY <1>1, <1>4, <1>5
  <2>2. ss \in Seq(Seq(Unit)) /\ tt \in Seq(Seq(Unit)) /\ \A i \in 1 .. Len(tt) : tt[i] = ss[i + 1]
    BY <1>4, <1>5, <1>6
  <2>3. FlattenSeq(ss) = ss[1] \o FlattenSeq(tt) /\ FlattenSeq(tt) \in Seq(Unit)
    BY <2>1, <2>2, FlattenHead
  <2>4. FlattenSeq(ss) \in Seq(Unit)
    BY <2>2, FlattenType
  <2> QED
    BY <2>3, <2>4
<1>10. j + 1 \in 1 .. n
  BY <1>1
<1> QED
  BY <1>1, <1>2, <1>7, <1>8, <1>9, <1>10

(* A message is read from its first line to its body. *)
LEMMA UnreadEnds ==
  ASSUME NEW m \in Message
  PROVE  Unread(m, 0) = Encode(m) /\ Unread(m, Len(Lines(m))) = m.body
<1>1. PICK l \in Seq(Seq(Unit)), n \in Nat : l = Lines(m) /\ n = Len(l)
  BY LinesType
<1>2. [i \in 1 .. n - 0 |-> l[0 + i] \o Crlf] = [i \in 1 .. n |-> l[i] \o Crlf]
  <2>1. n - 0 = n /\ \A i \in 1 .. n : 0 + i = i
    OBVIOUS
  <2> QED
    BY <2>1
<1>3. Unread(m, 0) = Encode(m)
  BY <1>1, <1>2 DEF Unread, LinesFrom, Encode
<1>4. [i \in 1 .. n - n |-> l[n + i] \o Crlf] = <<>>
  BY <1>1
<1>5. LinesFrom(m, n) = <<>>
  BY <1>1, <1>4 DEF LinesFrom, FlattenSeq
<1>6. m.body \in Seq(Unit)
  BY DEF Message
<1>7. <<>> \o m.body = m.body
  BY <1>6
<1> QED
  BY <1>1, <1>3, <1>5, <1>7 DEF Unread

(* What follows the k-th message begins with the next one. *)
LEMMA FollowingStep ==
  ASSUME script \in Seq(Message), NEW k \in Nat, k < Len(script)
  PROVE  /\ script[k + 1] \in Message
         /\ Following(k) = Encode(script[k + 1]) \o Following(k + 1)
         /\ Following(k) \in Seq(Unit) /\ Following(k + 1) \in Seq(Unit)
<1>1. PICK n \in Nat : n = Len(script) /\ k < n
  OBVIOUS
<1>2. \A i \in 1 .. n : script[i] \in Message /\ Encode(script[i]) \in Seq(Unit)
  BY <1>1, EncodeType
<1> DEFINE ss == [i \in 1 .. n - k |-> Encode(script[k + i])]
           tt == [i \in 1 .. n - (k + 1) |-> Encode(script[(k + 1) + i])]
<1>3. ss \in Seq(Seq(Unit)) /\ Len(ss) = n - k
  <2>1. n - k \in Nat /\ \A i \in 1 .. n - k : k + i \in 1 .. n
    BY <1>1
  <2>2. \A i \in 1 .. n - k : Encode(script[k + i]) \in Seq(Unit)
    BY <1>2, <2>1
  <2> QED
    BY <2>1, <2>2
<1>4. tt \in Seq(Seq(Unit)) /\ Len(tt) = n - (k + 1)
  <2>1. n - (k + 1) \in Nat /\ \A i \in 1 .. n - (k + 1) : (k + 1) + i \in 1 .. n
    BY <1>1
  <2>2. \A i \in 1 .. n - (k + 1) : Encode(script[(k + 1) + i]) \in Seq(Unit)
    BY <1>2, <2>1
  <2> QED
    BY <2>1, <2>2
<1>5. \A i \in 1 .. n - (k + 1) : tt[i] = ss[i + 1]
  <2>1. \A i \in 1 .. n - (k + 1) : i + 1 \in 1 .. n - k /\ (k + 1) + i = k + (i + 1)
    BY <1>1
  <2> QED
    BY <2>1
<1>6. 1 \in 1 .. n - k /\ ss[1] = Encode(script[k + 1])
  BY <1>1
<1>7. Following(k) = FlattenSeq(ss) /\ Following(k + 1) = FlattenSeq(tt)
  BY <1>1 DEF Following
<1> HIDE DEF ss, tt
<1>8. /\ FlattenSeq(ss) = ss[1] \o FlattenSeq(tt)
      /\ FlattenSeq(tt) \in Seq(Unit) /\ FlattenSeq(ss) \in Seq(Unit)
  <2>1. Len(ss) = Len(tt) + 1
    BY <1>1, <1>3, <1>4
  <2>2. ss \in Seq(Seq(Unit)) /\ tt \in Seq(Seq(Unit)) /\ \A i \in 1 .. Len(tt) : tt[i] = ss[i + 1]
    BY <1>3, <1>4, <1>5
  <2>3. FlattenSeq(ss) = ss[1] \o FlattenSeq(tt) /\ FlattenSeq(tt) \in Seq(Unit)
    BY <2>1, <2>2, FlattenHead
  <2>4. FlattenSeq(ss) \in Seq(Unit)
    BY <2>2, FlattenType
  <2> QED
    BY <2>3, <2>4
<1>9. k + 1 \in 1 .. n
  BY <1>1
<1> QED
  BY <1>2, <1>6, <1>7, <1>8, <1>9

(* The whole stream, and nothing. *)
LEMMA FollowingEnds ==
  ASSUME script \in Seq(Message)
  PROVE  Following(0) = Stream /\ Following(Len(script)) = <<>>
<1>1. PICK n \in Nat : n = Len(script)
  OBVIOUS
<1>2. [i \in 1 .. n - 0 |-> Encode(script[0 + i])] = [i \in 1 .. n |-> Encode(script[i])]
  <2>1. n - 0 = n /\ \A i \in 1 .. n : 0 + i = i
    OBVIOUS
  <2> QED
    BY <2>1
<1>3. [i \in 1 .. n - n |-> Encode(script[n + i])] = <<>>
  BY <1>1
<1>4. Following(0) = Stream
  BY <1>1, <1>2 DEF Following, Stream
<1>5. FlattenSeq(<<>>) = <<>>
  BY DEF FlattenSeq
<1> QED
  BY <1>1, <1>3, <1>4, <1>5 DEF Following

(* A header grows by its lines. *)
LEMMA SizeStep ==
  ASSUME NEW m \in Message
  PROVE  /\ HeaderSize(m, 0) = 0
         /\ \A j \in Nat : j < Len(Lines(m)) =>
              HeaderSize(m, j) \in Nat
                /\ HeaderSize(m, j + 1) = HeaderSize(m, j) + (Len(Lines(m)[j + 1]) + 2)
<1>1. PICK l \in Seq(Seq(Unit)), n \in Nat : l = Lines(m) /\ n = Len(l)
  BY LinesType
<1>2. HeaderSize(m, 0) = 0
  <2>1. SubSeq(l, 1, 0) = <<>>
    OBVIOUS
  <2>2. FlattenSeq(SubSeq(l, 1, 0)) = <<>>
    BY <2>1 DEF FlattenSeq
  <2>3. Len(<<>>) + 2 * 0 = 0
    OBVIOUS
  <2> QED
    BY <1>1, <2>2, <2>3 DEF HeaderSize
<1>3. ASSUME NEW j \in Nat, j < n
      PROVE  /\ HeaderSize(m, j) \in Nat
             /\ HeaderSize(m, j + 1) = HeaderSize(m, j) + (Len(l[j + 1]) + 2)
  <2>1. PICK e \in Seq(Unit) : e = l[j + 1]
    BY <1>1, <1>3
  <2>2. PICK a \in Seq(Seq(Unit)), b \in Seq(Seq(Unit)) :
          a = SubSeq(l, 1, j) /\ b = SubSeq(l, 1, j + 1) /\ b = Append(a, e)
    <3> DEFINE X == Seq(Unit)
    <3> HIDE DEF X
    <3>1. l \in Seq(X) /\ SubSeq(l, 1, j) \in Seq(X) /\ SubSeq(l, 1, j + 1) \in Seq(X)
      BY <1>1, <1>3 DEF X
    <3>2. SubSeq(l, 1, j + 1) = Append(SubSeq(l, 1, j), l[j + 1])
      BY <1>1, <1>3, <3>1
    <3> QED
      BY <2>1, <3>1, <3>2 DEF X
  <2>3. PICK f \in Seq(Unit) : f = FlattenSeq(a)
    BY <2>2, FlattenType
  <2>4. FlattenSeq(b) = f \o e
    BY <2>2, <2>3, FlattenAppend
  <2>5. Len(f \o e) = Len(f) + Len(e) /\ Len(f) \in Nat /\ Len(e) \in Nat
    BY ConcatProperties
  <2>6. HeaderSize(m, j) = Len(f) + 2 * j /\ HeaderSize(m, j + 1) = Len(f \o e) + 2 * (j + 1)
    BY <1>1, <2>2, <2>3, <2>4 DEF HeaderSize
  <2>7. PICK x \in Nat, y \in Nat : x = Len(f) /\ y = Len(e) /\ Len(f \o e) = x + y
    BY <2>5
  <2>8. x + y + 2 * (j + 1) = x + 2 * j + (y + 2) /\ x + 2 * j \in Nat
    OBVIOUS
  <2> QED
    BY <2>1, <2>6, <2>7, <2>8
<1> QED
  BY <1>1, <1>2, <1>3

(* Two ways to cut a sequence at one place are one. *)
LEMMA SplitSame ==
  ASSUME NEW S, NEW u \in Seq(S), NEW w \in Seq(S), NEW x \in Seq(S), NEW y \in Seq(S),
         u \o w = x \o y, Len(u) = Len(x)
  PROVE  u = x /\ w = y
<1>0. \A a, b \in Seq(S) : /\ Len(a \o b) = Len(a) + Len(b)
                           /\ \A i \in 1 .. Len(a) : (a \o b)[i] = a[i]
                           /\ \A i \in 1 .. Len(b) : (a \o b)[Len(a) + i] = b[i]
  BY ConcatIs
<1>1. PICK n \in Nat, p \in Nat, q \in Nat :
        n = Len(u) /\ n = Len(x) /\ p = Len(w) /\ q = Len(y)
  OBVIOUS
<1>2. /\ Len(u \o w) = n + p /\ \A i \in 1 .. n : (u \o w)[i] = u[i]
      /\ \A i \in 1 .. p : (u \o w)[n + i] = w[i]
  <2>1. /\ Len(u \o w) = Len(u) + Len(w)
        /\ \A i \in 1 .. Len(u) : (u \o w)[i] = u[i]
        /\ \A i \in 1 .. Len(w) : (u \o w)[Len(u) + i] = w[i]
    BY <1>0, Zenon
  <2> QED
    BY <1>1, <2>1
<1>3. /\ Len(x \o y) = n + q /\ \A i \in 1 .. n : (x \o y)[i] = x[i]
      /\ \A i \in 1 .. q : (x \o y)[n + i] = y[i]
  <2>1. /\ Len(x \o y) = Len(x) + Len(y)
        /\ \A i \in 1 .. Len(x) : (x \o y)[i] = x[i]
        /\ \A i \in 1 .. Len(y) : (x \o y)[Len(x) + i] = y[i]
    BY <1>0, Zenon
  <2> QED
    BY <1>1, <2>1
<1>4. p = q
  BY <1>2, <1>3
<1>5. (\A i \in 1 .. n : u[i] = x[i]) /\ (\A i \in 1 .. p : w[i] = y[i])
  BY <1>2, <1>3, <1>4
<1>6. u = x
  BY <1>1, <1>5, SeqEqual
<1>7. w = y
  BY <1>1, <1>4, <1>5, SeqEqual
<1> QED
  BY <1>6, <1>7

(* A line end is a pair of units. *)
LEMMA PairAt ==
  ASSUME NEW s \in Seq(Unit), NEW i \in 1 .. Len(s) - 1
  PROVE  SubSeq(s, i, i + 1) = Crlf <=> s[i] = "cr" /\ s[i + 1] = "lf"
<1>1. PICK p \in Seq(Unit) : /\ p = SubSeq(s, i, i + 1) /\ Len(p) = 2
                             /\ p[1] = s[i] /\ p[2] = s[i + 1]
  <2>1. PICK n \in Nat : n = Len(s) /\ i \in Nat \ {0} /\ i + 1 \in Nat /\ i + 1 <= n
    OBVIOUS
  <2>2. (i + 1) - i + 1 = 2 /\ i <= i + 1 /\ 1 \in 1 .. 2 /\ 2 \in 1 .. 2
        /\ i + 1 - 1 = i /\ i + 2 - 1 = i + 1
    BY <2>1
  <2>3. /\ SubSeq(s, i, i + 1) \in Seq(Unit)
        /\ Len(SubSeq(s, i, i + 1)) = (IF i <= i + 1 THEN (i + 1) - i + 1 ELSE 0)
        /\ \A j \in 1 .. (i + 1) - i + 1 : SubSeq(s, i, i + 1)[j] = s[i + j - 1]
    BY <2>1, SubSeqIs
  <2> QED
    BY <2>2, <2>3
<1>2. PICK c \in Seq(Unit) : c = Crlf /\ Len(c) = 2 /\ c[1] = "cr" /\ c[2] = "lf"
  BY CrlfIs
<1>3. p = c <=> p[1] = c[1] /\ p[2] = c[2]
  <2>1. \A j \in 1 .. 2 : j = 1 \/ j = 2
    OBVIOUS
  <2> QED
    BY <1>1, <1>2, <2>1
<1> QED
  BY <1>1, <1>2, <1>3

(* What has been taken from the front of the buffer is gone from what remains. *)
LEMMA Dropped ==
  ASSUME NEW S, NEW b \in Seq(S), NEW t \in Seq(S), NEW x \in Seq(S), NEW y \in Seq(S),
         b \o t = x \o y, Len(x) <= Len(b)
  PROVE  /\ SubSeq(b, 1, Len(x)) = x
         /\ SubSeq(b, Len(x) + 1, Len(b)) \o t = y
<1>1. PICK u \in Seq(S), v \in Seq(S) :
        u = SubSeq(b, 1, Len(x)) /\ v = SubSeq(b, Len(x) + 1, Len(b)) /\ Len(u) = Len(x) /\ u \o v = b
  <2>1. PICK k \in Nat : k = Len(x) /\ k <= Len(b)
    OBVIOUS
  <2>2. /\ SubSeq(b, 1, k) \in Seq(S) /\ SubSeq(b, k + 1, Len(b)) \in Seq(S)
        /\ Len(SubSeq(b, 1, k)) = k /\ SubSeq(b, 1, k) \o SubSeq(b, k + 1, Len(b)) = b
    BY <2>1, SplitSeq
  <2> QED
    BY <2>1, <2>2
<1>2. u \o (v \o t) = x \o y /\ v \o t \in Seq(S)
  <2>1. (u \o v) \o t = u \o (v \o t) /\ v \o t \in Seq(S)
    BY UnitsAssoc, SMTT(40)
  <2> QED
    BY <1>1, <2>1
<1>3. PICK w \in Seq(S) : w = v \o t
  BY <1>2
<1>4. u = x /\ w = y
  <2>1. u \o w = x \o y /\ Len(u) = Len(x)
    BY <1>1, <1>2, <1>3, Zenon
  <2> QED
    BY <1>1, <1>3, <2>1, SplitSame, Zenon
<1> QED
  BY <1>1, <1>3, <1>4

(* The first line of what remains. *)
LEMMA FirstLine ==
  ASSUME NEW l \in Seq(Unit), NEW x \in Seq(Unit), NEW t \in Seq(Unit), buf \in Seq(Unit),
         ~HasCrlf(l), buf \o t = (l \o Crlf) \o x
  PROVE  /\ LineEnds = {} => Len(buf) < Len(l) + 2
         /\ LineEnds # {} => /\ Line = l /\ LineBytes = Len(l) + 2 /\ LineBytes <= Len(buf)
                             /\ SubSeq(buf, LineBytes + 1, Len(buf)) \o t = x
<1>1. PICK n \in Nat, k \in Nat : n = Len(l) /\ k = Len(buf)
  OBVIOUS
<1>2. PICK lc \in Seq(Unit) : /\ lc = l \o Crlf /\ Len(lc) = n + 2
                              /\ \A i \in 1 .. n : lc[i] = l[i]
                              /\ lc[n + 1] = "cr" /\ lc[n + 2] = "lf"
  <2>1. PICK c \in Seq(Unit) : c = Crlf /\ Len(c) = 2 /\ c[1] = "cr" /\ c[2] = "lf"
    BY CrlfIs
  <2>2. /\ l \o c \in Seq(Unit) /\ Len(l \o c) = Len(l) + Len(c)
        /\ \A i \in 1 .. Len(l) : (l \o c)[i] = l[i]
        /\ \A i \in 1 .. Len(c) : (l \o c)[Len(l) + i] = c[i]
    BY ConcatIs
  <2>3. 1 \in 1 .. 2 /\ 2 \in 1 .. 2
    OBVIOUS
  <2>4. /\ l \o c \in Seq(Unit) /\ Len(l \o c) = n + 2
        /\ \A i \in 1 .. n : (l \o c)[i] = l[i]
        /\ \A i \in 1 .. 2 : (l \o c)[n + i] = c[i]
    BY <1>1, <2>1, <2>2
  <2> QED
    BY <2>1, <2>3, <2>4
<1>3. PICK r \in Seq(Unit) : /\ r = lc \o x /\ Len(r) = n + 2 + Len(x)
                             /\ \A i \in 1 .. n + 2 : r[i] = lc[i]
  <2>1. /\ lc \o x \in Seq(Unit) /\ Len(lc \o x) = Len(lc) + Len(x)
        /\ \A i \in 1 .. Len(lc) : (lc \o x)[i] = lc[i]
    BY ConcatIs
  <2> QED
    BY <1>2, <2>1
<1>4. /\ Len(r) = k + Len(t)
      /\ \A i \in 1 .. k : r[i] = buf[i]
  <2>1. /\ Len(buf \o t) = Len(buf) + Len(t)
        /\ \A i \in 1 .. Len(buf) : (buf \o t)[i] = buf[i]
    BY ConcatIs
  <2> QED
    BY <1>1, <1>2, <1>3, <2>1
<1>5. \A i \in 1 .. k - 1 : i \in LineEnds <=> buf[i] = "cr" /\ buf[i + 1] = "lf"
  BY <1>1, PairAt DEF LineEnds
<1>6. LineEnds \subseteq 1 .. k - 1
  BY <1>1 DEF LineEnds
<1>7. k >= n + 2 => n + 1 \in LineEnds
  <2> SUFFICES ASSUME k >= n + 2 PROVE n + 1 \in LineEnds
    OBVIOUS
  <2>1. n + 1 \in 1 .. k - 1 /\ n + 1 \in 1 .. n + 2 /\ n + 2 \in 1 .. n + 2
        /\ n + 1 \in 1 .. k /\ n + 2 \in 1 .. k /\ (n + 1) + 1 = n + 2
    OBVIOUS
  <2>2. buf[n + 1] = "cr" /\ buf[n + 2] = "lf"
    BY <1>2, <1>3, <1>4, <2>1
  <2> QED
    BY <1>5, <2>1, <2>2
<1>8. ASSUME NEW i \in LineEnds PROVE i >= n + 1
  <2>1. i \in 1 .. k - 1 /\ i \in Nat /\ buf[i] = "cr" /\ buf[i + 1] = "lf" /\ i \in 1 .. k /\ i + 1 \in 1 .. k
    BY <1>5, <1>6, <1>8
  <2> SUFFICES ASSUME i <= n PROVE FALSE
    BY <2>1
  <2>2. i \in 1 .. n /\ i \in 1 .. n + 2 /\ i + 1 \in 1 .. n + 2
    BY <2>1
  <2>3. lc[i] = "cr" /\ lc[i + 1] = "lf"
    BY <1>3, <1>4, <2>1, <2>2
  <2>4. CASE i = n
    BY <1>2, <2>3, <2>4
  <2>5. CASE i # n
    <3>1. i \in 1 .. n - 1 /\ i + 1 \in 1 .. n
      BY <2>2, <2>5
    <3>2. l[i] = "cr" /\ l[i + 1] = "lf"
      BY <1>2, <2>2, <2>3, <3>1
    <3> QED
      BY <1>1, <3>1, <3>2 DEF HasCrlf
  <2> QED
    BY <2>4, <2>5
<1>9. LineEnds = {} => Len(buf) < Len(l) + 2
  BY <1>1, <1>7
<1>10. ASSUME LineEnds # {}
       PROVE  /\ Line = l /\ LineBytes = n + 2 /\ LineBytes <= Len(buf)
              /\ SubSeq(buf, LineBytes + 1, Len(buf)) \o t = x
  <2>1. PICK i \in LineEnds : i = Min(LineEnds) /\ \A y \in LineEnds : i <= y
    <3>1. LineEnds \subseteq Nat
      BY <1>6
    <3> QED
      BY <1>10, <3>1, MinInRange
  <2>2. i >= n + 1 /\ i \in 1 .. k - 1
    BY <1>6, <1>8
  <2>3. k >= n + 2
    BY <2>2
  <2>4. i = n + 1
    <3>1. n + 1 \in LineEnds
      BY <1>7, <2>3
    <3>2. i <= n + 1
      BY <2>1, <3>1
    <3>3. i \in Nat
      BY <2>2
    <3> QED
      BY <2>2, <3>2, <3>3
  <2>5. /\ SubSeq(buf, 1, n + 2) = lc
        /\ SubSeq(buf, n + 2 + 1, k) \o t = x
    <3>1. buf \o t = lc \o x /\ Len(lc) <= Len(buf)
      BY <1>1, <1>2, <2>3
    <3>2. SubSeq(buf, 1, Len(lc)) = lc /\ SubSeq(buf, Len(lc) + 1, Len(buf)) \o t = x
      BY <3>1, Dropped
    <3> QED
      BY <1>1, <1>2, <3>2
  <2>6. SubSeq(buf, 1, n) = l
    <3>1. \A j \in 1 .. n : j \in 1 .. k /\ j \in 1 .. n + 2
      BY <2>3
    <3>2. \A j \in 1 .. n : buf[j] = l[j]
      BY <1>2, <1>3, <1>4, <3>1
    <3>3. PICK s \in Seq(Unit) : s = SubSeq(buf, 1, n) /\ Len(s) = n /\ \A j \in 1 .. n : s[j] = buf[j]
      <4>1. n <= Len(buf) /\ 1 \in Nat \ {0} /\ n - 1 + 1 = n /\ \A j \in 1 .. n : 1 + j - 1 = j
        BY <1>1, <2>3
      <4>2. /\ SubSeq(buf, 1, n) \in Seq(Unit)
            /\ Len(SubSeq(buf, 1, n)) = (IF 1 <= n THEN n - 1 + 1 ELSE 0)
            /\ \A j \in 1 .. n - 1 + 1 : SubSeq(buf, 1, n)[j] = buf[1 + j - 1]
        BY <4>1, SubSeqIs
      <4>3. (IF 1 <= n THEN n - 1 + 1 ELSE 0) = n
        OBVIOUS
      <4> QED
        BY <4>1, <4>2, <4>3
    <3> QED
      BY <1>1, <3>2, <3>3
  <2>7. Line = l
    BY <2>1, <2>4, <2>6 DEF Line
  <2>8. LineBytes = n + 2
    BY <1>1, <2>7 DEF LineBytes
  <2> QED
    BY <1>1, <2>3, <2>5, <2>7, <2>8
<1> QED
  BY <1>1, <1>9, <1>10

(* What is behind the first p elements, up to the q-th. *)
LEMMA SubSeqAfter ==
  ASSUME NEW S, NEW s \in Seq(S), NEW p \in Nat, NEW q \in Nat, p <= q, q <= Len(s)
  PROVE  /\ SubSeq(s, p + 1, q) \in Seq(S) /\ Len(SubSeq(s, p + 1, q)) = q - p
         /\ \A i \in 1 .. q - p : SubSeq(s, p + 1, q)[i] = s[p + i]
<1>1. p + 1 \in Nat \ {0}
  OBVIOUS
<1>2. /\ SubSeq(s, p + 1, q) \in Seq(S)
      /\ Len(SubSeq(s, p + 1, q)) = (IF p + 1 <= q THEN q - (p + 1) + 1 ELSE 0)
      /\ \A i \in 1 .. q - (p + 1) + 1 : SubSeq(s, p + 1, q)[i] = s[(p + 1) + i - 1]
  BY <1>1, SubSeqIs
<1>3. /\ q - (p + 1) + 1 = q - p /\ (IF p + 1 <= q THEN q - (p + 1) + 1 ELSE 0) = q - p
      /\ \A i \in 1 .. q - p : (p + 1) + i - 1 = p + i
  OBVIOUS
<1> QED
  BY <1>2, <1>3

(* A fragment moves from what has not arrived into the buffer. *)
LEMMA FragmentMoves ==
  ASSUME NEW S, NEW b \in Seq(S), NEW st \in Seq(S), NEW f \in Nat, NEW n \in Nat,
         f + n <= Len(st)
  PROVE  (b \o SubSeq(st, f + 1, f + n)) \o SubSeq(st, f + n + 1, Len(st))
           = b \o SubSeq(st, f + 1, Len(st))
<1>1. PICK k \in Nat, a \in Nat : k = Len(st) /\ a = f + n /\ a <= k /\ f <= a /\ f <= k
  OBVIOUS
<1>0. \A p, q \in Nat : p <= q /\ q <= Len(st) =>
        /\ SubSeq(st, p + 1, q) \in Seq(S) /\ Len(SubSeq(st, p + 1, q)) = q - p
        /\ \A i \in 1 .. q - p : SubSeq(st, p + 1, q)[i] = st[p + i]
  BY SubSeqAfter
<1>2. PICK u \in Seq(S) : /\ u = SubSeq(st, f + 1, a) /\ Len(u) = a - f
                          /\ \A i \in 1 .. a - f : u[i] = st[f + i]
  BY <1>0, <1>1, Zenon
<1>3. PICK v \in Seq(S) : /\ v = SubSeq(st, a + 1, k) /\ Len(v) = k - a
                          /\ \A i \in 1 .. k - a : v[i] = st[a + i]
  <2>1. k <= Len(st)
    BY <1>1
  <2> QED
    BY <1>0, <1>1, <2>1, Zenon
<1>4. PICK w \in Seq(S) : /\ w = SubSeq(st, f + 1, k) /\ Len(w) = k - f
                          /\ \A i \in 1 .. k - f : w[i] = st[f + i]
  <2>1. k <= Len(st)
    BY <1>1
  <2> QED
    BY <1>0, <1>1, <2>1, Zenon
<1>5. Len(w) = Len(u) + Len(v)
  <2>1. k - f = (a - f) + (k - a)
    BY <1>1
  <2> QED
    BY <1>2, <1>3, <1>4, <2>1
<1>6. \A i \in 1 .. Len(u) : w[i] = u[i]
  <2>1. \A i \in 1 .. a - f : i \in 1 .. k - f
    BY <1>1
  <2> QED
    BY <1>2, <1>4, <2>1
<1>7. \A i \in 1 .. Len(v) : w[Len(u) + i] = v[i]
  <2>1. \A i \in 1 .. k - a : (a - f) + i \in 1 .. k - f /\ f + ((a - f) + i) = a + i
    BY <1>1
  <2>2. Len(u) = a - f /\ Len(v) = k - a
    BY <1>2, <1>3
  <2>3. \A i \in 1 .. k - a : w[(a - f) + i] = st[a + i]
    BY <1>4, <2>1
  <2> QED
    BY <1>3, <2>2, <2>3
<1>8. w = u \o v
  BY <1>5, <1>6, <1>7, IsConcat
<1>9. (b \o u) \o v = b \o w
  <2>1. (b \o u) \o v = b \o (u \o v)
    BY UnitsAssoc, SMTT(40)
  <2> QED
    BY <1>8, <2>1, Zenon
<1> QED
  BY <1>1, <1>2, <1>3, <1>4, <1>9

(* The headers of a name among the first k. *)
Named(m, name, k) == {i \in 1 .. k : Headers[m.headers[i][1]].name = name}

(* The last of them has the value. *)
LEMMA LastNamed ==
  ASSUME NEW m, NEW name, NEW k
  PROVE  LastValue(m, name, k) =
           IF Named(m, name, k) = {} THEN Absent
           ELSE Headers[m.headers[Max(Named(m, name, k))][1]].value
BY DEF LastValue, Named

(* The last header of a name, one header on. *)
LEMMA LastStep ==
  ASSUME NEW m, NEW name, NEW k \in Nat
  PROVE  /\ LastValue(m, name, 0) = Absent
         /\ LastValue(m, name, k + 1) =
              IF Headers[m.headers[k + 1][1]].name = name
                THEN Headers[m.headers[k + 1][1]].value ELSE LastValue(m, name, k)
<1>1. LastValue(m, name, 0) = Absent
  <2>1. Named(m, name, 0) = {}
    BY DEF Named
  <2> QED
    BY <2>1, LastNamed
<1>2. CASE Headers[m.headers[k + 1][1]].name = name
  <2>1. Named(m, name, k + 1) \in SUBSET (1 .. k + 1) /\ k + 1 \in Named(m, name, k + 1)
    BY <1>2 DEF Named
  <2>2. PICK t \in SUBSET (1 .. k + 1) : t = Named(m, name, k + 1) /\ k + 1 \in t
    BY <2>1
  <2>3. Max(t) = k + 1
    BY <2>2, MaxIs
  <2>4. LastValue(m, name, k + 1) = Headers[m.headers[Max(t)][1]].value
    BY <2>2, LastNamed
  <2> QED
    BY <1>1, <1>2, <2>3, <2>4
<1>3. CASE Headers[m.headers[k + 1][1]].name # name
  <2>1. \A i \in 1 .. k + 1 : i \in 1 .. k \/ i = k + 1
    OBVIOUS
  <2>2. Named(m, name, k + 1) = Named(m, name, k)
    BY <1>3, <2>1 DEF Named
  <2>3. LastValue(m, name, k + 1) = LastValue(m, name, k)
    <3>1. LastValue(m, name, k + 1) =
            IF Named(m, name, k + 1) = {} THEN Absent
            ELSE Headers[m.headers[Max(Named(m, name, k + 1))][1]].value
      BY LastNamed
    <3>2. LastValue(m, name, k) =
            IF Named(m, name, k) = {} THEN Absent
            ELSE Headers[m.headers[Max(Named(m, name, k))][1]].value
      BY LastNamed
    <3> QED
      BY <2>2, <3>1, <3>2
  <2> QED
    BY <1>1, <1>3, <2>3
<1> QED
  BY <1>2, <1>3

(* The last header of a name is one of them. *)
LEMMA LastIs ==
  ASSUME NEW m, NEW name, NEW k \in Nat, LastValue(m, name, k) # Absent
  PROVE  \E i \in 1 .. k : /\ Headers[m.headers[i][1]].name = name
                           /\ LastValue(m, name, k) = Headers[m.headers[i][1]].value
<1>1. PICK t \in SUBSET (1 .. k) : t = Named(m, name, k)
  BY DEF Named
<1>2. t # {} /\ LastValue(m, name, k) = Headers[m.headers[Max(t)][1]].value
  BY <1>1, LastNamed
<1>3. PICK i \in t : i = Max(t)
  <2>1. Max(t) \in t
    BY <1>2, MaxInRange
  <2> QED
    BY <2>1
<1>4. i \in Named(m, name, k)
  BY <1>1
<1>5. i \in 1 .. k /\ Headers[m.headers[i][1]].name = name
  BY <1>4 DEF Named
<1> QED
  BY <1>2, <1>3, <1>5

(* addHeader() *)
LEMMA HeaderAdded ==
  ASSUME NEW headers, NEW h, NEW name
  PROVE  /\ name \in DOMAIN AddHeader(headers, h) <=> name = h.name \/ name \in DOMAIN headers
         /\ name \in DOMAIN AddHeader(headers, h) =>
              AddHeader(headers, h)[name] = IF name = h.name THEN h.value ELSE headers[name]
BY DEF AddHeader, Over

(* Where a header goes wrong first. *)
LEMMA FirstOffence ==
  ASSUME NEW m, NEW i \in 1 .. Len(Lines(m)), i \in Offending(m),
         \A q \in 1 .. i - 1 : q \notin Offending(m)
  PROVE  Deserved(m) = IF HeaderSize(m, i) > MaxHeaderBytes THEN Refusal("413") ELSE Refusal("400")
<1>1. Offending(m) \subseteq Nat
  BY DEF Offending
<1>2. Min(Offending(m)) \in Offending(m) /\ \A y \in Offending(m) : Min(Offending(m)) <= y
  BY <1>1, MinInRange
<1>3. Min(Offending(m)) \in 1 .. Len(Lines(m)) /\ Min(Offending(m)) <= i
  BY <1>2 DEF Offending
<1>4. Min(Offending(m)) = i
  <2> SUFFICES ASSUME Min(Offending(m)) # i PROVE FALSE
    OBVIOUS
  <2>1. PICK q \in 1 .. Len(Lines(m)) : q = Min(Offending(m)) /\ q <= i /\ q # i
    BY <1>3
  <2>2. q \in 1 .. i - 1
    BY <2>1
  <2> QED
    BY <1>2, <2>1, <2>2
<1>5. Offending(m) # {}
  OBVIOUS
<1> HIDE DEF Refusal
<1> QED
  BY <1>4, <1>5, Zenon DEF Deserved

(* The reference depends on the page and on nothing else that changes. *)
LEMMA SamePage == ASSUME UNCHANGED page PROVE \A m : Deserved(m)' = Deserved(m)
<1> SUFFICES ASSUME NEW m PROVE Deserved(m)' = Deserved(m)
  OBVIOUS
<1>1. \A line, files : OnRequest(line, files)' = OnRequest(line, files)
  <2> SUFFICES ASSUME NEW line, NEW files
               PROVE  OnRequest(line, files)' = OnRequest(line, files)
    OBVIOUS
  <2> QED
    BY DEF OnRequest
<1>2. Answer(m)' = Answer(m)
  BY <1>1 DEF Answer
<1> QED
  BY <1>2 DEF Deserved

(* The stream and what follows in it depend on the script only. *)
LEMMA SameScript ==
  ASSUME UNCHANGED script
  PROVE  Stream' = Stream /\ \A k : Following(k)' = Following(k)
BY DEF Stream, Following

(* Nothing remains that is not typed. *)
LEMMA RemainingType ==
  ASSUME BoundInv
  PROVE  /\ Stream \in Seq(Unit) /\ SubSeq(Stream, fed + 1, Len(Stream)) \in Seq(Unit)
         /\ Remaining \in Seq(Unit) /\ buf \in Seq(Unit)
<1>1. PICK st \in Seq(Unit) : st = Stream /\ fed \in Nat /\ fed <= Len(st) /\ buf \in Seq(Unit)
  BY StreamType DEF BoundInv
<1>2. Len(st) \in Nat /\ Len(st) <= Len(st)
  OBVIOUS
<1>3. SubSeq(st, fed + 1, Len(st)) \in Seq(Unit)
  BY <1>1, <1>2, SubSeqAfter
<1> QED
  BY <1>1, <1>3, ConcatProperties DEF Remaining

(* The message the parser is in. *)
AtCurrent(n) ==
  /\ n < Len(script) /\ Answered(n) /\ script[n + 1] \in Message /\ Truthful(script[n + 1])
  /\ Parsing(script[n + 1], Following(n + 1)) /\ Following(n + 1) \in Seq(Unit)

(* There is one while the server parses. *)
LEMMA MidMessage ==
  ASSUME FrameInv, pc = "parse"
  PROVE  conn = "connected" /\ \E n \in Nat : AtCurrent(n)
<1>1. BoundInv /\ conn = "connected"
  BY DEF FrameInv
<1>2. PICK n \in 0 .. Len(script) : Answered(n) /\ AtMessage(n)
  BY <1>1 DEF FrameInv
<1>3. script \in Seq(Message) /\ n \in Nat
  BY <1>1 DEF BoundInv
<1>4. n # Len(script)
  <2> SUFFICES ASSUME n = Len(script) PROVE FALSE
    OBVIOUS
  <2>1. Remaining = <<>> /\ pstate = "kExpectRequestLine"
    BY <1>2 DEF AtMessage
  <2>2. buf # <<>>
    BY <1>1, <2>1 DEF FrameInv
  <2>3. PICK t \in Seq(Unit) : Remaining = buf \o t /\ buf \in Seq(Unit)
    BY <1>1, RemainingType DEF Remaining
  <2>4. Len(buf \o t) = Len(buf) + Len(t)
    BY <2>3, ConcatProperties
  <2>5. PICK p \in Nat \ {0}, q \in Nat : p = Len(buf) /\ q = Len(t)
    BY <2>2, <2>3
  <2>6. Len(buf \o t) = 0
    <3>1. Len(<<>>) = 0
      OBVIOUS
    <3> QED
      BY <2>1, <2>3, <3>1, Zenon
  <2> QED
    BY <2>4, <2>5, <2>6
<1>5. n < Len(script) /\ n + 1 \in 1 .. Len(script)
  BY <1>3, <1>4
<1>6. Parsing(script[n + 1], Following(n + 1))
  BY <1>2, <1>4 DEF AtMessage
<1>7. script[n + 1] \in Message /\ Following(n + 1) \in Seq(Unit)
  BY <1>3, <1>5, FollowingStep
<1>8. Truthful(script[n + 1])
  BY <1>5 DEF FrameInv
<1> QED
  BY <1>1, <1>2, <1>3, <1>5, <1>6, <1>7, <1>8 DEF AtCurrent

(* The answers up to one that closes the connection are the expected ones. *)
LEMMA ClosedExpected ==
  ASSUME script \in Seq(Message), NEW n \in Nat, n < Len(script), Answered(n),
         Deserved(script[n + 1]).close
  PROVE  Append(served, Deserved(script[n + 1])) = Expected
<1> DEFINE all == [i \in 1 .. Len(script) |-> Deserved(script[i])]
           ends == {i \in 1 .. Len(script) : all[i].close}
           Ans == {Deserved(script[i]) : i \in 1 .. Len(script)}
<1>1. PICK k \in Nat : k = Len(script) /\ n + 1 \in 1 .. k /\ n + 1 <= k
  OBVIOUS
<1>2. Expected = IF ends = {} THEN all ELSE SubSeq(all, 1, Min(ends))
  BY DEF Expected
<1>3. ends \subseteq Nat /\ n + 1 \in ends
  BY <1>1
<1>4. \A i \in ends : i \in 1 .. k /\ Deserved(script[i]).close
  BY <1>1
<1>5. all \in Seq(Ans) /\ Len(all) = k /\ \A i \in 1 .. k : all[i] = Deserved(script[i])
  BY <1>1
<1>6. Deserved(script[n + 1]) \in Ans /\ \A i \in 1 .. n : Deserved(script[i]) \in Ans
  <2>1. \A i \in 1 .. n : i \in 1 .. Len(script)
    BY <1>1
  <2> QED
    BY <1>1, <2>1
<1>7. served = [i \in 1 .. n |-> Deserved(script[i])] /\ \A i \in 1 .. n : ~Deserved(script[i]).close
  BY DEF Answered
<1> HIDE DEF all, ends, Ans
<1>8. Min(ends) = n + 1
  <2>1. Min(ends) \in ends /\ Min(ends) <= n + 1
    BY <1>3, MinInRange
  <2>2. Min(ends) \in 1 .. k /\ Min(ends) \notin 1 .. n
    BY <1>4, <1>7, <2>1
  <2> QED
    BY <2>1, <2>2
<1>9. PICK e \in Ans, s \in Seq(Ans) :
        e = Deserved(script[n + 1]) /\ s = served /\ Len(s) = n /\ \A i \in 1 .. n : s[i] = Deserved(script[i])
  BY <1>6, <1>7
<1>10. /\ Append(s, e) \in Seq(Ans) /\ Len(Append(s, e)) = n + 1
       /\ \A i \in 1 .. n : Append(s, e)[i] = s[i]
       /\ Append(s, e)[n + 1] = e
  BY <1>9, AppendProperties
<1>11. /\ SubSeq(all, 1, n + 1) \in Seq(Ans) /\ Len(SubSeq(all, 1, n + 1)) = n + 1
       /\ \A i \in 1 .. n + 1 : SubSeq(all, 1, n + 1)[i] = all[i]
  <2>1. 0 + 1 = 1 /\ n + 1 - 0 = n + 1 /\ \A i \in 1 .. n + 1 : 0 + i = i
    OBVIOUS
  <2>2. /\ SubSeq(all, 0 + 1, n + 1) \in Seq(Ans) /\ Len(SubSeq(all, 0 + 1, n + 1)) = n + 1 - 0
        /\ \A i \in 1 .. n + 1 - 0 : SubSeq(all, 0 + 1, n + 1)[i] = all[0 + i]
    BY <1>1, <1>5, SubSeqAfter
  <2> QED
    BY <2>1, <2>2
<1>12. \A i \in 1 .. n + 1 : Append(s, e)[i] = SubSeq(all, 1, n + 1)[i]
  <2>1. \A i \in 1 .. n + 1 : (i \in 1 .. n \/ i = n + 1) /\ i \in 1 .. k
    BY <1>1
  <2> QED
    BY <1>5, <1>9, <1>10, <1>11, <2>1
<1>13. Append(s, e) = SubSeq(all, 1, n + 1)
  BY <1>10, <1>11, <1>12, SeqEqual
<1>14. ends # {}
  BY <1>3
<1> QED
  BY <1>2, <1>8, <1>9, <1>13, <1>14

(* An answer that closes the connection is the last. *)
LEMMA Ends ==
  ASSUME BoundInv', \A i \in 1 .. Len(script) : Truthful(script[i]),
         UNCHANGED <<script, page>>, NEW n \in Nat, AtCurrent(n), script \in Seq(Message),
         Deserved(script[n + 1]).close, served' = Append(served, Deserved(script[n + 1])),
         conn' # "connected", pc' = "wait"
  PROVE  FrameInv'
<1>1. served' = Expected
  BY ClosedExpected DEF AtCurrent
<1>2. Expected' = Expected
  <2>1. \A m : Deserved(m)' = Deserved(m)
    BY SamePage
  <2> QED
    BY <2>1, Zenon DEF Expected
<1> QED
  BY <1>1, <1>2 DEF FrameInv

(* A step inside a message. *)
LEMMA GoesOn ==
  ASSUME BoundInv', \A i \in 1 .. Len(script) : Truthful(script[i]), script \in Seq(Message),
         UNCHANGED <<script, page, served, conn>>, conn = "connected", NEW n \in Nat, AtCurrent(n),
         Parsing(script[n + 1], Following(n + 1))',
         pc' = "wait" => Idle', pc' = "parse" => pstate' # "kExpectRequestLine"
  PROVE  FrameInv'
<1>1. Answered(n)'
  <2>1. \A m : Deserved(m)' = Deserved(m)
    BY SamePage
  <2> QED
    BY <2>1, Zenon DEF Answered, AtCurrent
<1>2. n # Len(script)' /\ n \in 0 .. Len(script)'
  BY DEF AtCurrent
<1>3. AtMessage(n)'
  BY <1>2 DEF AtMessage
<1> QED
  BY <1>1, <1>2, <1>3 DEF FrameInv

(* Four sequences in a row. *)
Regroups(S, a, b, c, d) ==
  /\ ((a \o b) \o c) \o d = a \o ((b \o c) \o d)
  /\ (b \o c) \o d \in Seq(S)

(* Four parts may be put together in any grouping. *)
LEMMA FourParts ==
  ASSUME NEW S, NEW a \in Seq(S), NEW b \in Seq(S), NEW c \in Seq(S), NEW d \in Seq(S)
  PROVE  Regroups(S, a, b, c, d)
<1>1. (a \o b) \o c = a \o (b \o c) /\ b \o c \in Seq(S)
  <2>1. (a \o b) \o c = a \o (b \o c)
    BY SMTT(30)
  <2> QED
    BY <2>1, ConcatProperties
<1>2. PICK e \in Seq(S) : e = b \o c
  BY <1>1
<1> HIDE <1>1
<1>3. (a \o e) \o d = a \o (e \o d) /\ e \o d \in Seq(S)
  <2>1. (a \o e) \o d = a \o (e \o d)
    BY SMTT(30)
  <2> QED
    BY <2>1, ConcatProperties
<1> QED
  BY <1>1, <1>2, <1>3 DEF Regroups

(* What is unread of a message begins with its next line. *)
LEMMA UnreadStep ==
  ASSUME NEW m \in Message, NEW later \in Seq(Unit), NEW j \in Nat, j < Len(Lines(m))
  PROVE  /\ Unread(m, j) \o later = (Lines(m)[j + 1] \o Crlf) \o (Unread(m, j + 1) \o later)
         /\ Lines(m)[j + 1] \in Seq(Unit) /\ Unread(m, j + 1) \o later \in Seq(Unit)
<1>1. /\ LinesFrom(m, j) = (Lines(m)[j + 1] \o Crlf) \o LinesFrom(m, j + 1)
      /\ Lines(m)[j + 1] \in Seq(Unit) /\ LinesFrom(m, j + 1) \in Seq(Unit)
  BY LinesStep
<1>2. m.body \in Seq(Unit) /\ Lines(m)[j + 1] \o Crlf \in Seq(Unit)
  BY <1>1, CrlfIs, ConcatProperties DEF Message
<1> DEFINE a == Lines(m)[j + 1] \o Crlf
           b == LinesFrom(m, j + 1)
<1>3. a \in Seq(Unit) /\ b \in Seq(Unit) /\ LinesFrom(m, j) = a \o b
  BY <1>1, <1>2
<1>4. /\ Unread(m, j) = LinesFrom(m, j) \o m.body
      /\ Unread(m, j + 1) = b \o m.body
  BY DEF Unread
<1> HIDE DEF a, b
<1>5. Regroups(Unit, a, b, m.body, later)
  BY <1>2, <1>3, FourParts
<1>6. Unread(m, j) \o later = a \o (Unread(m, j + 1) \o later) /\ Unread(m, j + 1) \o later \in Seq(Unit)
  BY <1>3, <1>4, <1>5 DEF Regroups
<1> QED
  BY <1>1, <1>6 DEF a

(* The parser is at the j-th line of m, counted from 0. *)
LineAt(m, later, j) ==
  /\ headerBytes = HeaderSize(m, j) /\ \A i \in 1 .. j : i \notin Offending(m)
  /\ IF j = 0 THEN pstate = "kExpectRequestLine" /\ request = NoRequest
              ELSE pstate = "kExpectHeaders" /\ HeaderRead(m, j)
  /\ HeaderSize(m, j + 1) = headerBytes + (Len(Lines(m)[j + 1]) + 2)
  /\ LineEnds = {} => Len(buf) < Len(Lines(m)[j + 1]) + 2
  /\ LineEnds # {} =>
       /\ Line = Lines(m)[j + 1] /\ LineBytes = Len(Lines(m)[j + 1]) + 2
       /\ SubSeq(buf, LineBytes + 1, Len(buf)) \o SubSeq(Stream, fed + 1, Len(Stream))
            = Unread(m, j + 1) \o later

(* It is at one of them while the header is read. *)
LEMMA AtLine ==
  ASSUME BoundInv, NEW m \in Message, Truthful(m), NEW later \in Seq(Unit), Parsing(m, later),
         pstate \in {"kExpectRequestLine", "kExpectHeaders"}
  PROVE  \E j \in 0 .. Len(m.headers) + 1 : LineAt(m, later, j)
<1>1. PICK j \in 0 .. Len(m.headers) + 1 :
        /\ headerBytes = HeaderSize(m, j) /\ \A i \in 1 .. j : i \notin Offending(m)
        /\ IF j = 0 THEN pstate = "kExpectRequestLine" /\ request = NoRequest
                    ELSE pstate = "kExpectHeaders" /\ HeaderRead(m, j)
        /\ Remaining = Unread(m, j) \o later
  <2>1. Len(m.headers) \in Nat
    BY LinesType
  <2>2. CASE pstate = "kExpectRequestLine"
    <3>1. headerBytes = 0 /\ request = NoRequest /\ Remaining = Unread(m, 0) \o later
      BY <2>2 DEF Parsing
    <3>2. 0 \in 0 .. Len(m.headers) + 1 /\ \A i \in 1 .. 0 : i \notin Offending(m)
      BY <2>1
    <3> QED
      BY <2>2, <3>1, <3>2, SizeStep
  <2>3. CASE pstate = "kExpectHeaders"
    <3>1. PICK k \in 1 .. Len(m.headers) + 1 : HeaderRead(m, k) /\ Remaining = Unread(m, k) \o later
      BY <2>3 DEF Parsing
    <3>2. k \in 0 .. Len(m.headers) + 1 /\ k # 0
      BY <2>1
    <3>3. headerBytes = HeaderSize(m, k) /\ \A i \in 1 .. k : i \notin Offending(m)
      BY <3>1 DEF HeaderRead
    <3> QED
      BY <2>3, <3>1, <3>2, <3>3
  <2> QED
    BY <2>2, <2>3
<1>2. j \in Nat /\ j < Len(Lines(m)) /\ j + 1 \in 1 .. Len(Lines(m))
  BY LinesType
<1>3. HeaderSize(m, j + 1) = headerBytes + (Len(Lines(m)[j + 1]) + 2)
  BY <1>1, <1>2, SizeStep
<1>4. PICK t \in Seq(Unit) : /\ t = SubSeq(Stream, fed + 1, Len(Stream)) /\ Remaining = buf \o t
                             /\ buf \in Seq(Unit)
  BY RemainingType DEF Remaining
<1>5. PICK l \in Seq(Unit), x \in Seq(Unit) :
        /\ l = Lines(m)[j + 1] /\ x = Unread(m, j + 1) \o later
        /\ Unread(m, j) \o later = (l \o Crlf) \o x
  <2>1. /\ Unread(m, j) \o later = (Lines(m)[j + 1] \o Crlf) \o (Unread(m, j + 1) \o later)
        /\ Lines(m)[j + 1] \in Seq(Unit) /\ Unread(m, j + 1) \o later \in Seq(Unit)
    BY <1>2, UnreadStep
  <2> QED
    BY <2>1
<1>6. ~HasCrlf(l)
  BY <1>2, <1>5 DEF Truthful
<1>7. buf \o t = (l \o Crlf) \o x
  BY <1>1, <1>4, <1>5
<1>8. /\ LineEnds = {} => Len(buf) < Len(l) + 2
      /\ LineEnds # {} => /\ Line = l /\ LineBytes = Len(l) + 2
                          /\ SubSeq(buf, LineBytes + 1, Len(buf)) \o t = x
  BY <1>4, <1>6, <1>7, FirstLine
<1> QED
  BY <1>1, <1>3, <1>4, <1>5, <1>8 DEF LineAt

(* A refusal the message deserves. *)
LEMMA Refused ==
  ASSUME FrameInv, BoundInv', NEW n \in Nat, AtCurrent(n), UNCHANGED <<script, page>>,
         NEW status, Refuse(status), Deserved(script[n + 1]) = Refusal(status)
  PROVE  FrameInv'
<1>1. /\ \A i \in 1 .. Len(script) : Truthful(script[i])
      /\ script \in Seq(Message)
  BY DEF FrameInv, BoundInv
<1>2. /\ served' = Append(served, Deserved(script[n + 1])) /\ conn' # "connected" /\ pc' = "wait"
  BY DEF Refuse
<1>3. Refusal(status).close
  BY Zenon DEF Refusal
<1>4. Deserved(script[n + 1]).close
  BY <1>3
<1> QED
  BY <1>1, <1>2, <1>4, Ends

(* The next line is the first to offend. *)
LEMMA LineOffends ==
  ASSUME NEW m \in Message, NEW later, NEW j \in 0 .. Len(m.headers) + 1, LineAt(m, later, j),
         j + 1 \in Offending(m)
  PROVE  Deserved(m) = IF HeaderSize(m, j + 1) > MaxHeaderBytes THEN Refusal("413") ELSE Refusal("400")
<1>1. j \in Nat /\ j + 1 \in 1 .. Len(Lines(m))
  BY LinesType
<1>2. \A q \in 1 .. (j + 1) - 1 : q \notin Offending(m)
  <2>1. (j + 1) - 1 = j
    BY <1>1
  <2> QED
    BY <2>1 DEF LineAt
<1> QED
  BY <1>1, <1>2, FirstOffence

(* What a step finds when it is at a line. *)
LEMMA InLine ==
  ASSUME FrameInv, InHeader
  PROVE  \E n \in Nat : AtCurrent(n) /\ \E j \in 0 .. Len(script[n + 1].headers) + 1 :
           LineAt(script[n + 1], Following(n + 1), j)
<1>1. pc = "parse" /\ pstate \in {"kExpectRequestLine", "kExpectHeaders"}
  BY DEF InHeader
<1>2. PICK n \in Nat : AtCurrent(n)
  BY <1>1, MidMessage
<1>3. /\ script[n + 1] \in Message /\ Truthful(script[n + 1]) /\ Following(n + 1) \in Seq(Unit)
      /\ Parsing(script[n + 1], Following(n + 1)) /\ BoundInv
  BY <1>2 DEF AtCurrent, FrameInv
<1>4. \E j \in 0 .. Len(script[n + 1].headers) + 1 : LineAt(script[n + 1], Following(n + 1), j)
  BY <1>1, <1>3, AtLine
<1> QED
  BY <1>2, <1>4

(* Before a line has come. *)
LEMMA LineMissingFramed == ASSUME FrameInv, LineMissing, BoundInv' PROVE FrameInv'
<1>1. /\ InHeader /\ LineEnds = {} /\ UNCHANGED <<script, fed, buf, context, page>> /\ pc = "parse"
      /\ pstate \in {"kExpectRequestLine", "kExpectHeaders"}
  BY DEF LineMissing, InHeader
<1>2. PICK n \in Nat : AtCurrent(n) /\ \E j \in 0 .. Len(script[n + 1].headers) + 1 :
                         LineAt(script[n + 1], Following(n + 1), j)
  BY <1>1, InLine
<1>3. PICK m \in Message, later \in Seq(Unit) : m = script[n + 1] /\ later = Following(n + 1)
  BY <1>2 DEF AtCurrent
<1>4. PICK j \in 0 .. Len(m.headers) + 1 : LineAt(m, later, j)
  BY <1>2, <1>3
<1>5. CASE headerBytes + Len(buf) > MaxHeaderBytes /\ Refuse("413")
  <2>1. j \in Nat /\ j + 1 \in 1 .. Len(Lines(m)) /\ Len(Lines(m)[j + 1]) \in Nat
    BY LinesType
  <2>2. /\ HeaderSize(m, j + 1) = headerBytes + (Len(Lines(m)[j + 1]) + 2)
        /\ Len(buf) < Len(Lines(m)[j + 1]) + 2
    BY <1>1, <1>4 DEF LineAt
  <2>3. headerBytes \in Nat /\ Len(buf) \in Nat /\ MaxHeaderBytes \in Nat
    BY HttpAssumption DEF FrameInv, BoundInv
  <2>4. HeaderSize(m, j + 1) > MaxHeaderBytes
    <3>1. PICK p \in Nat, q \in Nat, r \in Nat : /\ p = headerBytes /\ q = Len(buf)
                                                 /\ r = Len(Lines(m)[j + 1])
      BY <2>1, <2>3
    <3>2. p + q > MaxHeaderBytes /\ q < r + 2 /\ HeaderSize(m, j + 1) = p + (r + 2)
      BY <1>5, <2>2, <3>1
    <3>3. p + (r + 2) > MaxHeaderBytes
      BY <2>3, <3>2
    <3> QED
      BY <3>2, <3>3
  <2>5. j + 1 \in Offending(m)
    BY <2>1, <2>4 DEF Offending
  <2>6. Deserved(m) = Refusal("413")
    BY <1>4, <2>4, <2>5, LineOffends
  <2> QED
    BY <1>1, <1>2, <1>3, <1>5, <2>6, Refused
<1>6. CASE headerBytes + Len(buf) <= MaxHeaderBytes /\ pc' = "wait" /\ UNCHANGED <<conn, served>>
  <2>1. Idle'
    BY <1>1 DEF Idle, LineEnds, context
  <2>2. Remaining' = Remaining
    BY <1>1, SameScript DEF Remaining
  <2>3. Parsing(m, later)'
    BY <1>1, <1>2, <1>3, <2>2 DEF AtCurrent, Parsing, HeaderRead, GetHeader, context
  <2>4. Parsing(script[n + 1], Following(n + 1))'
    BY <1>1, <1>3, <2>3, SameScript
  <2>5. conn = "connected" /\ script \in Seq(Message) /\ \A i \in 1 .. Len(script) : Truthful(script[i])
    BY <1>1 DEF FrameInv, BoundInv
  <2> QED
    BY <1>1, <1>2, <1>6, <2>1, <2>4, <2>5, GoesOn
<1> QED
  BY <1>5, <1>6 DEF LineMissing

(* When the next line is an offence, and when it is the empty one. *)
LEMMA LineKinds ==
  ASSUME NEW m \in Message, Truthful(m), NEW j \in 0 .. Len(m.headers) + 1
  PROVE  /\ j + 1 \in Offending(m) <=>
              \/ HeaderSize(m, j + 1) > MaxHeaderBytes
              \/ (j = 0 /\ ~GoodRequestLine(Lines(m)[j + 1]))
              \/ (j \in 1 .. Len(m.headers) /\ ~HasColon(Lines(m)[j + 1]))
         /\ j # 0 => (Lines(m)[j + 1] = <<>> <=> (j = Len(m.headers) + 1))
         /\ j \in 1 .. Len(m.headers) => Lines(m)[j + 1] = m.headers[j]
         /\ j = 0 => Lines(m)[j + 1] = m.line
<1>1. PICK h \in Nat : h = Len(m.headers) /\ Len(Lines(m)) = h + 2
  BY LinesType
<1>2. j \in Nat /\ j + 1 \in 1 .. h + 2
  BY <1>1
<1>3. /\ Lines(m)[1] = m.line /\ \A i \in 1 .. h : Lines(m)[i + 1] = m.headers[i]
      /\ Lines(m)[h + 2] = <<>>
  BY <1>1, LinesType
<1>4. CASE j = 0
  <2>1. WrongLine(m, j + 1) <=> ~GoodRequestLine(Lines(m)[j + 1])
    <3>1. j + 1 = 1 /\ j + 1 \notin 2 .. h + 1
      BY <1>4
    <3> QED
      BY <1>1, <1>3, <3>1 DEF WrongLine
  <2> QED
    BY <1>1, <1>2, <1>3, <1>4, <2>1 DEF Offending
<1>5. CASE j \in 1 .. h
  <2>1. WrongLine(m, j + 1) <=> ~HasColon(Lines(m)[j + 1])
    <3>1. j + 1 # 1 /\ j + 1 \in 2 .. h + 1 /\ (j + 1) - 1 = j
      BY <1>5
    <3> QED
      BY <1>1, <1>3, <1>5, <3>1 DEF WrongLine
  <2>2. j # 0 /\ j # h + 1 /\ m.headers[j] # <<>>
    BY <1>1, <1>5 DEF Truthful
  <2> QED
    BY <1>1, <1>2, <1>3, <1>5, <2>1, <2>2 DEF Offending
<1>6. CASE j = h + 1
  <2>1. ~WrongLine(m, j + 1)
    <3>1. j + 1 # 1 /\ j + 1 \notin 2 .. h + 1
      BY <1>6
    <3> QED
      BY <1>1, <3>1 DEF WrongLine
  <2>2. j # 0 /\ j \notin 1 .. h /\ j + 1 = h + 2
    BY <1>6
  <2> QED
    BY <1>1, <1>2, <1>3, <1>6, <2>1, <2>2 DEF Offending
<1> QED
  BY <1>1, <1>4, <1>5, <1>6

(* A header line longer than the limit lets in. *)
LEMMA LineTooLongFramed == ASSUME FrameInv, LineTooLong, BoundInv' PROVE FrameInv'
<1>1. /\ InHeader /\ LineEnds # {} /\ TooLong /\ UNCHANGED <<script, page>> /\ Refuse("413")
  BY DEF LineTooLong
<1>2. PICK n \in Nat : AtCurrent(n) /\ \E j \in 0 .. Len(script[n + 1].headers) + 1 :
                         LineAt(script[n + 1], Following(n + 1), j)
  BY <1>1, InLine
<1>3. PICK m \in Message, later \in Seq(Unit) : m = script[n + 1] /\ later = Following(n + 1)
  BY <1>2 DEF AtCurrent
<1>4. PICK j \in 0 .. Len(m.headers) + 1 : LineAt(m, later, j)
  BY <1>2, <1>3
<1>5. HeaderSize(m, j + 1) > MaxHeaderBytes
  BY <1>1, <1>4 DEF LineAt, TooLong
<1>6. j + 1 \in Offending(m)
  BY <1>2, <1>3, <1>5, LineKinds DEF AtCurrent
<1>7. Deserved(m) = Refusal("413")
  BY <1>4, <1>5, <1>6, LineOffends
<1> QED
  BY <1>1, <1>2, <1>3, <1>7, Refused

(* A line that is taken: where the parser is then. *)
LEMMA LineTaken ==
  ASSUME FrameInv, LineRead, UNCHANGED <<script, fed>>
  PROVE  \E n \in Nat : AtCurrent(n) /\ \E j \in 0 .. Len(script[n + 1].headers) + 1 :
           /\ LineAt(script[n + 1], Following(n + 1), j)
           /\ Line = Lines(script[n + 1])[j + 1]
           /\ headerBytes' = HeaderSize(script[n + 1], j + 1)
           /\ ~(HeaderSize(script[n + 1], j + 1) > MaxHeaderBytes)
           /\ Consume(LineBytes) => Remaining' = Unread(script[n + 1], j + 1) \o Following(n + 1)
<1>1. InHeader /\ LineEnds # {} /\ ~TooLong /\ headerBytes' = headerBytes + LineBytes
  BY DEF LineRead
<1>2. PICK n \in Nat : AtCurrent(n) /\ \E j \in 0 .. Len(script[n + 1].headers) + 1 :
                         LineAt(script[n + 1], Following(n + 1), j)
  BY <1>1, InLine
<1>3. PICK j \in 0 .. Len(script[n + 1].headers) + 1 : LineAt(script[n + 1], Following(n + 1), j)
  BY <1>2
<1>4. /\ HeaderSize(script[n + 1], j + 1) = headerBytes + LineBytes
      /\ Line = Lines(script[n + 1])[j + 1]
      /\ SubSeq(buf, LineBytes + 1, Len(buf)) \o SubSeq(Stream, fed + 1, Len(Stream))
            = Unread(script[n + 1], j + 1) \o Following(n + 1)
  BY <1>1, <1>3 DEF LineAt
<1>5. Stream' = Stream
  BY SameScript
<1>6. Consume(LineBytes) => Remaining' = Unread(script[n + 1], j + 1) \o Following(n + 1)
  BY <1>4, <1>5 DEF Consume, Remaining
<1> QED
  BY <1>1, <1>2, <1>3, <1>4, <1>6 DEF TooLong

(* A request has no header at first. *)
LEMMA NoHeaders == /\ \A name : GetHeader(NoRequest, name) = Absent
                   /\ NoRequest.form = <<>> /\ NoRequest.files = <<>>
                   /\ {"line", "headers", "body", "form", "files"} = DOMAIN NoRequest
<1>1. NoRequest.headers = <<>> /\ NoRequest.form = <<>> /\ NoRequest.files = <<>>
  BY Zenon DEF NoRequest
<1>2. {"line", "headers", "body", "form", "files"} = DOMAIN NoRequest
  BY Zenon DEF NoRequest
<1>3. \A name : name \notin DOMAIN <<>>
  OBVIOUS
<1> QED
  BY <1>1, <1>2, <1>3 DEF GetHeader

(* The request line *)
LEMMA RequestLineFramed == ASSUME FrameInv, RequestLine, BoundInv' PROVE FrameInv'
<1>1. /\ LineRead /\ pstate = "kExpectRequestLine" /\ GoodRequestLine(Line)
      /\ request' = [request EXCEPT !.line = RequestLines[Line[1]]]
      /\ pstate' = "kExpectHeaders" /\ Consume(LineBytes)
      /\ UNCHANGED <<script, fed, pc, contentLength, conn, page, served>> /\ pc = "parse"
  BY DEF RequestLine, LineRead, InHeader
<1>2. PICK n \in Nat : AtCurrent(n) /\ \E j \in 0 .. Len(script[n + 1].headers) + 1 :
           /\ LineAt(script[n + 1], Following(n + 1), j)
           /\ Line = Lines(script[n + 1])[j + 1]
           /\ headerBytes' = HeaderSize(script[n + 1], j + 1)
           /\ ~(HeaderSize(script[n + 1], j + 1) > MaxHeaderBytes)
           /\ Remaining' = Unread(script[n + 1], j + 1) \o Following(n + 1)
  BY <1>1, LineTaken
<1>3. PICK m \in Message, later \in Seq(Unit) : m = script[n + 1] /\ later = Following(n + 1) /\ Truthful(m)
  BY <1>2 DEF AtCurrent
<1>4. /\ LineAt(m, later, 0) /\ Line = Lines(m)[0 + 1] /\ headerBytes' = HeaderSize(m, 0 + 1)
      /\ ~(HeaderSize(m, 0 + 1) > MaxHeaderBytes) /\ Remaining' = Unread(m, 0 + 1) \o later
  BY <1>1, <1>2, <1>3 DEF LineAt
<1>5. Len(m.headers) \in Nat /\ 0 \in 0 .. Len(m.headers) + 1 /\ 0 \notin 1 .. Len(m.headers)
  BY LinesType
<1>6. Line = m.line /\ 0 + 1 \notin Offending(m)
  BY <1>1, <1>3, <1>4, <1>5, LineKinds
<1>7. request = NoRequest
  BY <1>4 DEF LineAt
<1>8. HeaderRead(m, 1)'
  <2>1. \A i \in 1 .. 1 : i \notin Offending(m)
    BY <1>6
  <2>2. /\ DOMAIN request' = DOMAIN NoRequest /\ request'.line = RequestLines[m.line[1]]
        /\ request'.form = <<>> /\ request'.files = <<>> /\ request'.headers = NoRequest.headers
    <3>1. request'.line = RequestLines[m.line[1]]
      BY <1>1, <1>6, <1>7, NoHeaders
    <3>2. \A f \in {"headers", "form", "files"} : request'[f] = NoRequest[f]
      BY <1>1, <1>7, NoHeaders
    <3>3. DOMAIN request' = DOMAIN NoRequest
      BY <1>1, <1>7
    <3> QED
      BY <3>1, <3>2, <3>3, NoHeaders
  <2>3. \A name \in HeaderNames : GetHeader(request', name) = LastValue(m, name, 1 - 1)
    <3>1. \A name : GetHeader(request', name) = GetHeader(NoRequest, name)
      BY <2>2 DEF GetHeader
    <3>2. \A name : LastValue(m, name, 0) = Absent
      BY LastStep
    <3> QED
      BY <3>1, <3>2, NoHeaders
  <2>4. headerBytes' = HeaderSize(m, 1)
    BY <1>4
  <2> QED
    BY <2>1, <2>2, <2>3, <2>4 DEF HeaderRead
<1>9. Parsing(m, later)'
  <2>1. 1 \in 1 .. Len(m.headers) + 1 /\ Remaining' = Unread(m, 1) \o later
    BY <1>4, <1>5
  <2> QED
    BY <1>1, <1>8, <2>1 DEF Parsing
<1>10. Parsing(script[n + 1], Following(n + 1))'
  BY <1>1, <1>3, <1>9, SameScript
<1>11. conn = "connected" /\ script \in Seq(Message) /\ \A i \in 1 .. Len(script) : Truthful(script[i])
  BY <1>1 DEF FrameInv, BoundInv
<1> QED
  BY <1>1, <1>2, <1>10, <1>11, GoesOn

(* A line of the header, when one is taken. *)
LEMMA HeaderTaken ==
  ASSUME FrameInv, LineRead, UNCHANGED <<script, fed>>, pstate = "kExpectHeaders"
  PROVE  \E n \in Nat : AtCurrent(n) /\ \E j \in 1 .. Len(script[n + 1].headers) + 1 :
           /\ LineAt(script[n + 1], Following(n + 1), j) /\ HeaderRead(script[n + 1], j)
           /\ Line = Lines(script[n + 1])[j + 1]
           /\ headerBytes' = HeaderSize(script[n + 1], j + 1)
           /\ ~(HeaderSize(script[n + 1], j + 1) > MaxHeaderBytes)
           /\ Consume(LineBytes) => Remaining' = Unread(script[n + 1], j + 1) \o Following(n + 1)
<1>1. PICK n \in Nat : AtCurrent(n) /\ \E j \in 0 .. Len(script[n + 1].headers) + 1 :
           /\ LineAt(script[n + 1], Following(n + 1), j)
           /\ Line = Lines(script[n + 1])[j + 1]
           /\ headerBytes' = HeaderSize(script[n + 1], j + 1)
           /\ ~(HeaderSize(script[n + 1], j + 1) > MaxHeaderBytes)
           /\ Consume(LineBytes) => Remaining' = Unread(script[n + 1], j + 1) \o Following(n + 1)
  BY LineTaken
<1>2. PICK m \in Message, later \in Seq(Unit) : m = script[n + 1] /\ later = Following(n + 1)
  BY <1>1 DEF AtCurrent
<1>3. PICK j \in 0 .. Len(m.headers) + 1 :
           /\ LineAt(m, later, j) /\ Line = Lines(m)[j + 1]
           /\ headerBytes' = HeaderSize(m, j + 1) /\ ~(HeaderSize(m, j + 1) > MaxHeaderBytes)
           /\ Consume(LineBytes) => Remaining' = Unread(m, j + 1) \o later
  BY <1>1, <1>2
<1>4. j # 0 /\ HeaderRead(m, j)
  BY <1>3 DEF LineAt
<1>5. j \in 1 .. Len(m.headers) + 1
  BY <1>4, LinesType
<1> QED
  BY <1>1, <1>2, <1>3, <1>4, <1>5

(* A header *)
LEMMA HeaderLineFramed == ASSUME FrameInv, HeaderLine, BoundInv' PROVE FrameInv'
<1>1. /\ LineRead /\ pstate = "kExpectHeaders" /\ HasColon(Line)
      /\ request' = [request EXCEPT !.headers = AddHeader(@, Headers[Line[1]])]
      /\ Consume(LineBytes)
      /\ UNCHANGED <<script, fed, pc, pstate, contentLength, conn, page, served>> /\ pc = "parse"
  BY DEF HeaderLine, LineRead, InHeader
<1>2. PICK n \in Nat : AtCurrent(n) /\ \E j \in 1 .. Len(script[n + 1].headers) + 1 :
           /\ LineAt(script[n + 1], Following(n + 1), j) /\ HeaderRead(script[n + 1], j)
           /\ Line = Lines(script[n + 1])[j + 1]
           /\ headerBytes' = HeaderSize(script[n + 1], j + 1)
           /\ ~(HeaderSize(script[n + 1], j + 1) > MaxHeaderBytes)
           /\ Remaining' = Unread(script[n + 1], j + 1) \o Following(n + 1)
  BY <1>1, HeaderTaken
<1>3. PICK m \in Message, later \in Seq(Unit) : m = script[n + 1] /\ later = Following(n + 1) /\ Truthful(m)
  BY <1>2 DEF AtCurrent
<1>4. PICK j \in 1 .. Len(m.headers) + 1 :
           /\ HeaderRead(m, j) /\ Line = Lines(m)[j + 1]
           /\ headerBytes' = HeaderSize(m, j + 1) /\ ~(HeaderSize(m, j + 1) > MaxHeaderBytes)
           /\ Remaining' = Unread(m, j + 1) \o later
  BY <1>2, <1>3
<1>5. PICK h \in Nat : h = Len(m.headers)
  BY LinesType
<1>6. j \in 0 .. h + 1 /\ j # 0 /\ j \in Nat /\ j \in 1 .. h + 1
  BY <1>4, <1>5
<1>7. j # h + 1
  <2>1. Line # <<>>
    BY <1>1 DEF HasColon
  <2> QED
    BY <1>3, <1>4, <1>5, <1>6, <2>1, LineKinds
<1>8. j \in 1 .. h /\ j + 1 \in 1 .. h + 1
  BY <1>6, <1>7
<1>9. Line = m.headers[j] /\ j + 1 \notin Offending(m)
  <2>1. Line = m.headers[j]
    BY <1>3, <1>4, <1>5, <1>6, <1>8, LineKinds
  <2>2. Len(m.headers) + 1 = h + 1 /\ j \in 0 .. Len(m.headers) + 1
    BY <1>5, <1>6
  <2>3. j + 1 \in Offending(m) <=>
              \/ HeaderSize(m, j + 1) > MaxHeaderBytes
              \/ (j = 0 /\ ~GoodRequestLine(Lines(m)[j + 1]))
              \/ (j \in 1 .. Len(m.headers) /\ ~HasColon(Lines(m)[j + 1]))
    BY <1>3, <2>2, LineKinds
  <2> QED
    BY <1>1, <1>4, <1>6, <2>1, <2>3
<1>10. HeaderRead(m, j + 1)'
  <2>1. \A i \in 1 .. j + 1 : i \notin Offending(m)
    <3>1. \A i \in 1 .. j : i \notin Offending(m)
      BY <1>4 DEF HeaderRead
    <3>2. \A i \in 1 .. j + 1 : i \in 1 .. j \/ i = j + 1
      BY <1>6
    <3> QED
      BY <1>9, <3>1, <3>2
  <2>2. /\ DOMAIN request = DOMAIN NoRequest /\ request.line = RequestLines[m.line[1]]
        /\ \A name \in HeaderNames : GetHeader(request, name) = LastValue(m, name, j - 1)
        /\ request.form = <<>> /\ request.files = <<>>
    BY <1>4 DEF HeaderRead
  <2>3. /\ DOMAIN request' = DOMAIN NoRequest /\ request'.line = RequestLines[m.line[1]]
        /\ request'.form = <<>> /\ request'.files = <<>>
        /\ request'.headers = AddHeader(request.headers, Headers[m.headers[j][1]])
    <3>1. \A f \in {"line", "form", "files"} : request'[f] = request[f]
      BY <1>1, <2>2, NoHeaders
    <3>2. request'.headers = AddHeader(request.headers, Headers[m.headers[j][1]])
      BY <1>1, <1>9, <2>2, NoHeaders
    <3>3. DOMAIN request' = DOMAIN NoRequest
      BY <1>1, <2>2
    <3> QED
      BY <2>2, <3>1, <3>2, <3>3
  <2>4. ASSUME NEW name \in HeaderNames
        PROVE  GetHeader(request', name) = LastValue(m, name, (j + 1) - 1)
    <3>1. PICK hd : hd = Headers[m.headers[j][1]]
      OBVIOUS
    <3>2. GetHeader(request', name) = IF name = hd.name THEN hd.value ELSE GetHeader(request, name)
      BY <2>3, <3>1, HeaderAdded DEF GetHeader
    <3>3. PICK k \in Nat : k = j - 1 /\ k + 1 = j
      BY <1>6
    <3>4. LastValue(m, name, k + 1) = IF hd.name = name THEN hd.value ELSE LastValue(m, name, k)
      <4>1. \A i \in Nat : LastValue(m, name, i + 1) =
              IF Headers[m.headers[i + 1][1]].name = name
                THEN Headers[m.headers[i + 1][1]].value ELSE LastValue(m, name, i)
        BY LastStep, ZenonT(40)
      <4>2. Headers[m.headers[k + 1][1]] = hd
        BY <3>1, <3>3
      <4> QED
        BY <4>1, <4>2
    <3>5. (j + 1) - 1 = k + 1
      BY <3>3
    <3> QED
      BY <2>2, <3>2, <3>3, <3>4, <3>5
  <2> QED
    BY <1>4, <2>1, <2>3, <2>4 DEF HeaderRead
<1>11. Parsing(m, later)'
  <2>1. j + 1 \in 1 .. Len(m.headers) + 1
    BY <1>5, <1>8
  <2> QED
    BY <1>1, <1>4, <1>10, <2>1 DEF Parsing
<1>12. Parsing(script[n + 1], Following(n + 1))'
  BY <1>1, <1>3, <1>11, SameScript
<1>13. conn = "connected" /\ script \in Seq(Message) /\ \A i \in 1 .. Len(script) : Truthful(script[i])
  BY <1>1 DEF FrameInv, BoundInv
<1> QED
  BY <1>1, <1>2, <1>12, <1>13, GoesOn

(* A message that is refused or answered, arm by arm. *)
LEMMA Deserts ==
  ASSUME NEW m, Offending(m) = {}
  PROVE  /\ BadLength(m) => Deserved(m) = Refusal("400")
         /\ ~BadLength(m) /\ Len(m.body) > MaxBodyBytes /\ ~(Len(m.body) <= MaxBodyBytes)
               => Deserved(m) = Refusal("413")
         /\ ~BadLength(m) /\ ~(Len(m.body) > MaxBodyBytes) /\ Len(m.body) <= MaxBodyBytes
               /\ ~m.wellFormed => Deserved(m) = Refusal("400")
         /\ ~BadLength(m) /\ ~(Len(m.body) > MaxBodyBytes) /\ Len(m.body) <= MaxBodyBytes
               /\ m.wellFormed => Deserved(m) = Answer(m)
<1>1. ASSUME BadLength(m) PROVE Deserved(m) = Refusal("400")
  BY <1>1, Zenon DEF Deserved
<1>2. ASSUME ~BadLength(m), Len(m.body) > MaxBodyBytes, ~(Len(m.body) <= MaxBodyBytes)
      PROVE  Deserved(m) = Refusal("413")
  BY <1>2, Zenon DEF Deserved
<1>3. ASSUME ~BadLength(m), ~(Len(m.body) > MaxBodyBytes), Len(m.body) <= MaxBodyBytes,
             ~m.wellFormed
      PROVE  Deserved(m) = Refusal("400")
  BY <1>3, Zenon DEF Deserved
<1>4. ASSUME ~BadLength(m), ~(Len(m.body) > MaxBodyBytes), Len(m.body) <= MaxBodyBytes,
             m.wellFormed
      PROVE  Deserved(m) = Answer(m)
  BY <1>4, Zenon DEF Deserved
<1> QED
  BY <1>1, <1>2, <1>3, <1>4

(* The headers there are: one has a length that is no number. *)
LEMMA HeaderUnits ==
  /\ \A u \in DOMAIN Headers :
       (Headers[u].name = "content-length" /\ Headers[u].value \notin DOMAIN Numbers) => u = "lenX"
  /\ Headers["lenX"].value \notin DOMAIN Numbers \union {Absent}
<1>1. DOMAIN Headers = {"close", "keepAlive", "len0", "len1", "len2", "len12", "len23", "len24", "lenX",
                         "negative", "multipart", "unbounded", "other"}
  BY DEF Headers
<1>2. /\ Headers["close"].name = "connection" /\ Headers["keepAlive"].name = "connection"
      /\ Headers["multipart"].name = "content-type" /\ Headers["unbounded"].name = "content-type"
      /\ Headers["other"].name = "accept"
  BY Zenon DEF Headers, Header
<1>3. /\ Headers["len0"].value = "0" /\ Headers["len1"].value = "1" /\ Headers["len2"].value = "2"
      /\ Headers["len12"].value = "12" /\ Headers["len23"].value = "23" /\ Headers["len24"].value = "24"
      /\ Headers["lenX"].value = "1x" /\ Headers["negative"].value = "-1"
  BY DEF Headers, Header
<1>4. \A u \in {"len0", "len1", "len2", "len12", "len23", "len24", "negative"} : Headers[u].value \in DOMAIN Numbers
  BY <1>3 DEF Numbers
<1>5. \A u \in DOMAIN Headers :
        (Headers[u].name = "content-length" /\ Headers[u].value \notin DOMAIN Numbers) => u = "lenX"
  <2>1. /\ "content-length" # "connection" /\ "content-length" # "content-type"
        /\ "content-length" # "accept"
    OBVIOUS
  <2> QED
    BY <1>1, <1>2, <1>4, <2>1, Zenon
<1>6. "1x" \notin DOMAIN Numbers
  BY DEF Numbers
<1>7. "1x" # Absent
  BY Zenon DEF Absent
<1> QED
  BY <1>3, <1>5, <1>6, <1>7

(* The end of the header: nothing in it is wrong. *)
LEMMA HeaderDone ==
  ASSUME FrameInv, LineRead, UNCHANGED <<script, fed>>, pstate = "kExpectHeaders", Line = <<>>
  PROVE  \E n \in Nat : AtCurrent(n) /\ Offending(script[n + 1]) = {}
           /\ HeaderRead(script[n + 1], Len(script[n + 1].headers) + 1)
           /\ (Consume(LineBytes) => Remaining' = script[n + 1].body \o Following(n + 1))
<1>2. PICK n \in Nat : AtCurrent(n) /\ \E j \in 1 .. Len(script[n + 1].headers) + 1 :
           /\ LineAt(script[n + 1], Following(n + 1), j) /\ HeaderRead(script[n + 1], j)
           /\ Line = Lines(script[n + 1])[j + 1]
           /\ headerBytes' = HeaderSize(script[n + 1], j + 1)
           /\ ~(HeaderSize(script[n + 1], j + 1) > MaxHeaderBytes)
           /\ Consume(LineBytes) => Remaining' = Unread(script[n + 1], j + 1) \o Following(n + 1)
  BY HeaderTaken
<1>3. PICK m \in Message, later \in Seq(Unit) : m = script[n + 1] /\ later = Following(n + 1) /\ Truthful(m)
  BY <1>2 DEF AtCurrent
<1>4. PICK j \in 1 .. Len(m.headers) + 1 :
           /\ HeaderRead(m, j) /\ Line = Lines(m)[j + 1]
           /\ headerBytes' = HeaderSize(m, j + 1) /\ ~(HeaderSize(m, j + 1) > MaxHeaderBytes)
           /\ (Consume(LineBytes) => Remaining' = Unread(m, j + 1) \o later)
  BY <1>2, <1>3
<1>5. PICK h \in Nat : h = Len(m.headers) /\ Len(Lines(m)) = h + 2
  BY LinesType
<1>6. j \in 0 .. h + 1 /\ j # 0 /\ j \in Nat /\ j \in 1 .. h + 1
  BY <1>4, <1>5
<1>7. j = h + 1
  BY <1>3, <1>4, <1>5, <1>6, LineKinds
<1>8. Offending(m) = {}
  <2>1. j \in 0 .. Len(m.headers) + 1 /\ j # 0 /\ j \notin 1 .. Len(m.headers)
    BY <1>5, <1>6, <1>7
  <2>2. j + 1 \in Offending(m) <=>
              \/ HeaderSize(m, j + 1) > MaxHeaderBytes
              \/ (j = 0 /\ ~GoodRequestLine(Lines(m)[j + 1]))
              \/ (j \in 1 .. Len(m.headers) /\ ~HasColon(Lines(m)[j + 1]))
    BY <1>3, <2>1, LineKinds
  <2>3. j + 1 \notin Offending(m)
    BY <1>4, <2>1, <2>2
  <2>4. \A i \in 1 .. j : i \notin Offending(m)
    BY <1>4 DEF HeaderRead
  <2>5. \A i \in 1 .. h + 2 : i \in 1 .. j \/ i = j + 1
    BY <1>7
  <2>6. Offending(m) \subseteq 1 .. h + 2
    BY <1>5 DEF Offending
  <2> QED
    BY <2>3, <2>4, <2>5, <2>6
<1>9. j + 1 = Len(Lines(m)) /\ j = Len(m.headers) + 1
  BY <1>5, <1>7
<1>10. Unread(m, j + 1) = m.body
  BY <1>9, UnreadEnds
<1> QED
  BY <1>2, <1>3, <1>4, <1>8, <1>9, <1>10

(* The lengths that are no number are refused, and only those. *)
LEMMA LengthRead ==
  ASSUME NEW m \in Message, Truthful(m), Offending(m) = {}
  PROVE  /\ LastValue(m, "content-length", Len(m.headers)) \notin DOMAIN Numbers \union {Absent}
              => BadLength(m)
         /\ LastValue(m, "content-length", Len(m.headers)) \in DOMAIN Numbers \union {Absent}
              => ~BadLength(m)
         /\ LastValue(m, "content-length", Len(m.headers)) = Absent => m.body = <<>>
         /\ LastValue(m, "content-length", Len(m.headers)) \in DOMAIN Numbers
              => Len(m.body) = Numbers[LastValue(m, "content-length", Len(m.headers))]
<1>1. PICK v : v = LastValue(m, "content-length", Len(m.headers))
  OBVIOUS
<1>2. PICK h \in Nat : h = Len(m.headers) /\ Len(Lines(m)) = h + 2
  BY LinesType
<1>3. ASSUME NEW i \in 1 .. h PROVE m.headers[i][1] \in DOMAIN Headers
  <2>1. i + 1 \in 1 .. h + 2 /\ i + 1 \in 2 .. h + 1 /\ (i + 1) - 1 = i
    OBVIOUS
  <2>2. ~WrongLine(m, i + 1)
    BY <1>2, <2>1 DEF Offending
  <2>3. HasColon(m.headers[i])
    BY <1>2, <2>1, <2>2 DEF WrongLine
  <2> QED
    BY <2>3 DEF HasColon
<1>4. ASSUME v \notin DOMAIN Numbers \union {Absent} PROVE BadLength(m)
  <2>1. v # Absent
    BY <1>4
  <2>2. PICK i \in 1 .. h : Headers[m.headers[i][1]].name = "content-length" /\ v = Headers[m.headers[i][1]].value
    BY <1>1, <1>2, <2>1, LastIs
  <2>3. m.headers[i][1] = "lenX"
    BY <1>3, <1>4, <2>2, HeaderUnits
  <2> QED
    BY <1>1, <2>2, <2>3 DEF BadLength, Value
<1>5. /\ v = Absent => m.body = <<>>
      /\ v \in DOMAIN Numbers => Len(m.body) = Numbers[v]
  BY <1>1, Zenon DEF Truthful, Value
<1>6. v \in DOMAIN Numbers \union {Absent} => ~BadLength(m)
  BY <1>1, HeaderUnits DEF BadLength, Value
<1> QED
  BY <1>1, <1>4, <1>5, <1>6

(* What is not a line, or not a length *)
LEMMA BadLineFramed == ASSUME FrameInv, BadLine, BoundInv' PROVE FrameInv'
<1>1. /\ LineRead /\ Refuse("400")
      /\ UNCHANGED <<script, fed, page>>
  BY DEF BadLine
<1>2. CASE pstate = "kExpectRequestLine" /\ ~GoodRequestLine(Line)
  <2>1. PICK n \in Nat : AtCurrent(n) /\ \E j \in 0 .. Len(script[n + 1].headers) + 1 :
           /\ LineAt(script[n + 1], Following(n + 1), j)
           /\ Line = Lines(script[n + 1])[j + 1]
           /\ ~(HeaderSize(script[n + 1], j + 1) > MaxHeaderBytes)
    BY <1>1, LineTaken
  <2>2. PICK m \in Message, later \in Seq(Unit) : m = script[n + 1] /\ later = Following(n + 1) /\ Truthful(m)
    BY <2>1 DEF AtCurrent
  <2>3. PICK j \in 0 .. Len(m.headers) + 1 :
           LineAt(m, later, j) /\ Line = Lines(m)[j + 1] /\ ~(HeaderSize(m, j + 1) > MaxHeaderBytes)
    BY <2>1, <2>2
  <2>4. j = 0
    BY <1>2, <2>3 DEF LineAt
  <2>5. j + 1 \in Offending(m)
    BY <1>2, <2>2, <2>3, <2>4, LineKinds
  <2>6. Deserved(m) = Refusal("400")
    BY <2>3, <2>5, LineOffends
  <2> QED
    BY <1>1, <2>1, <2>2, <2>6, Refused
<1>3. CASE pstate = "kExpectHeaders" /\ ~HasColon(Line) /\ Line # <<>>
  <2>1. PICK n \in Nat : AtCurrent(n) /\ \E j \in 1 .. Len(script[n + 1].headers) + 1 :
           /\ LineAt(script[n + 1], Following(n + 1), j)
           /\ Line = Lines(script[n + 1])[j + 1]
           /\ ~(HeaderSize(script[n + 1], j + 1) > MaxHeaderBytes)
    BY <1>1, <1>3, HeaderTaken
  <2>2. PICK m \in Message, later \in Seq(Unit) : m = script[n + 1] /\ later = Following(n + 1) /\ Truthful(m)
    BY <2>1 DEF AtCurrent
  <2>3. PICK j \in 1 .. Len(m.headers) + 1 :
           LineAt(m, later, j) /\ Line = Lines(m)[j + 1] /\ ~(HeaderSize(m, j + 1) > MaxHeaderBytes)
    BY <2>1, <2>2
  <2>4. PICK h \in Nat : h = Len(m.headers)
    BY LinesType
  <2>5. j \in 0 .. h + 1 /\ j # 0
    BY <2>3, <2>4
  <2>6. j # h + 1
    BY <1>3, <2>2, <2>3, <2>4, <2>5, LineKinds
  <2>7. j \in 1 .. Len(m.headers) /\ j \in 0 .. Len(m.headers) + 1
    BY <2>4, <2>5, <2>6
  <2>8. j + 1 \in Offending(m)
    BY <1>3, <2>2, <2>3, <2>7, LineKinds
  <2>9. Deserved(m) = Refusal("400")
    BY <2>3, <2>7, <2>8, LineOffends
  <2> QED
    BY <1>1, <2>1, <2>2, <2>9, Refused
<1>4. CASE pstate = "kExpectHeaders" /\ Line = <<>> /\ ContentLength \notin DOMAIN Numbers \union {Absent}
  <2>1. PICK n \in Nat : AtCurrent(n) /\ Offending(script[n + 1]) = {}
           /\ HeaderRead(script[n + 1], Len(script[n + 1].headers) + 1)
    BY <1>1, <1>4, HeaderDone
  <2>2. PICK m \in Message : m = script[n + 1] /\ Truthful(m)
    BY <2>1 DEF AtCurrent
  <2>3. ContentLength = LastValue(m, "content-length", Len(m.headers))
    <3>1. PICK h \in Nat : h = Len(m.headers) /\ (h + 1) - 1 = h
      BY LinesType
    <3>2. \A name \in HeaderNames : GetHeader(request, name) = LastValue(m, name, Len(m.headers))
      BY <2>1, <2>2, <3>1 DEF HeaderRead
    <3>3. "content-length" \in HeaderNames
      BY DEF HeaderNames
    <3> QED
      BY <3>2, <3>3 DEF ContentLength
  <2>4. BadLength(m)
    BY <1>4, <2>1, <2>2, <2>3, LengthRead
  <2>5. Deserved(m) = Refusal("400")
    BY <2>1, <2>2, <2>4, Deserts
  <2> QED
    BY <1>1, <2>1, <2>2, <2>5, Refused
<1> QED
  BY <1>2, <1>3, <1>4 DEF BadLine

(* The end of the headers *)
LEMMA EndOfHeadersFramed == ASSUME FrameInv, EndOfHeaders, BoundInv' PROVE FrameInv'
<1>1. /\ LineRead /\ pstate = "kExpectHeaders" /\ Line = <<>>
      /\ ContentLength \in DOMAIN Numbers \union {Absent}
      /\ contentLength' = IF ContentLength = Absent THEN 0 ELSE Numbers[ContentLength]
      /\ UNCHANGED <<script, fed, request, page>> /\ pc = "parse"
  BY DEF EndOfHeaders, LineRead, InHeader
<1>2. PICK n \in Nat : AtCurrent(n) /\ Offending(script[n + 1]) = {}
           /\ HeaderRead(script[n + 1], Len(script[n + 1].headers) + 1)
           /\ (Consume(LineBytes) => Remaining' = script[n + 1].body \o Following(n + 1))
  BY <1>1, HeaderDone
<1>3. PICK m \in Message, later \in Seq(Unit) : m = script[n + 1] /\ later = Following(n + 1) /\ Truthful(m)
  BY <1>2 DEF AtCurrent
<1>4. PICK h \in Nat : h = Len(m.headers) /\ (h + 1) - 1 = h
  BY LinesType
<1>5. \A name \in HeaderNames : GetHeader(request, name) = LastValue(m, name, Len(m.headers))
  BY <1>2, <1>3, <1>4 DEF HeaderRead
<1>6. ContentLength = LastValue(m, "content-length", Len(m.headers))
  <2>1. "content-length" \in HeaderNames
    BY DEF HeaderNames
  <2> QED
    BY <1>5, <2>1 DEF ContentLength
<1>7. ~BadLength(m) /\ contentLength' = Len(m.body)
  <2>1. ~BadLength(m)
    BY <1>1, <1>2, <1>3, <1>6, LengthRead
  <2>2. CASE ContentLength = Absent
    <3>1. m.body = <<>>
      BY <1>2, <1>3, <1>6, <2>2, LengthRead
    <3>2. contentLength' = 0
      BY <1>1, <2>2
    <3>3. Len(m.body) = 0
      BY <3>1
    <3> QED
      BY <2>1, <3>2, <3>3
  <2>3. CASE ContentLength # Absent
    BY <1>1, <1>2, <1>3, <1>6, <2>3, LengthRead
  <2> QED
    BY <2>1, <2>2, <2>3
<1>8. CASE contentLength' > MaxBodyBytes /\ Refuse("413")
  <2>0. ~(Len(m.body) <= MaxBodyBytes) /\ Len(m.body) > MaxBodyBytes
    BY <1>7, <1>8, HttpAssumption DEF Message
  <2>1. Deserved(m) = Refusal("413")
    BY <1>2, <1>3, <1>7, <1>8, <2>0, Deserts
  <2> QED
    BY <1>1, <1>2, <1>3, <1>8, <2>1, Refused
<1>9. CASE /\ contentLength' <= MaxBodyBytes /\ pstate' = "kExpectBody"
           /\ Consume(LineBytes) /\ UNCHANGED <<pc, conn, served>>
  <2>1. Remaining' = m.body \o later
    BY <1>2, <1>3, <1>9
  <2>2. AllRead(m)' /\ request'.form = <<>> /\ request'.files = <<>>
    BY <1>1, <1>2, <1>3, <1>5, <1>7, <1>9 DEF AllRead, HeaderRead, GetHeader
  <2>3. Parsing(m, later)'
    BY <1>7, <1>9, <2>1, <2>2 DEF Parsing
  <2>4. Parsing(script[n + 1], Following(n + 1))'
    BY <1>1, <1>3, <2>3, SameScript
  <2>5. conn = "connected" /\ script \in Seq(Message) /\ \A i \in 1 .. Len(script) : Truthful(script[i])
    BY <1>1 DEF FrameInv, BoundInv
  <2> QED
    BY <1>1, <1>2, <1>9, <2>4, <2>5, GoesOn
<1> QED
  BY <1>8, <1>9 DEF EndOfHeaders

(* Before the body has come. *)
LEMMA BodyMissingFramed == ASSUME FrameInv, BodyMissing, BoundInv' PROVE FrameInv'
<1>1. /\ pc = "parse" /\ pstate = "kExpectBody" /\ Len(buf) < contentLength /\ pc' = "wait"
      /\ UNCHANGED <<script, fed, buf, pstate, headerBytes, contentLength, request, conn, page, served>>
  BY DEF BodyMissing, context
<1>2. PICK n \in Nat : AtCurrent(n) /\ conn = "connected"
  BY <1>1, MidMessage
<1>3. PICK m, later : m = script[n + 1] /\ later = Following(n + 1) /\ Parsing(m, later)
  BY <1>2 DEF AtCurrent
<1>4. Idle'
  BY <1>1 DEF Idle
<1>5. Remaining' = Remaining
  BY <1>1, SameScript DEF Remaining
<1>6. Parsing(m, later)'
  BY <1>1, <1>3, <1>5 DEF Parsing, AllRead, GetHeader
<1>7. Parsing(script[n + 1], Following(n + 1))'
  BY <1>1, <1>3, <1>6, SameScript
<1>8. script \in Seq(Message) /\ \A i \in 1 .. Len(script) : Truthful(script[i])
  BY DEF FrameInv, BoundInv
<1> QED
  BY <1>1, <1>2, <1>4, <1>7, <1>8, GoesOn

(* What is assigned over nothing is there alone. *)
LEMMA OverNothing == ASSUME NEW m PROVE Over(DeservedForm(m), <<>>) = DeservedForm(m)
<1>1. DOMAIN <<>> = {}
  OBVIOUS
<1>2. PICK D, c : DeservedForm(m) = [f \in D |-> c[f]]
  <2>1. PICK fields : fields = SelectSeq(m.parts, LAMBDA p : p.file = "")
    BY Zenon
  <2> DEFINE D == {fields[i].field : i \in 1 .. Len(fields)}
             c == [f \in D |-> fields[Max({i \in 1 .. Len(fields) : fields[i].field = f})].content]
  <2>2. DeservedForm(m) = c
    BY <2>1, Zenon DEF DeservedForm
  <2>3. c = [f \in D |-> c[f]]
    BY Zenon
  <2> QED
    BY <2>2, <2>3
<1> QED
  BY <1>1, <1>2 DEF Over

(* The body *)
LEMMA BodyFramed == ASSUME FrameInv, Body, BoundInv' PROVE FrameInv'
<1>1. /\ pc = "parse" /\ pstate = "kExpectBody" /\ Len(buf) >= contentLength /\ Consume(contentLength)
      /\ UNCHANGED <<script, fed, headerBytes, contentLength, page>>
  BY DEF Body
<1>2. PICK n \in Nat : AtCurrent(n) /\ conn = "connected"
  BY <1>1, MidMessage
<1>3. PICK m \in Message, later \in Seq(Unit) : /\ m = script[n + 1] /\ later = Following(n + 1)
                                                /\ Parsing(m, later) /\ Truthful(m)
  BY <1>2 DEF AtCurrent
<1>4. /\ AllRead(m) /\ request.form = <<>> /\ request.files = <<>>
      /\ contentLength = Len(m.body) /\ Remaining = m.body \o later
  BY <1>1, <1>3 DEF Parsing
<1>5. /\ SubSeq(buf, 1, contentLength) = m.body
      /\ SubSeq(buf, contentLength + 1, Len(buf)) \o SubSeq(Stream, fed + 1, Len(Stream)) = later
  <2>1. PICK t \in Seq(Unit) : /\ t = SubSeq(Stream, fed + 1, Len(Stream)) /\ Remaining = buf \o t
                               /\ buf \in Seq(Unit)
    BY RemainingType DEF Remaining, FrameInv
  <2>2. PICK x \in Seq(Unit) : x = m.body /\ Len(x) = contentLength
    BY <1>4 DEF Message
  <2>3. Len(x) <= Len(buf)
    BY <1>1, <2>1, <2>2
  <2>4. buf \o t = x \o later
    BY <1>4, <2>1, <2>2
  <2>5. SubSeq(buf, 1, Len(x)) = x /\ SubSeq(buf, Len(x) + 1, Len(buf)) \o t = later
    BY <1>3, <2>1, <2>2, <2>3, <2>4, Dropped
  <2> QED
    BY <2>1, <2>2, <2>5
<1>6. Remaining' = later
  BY <1>1, <1>5, SameScript DEF Remaining, Consume
<1>7. PICK parsed : parsed = ParseBody(m.body, LastValue(m, "content-type", Len(m.headers)))
  OBVIOUS
<1>8. GetHeader(request, "content-type") = LastValue(m, "content-type", Len(m.headers))
  <2>1. "content-type" \in HeaderNames
    BY DEF HeaderNames
  <2> QED
    BY <1>4, <2>1 DEF AllRead
<1>9. /\ request' = [request EXCEPT !.body = m.body, !.form = Over(parsed.form, @),
                                    !.files = @ \o parsed.files]
      /\ \/ (parsed.good /\ pstate' = "kGotAll" /\ UNCHANGED <<pc, conn, served>>)
         \/ (~parsed.good /\ Refuse("400"))
  BY <1>5, <1>7, <1>8 DEF Body
<1>10. Offending(m) = {} /\ ~BadLength(m) /\ Len(m.body) <= MaxBodyBytes
  BY <1>4 DEF AllRead
<1>11. m.wellFormed = parsed.good /\ (m.wellFormed => Agrees(m, parsed))
  BY <1>3, <1>7, <1>10, Zenon DEF Truthful, ReadsBack, Value
<1>12. script \in Seq(Message) /\ \A i \in 1 .. Len(script) : Truthful(script[i])
  BY DEF FrameInv, BoundInv
<1>13. CASE ~parsed.good /\ Refuse("400")
  <2>1. ~m.wellFormed /\ ~(Len(m.body) > MaxBodyBytes)
    BY <1>10, <1>11, <1>13, HttpAssumption DEF Message
  <2>2. Deserved(m) = Refusal("400")
    BY <1>10, <2>1, Deserts
  <2> QED
    BY <1>1, <1>2, <1>3, <1>13, <2>2, Refused
<1>14. CASE parsed.good /\ pstate' = "kGotAll" /\ UNCHANGED <<pc, conn, served>>
  <2>1. DOMAIN request = {"line", "headers", "body", "form", "files"} /\ DOMAIN request = DOMAIN NoRequest
    BY <1>4, NoHeaders DEF AllRead
  <2>2. m.wellFormed /\ Agrees(m, parsed)
    BY <1>11, <1>14
  <2>3. parsed.form = DeservedForm(m) /\ parsed.files \in Seq(Part)
    BY <2>2 DEF Agrees
  <2>4. /\ DOMAIN request' = DOMAIN NoRequest
        /\ request'.line = request.line /\ request'.headers = request.headers
    BY <1>9, <2>1
  <2>5. request'.form = parsed.form
    <3>1. request'.form = Over(parsed.form, request.form)
      BY <1>9, <2>1
    <3> QED
      BY <1>4, <2>3, <3>1, OverNothing
  <2>6. request'.files = parsed.files
    <3>1. request'.files = request.files \o parsed.files
      BY <1>9, <2>1
    <3>2. <<>> \o parsed.files = parsed.files
      BY <2>3
    <3> QED
      BY <1>4, <3>1, <3>2
  <2>7. AllRead(m)'
    BY <1>4, <2>4 DEF AllRead, GetHeader
  <2>8. Agrees(m, request)'
    BY <2>2, <2>5, <2>6 DEF Agrees
  <2>9. Parsing(m, later)'
    BY <1>6, <1>14, <2>2, <2>7, <2>8 DEF Parsing
  <2>10. Parsing(script[n + 1], Following(n + 1))'
    BY <1>1, <1>3, <2>9, SameScript
  <2> QED
    BY <1>1, <1>2, <1>12, <1>14, <2>10, GoesOn
<1> QED
  BY <1>9, <1>13, <1>14

(* Of the request lines that are good, the version says which is the old one. *)
LEMMA OldLine ==
  ASSUME NEW line, GoodRequestLine(line)
  PROVE  RequestLines[line[1]].version = "HTTP/1.0" <=> line = <<"get10">>
<1>1. PICK u \in DOMAIN RequestLines : line = <<u>>
  BY DEF GoodRequestLine
<1>2. line[1] = u
  BY <1>1
<1>3. RequestLines[u].version = "HTTP/1.0" <=> u = "get10"
  <2>1. u \in {"get", "get10", "icon", "health", "postHealth", "upload", "infer", "unknown", "patch", "http2"}
    BY <1>1 DEF RequestLines
  <2>2. /\ RequestLines["get10"].version = "HTTP/1.0" /\ RequestLines["get"].version = "HTTP/1.1"
        /\ RequestLines["icon"].version = "HTTP/1.1" /\ RequestLines["health"].version = "HTTP/1.1"
        /\ RequestLines["postHealth"].version = "HTTP/1.1" /\ RequestLines["upload"].version = "HTTP/1.1"
        /\ RequestLines["infer"].version = "HTTP/1.1" /\ RequestLines["unknown"].version = "HTTP/1.1"
        /\ RequestLines["patch"].version = "HTTP/1.1" /\ RequestLines["http2"].version = "HTTP/2.0"
    BY Zenon DEF RequestLines, Words
  <2>3. "HTTP/1.0" # "HTTP/1.1" /\ "HTTP/1.0" # "HTTP/2.0"
    OBVIOUS
  <2> QED
    BY <2>1, <2>2, <2>3, Zenon
<1>4. <<u>> = <<"get10">> <=> u = "get10"
  <2>1. <<u>>[1] = u /\ <<"get10">>[1] = "get10"
    OBVIOUS
  <2> QED
    BY <2>1
<1> QED
  BY <1>1, <1>2, <1>3, <1>4

(* What the server reads off the headers about closing is what the client     *)
(* wrote.                                                                     *)
LEMMA ClosingRead ==
  ASSUME NEW m \in Message, Offending(m) = {}
  PROVE  Closes(RequestLines[m.line[1]].version, LastValue(m, "connection", Len(m.headers)))
           <=> DeservedClose(m)
<1>1. 1 \in 1 .. Len(Lines(m)) /\ 1 \notin Offending(m)
  BY LinesType
<1>2. GoodRequestLine(m.line)
  BY <1>1 DEF Offending, WrongLine
<1>3. RequestLines[m.line[1]].version = "HTTP/1.0" <=> m.line = <<"get10">>
  BY <1>2, OldLine
<1> QED
  BY <1>3 DEF Closes, DeservedClose, Value

(* The files a handler sees are those of the message. *)
LEMMA SameFiles ==
  ASSUME NEW m, NEW parsed, Agrees(m, parsed)
  PROVE  /\ \A line : OnRequest(line, parsed.files) = OnRequest(line, FilesOf(m))
         /\ [i \in 1 .. Len(parsed.files) |-> <<parsed.files[i].file, parsed.files[i].content>>]
              = [i \in 1 .. Len(FilesOf(m)) |-> <<FilesOf(m)[i].file, FilesOf(m)[i].content>>]
<1>1. PICK f \in Seq(Part), g \in Seq(Part) :
        /\ f = parsed.files /\ g = FilesOf(m) /\ Len(f) = Len(g)
        /\ \A i \in 1 .. Len(g) : f[i].file = g[i].file /\ f[i].content = g[i].content
  BY DEF Agrees
<1>2. f = <<>> <=> g = <<>>
  BY <1>1
<1>3. g # <<>> => f[1].content = g[1].content
  BY <1>1
<1>4. ASSUME NEW line PROVE OnRequest(line, f) = OnRequest(line, g)
  <2>1. CASE g = <<>>
    BY <1>2, <2>1
  <2>2. CASE g # <<>>
    BY <1>2, <1>3, <2>2, Zenon DEF OnRequest
  <2> QED
    BY <2>1, <2>2
<1>5. [i \in 1 .. Len(f) |-> <<f[i].file, f[i].content>>] = [i \in 1 .. Len(g) |-> <<g[i].file, g[i].content>>]
  BY <1>1
<1> QED
  BY <1>1, <1>4, <1>5

(* The answer to a request that has been read whole. *)
LEMMA AnswerIs ==
  ASSUME NEW m \in Message, Truthful(m), AllRead(m), m.wellFormed, Agrees(m, request)
  PROVE  /\ Deserved(m) = Answer(m)
         /\ request.line.path = "/v1/infer" =>
              Answer(m) = Served(request.line, request.form, request.files,
                                 Response("infer", <<>>, TRUE), TRUE)
         /\ request.line.path # "/v1/infer" =>
              \A response, close :
                (/\ response = OnRequest(request.line, request.files)
                 /\ close = (response.close
                       \/ Closes(request.line.version, GetHeader(request, "connection"))))
                 => Answer(m) = Served(request.line, request.form, request.files, response, close)
<1>1. /\ Offending(m) = {} /\ ~BadLength(m) /\ Len(m.body) <= MaxBodyBytes
      /\ request.line = RequestLines[m.line[1]]
      /\ \A name \in HeaderNames : GetHeader(request, name) = LastValue(m, name, Len(m.headers))
  BY DEF AllRead
<1>2. ~(Len(m.body) > MaxBodyBytes)
  BY <1>1, HttpAssumption DEF Message
<1>3. Deserved(m) = Answer(m)
  BY <1>1, <1>2, Deserts
<1>4. GetHeader(request, "connection") = LastValue(m, "connection", Len(m.headers))
  <2>1. "connection" \in HeaderNames
    BY DEF HeaderNames
  <2> QED
    BY <1>1, <2>1
<1>5. Closes(request.line.version, GetHeader(request, "connection")) <=> DeservedClose(m)
  BY <1>1, <1>4, ClosingRead
<1>6. request.form = DeservedForm(m)
  BY DEF Agrees
<1>7. PICK line : line = request.line
  OBVIOUS
<1>8. /\ OnRequest(line, request.files) = OnRequest(line, FilesOf(m))
      /\ \A response, close : Served(line, request.form, request.files, response, close)
                                = Served(line, DeservedForm(m), FilesOf(m), response, close)
  BY <1>6, SameFiles DEF Served
<1>9. Response("infer", <<>>, TRUE).close = TRUE
  BY Zenon DEF Response
<1>10. ASSUME line.path = "/v1/infer"
       PROVE  Answer(m) = Served(line, request.form, request.files, Response("infer", <<>>, TRUE), TRUE)
  <2>1. Answer(m) = Served(line, DeservedForm(m), FilesOf(m), Response("infer", <<>>, TRUE),
                           Response("infer", <<>>, TRUE).close \/ DeservedClose(m))
    BY <1>1, <1>7, <1>10, Zenon DEF Answer
  <2>2. (Response("infer", <<>>, TRUE).close \/ DeservedClose(m)) = TRUE
    BY <1>9
  <2> QED
    BY <1>8, <2>1, <2>2, Zenon
<1>11. ASSUME line.path # "/v1/infer", NEW response, NEW close,
              response = OnRequest(line, request.files),
              close = (response.close \/ Closes(line.version, GetHeader(request, "connection")))
       PROVE  Answer(m) = Served(line, request.form, request.files, response, close)
  <2>1. Answer(m) = Served(line, DeservedForm(m), FilesOf(m), OnRequest(line, FilesOf(m)),
                           OnRequest(line, FilesOf(m)).close \/ DeservedClose(m))
    BY <1>1, <1>7, <1>11, Zenon DEF Answer
  <2>2. OnRequest(line, FilesOf(m)) = response
    BY <1>8, <1>11
  <2>3. (response.close \/ DeservedClose(m)) = close
    BY <1>5, <1>7, <1>11
  <2> QED
    BY <1>8, <2>1, <2>2, <2>3, Zenon
<1> QED
  BY <1>3, <1>7, <1>10, <1>11

(* The request being read, when it is handed over. *)
LEMMA RequestRead ==
  ASSUME FrameInv, pc = "parse", pstate = "kGotAll"
  PROVE  \E n \in Nat : /\ AtCurrent(n) /\ conn = "connected" /\ Remaining = Following(n + 1)
                        /\ AllRead(script[n + 1]) /\ script[n + 1].wellFormed
                        /\ Agrees(script[n + 1], request)
<1>1. PICK n \in Nat : AtCurrent(n) /\ conn = "connected"
  BY MidMessage
<1>2. Parsing(script[n + 1], Following(n + 1))
  BY <1>1 DEF AtCurrent
<1> QED
  BY <1>1, <1>2 DEF Parsing

(* A request for the scheduler *)
LEMMA ServeInferFramed == ASSUME FrameInv, ServeInfer, BoundInv' PROVE FrameInv'
<1>1. /\ pc = "parse" /\ pstate = "kGotAll" /\ request.line.path = "/v1/infer"
      /\ served' = Append(served, Served(request.line, request.form, request.files,
                                         Response("infer", <<>>, TRUE), TRUE))
      /\ conn' # "connected" /\ pc' = "wait" /\ UNCHANGED <<script, page>>
  BY DEF ServeInfer
<1>2. PICK n \in Nat : /\ AtCurrent(n) /\ AllRead(script[n + 1]) /\ script[n + 1].wellFormed
                       /\ Agrees(script[n + 1], request)
  BY <1>1, RequestRead
<1>3. PICK m \in Message : m = script[n + 1] /\ Truthful(m)
  BY <1>2 DEF AtCurrent
<1>4. Deserved(m) = Served(request.line, request.form, request.files, Response("infer", <<>>, TRUE), TRUE)
  BY <1>1, <1>2, <1>3, AnswerIs
<1>5. \A line, form, files, response : Served(line, form, files, response, TRUE).close
  BY Zenon DEF Served
<1>6. Deserved(m).close
  BY <1>4, <1>5
<1>7. script \in Seq(Message) /\ \A i \in 1 .. Len(script) : Truthful(script[i])
  BY DEF FrameInv, BoundInv
<1> QED
  BY <1>1, <1>2, <1>3, <1>4, <1>6, <1>7, Ends

(* One answer more *)
LEMMA AnsweredStep ==
  ASSUME NEW n \in Nat, Answered(n), UNCHANGED <<script, page>>, ~Deserved(script[n + 1]).close,
         served' = Append(served, Deserved(script[n + 1]))
  PROVE  Answered(n + 1)'
<1> DEFINE Ans == {Deserved(script[i]) : i \in 1 .. n + 1}
<1>1. /\ served = [i \in 1 .. n |-> Deserved(script[i])]
      /\ \A i \in 1 .. n : ~Deserved(script[i]).close
  BY DEF Answered
<1>2. \A i \in 1 .. n + 1 : (i \in 1 .. n \/ i = n + 1) /\ Deserved(script[i]) \in Ans
  OBVIOUS
<1>3. n + 1 \in 1 .. n + 1 /\ \A i \in 1 .. n : i \in 1 .. n + 1
  OBVIOUS
<1>4. PICK g : g = [i \in 1 .. n + 1 |-> Deserved(script[i])]
  OBVIOUS
<1>5. g \in Seq(Ans) /\ Len(g) = n + 1 /\ \A i \in 1 .. n + 1 : g[i] = Deserved(script[i])
  <2> HIDE DEF Ans
  <2>1. g \in [1 .. n + 1 -> Ans] /\ \A i \in 1 .. n + 1 : g[i] = Deserved(script[i])
    BY <1>2, <1>4
  <2>2. n + 1 \in Nat
    OBVIOUS
  <2> QED
    BY <2>1, <2>2
<1> HIDE DEF Ans
<1>6. PICK e \in Ans, s \in Seq(Ans) :
        e = Deserved(script[n + 1]) /\ s = served /\ Len(s) = n /\ \A i \in 1 .. n : s[i] = Deserved(script[i])
  BY <1>1, <1>2, <1>3
<1>7. /\ Append(s, e) \in Seq(Ans) /\ Len(Append(s, e)) = n + 1
      /\ \A i \in 1 .. n : Append(s, e)[i] = s[i]
      /\ Append(s, e)[n + 1] = e
  BY <1>6, AppendProperties
<1>8. \A i \in 1 .. n + 1 : Append(s, e)[i] = g[i]
  BY <1>2, <1>5, <1>6, <1>7
<1>9. Append(s, e) = g
  BY <1>5, <1>7, <1>8, SeqEqual
<1>10. served' = [i \in 1 .. n + 1 |-> Deserved(script[i])]
  BY <1>4, <1>6, <1>9
<1>11. \A i \in 1 .. n + 1 : ~Deserved(script[i]).close
  BY <1>1, <1>2
<1>12. \A m : Deserved(m)' = Deserved(m)
  BY SamePage
<1> QED
  BY <1>10, <1>11, <1>12, Zenon DEF Answered

(* A request that is answered here *)
LEMMA ServeFramed == ASSUME FrameInv, Serve, BoundInv' PROVE FrameInv'
<1>1. /\ pc = "parse" /\ pstate = "kGotAll" /\ request.line.path # "/v1/infer" /\ Reset
      /\ UNCHANGED <<script, fed, buf, page>>
  BY DEF Serve
<1>2. PICK response, close :
        /\ response = OnRequest(request.line, request.files)
        /\ close = (response.close \/ Closes(request.line.version, GetHeader(request, "connection")))
        /\ served' = Append(served, Served(request.line, request.form, request.files, response, close))
        /\ conn' = IF close THEN "closing" ELSE conn
        /\ pc' = IF close \/ buf = <<>> THEN "wait" ELSE "parse"
  BY Zenon DEF Serve
<1>3. PICK n \in Nat : /\ AtCurrent(n) /\ conn = "connected" /\ Remaining = Following(n + 1)
                       /\ AllRead(script[n + 1]) /\ script[n + 1].wellFormed
                       /\ Agrees(script[n + 1], request)
  BY <1>1, RequestRead
<1>4. PICK m \in Message : m = script[n + 1] /\ Truthful(m)
  BY <1>3 DEF AtCurrent
<1>5. Deserved(m) = Served(request.line, request.form, request.files, response, close)
  BY <1>1, <1>2, <1>3, <1>4, AnswerIs
<1>6. \A line, form, files : Served(line, form, files, response, close).close = close
  BY Zenon DEF Served
<1>7. served' = Append(served, Deserved(script[n + 1])) /\ Deserved(script[n + 1]).close = close
  BY <1>2, <1>4, <1>5, <1>6
<1>8. script \in Seq(Message) /\ \A i \in 1 .. Len(script) : Truthful(script[i])
  BY DEF FrameInv, BoundInv
<1>9. CASE close
  <2>1. conn' # "connected" /\ pc' = "wait" /\ Deserved(script[n + 1]).close
    BY <1>2, <1>7, <1>9
  <2> QED
    BY <1>1, <1>3, <1>7, <1>8, <2>1, Ends
<1>10. CASE ~close
  <2>1. conn' = "connected" /\ pc' = IF buf = <<>> THEN "wait" ELSE "parse"
    BY <1>2, <1>3, <1>10
  <2>2. Answered(n + 1)'
    BY <1>1, <1>3, <1>7, <1>10, AnsweredStep DEF AtCurrent
  <2>3. /\ pstate' = "kExpectRequestLine" /\ headerBytes' = 0 /\ request' = NoRequest
    BY <1>1 DEF Reset
  <2>4. Remaining' = Following(n + 1)
    BY <1>1, <1>3, SameScript DEF Remaining
  <2>5. PICK k \in Nat : k = Len(script) /\ n + 1 \in 0 .. k /\ n < k
    BY <1>3, <1>8 DEF AtCurrent
  <2>6. AtMessage(n + 1)'
    <3>1. CASE n + 1 = k
      <4>1. Remaining' = <<>>
        BY <1>8, <2>4, <2>5, <3>1, FollowingEnds
      <4> QED
        BY <1>1, <2>3, <2>5, <3>1, <4>1 DEF AtMessage
    <3>2. CASE n + 1 # k
      <4>1. n + 1 \in Nat /\ n + 1 < Len(script)
        BY <2>5, <3>2
      <4>2. /\ Following(n + 1) = Encode(script[(n + 1) + 1]) \o Following((n + 1) + 1)
            /\ script[(n + 1) + 1] \in Message
        BY <1>8, <4>1, FollowingStep
      <4>3. Encode(script[(n + 1) + 1]) = Unread(script[(n + 1) + 1], 0)
        BY <4>2, UnreadEnds
      <4>4. Remaining' = Unread(script[(n + 1) + 1], 0) \o Following((n + 1) + 1)
        BY <2>4, <4>2, <4>3
      <4>5. PICK q, later : q = script[(n + 1) + 1] /\ later = Following((n + 1) + 1)
        OBVIOUS
      <4>6. Parsing(q, later)'
        BY <2>3, <4>4, <4>5 DEF Parsing
      <4>7. Parsing(script[(n + 1) + 1], Following((n + 1) + 1))'
        BY <1>1, <4>5, <4>6, SameScript
      <4> QED
        BY <1>1, <2>5, <3>2, <4>7 DEF AtMessage
    <3> QED
      BY <3>1, <3>2
  <2>7. buf = <<>> => Idle'
    <3> SUFFICES ASSUME buf = <<>> PROVE Idle'
      OBVIOUS
    <3>1. Len(buf') = 0
      BY <1>1
    <3>2. 1 .. 0 - 1 = {}
      OBVIOUS
    <3>3. LineEnds' = {}
      BY <3>1, <3>2 DEF LineEnds
    <3> QED
      BY <2>3, <3>3 DEF Idle
  <2>8. pc' = "parse" => buf' # <<>>
    BY <1>1, <2>1
  <2>9. n + 1 \in 0 .. Len(script)' /\ \A i \in 1 .. Len(script)' : Truthful(script'[i])
    BY <1>1, <1>8, <2>5
  <2> QED
    BY <1>1, <2>1, <2>2, <2>6, <2>7, <2>8, <2>9 DEF FrameInv
<1>11. close \in BOOLEAN
  BY <1>2
<1> QED
  BY <1>9, <1>10, <1>11

(* A step that moves nothing but what has arrived. *)
LEMMA MessageStays ==
  ASSUME UNCHANGED <<script, pstate, headerBytes, contentLength, request>>, Remaining' = Remaining,
         NEW n, AtMessage(n)
  PROVE  AtMessage(n)'
<1>1. PICK m, later : m = script[n + 1] /\ later = Following(n + 1)
  OBVIOUS
<1>2. Parsing(m, later) => Parsing(m, later)'
  BY DEF Parsing, HeaderRead, AllRead, GetHeader
<1>3. /\ script'[n + 1] = m /\ Following(n + 1)' = later /\ Len(script') = Len(script)
  BY <1>1, SameScript
<1>4. CASE n = Len(script)
  BY <1>4 DEF AtMessage
<1>5. CASE n # Len(script)
  <2>1. Parsing(m, later)'
    BY <1>1, <1>2, <1>5 DEF AtMessage
  <2>2. Parsing(script[n + 1], Following(n + 1))'
    BY <1>3, <2>1
  <2> QED
    BY <1>5, <2>2 DEF AtMessage
<1> QED
  BY <1>4, <1>5

(* A step that answers nothing *)
LEMMA AnswersStay ==
  ASSUME UNCHANGED <<script, page, served>>
  PROVE  Expected' = Expected /\ \A n : Answered(n) => Answered(n)'
<1>1. \A m : Deserved(m)' = Deserved(m)
  BY SamePage
<1>2. Expected' = Expected
  BY <1>1, Zenon DEF Expected
<1>3. ASSUME NEW n, Answered(n) PROVE Answered(n)'
  BY <1>1, <1>3, Zenon DEF Answered
<1> QED
  BY <1>2, <1>3

(* A fragment arrives *)
LEMMA FeedFramed == ASSUME FrameInv, Feed, BoundInv' PROVE FrameInv'
<1>1. PICK k \in 1 .. Min({MaxFragment, Len(Stream) - fed}) :
        buf' = buf \o SubSeq(Stream, fed + 1, fed + k) /\ fed' = fed + k
  BY DEF Feed
<1>2. /\ pc = "wait" /\ pc' = (IF conn = "connected" THEN "parse" ELSE "wait")
      /\ UNCHANGED <<script, pstate, headerBytes, contentLength, request, conn, page, served>>
  BY DEF Feed, context
<1>3. BoundInv /\ script \in Seq(Message) /\ \A i \in 1 .. Len(script)' : Truthful(script'[i])
  BY <1>2 DEF FrameInv, BoundInv
<1>4. CASE conn # "connected"
  BY <1>2, <1>3, <1>4, AnswersStay DEF FrameInv
<1>5. CASE conn = "connected"
  <2>1. PICK n \in 0 .. Len(script) : Answered(n) /\ AtMessage(n)
    BY <1>5 DEF FrameInv
  <2>2. PICK st \in Seq(Unit), b \in Seq(Unit), f \in Nat, l \in Nat :
          st = Stream /\ b = buf /\ f = fed /\ l = Len(st) /\ f <= l
    <3>1. Stream \in Seq(Unit) /\ buf \in Seq(Unit)
      BY <1>3, RemainingType
    <3>2. fed \in Nat /\ fed <= Len(Stream)
      BY <1>3 DEF BoundInv
    <3>3. Len(Stream) \in Nat
      BY <3>1
    <3> QED
      BY <3>1, <3>2, <3>3
  <2>3. k \in Nat /\ k > 0 /\ f + k <= l
    <3>1. fed' <= Len(Stream') /\ Stream' = Stream /\ fed' \in Nat
      BY <1>2, SameScript DEF BoundInv
    <3>2. k \in Int /\ k > 0
      BY <1>1
    <3> QED
      BY <1>1, <2>2, <3>1, <3>2
  <2>4. Remaining' = Remaining
    <3>1. (b \o SubSeq(st, f + 1, f + k)) \o SubSeq(st, f + k + 1, Len(st)) = b \o SubSeq(st, f + 1, Len(st))
      <4>1. f + k <= Len(st)
        BY <2>2, <2>3
      <4>2. st \in Seq(Unit) /\ b \in Seq(Unit) /\ f \in Nat /\ k \in Nat
        BY <2>2, <2>3
      <4> QED
        BY <4>1, <4>2, FragmentMoves, Zenon
    <3>2. Stream' = Stream
      BY <1>2, SameScript
    <3> QED
      BY <1>1, <2>2, <3>1, <3>2, Zenon DEF Remaining
  <2>5. Answered(n)' /\ AtMessage(n)'
    BY <1>2, <2>1, <2>4, AnswersStay, MessageStays
  <2>6. buf' # <<>>
    <3>1. SubSeq(st, f + 1, f + k) \in Seq(Unit) /\ Len(SubSeq(st, f + 1, f + k)) = (f + k) - f
      BY <2>2, <2>3, SubSeqAfter
    <3>0. (f + k) - f = k
      BY <2>2, <2>3
    <3>2. PICK x \in Seq(Unit) : x = SubSeq(st, f + 1, f + k) /\ Len(x) = k
      BY <3>0, <3>1, Zenon
    <3>3. Len(b \o x) = Len(b) + k
      BY <2>2, <3>2, ConcatIs
    <3>4. Len(b) \in Nat /\ Len(<<>>) = 0
      BY <2>2
    <3>5. Len(b \o x) # 0
      BY <2>3, <3>3, <3>4
    <3>6. buf' = b \o x
      BY <1>1, <2>2, <3>2
    <3> QED
      BY <3>4, <3>5, <3>6
  <2>7. n \in 0 .. Len(script)'
    BY <1>2, <2>1
  <2> QED
    BY <1>2, <1>3, <1>5, <2>5, <2>6, <2>7 DEF FrameInv
<1> QED
  BY <1>4, <1>5

(* At the start *)
LEMMA InitFramed == ASSUME HttpInit, BoundInv PROVE FrameInv
<1>1. /\ script \in Scripts /\ fed = 0 /\ buf = <<>> /\ pc = "wait" /\ pstate = "kExpectRequestLine"
      /\ headerBytes = 0 /\ request = NoRequest /\ conn = "connected" /\ served = <<>>
  BY DEF HttpInit
<1>2. \A i \in 1 .. Len(script) : Truthful(script[i])
  BY <1>1, ClientAssumption
<1>3. script \in Seq(Message)
  BY DEF BoundInv
<1>4. Answered(0)
  <2>1. 1 .. 0 = {}
    OBVIOUS
  <2>2. [i \in 1 .. 0 |-> Deserved(script[i])] = <<>>
    BY <2>1
  <2> QED
    BY <1>1, <2>1, <2>2 DEF Answered
<1>5. Remaining = Following(0)
  <2>1. PICK st \in Seq(Unit) : st = Stream
    BY RemainingType
  <2>2. SubSeq(st, 0 + 1, Len(st)) = st
    <3>1. PICK l \in Nat : l = Len(st)
      BY <2>1
    <3>2. /\ SubSeq(st, 0 + 1, l) \in Seq(Unit) /\ Len(SubSeq(st, 0 + 1, l)) = l - 0
          /\ \A i \in 1 .. l - 0 : SubSeq(st, 0 + 1, l)[i] = st[0 + i]
      BY <2>1, <3>1, SubSeqAfter
    <3>3. l - 0 = l /\ \A i \in 1 .. l : 0 + i = i
      BY <3>1
    <3>4. Len(SubSeq(st, 0 + 1, l)) = Len(st) /\ \A i \in 1 .. Len(st) : SubSeq(st, 0 + 1, l)[i] = st[i]
      BY <3>1, <3>2, <3>3
    <3>5. SubSeq(st, 0 + 1, l) = st
      BY <2>1, <3>2, <3>4, SeqEqual
    <3> QED
      BY <3>1, <3>5
  <2>3. <<>> \o st = st
    BY <2>1
  <2>4. Following(0) = Stream
    BY <1>3, FollowingEnds
  <2> QED
    BY <1>1, <2>1, <2>2, <2>3, <2>4, Zenon DEF Remaining
<1>6. AtMessage(0)
  <2>1. PICK k \in Nat : k = Len(script)
    BY <1>3
  <2>2. CASE k = 0
    <3>1. Remaining = <<>>
      BY <1>3, <1>5, <2>1, <2>2, FollowingEnds
    <3> QED
      BY <1>1, <2>1, <2>2, <3>1 DEF AtMessage
  <2>3. CASE k # 0
    <3>1. 0 < Len(script)
      BY <2>1, <2>3
    <3>2. script[0 + 1] \in Message /\ Following(0) = Encode(script[0 + 1]) \o Following(0 + 1)
      BY <1>3, <3>1, FollowingStep
    <3>3. Remaining = Unread(script[0 + 1], 0) \o Following(0 + 1)
      BY <1>5, <3>2, UnreadEnds
    <3>4. Parsing(script[0 + 1], Following(0 + 1))
      BY <1>1, <3>3 DEF Parsing
    <3> QED
      BY <2>1, <2>3, <3>4 DEF AtMessage
  <2> QED
    BY <2>2, <2>3
<1>7. Idle
  <2>1. Len(buf) = 0 /\ 1 .. 0 - 1 = {}
    BY <1>1
  <2>2. LineEnds = {}
    BY <2>1 DEF LineEnds
  <2> QED
    BY <1>1, <2>2 DEF Idle
<1>8. 0 \in 0 .. Len(script)
  BY <1>3
<1> QED
  BY <1>1, <1>2, <1>4, <1>6, <1>7, <1>8 DEF FrameInv

(* A step that does nothing *)
LEMMA StutterFramed == ASSUME FrameInv, UNCHANGED httpVars PROVE FrameInv'
<1>1. UNCHANGED <<script, fed, buf, pc, pstate, headerBytes, contentLength, request, conn, page, served>>
  BY DEF httpVars, context
<1>2. BoundInv'
  BY <1>1 DEF FrameInv, BoundInv, WaitingInput, Stream
<1>3. Remaining' = Remaining
  BY <1>1, SameScript DEF Remaining
<1>4. Idle => Idle'
  BY <1>1 DEF Idle, LineEnds
<1>5. \A i \in 1 .. Len(script)' : Truthful(script'[i])
  BY <1>1 DEF FrameInv
<1>6. CASE conn # "connected"
  BY <1>1, <1>2, <1>5, <1>6, AnswersStay DEF FrameInv
<1>7. CASE conn = "connected"
  <2>1. PICK n \in 0 .. Len(script) : Answered(n) /\ AtMessage(n)
    BY <1>7 DEF FrameInv
  <2>2. Answered(n)' /\ AtMessage(n)'
    BY <1>1, <1>3, <2>1, AnswersStay, MessageStays
  <2>3. n \in 0 .. Len(script)'
    BY <1>1, <2>1
  <2>4. (pc = "wait" => Idle') /\ (pc = "parse" /\ pstate = "kExpectRequestLine" => buf # <<>>)
    BY <1>4, <1>7 DEF FrameInv
  <2> QED
    BY <1>1, <1>2, <1>5, <1>7, <2>2, <2>3, <2>4 DEF FrameInv
<1> QED
  BY <1>6, <1>7

(* Nothing that has arrived is left unread while the server waits. *)
LEMMA NothingWaits ==
  ASSUME FrameInv, conn = "connected", pc = "wait", fed = Len(Stream),
         NEW m \in Message, Truthful(m), NEW later \in Seq(Unit), Parsing(m, later)
  PROVE  FALSE
<1>1. BoundInv /\ Idle
  BY DEF FrameInv
<1>2. buf \in Seq(Unit) /\ Stream \in Seq(Unit)
  BY <1>1, RemainingType
<1>3. PICK t \in Seq(Unit) : t = SubSeq(Stream, fed + 1, Len(Stream)) /\ Len(t) = 0 /\ Remaining = buf \o t
  <2>1. PICK st \in Seq(Unit), l \in Nat : st = Stream /\ l = Len(st)
    BY <1>2
  <2>2. SubSeq(st, l + 1, l) \in Seq(Unit) /\ Len(SubSeq(st, l + 1, l)) = l - l
    BY <2>1, SubSeqAfter
  <2>3. l - l = 0 /\ fed = l
    BY <2>1
  <2> QED
    BY <2>1, <2>2, <2>3 DEF Remaining
<1>4. PICK p \in Nat : p = Len(buf)
  BY <1>2
<1>5. Len(buf \o t) = p
  <2>1. Len(buf \o t) = Len(buf) + Len(t)
    BY <1>2, <1>3, ConcatIs
  <2> QED
    BY <1>3, <1>4, <2>1
<1>6. CASE pstate \in {"kExpectRequestLine", "kExpectHeaders"}
  <2>1. PICK j \in Nat : j < Len(Lines(m)) /\ Remaining = Unread(m, j) \o later
    <3>1. PICK h \in Nat : h = Len(m.headers) /\ Len(Lines(m)) = h + 2
      BY LinesType
    <3>2. CASE pstate = "kExpectRequestLine"
      <4>1. Remaining = Unread(m, 0) \o later
        BY <3>2 DEF Parsing
      <4>2. 0 \in Nat /\ 0 < Len(Lines(m))
        BY <3>1
      <4> QED
        BY <4>1, <4>2
    <3>3. CASE pstate = "kExpectHeaders"
      <4>1. PICK i \in 1 .. Len(m.headers) + 1 : Remaining = Unread(m, i) \o later
        BY <3>3 DEF Parsing
      <4>2. i \in Nat /\ i < Len(Lines(m))
        BY <3>1, <4>1
      <4> QED
        BY <4>1, <4>2
    <3> QED
      BY <1>6, <3>2, <3>3
  <2>2. PICK l \in Seq(Unit), x \in Seq(Unit) :
          l = Lines(m)[j + 1] /\ Unread(m, j) \o later = (l \o Crlf) \o x
    <3>1. /\ Unread(m, j) \o later = (Lines(m)[j + 1] \o Crlf) \o (Unread(m, j + 1) \o later)
          /\ Lines(m)[j + 1] \in Seq(Unit) /\ Unread(m, j + 1) \o later \in Seq(Unit)
      BY <2>1, UnreadStep
    <3> QED
      BY <3>1
  <2>3. ~HasCrlf(l)
    <3>1. Len(Lines(m)) \in Nat
      BY LinesType
    <3>2. j + 1 \in 1 .. Len(Lines(m))
      BY <2>1, <3>1
    <3> QED
      BY <2>2, <3>2 DEF Truthful
  <2>4. buf \o t = (l \o Crlf) \o x
    BY <1>3, <2>1, <2>2
  <2>5. LineEnds = {}
    BY <1>1, <1>6 DEF Idle
  <2>6. p < Len(l) + 2
    BY <1>2, <1>3, <1>4, <2>2, <2>3, <2>4, <2>5, FirstLine
  <2>7. PICK a \in Seq(Unit) : a = l \o Crlf /\ Len(a) = Len(l) + 2
    <3>1. Crlf \in Seq(Unit) /\ Len(Crlf) = 2 /\ l \in Seq(Unit)
      BY <2>2, CrlfIs
    <3>2. l \o Crlf \in Seq(Unit) /\ Len(l \o Crlf) = Len(l) + Len(Crlf)
      BY <3>1, ConcatIs
    <3> QED
      BY <3>1, <3>2
  <2>8. Len(a \o x) = Len(a) + Len(x)
    BY <2>2, <2>7, ConcatIs
  <2>9. PICK q \in Nat, r \in Nat : q = Len(l) /\ r = Len(x)
    BY <2>2
  <2>10. p = (q + 2) + r
    BY <1>5, <2>4, <2>7, <2>8, <2>9
  <2>11. p < q + 2
    BY <2>6, <2>9
  <2> QED
    BY <1>4, <2>9, <2>10, <2>11
<1>7. CASE pstate = "kExpectBody"
  <2>1. p < contentLength
    BY <1>1, <1>4, <1>7 DEF Idle
  <2>2. PICK b \in Seq(Unit) : b = m.body /\ contentLength = Len(b) /\ Remaining = b \o later
    BY <1>7 DEF Parsing, Message
  <2>3. Len(b \o later) = Len(b) + Len(later)
    BY <2>2, ConcatIs
  <2>4. PICK q \in Nat, r \in Nat : q = Len(b) /\ r = Len(later)
    BY <2>2
  <2>5. p = q + r /\ p < q
    BY <1>3, <1>5, <2>1, <2>2, <2>3, <2>4
  <2> QED
    BY <1>4, <2>4, <2>5
<1> QED
  BY <1>1, <1>6, <1>7 DEF Idle

(* The answers so far are a prefix of the expected ones. *)
LEMMA AnsweredPrefix ==
  ASSUME script \in Seq(Message), NEW n \in 0 .. Len(script), Answered(n)
  PROVE  IsPrefix(served, Expected) /\ (n = Len(script) => served = Expected)
<1> DEFINE all == [i \in 1 .. Len(script) |-> Deserved(script[i])]
           ends == {i \in 1 .. Len(script) : all[i].close}
           Ans == {Deserved(script[i]) : i \in 1 .. Len(script)}
<1>1. PICK k \in Nat : k = Len(script) /\ n \in Nat /\ n <= k
  OBVIOUS
<1>2. Expected = IF ends = {} THEN all ELSE SubSeq(all, 1, Min(ends))
  BY DEF Expected
<1>3. ends \subseteq Nat /\ ends \subseteq 1 .. k
  BY <1>1
<1>4. \A i \in ends : i \in 1 .. k /\ Deserved(script[i]).close
  BY <1>1
<1>5. all \in Seq(Ans) /\ Len(all) = k /\ \A i \in 1 .. k : all[i] = Deserved(script[i])
  BY <1>1
<1>6. \A i \in 1 .. n : Deserved(script[i]) \in Ans
  <2>1. \A i \in 1 .. n : i \in 1 .. Len(script)
    BY <1>1
  <2> QED
    BY <1>1, <2>1
<1>7. served = [i \in 1 .. n |-> Deserved(script[i])] /\ \A i \in 1 .. n : ~Deserved(script[i]).close
  BY DEF Answered
<1> HIDE DEF all, ends, Ans
<1>8. PICK s \in Seq(Ans) : s = served /\ Len(s) = n /\ \A i \in 1 .. n : s[i] = Deserved(script[i])
  BY <1>1, <1>6, <1>7
<1>9. PICK e \in Seq(Ans), l \in Nat :
        e = Expected /\ l = Len(e) /\ n <= l /\ \A i \in 1 .. n : e[i] = Deserved(script[i])
  <2>1. \A i \in 1 .. n : i \in 1 .. k
    BY <1>1
  <2>2. CASE ends = {}
    BY <1>1, <1>2, <1>5, <2>1, <2>2
  <2>3. CASE ends # {}
    <3>1. PICK q \in ends : q = Min(ends)
      BY <1>3, <2>3, MinInRange
    <3>2. q \in Nat /\ q \in 1 .. k /\ n < q
      BY <1>1, <1>3, <1>4, <1>7, <3>1
    <3>3. /\ SubSeq(all, 0 + 1, q) \in Seq(Ans) /\ Len(SubSeq(all, 0 + 1, q)) = q - 0
          /\ \A i \in 1 .. q - 0 : SubSeq(all, 0 + 1, q)[i] = all[0 + i]
      BY <1>1, <1>5, <3>2, SubSeqAfter
    <3>4. 0 + 1 = 1 /\ q - 0 = q /\ n <= q /\ \A i \in 1 .. n : i \in 1 .. q /\ 0 + i = i
      BY <1>1, <3>2
    <3>5. /\ SubSeq(all, 1, q) \in Seq(Ans) /\ Len(SubSeq(all, 1, q)) = q
          /\ \A i \in 1 .. n : SubSeq(all, 1, q)[i] = Deserved(script[i])
      BY <1>5, <2>1, <3>3, <3>4
    <3>6. Expected = SubSeq(all, 1, q)
      BY <1>2, <2>3, <3>1
    <3> QED
      BY <3>2, <3>4, <3>5, <3>6
  <2> QED
    BY <2>2, <2>3
<1>10. SubSeq(s, 1, n) = SubSeq(e, 1, n)
  <2>1. 0 + 1 = 1 /\ n - 0 = n /\ \A i \in 1 .. n : 0 + i = i
    BY <1>1
  <2>2. /\ SubSeq(s, 0 + 1, n) \in Seq(Ans) /\ Len(SubSeq(s, 0 + 1, n)) = n - 0
        /\ \A i \in 1 .. n - 0 : SubSeq(s, 0 + 1, n)[i] = s[0 + i]
    BY <1>1, <1>8, SubSeqAfter
  <2>3. /\ SubSeq(e, 0 + 1, n) \in Seq(Ans) /\ Len(SubSeq(e, 0 + 1, n)) = n - 0
        /\ \A i \in 1 .. n - 0 : SubSeq(e, 0 + 1, n)[i] = e[0 + i]
    BY <1>1, <1>9, SubSeqAfter
  <2>4. \A i \in 1 .. n : SubSeq(s, 1, n)[i] = SubSeq(e, 1, n)[i]
    BY <1>8, <1>9, <2>1, <2>2, <2>3
  <2> QED
    BY <2>1, <2>2, <2>3, <2>4, SeqEqual
<1>11. IsPrefix(served, Expected)
  BY <1>8, <1>9, <1>10 DEF IsPrefix
<1>12. ASSUME n = k PROVE served = Expected
  <2>1. ends = {}
    BY <1>3, <1>4, <1>7, <1>12
  <2>2. Expected = all /\ Len(all) = n /\ \A i \in 1 .. n : s[i] = all[i]
    BY <1>2, <1>5, <1>8, <1>12, <2>1
  <2>3. s = all
    BY <1>5, <1>8, <2>2, SeqEqual
  <2> QED
    BY <1>8, <2>2, <2>3
<1> QED
  BY <1>1, <1>11, <1>12

(* The expected answers are a sequence. *)
LEMMA ExpectedPrefix == ASSUME script \in Seq(Message) PROVE IsPrefix(Expected, Expected)
<1> DEFINE all == [i \in 1 .. Len(script) |-> Deserved(script[i])]
           ends == {i \in 1 .. Len(script) : all[i].close}
           Ans == {Deserved(script[i]) : i \in 1 .. Len(script)}
<1>1. PICK k \in Nat : k = Len(script)
  OBVIOUS
<1>2. Expected = IF ends = {} THEN all ELSE SubSeq(all, 1, Min(ends))
  BY DEF Expected
<1>3. ends \subseteq Nat /\ ends \subseteq 1 .. k
  BY <1>1
<1>4. all \in Seq(Ans) /\ Len(all) = k
  BY <1>1
<1> HIDE DEF all, ends, Ans
<1>5. Expected \in Seq(Ans)
  <2>1. CASE ends = {}
    BY <1>2, <1>4, <2>1
  <2>2. CASE ends # {}
    <3>1. PICK q \in ends : q = Min(ends)
      BY <1>3, <2>2, MinInRange
    <3>2. q \in Nat /\ q \in 1 .. k
      BY <1>3, <3>1
    <3>3. SubSeq(all, 0 + 1, q) \in Seq(Ans) /\ 0 + 1 = 1
      BY <1>1, <1>4, <3>2, SubSeqAfter
    <3> QED
      BY <1>2, <2>2, <3>1, <3>3
  <2> QED
    BY <2>1, <2>2
<1>6. Len(Expected) \in Nat
  BY <1>5
<1> QED
  BY <1>6 DEF IsPrefix

(* The invariant answers in order. *)
LEMMA FramedInOrder == ASSUME FrameInv PROVE AnsweredInOrder
<1>1. BoundInv /\ script \in Seq(Message) /\ \A i \in 1 .. Len(script) : Truthful(script[i])
  BY DEF FrameInv, BoundInv
<1>2. CASE conn # "connected"
  <2>1. served = Expected
    BY <1>2 DEF FrameInv
  <2> QED
    BY <1>1, <2>1, ExpectedPrefix DEF AnsweredInOrder
<1>3. CASE conn = "connected"
  <2>1. PICK n \in 0 .. Len(script) : Answered(n) /\ AtMessage(n)
    BY <1>3 DEF FrameInv
  <2>2. IsPrefix(served, Expected) /\ (n = Len(script) => served = Expected)
    BY <1>1, <2>1, AnsweredPrefix
  <2>3. ASSUME pc = "wait", fed = Len(Stream), n # Len(script) PROVE FALSE
    <3>1. PICK k \in Nat : k = Len(script) /\ n \in Nat /\ n < k /\ n + 1 \in 1 .. k
      BY <1>1, <2>1, <2>3
    <3>2. Parsing(script[n + 1], Following(n + 1))
      BY <2>1, <2>3 DEF AtMessage
    <3>3. script[n + 1] \in Message /\ Following(n + 1) \in Seq(Unit)
      BY <1>1, <3>1, FollowingStep
    <3>4. Truthful(script[n + 1])
      BY <1>1, <3>1
    <3> QED
      BY <1>3, <2>3, <3>2, <3>3, <3>4, NothingWaits
  <2> QED
    BY <2>2, <2>3 DEF AnsweredInOrder
<1> QED
  BY <1>2, <1>3

(* However the stream is cut into fragments, parseRequest() and onMessage()  *)
(* answer the messages a client sends as they deserve, in their order, and   *)
(* leave none that has arrived unanswered.                                   *)
THEOREM HttpAnswersInOrder == HttpSpec => []AnsweredInOrder
<1>1. HttpInit => BoundInv
  <2> SUFFICES ASSUME HttpInit PROVE BoundInv
    OBVIOUS
  <2>1. script \in Seq(Message)
    BY HttpAssumption DEF HttpInit
  <2>2. Len(Stream) \in Nat
    BY <2>1, StreamType
  <2> QED
    BY <2>1, <2>2, HttpAssumption DEF HttpInit, BoundInv, WaitingInput
<1>2. HttpInit => FrameInv
  BY <1>1, InitFramed
<1>3. FrameInv /\ [HttpNext]_httpVars => FrameInv'
  <2> SUFFICES ASSUME FrameInv, [HttpNext]_httpVars PROVE FrameInv'
    OBVIOUS
  <2>1. CASE UNCHANGED httpVars
    BY <2>1, StutterFramed
  <2>2. CASE HttpNext
    <3>1. BoundInv'
      BY <2>2, FeedBounded, ParserBounded DEF HttpNext, FrameInv
    <3> QED
      BY <2>2, <3>1, FeedFramed, LineMissingFramed, LineTooLongFramed, RequestLineFramed,
         HeaderLineFramed, EndOfHeadersFramed, BadLineFramed, BodyMissingFramed, BodyFramed,
         ServeInferFramed, ServeFramed DEF HttpNext
  <2> QED
    BY <2>1, <2>2
<1>4. FrameInv => AnsweredInOrder
  BY FramedInOrder
<1> QED
  BY <1>2, <1>3, <1>4, PTL DEF HttpSpec
=============================================================================
