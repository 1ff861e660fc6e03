---------------------------- MODULE SequenceFacts ----------------------------
(***************************************************************************)
(* Facts about sequences that several proofs rest on: queues, and what a    *)
(* flattening or a fold of a sequence computes.  The induction theorems of  *)
(* the library take an operator, which no installed prover instantiates;    *)
(* NatSetInduction is induction over a set, and rests on the least element  *)
(* a well-founded order gives every set (WFMin).                            *)
(***************************************************************************)
EXTENDS Integers, Sequences, SequencesExt, FiniteSetsExt, SequenceTheorems,
        WellFoundedInduction, TLAPS

(* An element added at the back of the second half of a queue is added at    *)
(* the back of the whole queue.                                              *)
LEMMA ConcatAppend ==
  ASSUME NEW S, NEW s \in Seq(S), NEW t \in Seq(S), NEW e \in S
  PROVE  s \o Append(t, e) = Append(s \o t, e)
<1>1. s \o t \in Seq(S) /\ <<e>> \in Seq(S)
  BY ConcatProperties
<1>2. (s \o t) \o <<e>> = s \o (t \o <<e>>)
  BY <1>1, ConcatAssociative
<1> QED
  BY <1>1, <1>2, AppendIsConcat

(* A non-empty sequence is its head followed by its tail. *)
LEMMA HeadThenTail ==
  ASSUME NEW S, NEW s \in Seq(S), s # <<>>
  PROVE  s = <<Head(s)>> \o Tail(s)
<1>1. /\ Head(s) \in S /\ Tail(s) \in Seq(S)
      /\ Len(Tail(s)) = Len(s) - 1
      /\ \A i \in 1 .. Len(Tail(s)) : Tail(s)[i] = s[i + 1]
      /\ Head(s) = s[1] /\ Len(s) >= 1 /\ Len(s) \in Nat
  BY HeadTailProperties
<1>2. <<Head(s)>> \in Seq(S) /\ Len(<<Head(s)>>) = 1 /\ <<Head(s)>>[1] = Head(s)
  BY <1>1
<1> DEFINE c == <<Head(s)>> \o Tail(s)
<1>3. /\ c \in Seq(S)
      /\ Len(c) = Len(<<Head(s)>>) + Len(Tail(s))
      /\ \A i \in 1 .. Len(<<Head(s)>>) + Len(Tail(s)) : c[i] =
           IF i <= Len(<<Head(s)>>) THEN <<Head(s)>>[i]
                                    ELSE Tail(s)[i - Len(<<Head(s)>>)]
  BY <1>1, <1>2, ConcatProperties
<1> HIDE DEF c
<1>4. Len(c) = Len(s)
  BY <1>1, <1>2, <1>3
<1>5. \A i \in 1 .. Len(s) : c[i] = s[i]
  <2> SUFFICES ASSUME NEW i \in 1 .. Len(s) PROVE c[i] = s[i]
    OBVIOUS
  <2>1. CASE i = 1
    BY <2>1, <1>1, <1>2, <1>3
  <2>2. CASE i # 1
    <3>1. c[i] = Tail(s)[i - 1]
      BY <2>2, <1>1, <1>2, <1>3
    <3>2. i - 1 \in 1 .. Len(Tail(s)) /\ (i - 1) + 1 = i
      BY <2>2, <1>1
    <3>3. Tail(s)[i - 1] = s[(i - 1) + 1]
      BY <3>2, <1>1
    <3> QED
      BY <3>1, <3>2, <3>3
  <2> QED
    BY <2>1, <2>2
<1>6. c = s
  BY <1>3, <1>4, <1>5
<1> QED
  BY <1>6 DEF c

(* Taking the head of the first half takes the head of the whole queue. *)
LEMMA ConcatHeadTail ==
  ASSUME NEW S, NEW s \in Seq(S), NEW t \in Seq(S), s # <<>>
  PROVE  /\ s \o t # <<>>
         /\ Head(s \o t) = Head(s)
         /\ Tail(s \o t) = Tail(s) \o t
<1>1. Head(s) \in S /\ Tail(s) \in Seq(S) /\ <<Head(s)>> \in Seq(S)
  BY HeadTailProperties
<1> DEFINE u == Tail(s) \o t
<1>2. u \in Seq(S)
  BY <1>1, ConcatProperties
<1>3. s \o t = <<Head(s)>> \o u
  BY <1>1, HeadThenTail, ConcatAssociative
<1>4. s \o t \in Seq(S) /\ s \o t # <<>>
  BY ConcatProperties, ConcatEqualIffEmpty
<1>5. /\ Len(<<Head(s)>> \o u) = 1 + Len(u)
      /\ (<<Head(s)>> \o u)[1] = Head(s)
      /\ \A i \in 1 .. Len(u) : (<<Head(s)>> \o u)[i + 1] = u[i]
  <2> HIDE DEF u
  <2> QED
    BY <1>1, <1>2, ConcatProperties
<1>6. Head(s \o t) = Head(s)
  BY <1>3, <1>4, <1>5, HeadTailProperties
<1>7. Tail(s \o t) = u
  <2> DEFINE w == s \o t
  <2>1. /\ w \in Seq(S) /\ w # <<>> /\ Len(w) = 1 + Len(u)
        /\ \A i \in 1 .. Len(u) : w[i + 1] = u[i]
    BY <1>3, <1>4, <1>5
  <2> HIDE DEF w, u
  <2>2. /\ Tail(w) \in Seq(S) /\ Len(Tail(w)) = Len(u)
        /\ \A i \in 1 .. Len(u) : Tail(w)[i] = u[i]
    BY <2>1, <1>2, HeadTailProperties
  <2>3. Tail(w) = u
    BY <2>2, <1>2
  <2> QED
    BY <2>3 DEF w
<1> QED
  BY <1>4, <1>6, <1>7

(* Moving the head of a queue to the back of what precedes it changes        *)
(* nothing in the concatenation.                                             *)
LEMMA MoveHead ==
  ASSUME NEW S, NEW r \in Seq(S), NEW s \in Seq(S), s # <<>>
  PROVE  Append(r, Head(s)) \o Tail(s) = r \o s
<1>1. Head(s) \in S /\ Tail(s) \in Seq(S) /\ <<Head(s)>> \in Seq(S)
  BY HeadTailProperties
<1>2. Append(r, Head(s)) = r \o <<Head(s)>>
  BY <1>1, AppendIsConcat
<1>3. (r \o <<Head(s)>>) \o Tail(s) = r \o (<<Head(s)>> \o Tail(s))
  BY <1>1, ConcatAssociative
<1> QED
  BY <1>2, <1>3, HeadThenTail

(* What a sequence holds after an element is added at the back. *)
LEMMA RangeAppend ==
  ASSUME NEW S, NEW s \in Seq(S), NEW e \in S
  PROVE  Range(Append(s, e)) = Range(s) \union {e}
<1>1. Append(s, e) \in Seq(S) /\ Len(Append(s, e)) = Len(s) + 1 /\ Len(s) \in Nat
  BY AppendProperties, LenProperties
<1>2. /\ \A i \in 1 .. Len(s) : Append(s, e)[i] = s[i]
      /\ Append(s, e)[Len(s) + 1] = e
  BY AppendProperties
<1>3. Range(s) = {s[i] : i \in 1 .. Len(s)}
  BY RangeEquality
<1>4. Range(Append(s, e)) = {Append(s, e)[i] : i \in 1 .. Len(s) + 1}
  BY <1>1, RangeEquality
<1> DEFINE a == Append(s, e)
<1> HIDE DEF a
<1>5. {a[i] : i \in 1 .. Len(s) + 1} = {a[i] : i \in 1 .. Len(s)} \union {a[Len(s) + 1]}
  BY <1>1
<1>6. {a[i] : i \in 1 .. Len(s)} = {s[i] : i \in 1 .. Len(s)}
  BY <1>2 DEF a
<1> QED
  BY <1>2, <1>3, <1>4, <1>5, <1>6 DEF a

(* A sequence is injective when no two positions hold the same element. *)
LEMMA InjectiveSeq ==
  ASSUME NEW S, NEW s \in Seq(S)
  PROVE  IsInjective(s) <=> \A i, j \in 1 .. Len(s) : i # j => s[i] # s[j]
BY LenProperties DEF IsInjective

(* A new element at the back keeps a sequence free of duplicates. *)
LEMMA InjectiveAppend ==
  ASSUME NEW S, NEW s \in Seq(S), NEW e \in S, IsInjective(s), e \notin Range(s)
  PROVE  IsInjective(Append(s, e))
<1>1. Append(s, e) \in Seq(S) /\ Len(Append(s, e)) = Len(s) + 1 /\ Len(s) \in Nat
  BY AppendProperties, LenProperties
<1>2. /\ \A i \in 1 .. Len(s) : Append(s, e)[i] = s[i]
      /\ Append(s, e)[Len(s) + 1] = e
  BY AppendProperties
<1>3. \A i \in 1 .. Len(s) : s[i] # e
  BY RangeEquality
<1>4. \A i, j \in 1 .. Len(s) : i # j => s[i] # s[j]
  BY InjectiveSeq
<1> DEFINE a == Append(s, e)
<1> HIDE DEF a
<1>5. ASSUME NEW i \in 1 .. Len(s) + 1, NEW j \in 1 .. Len(s) + 1, i # j
      PROVE  a[i] # a[j]
  <2>1. CASE i \in 1 .. Len(s) /\ j \in 1 .. Len(s)
    BY <1>2, <1>4, <1>5, <2>1 DEF a
  <2>2. CASE i = Len(s) + 1
    BY <1>1, <1>2, <1>3, <1>5, <2>2 DEF a
  <2>3. CASE j = Len(s) + 1
    BY <1>1, <1>2, <1>3, <1>5, <2>3 DEF a
  <2> QED
    BY <1>1, <2>1, <2>2, <2>3
<1> QED
  BY <1>1, <1>5, InjectiveSeq DEF a

(* In a queue without duplicates the next element is none of those before. *)
LEMMA HeadIsNew ==
  ASSUME NEW S, NEW r \in Seq(S), NEW s \in Seq(S), s # <<>>, IsInjective(r \o s)
  PROVE  Head(s) \notin Range(r)
<1> DEFINE c == r \o s
<1>1. /\ c \in Seq(S) /\ Len(c) = Len(r) + Len(s) /\ Len(r) \in Nat
      /\ Len(s) \in Nat \ {0} /\ Head(s) = s[1]
  BY ConcatProperties, LenProperties, EmptySeq
<1>2. \A i \in 1 .. Len(r) + Len(s) : c[i] =
         IF i <= Len(r) THEN r[i] ELSE s[i - Len(r)]
  BY ConcatProperties
<1>3. IsInjective(c)
  OBVIOUS
<1> HIDE DEF c
<1>4. \A i, j \in 1 .. Len(c) : i # j => c[i] # c[j]
  BY <1>1, <1>3, InjectiveSeq
<1>5. c[Len(r) + 1] = Head(s)
  <2>1. /\ Len(r) + 1 \in 1 .. Len(r) + Len(s)
        /\ ~(Len(r) + 1 <= Len(r)) /\ (Len(r) + 1) - Len(r) = 1
    BY <1>1
  <2>2. c[Len(r) + 1] = s[(Len(r) + 1) - Len(r)]
    BY <1>2, <2>1
  <2> QED
    BY <1>1, <2>1, <2>2
<1>6. ASSUME NEW i \in 1 .. Len(r) PROVE r[i] # Head(s)
  BY <1>1, <1>2, <1>4, <1>5
<1> QED
  BY <1>6, RangeEquality

(* The two parts of a sequence make the sequence. *)
LEMMA SplitSeq ==
  ASSUME NEW S, NEW s \in Seq(S), NEW k \in Nat, k <= Len(s)
  PROVE  /\ SubSeq(s, 1, k) \in Seq(S)
         /\ SubSeq(s, k + 1, Len(s)) \in Seq(S)
         /\ Len(SubSeq(s, 1, k)) = k
         /\ SubSeq(s, 1, k) \o SubSeq(s, k + 1, Len(s)) = s
<1> DEFINE l == SubSeq(s, 1, k)
           r == SubSeq(s, k + 1, Len(s))
<1>1. /\ l \in Seq(S) /\ Len(l) = k
      /\ \A i \in 1 .. k : l[i] = s[i]
  OBVIOUS
<1>2. /\ r \in Seq(S) /\ Len(r) = Len(s) - k
      /\ \A i \in 1 .. (Len(s) - k) : r[i] = s[k + i]
  OBVIOUS
<1> HIDE DEF l, r
<1>3. l \o r \in Seq(S) /\ Len(l \o r) = Len(s)
  <2>1. l \o r \in Seq(S) /\ Len(l \o r) = Len(l) + Len(r)
    BY <1>1, <1>2, ConcatProperties
  <2>2. k + (Len(s) - k) = Len(s)
    OBVIOUS
  <2> QED BY <2>1, <2>2, <1>1, <1>2
<1>4. \A i \in 1 .. Len(s) : (l \o r)[i] = s[i]
  <2> SUFFICES ASSUME NEW i \in 1 .. Len(s) PROVE (l \o r)[i] = s[i]
    OBVIOUS
  <2>1. CASE i <= k
    BY <2>1, <1>1, <1>2
  <2>2. CASE ~(i <= k)
    <3>1. i - k \in 1 .. (Len(s) - k) /\ k + (i - k) = i
      BY <2>2
    <3>2. (l \o r)[i] = r[i - k]
      BY <2>2, <1>1, <1>2
    <3> QED
      BY <3>1, <3>2, <1>2
  <2> QED
    BY <2>1, <2>2
<1>5. l \o r = s
  BY <1>3, <1>4, SeqEqual
<1> QED BY <1>1, <1>2, <1>5 DEF l, r

-----------------------------------------------------------------------------
(* Induction *)

(* Every set of natural numbers that is not empty has a least element. *)
LEMMA LeastNat ==
  ASSUME NEW T, T \subseteq Nat, T # {}
  PROVE  \E n \in T : \A m \in T : n <= m
<1>1. PICK x \in T : \A y \in T : ~(<<y, x>> \in OpToRel(<, Nat))
  BY NatLessThanWellFounded, WFMin DEF OpToRel
<1>2. \A y \in T : ~(y < x)
  BY <1>1 DEF OpToRel
<1> QED
  BY <1>2

(* What Min() chooses. *)
LEMMA MinInRange ==
  ASSUME NEW T, T \subseteq Nat, T # {}
  PROVE  Min(T) \in T /\ \A y \in T : Min(T) <= y
<1>1. PICK u \in T : \A v \in T : u <= v
  BY LeastNat
<1>2. \E x \in T : \A y \in T : x =< y
  BY <1>1
<1> QED
  BY <1>2 DEF Min

(* A set that holds 0 and the successor of each of its numbers holds all. *)
LEMMA NatSetInduction ==
  ASSUME NEW T, 0 \in T, \A n \in Nat : n \in T => n + 1 \in T
  PROVE  Nat \subseteq T
<1> DEFINE B == {n \in Nat : n \notin T}
<1> SUFFICES ASSUME B # {} PROVE FALSE
  OBVIOUS
<1>1. PICK n \in B : \A m \in B : n <= m
  BY LeastNat
<1>2. n # 0 /\ n \in Nat
  OBVIOUS
<1>3. n - 1 \in Nat /\ n - 1 + 1 = n
  BY <1>2
<1>4. n - 1 \notin B
  BY <1>1, <1>2, <1>3
<1> QED
  BY <1>3, <1>4

(* Where everything is right at the start and after each turn, it is at the end. *)
LEMMA TurnByTurn ==
  ASSUME NEW n \in Nat, NEW S, 0 \in S, \A i \in 1 .. n : i - 1 \in S => i \in S
  PROVE  n \in S
<1> DEFINE T == {i \in Nat : i <= n => i \in S}
<1>1. 0 \in T
  OBVIOUS
<1>2. ASSUME NEW i \in Nat, i \in T PROVE i + 1 \in T
  <2> SUFFICES ASSUME i + 1 <= n PROVE i + 1 \in S
    OBVIOUS
  <2>1. i + 1 \in 1 .. n /\ (i + 1) - 1 = i /\ i <= n
    OBVIOUS
  <2> QED
    BY <1>2, <2>1
<1>3. Nat \subseteq T
  <2> HIDE DEF T
  <2> QED
    BY <1>1, <1>2, NatSetInduction
<1> QED
  BY <1>3

-----------------------------------------------------------------------------
(* FlattenSeq() *)

(* f is the function FlattenSeq() is defined by. *)
Flattens(f, ss, n) ==
  f = [i \in 1 .. n |-> IF i = 1 THEN ss[i] ELSE f[i - 1] \o ss[i]]

(* The partial results of FlattenSeq, one from the other. *)
LEMMA FlattensStep ==
  ASSUME NEW f, NEW ss, NEW n, Flattens(f, ss, n)
  PROVE  \A j \in 1 .. n : f[j] = IF j = 1 THEN ss[j] ELSE f[j - 1] \o ss[j]
BY DEF Flattens

(* There is such a function. *)
LEMMA FlattenExists ==
  ASSUME NEW ss
  PROVE  \A n \in Nat : \E f : Flattens(f, ss, n)
<1> DEFINE T == {n \in Nat : \E f : Flattens(f, ss, n)}
<1>1. 0 \in T
  <2> DEFINE f == [i \in 1 .. 0 |-> ss[i]]
  <2>1. Flattens(f, ss, 0)
    BY DEF Flattens
  <2> QED
    BY <2>1
<1>2. ASSUME NEW n \in Nat, n \in T PROVE n + 1 \in T
  <2>1. PICK f : Flattens(f, ss, n)
    BY <1>2
  <2> DEFINE g == [i \in 1 .. n + 1 |-> IF i <= n THEN f[i]
                     ELSE IF i = 1 THEN ss[i] ELSE f[n] \o ss[i]]
  <2>2. ASSUME NEW i \in 1 .. n + 1
        PROVE  g[i] = IF i = 1 THEN ss[i] ELSE g[i - 1] \o ss[i]
    <3>1. CASE i = 1 /\ i <= n
      BY <2>1, <3>1 DEF Flattens
    <3>2. CASE i # 1 /\ i <= n
      <4>1. i - 1 \in 1 .. n /\ i \in 1 .. n
        BY <3>2
      <4>2. g[i - 1] = f[i - 1]
        BY <4>1
      <4>3. f[i] = f[i - 1] \o ss[i]
        BY <2>1, <3>2, <4>1 DEF Flattens
      <4> QED
        BY <3>2, <4>2, <4>3
    <3>3. CASE ~(i <= n)
      BY <3>3
    <3> QED
      BY <3>1, <3>2, <3>3
  <2>3. g = [i \in 1 .. n + 1 |-> g[i]]
    OBVIOUS
  <2> HIDE DEF g
  <2>4. Flattens(g, ss, n + 1)
    BY <2>2, <2>3 DEF Flattens
  <2> QED
    BY <2>4
<1>3. Nat \subseteq T
  BY <1>1, <1>2, NatSetInduction
<1> QED
  BY <1>3

(* Where two sequences agree, so do the functions. *)
LEMMA FlattenUnique ==
  ASSUME NEW ss, NEW tt, NEW n \in Nat, NEW m \in Nat, NEW f, NEW g,
         Flattens(f, ss, n), Flattens(g, tt, m), n <= m,
         \A i \in 1 .. n : ss[i] = tt[i]
  PROVE  \A i \in 1 .. n : f[i] = g[i]
<1> DEFINE T == {k \in Nat : k + 1 \in 1 .. n => f[k + 1] = g[k + 1]}
<1>1. 0 \in T
  BY DEF Flattens
<1>2. ASSUME NEW k \in Nat, k \in T PROVE k + 1 \in T
  <2> SUFFICES ASSUME k + 2 \in 1 .. n PROVE f[k + 2] = g[k + 2]
    BY k + 1 + 1 = k + 2
  <2>1. f[k + 1] = g[k + 1]
    BY <1>2
  <2> DEFINE j == k + 2
  <2>2. j - 1 = k + 1 /\ j # 1 /\ j \in 1 .. m /\ j \in 1 .. n
    OBVIOUS
  <2> HIDE DEF j
  <2>3. f[j] = f[j - 1] \o ss[j] /\ g[j] = g[j - 1] \o tt[j]
    BY <2>2 DEF Flattens
  <2> QED
    BY <2>1, <2>2, <2>3 DEF j
<1>3. Nat \subseteq T
  BY <1>1, <1>2, NatSetInduction
<1>4. ASSUME NEW i \in 1 .. n PROVE f[i] = g[i]
  <2>1. i - 1 \in Nat /\ i - 1 + 1 = i
    OBVIOUS
  <2> QED
    BY <1>3, <2>1
<1> QED
  BY <1>4

(* FlattenSeq is the last of its partial results. *)
LEMMA FlattenIs ==
  ASSUME NEW ss, Len(ss) \in Nat \ {0}
  PROVE  \E f : Flattens(f, ss, Len(ss)) /\ FlattenSeq(ss) = f[Len(ss)]
<1>1. \E f : Flattens(f, ss, Len(ss))
  BY FlattenExists
<1> QED
  BY <1>1 DEF FlattenSeq, Flattens

(* FlattenSeq of one sequence is that sequence. *)
LEMMA FlattenOne ==
  ASSUME NEW s
  PROVE  FlattenSeq(<<s>>) = s
<1> DEFINE ss == <<s>>
<1>1. Len(ss) = 1 /\ ss[1] = s
  OBVIOUS
<1> HIDE DEF ss
<1>2. Len(ss) \in Nat \ {0}
  BY <1>1
<1>3. PICK f : Flattens(f, ss, Len(ss)) /\ FlattenSeq(ss) = f[Len(ss)]
  BY <1>2, FlattenIs
<1>4. f[1] = ss[1]
  BY <1>1, <1>3, FlattensStep
<1> QED
  BY <1>1, <1>3, <1>4 DEF ss

(* The same sequence with one more behind it. *)
LEMMA FlattenExtend ==
  ASSUME NEW ss, NEW tt, NEW n \in Nat \ {0}, Len(ss) = n, Len(tt) = n + 1,
         \A i \in 1 .. n : ss[i] = tt[i]
  PROVE  FlattenSeq(tt) = FlattenSeq(ss) \o tt[n + 1]
<1>1. PICK f : Flattens(f, ss, n) /\ FlattenSeq(ss) = f[n]
  BY FlattenIs
<1>2. PICK g : Flattens(g, tt, n + 1) /\ FlattenSeq(tt) = g[n + 1]
  BY FlattenIs
<1>3. n <= n + 1 /\ n + 1 \in Nat /\ n \in 1 .. n
  OBVIOUS
<1>4. f[n] = g[n]
  BY <1>1, <1>2, <1>3, FlattenUnique
<1>5. ASSUME NEW j, j = n + 1 PROVE g[j] = g[n] \o tt[j]
  <2>1. j \in 1 .. j /\ ~(j = 1) /\ j - 1 = n
    BY <1>5
  <2>2. Flattens(g, tt, j)
    BY <1>2, <1>5
  <2>3. \A i \in 1 .. j : g[i] = IF i = 1 THEN tt[i] ELSE g[i - 1] \o tt[i]
    BY <2>2, FlattensStep
  <2>4. g[j] = IF j = 1 THEN tt[j] ELSE g[j - 1] \o tt[j]
    BY <2>1, <2>3
  <2> QED
    BY <2>1, <2>4
<1> QED
  BY <1>1, <1>2, <1>4, <1>5

(* A flattening of sequences over S is a sequence over S. *)
LEMMA FlattenType ==
  ASSUME NEW S, NEW ss \in Seq(Seq(S))
  PROVE  FlattenSeq(ss) \in Seq(S)
<1>1. CASE ss = <<>>
  BY <1>1 DEF FlattenSeq
<1>2. CASE ss # <<>>
  <2>1. PICK n \in Nat \ {0} : n = Len(ss) /\ \A i \in 1 .. n : ss[i] \in Seq(S)
    BY <1>2, EmptySeq
  <2>2. PICK f : Flattens(f, ss, n) /\ FlattenSeq(ss) = f[n]
    BY <2>1, FlattenIs
  <2> DEFINE T == {k \in Nat : k + 1 \in 1 .. n => f[k + 1] \in Seq(S)}
  <2>3. 0 \in T
    BY <2>1, <2>2 DEF Flattens
  <2>4. ASSUME NEW k \in Nat, k \in T PROVE k + 1 \in T
    <3> SUFFICES ASSUME k + 1 + 1 \in 1 .. n PROVE f[k + 1 + 1] \in Seq(S)
      OBVIOUS
    <3> DEFINE j == k + 1 + 1
    <3>1. j - 1 = k + 1 /\ j # 1 /\ j \in 1 .. n /\ k + 1 \in 1 .. n
      BY <2>1
    <3> HIDE DEF j
    <3>2. f[j] = f[j - 1] \o ss[j]
      BY <2>2, <3>1 DEF Flattens
    <3>3. f[k + 1] \in Seq(S) /\ ss[j] \in Seq(S)
      BY <2>1, <2>4, <3>1
    <3>4. f[j] \in Seq(S)
      BY <3>1, <3>2, <3>3, ConcatProperties
    <3> QED
      BY <3>4 DEF j
  <2>5. Nat \subseteq T
    BY <2>3, <2>4, NatSetInduction
  <2>6. n - 1 \in Nat /\ n - 1 + 1 = n /\ n \in 1 .. n
    BY <2>1
  <2>7. n - 1 + 1 \in 1 .. n => f[n - 1 + 1] \in Seq(S)
    BY <2>5, <2>6
  <2> HIDE DEF T
  <2> QED
    BY <2>2, <2>6, <2>7
<1> QED
  BY <1>1, <1>2

(* One more sequence at the back. *)
LEMMA FlattenAppend ==
  ASSUME NEW S, NEW ss \in Seq(Seq(S)), NEW s \in Seq(S)
  PROVE  FlattenSeq(Append(ss, s)) = FlattenSeq(ss) \o s
<1> DEFINE tt == Append(ss, s)
<1>1. CASE ss = <<>>
  <2>1. tt = <<s>> /\ FlattenSeq(ss) = <<>>
    BY <1>1 DEF FlattenSeq
  <2> HIDE DEF tt
  <2>2. FlattenSeq(tt) = s
    BY <2>1, FlattenOne
  <2>3. <<>> \o s = s
    BY ConcatEmptySeq
  <2> QED
    BY <2>1, <2>2, <2>3 DEF tt
<1>2. CASE ss # <<>>
  <2>1. PICK n \in Nat \ {0} : n = Len(ss)
    BY <1>2, EmptySeq
  <2>2. Len(tt) = n + 1 /\ tt[n + 1] = s /\ \A i \in 1 .. n : ss[i] = tt[i]
    BY <2>1, AppendProperties
  <2> HIDE DEF tt
  <2>3. FlattenSeq(tt) = FlattenSeq(ss) \o tt[n + 1]
    BY <2>1, <2>2, FlattenExtend
  <2> QED
    BY <2>2, <2>3 DEF tt
<1> QED
  BY <1>1, <1>2

(* A sequence that is not empty is its front with its last element behind. *)
LEMMA FrontThenLast ==
  ASSUME NEW S, NEW s \in Seq(S), NEW n \in Nat, Len(s) = n + 1
  PROVE  /\ SubSeq(s, 1, n) \in Seq(S) /\ Len(SubSeq(s, 1, n)) = n
         /\ s[n + 1] \in S
         /\ s = Append(SubSeq(s, 1, n), s[n + 1])
<1> DEFINE f == SubSeq(s, 1, n)
           a == Append(f, s[n + 1])
<1>1. /\ f \in Seq(S) /\ Len(f) = n /\ \A i \in 1 .. n : f[i] = s[i]
      /\ s[n + 1] \in S
  OBVIOUS
<1> HIDE DEF f
<1>2. /\ a \in Seq(S) /\ Len(a) = n + 1 /\ a[n + 1] = s[n + 1]
      /\ \A i \in 1 .. n : a[i] = s[i]
  BY <1>1, AppendProperties
<1> HIDE DEF a
<1>3. \A i \in 1 .. n + 1 : a[i] = s[i]
  BY <1>2
<1>4. a = s
  BY <1>2, <1>3
<1> QED
  BY <1>1, <1>4 DEF a, f

(* Append and concatenation of sequences of sequences. *)
LEMMA SeqOfSeqAppend ==
  \A S : \A a, b \in Seq(Seq(S)), c \in Seq(S) :
    a \o Append(b, c) = Append(a \o b, c) /\ a \o b \in Seq(Seq(S))
<1> SUFFICES ASSUME NEW X, NEW a \in Seq(X), NEW b \in Seq(X), NEW c \in X
             PROVE  a \o Append(b, c) = Append(a \o b, c) /\ a \o b \in Seq(X)
  OBVIOUS
<1> QED
  BY ConcatAppend, ConcatProperties

(* The flattening of a concatenation. *)
LEMMA FlattenConcat ==
  ASSUME NEW S, NEW ss \in Seq(Seq(S)), NEW tt \in Seq(Seq(S))
  PROVE  FlattenSeq(ss \o tt) = FlattenSeq(ss) \o FlattenSeq(tt)
<1>1. \A a, b, c \in Seq(S) : (a \o b) \o c = a \o (b \o c)
  <2> SUFFICES ASSUME NEW a \in Seq(S), NEW b \in Seq(S), NEW c \in Seq(S)
               PROVE  (a \o b) \o c = a \o (b \o c)
    OBVIOUS
  <2> QED
    BY SMTT(30)
<1> DEFINE Holds(uu) == FlattenSeq(ss \o uu) = FlattenSeq(ss) \o FlattenSeq(uu)
           T == {n \in Nat : \A uu \in Seq(Seq(S)) : Len(uu) = n => Holds(uu)}
<1>2. 0 \in T
  <2> SUFFICES ASSUME NEW uu \in Seq(Seq(S)), Len(uu) = 0 PROVE Holds(uu)
    OBVIOUS
  <2>1. uu = <<>>
    BY EmptySeq
  <2>2. ss \o uu = ss /\ FlattenSeq(uu) = <<>> /\ FlattenSeq(ss) \in Seq(S)
    BY <2>1, ConcatEmptySeq, FlattenType DEF FlattenSeq
  <2> QED
    BY <2>2, ConcatEmptySeq
<1>3. ASSUME NEW n \in Nat, n \in T PROVE n + 1 \in T
  <2> SUFFICES ASSUME NEW uu \in Seq(Seq(S)), Len(uu) = n + 1 PROVE Holds(uu)
    OBVIOUS
  <2>1. PICK vv \in Seq(Seq(S)), v \in Seq(S) : Len(vv) = n /\ uu = Append(vv, v)
    <3> DEFINE X == Seq(S)
    <3> HIDE DEF X
    <3>1. uu \in Seq(X)
      BY DEF X
    <3>2. /\ SubSeq(uu, 1, n) \in Seq(X) /\ Len(SubSeq(uu, 1, n)) = n
          /\ uu[n + 1] \in X /\ uu = Append(SubSeq(uu, 1, n), uu[n + 1])
      BY <3>1, FrontThenLast
    <3> QED
      BY <3>2 DEF X
  <2>2. Holds(vv)
    BY <1>3, <2>1
  <2>3. ss \o uu = Append(ss \o vv, v) /\ ss \o vv \in Seq(Seq(S))
    BY <2>1, SeqOfSeqAppend
  <2>4. FlattenSeq(ss \o uu) = FlattenSeq(ss \o vv) \o v
    BY <2>3, FlattenAppend
  <2>5. FlattenSeq(uu) = FlattenSeq(vv) \o v
    BY <2>1, FlattenAppend
  <2>6. PICK a \in Seq(S), b \in Seq(S) : a = FlattenSeq(ss) /\ b = FlattenSeq(vv)
    BY FlattenType
  <2>7. (a \o b) \o v = a \o (b \o v)
    BY <1>1
  <2>8. FlattenSeq(ss \o vv) = a \o b
    BY <2>2, <2>6
  <2>9. FlattenSeq(ss \o uu) = a \o (b \o v)
    BY <2>4, <2>7, <2>8
  <2> QED
    BY <2>5, <2>6, <2>9
<1> HIDE DEF Holds
<1>4. Nat \subseteq T
  <2> HIDE DEF T
  <2> QED
    BY <1>2, <1>3, NatSetInduction
<1>5. Len(tt) \in Nat
  OBVIOUS
<1>6. Holds(tt)
  BY <1>4, <1>5
<1> QED
  BY <1>6 DEF Holds

-----------------------------------------------------------------------------
(* The library's facts on concatenations and parts, by length and element *)

(* The elements of a concatenation. *)
LEMMA ConcatIs ==
  ASSUME NEW S, NEW a \in Seq(S), NEW b \in Seq(S)
  PROVE  /\ a \o b \in Seq(S) /\ Len(a \o b) = Len(a) + Len(b)
         /\ \A i \in 1 .. Len(a) : (a \o b)[i] = a[i]
         /\ \A i \in 1 .. Len(b) : (a \o b)[Len(a) + i] = b[i]
<1>0. PICK m \in Nat, n \in Nat : m = Len(a) /\ n = Len(b)
  OBVIOUS
<1>1. /\ a \o b \in Seq(S) /\ Len(a \o b) = m + n
      /\ \A i \in 1 .. m + n : (a \o b)[i] = IF i <= m THEN a[i] ELSE b[i - m]
  BY <1>0, ConcatProperties
<1>2. PICK c : c = a \o b
  OBVIOUS
<1>3. \A i \in 1 .. m + n : c[i] = IF i <= m THEN a[i] ELSE b[i - m]
  BY <1>1, <1>2
<1>4. \A i \in 1 .. m : c[i] = a[i]
  BY <1>3
<1>5. ASSUME NEW i \in 1 .. n PROVE c[m + i] = b[i]
  <2>1. m + i \in 1 .. m + n /\ ~(m + i <= m) /\ m + i - m = i
    OBVIOUS
  <2> QED
    BY <1>3, <2>1
<1> QED
  BY <1>0, <1>1, <1>2, <1>4, <1>5

(* What looks like a concatenation is one. *)
LEMMA IsConcat ==
  ASSUME NEW S, NEW a \in Seq(S), NEW b \in Seq(S), NEW c \in Seq(S),
         Len(c) = Len(a) + Len(b),
         \A i \in 1 .. Len(a) : c[i] = a[i],
         \A i \in 1 .. Len(b) : c[Len(a) + i] = b[i]
  PROVE  c = a \o b
<1>0. PICK m \in Nat, n \in Nat : m = Len(a) /\ n = Len(b)
  OBVIOUS
<1>1. PICK d \in Seq(S) : /\ d = a \o b /\ Len(d) = m + n
                          /\ \A i \in 1 .. m : d[i] = a[i]
                          /\ \A i \in 1 .. n : d[m + i] = b[i]
  <2>1. /\ a \o b \in Seq(S) /\ Len(a \o b) = Len(a) + Len(b)
        /\ \A i \in 1 .. Len(a) : (a \o b)[i] = a[i]
        /\ \A i \in 1 .. Len(b) : (a \o b)[Len(a) + i] = b[i]
    BY ConcatIs
  <2> QED
    BY <1>0, <2>1
<1>2. /\ \A i \in 1 .. m : c[i] = d[i]
      /\ \A i \in 1 .. n : c[m + i] = d[m + i]
  BY <1>0, <1>1
<1>3. ASSUME NEW i \in 1 .. m + n PROVE c[i] = d[i]
  <2>1. CASE i <= m
    BY <1>2, <2>1
  <2>2. CASE i > m
    <3>1. PICK j \in 1 .. n : j = i - m
      BY <2>2
    <3>2. m + j = i
      BY <3>1
    <3> QED
      BY <1>2, <3>2
  <2> QED
    BY <2>1, <2>2
<1>4. c = d
  BY <1>0, <1>1, <1>3, SeqEqual
<1> QED
  BY <1>1, <1>4

(* The elements of a part of a sequence. *)
LEMMA SubSeqIs ==
  ASSUME NEW S, NEW s \in Seq(S), NEW m \in Nat \ {0}, NEW n \in Nat, n <= Len(s)
  PROVE  /\ SubSeq(s, m, n) \in Seq(S)
         /\ Len(SubSeq(s, m, n)) = IF m <= n THEN n - m + 1 ELSE 0
         /\ \A i \in 1 .. n - m + 1 : SubSeq(s, m, n)[i] = s[m + i - 1]
<1>1. \A i \in m .. n : s[i] \in S
  OBVIOUS
<1> QED
  BY <1>1, SubSeqProperties

(* The first element of a suffix, and the rest. *)
LEMMA SubSeqHead ==
  ASSUME NEW S, NEW s \in Seq(S), NEW m \in Nat \ {0}, NEW n \in Nat, n = Len(s), m <= n
  PROVE  /\ SubSeq(s, m + 1, n) \in Seq(S)
         /\ SubSeq(s, m, n) = <<s[m]>> \o SubSeq(s, m + 1, n)
<1>0. s[m] \in S /\ m + 1 \in Nat \ {0} /\ n - (m + 1) + 1 = n - m
  OBVIOUS
<1>1. PICK a \in Seq(S) : /\ a = SubSeq(s, m, n) /\ Len(a) = n - m + 1
                          /\ \A i \in 1 .. n - m + 1 : a[i] = s[m + i - 1]
  <2>1. /\ SubSeq(s, m, n) \in Seq(S)
        /\ Len(SubSeq(s, m, n)) = IF m <= n THEN n - m + 1 ELSE 0
        /\ \A i \in 1 .. n - m + 1 : SubSeq(s, m, n)[i] = s[m + i - 1]
    BY SubSeqIs
  <2> QED
    BY <2>1
<1>2. PICK b \in Seq(S) : /\ b = SubSeq(s, m + 1, n) /\ Len(b) = n - m
                          /\ \A i \in 1 .. n - m : b[i] = s[m + 1 + i - 1]
  <2>1. /\ SubSeq(s, m + 1, n) \in Seq(S)
        /\ Len(SubSeq(s, m + 1, n)) = IF m + 1 <= n THEN n - (m + 1) + 1 ELSE 0
        /\ \A i \in 1 .. n - (m + 1) + 1 : SubSeq(s, m + 1, n)[i] = s[m + 1 + i - 1]
    BY <1>0, SubSeqIs
  <2>2. Len(SubSeq(s, m + 1, n)) = n - m
    BY <1>0, <2>1
  <2> QED
    BY <1>0, <2>1, <2>2
<1>3. PICK h \in Seq(S) : h = <<s[m]>> /\ Len(h) = 1 /\ h[1] = s[m]
  <2>1. <<s[m]>> \in Seq(S) /\ Len(<<s[m]>>) = 1 /\ <<s[m]>>[1] = s[m]
    BY <1>0
  <2> QED
    BY <2>1
<1>4. Len(a) = Len(h) + Len(b) /\ \A i \in 1 .. Len(h) : a[i] = h[i]
  BY <1>1, <1>2, <1>3
<1>5. \A i \in 1 .. Len(b) : a[Len(h) + i] = b[i]
  <2> SUFFICES ASSUME NEW i \in 1 .. n - m PROVE a[1 + i] = b[i]
    BY <1>2, <1>3
  <2>1. PICK j \in 1 .. n - m + 1 : j = 1 + i
    OBVIOUS
  <2>2. m + j - 1 = m + i
    BY <2>1
  <2>3. a[j] = s[m + j - 1]
    BY <1>1
  <2>4. b[i] = s[m + 1 + i - 1] /\ m + 1 + i - 1 = m + i
    BY <1>2
  <2> QED
    BY <2>1, <2>2, <2>3, <2>4
<1>6. a = h \o b
  BY <1>4, <1>5, IsConcat
<1> QED
  BY <1>1, <1>2, <1>3, <1>6

-----------------------------------------------------------------------------
(* FoldLeft(), which goes through the positions of a sequence by Max() *)

(* The largest of a set that holds its upper bound. *)
LEMMA MaxIs ==
  ASSUME NEW n \in Nat, NEW s \in SUBSET (1 .. n + 1), n + 1 \in s
  PROVE  Max(s) = n + 1
<1>1. \A y \in s : n + 1 >= y
  OBVIOUS
<1>2. \A x \in s : (\A y \in s : x >= y) => x = n + 1
  OBVIOUS
<1> QED
  BY <1>1, <1>2 DEF Max

(* A non-empty set of numbers up to a bound has a largest one. *)
LEMMA MaxInRange ==
  ASSUME NEW n \in Nat, NEW t \in SUBSET (1 .. n), t # {}
  PROVE  Max(t) \in t
<1> DEFINE U == {u \in Nat : \A y \in t : u >= y}
<1>1. n \in U /\ U \subseteq Nat
  OBVIOUS
<1>2. PICK u \in U : \A v \in U : u <= v
  BY <1>1, LeastNat
<1>3. u \in t
  <2> SUFFICES ASSUME u \notin t PROVE FALSE
    OBVIOUS
  <2>1. PICK e \in t : TRUE
    OBVIOUS
  <2>2. u >= e /\ e \in Nat \ {0} /\ u \in Nat
    BY <1>2
  <2>3. u - 1 \in Nat /\ \A y \in t : u - 1 >= y
    BY <1>2, <2>2
  <2>4. u - 1 \in U
    BY <2>3
  <2> QED
    BY <1>2, <2>2, <2>4
<1>4. \E x \in t : \A y \in t : x >= y
  BY <1>2, <1>3
<1> QED
  BY <1>4 DEF Max

(* The positions up to k, and the ones before them. *)
LEMMA PrefixSets ==
  ASSUME NEW n \in Nat, NEW k \in 1 .. n
  PROVE  /\ 1 .. k \in SUBSET (1 .. n) /\ 1 .. k # {}
         /\ Max(1 .. k) = k /\ (1 .. k) \ {k} = 1 .. k - 1
<1>1. PICK j \in Nat : j + 1 = k
  <2>1. k - 1 \in Nat /\ k - 1 + 1 = k
    OBVIOUS
  <2> QED
    BY <2>1
<1>2. 1 .. k \in SUBSET (1 .. j + 1) /\ j + 1 \in 1 .. k
  BY <1>1
<1>3. Max(1 .. k) = k
  BY <1>1, <1>2, MaxIs
<1> QED
  BY <1>3

(* it is the function a fold of F over n positions is defined by. *)
FoldEq(it, F, base, n) ==
  \A s \in SUBSET (1 .. n) :
    it[s] = IF s = {} THEN base ELSE F[<<it[s \ {Max(s)}], Max(s)>>]

(* There is such a function, and its values are of the type of F's. *)
LEMMA FoldExists ==
  ASSUME NEW S, NEW base \in S, NEW F
  PROVE  \A n \in Nat :
           (\A x \in S, i \in 1 .. n : F[<<x, i>>] \in S) =>
             \E it \in [SUBSET (1 .. n) -> S] : FoldEq(it, F, base, n)
<1> DEFINE Typed(n) == \A x \in S, i \in 1 .. n : F[<<x, i>>] \in S
           Exists(n) == \E it \in [SUBSET (1 .. n) -> S] : FoldEq(it, F, base, n)
           T == {n \in Nat : Typed(n) => Exists(n)}
<1>1. 0 \in T
  <2> DEFINE it == [s \in SUBSET (1 .. 0) |-> base]
  <2>1. \A s \in SUBSET (1 .. 0) : s = {} /\ it[s] = base
    OBVIOUS
  <2>2. it \in [SUBSET (1 .. 0) -> S]
    OBVIOUS
  <2> HIDE DEF it
  <2>3. FoldEq(it, F, base, 0)
    BY <2>1 DEF FoldEq
  <2> HIDE DEF Typed
  <2> QED
    BY <2>2, <2>3
<1>2. ASSUME NEW n \in Nat, n \in T PROVE n + 1 \in T
  <2> SUFFICES ASSUME Typed(n + 1) PROVE Exists(n + 1)
    <3> HIDE DEF Typed, Exists
    <3> QED
      OBVIOUS
  <2>1. \A e : e \in 1 .. n + 1 /\ e # n + 1 => e \in 1 .. n
    OBVIOUS
  <2>2. Typed(n)
    <3>1. \A e : e \in 1 .. n => e \in 1 .. n + 1
      OBVIOUS
    <3> QED
      BY <3>1
  <2>3. \A x \in S : F[<<x, n + 1>>] \in S
    <3>1. n + 1 \in 1 .. n + 1
      OBVIOUS
    <3> QED
      BY <3>1
  <2>4. \A s \in SUBSET (1 .. n + 1) : s \ {n + 1} \in SUBSET (1 .. n)
    BY <2>1
  <2>5. \A s \in SUBSET (1 .. n + 1) : n + 1 \notin s => s \in SUBSET (1 .. n)
    BY <2>1
  <2> HIDE DEF Typed
  <2>6. PICK it \in [SUBSET (1 .. n) -> S] : FoldEq(it, F, base, n)
    BY <1>2, <2>2
  <2> DEFINE jt == [s \in SUBSET (1 .. n + 1) |->
                     IF n + 1 \in s THEN F[<<it[s \ {n + 1}], n + 1>>] ELSE it[s]]
  <2>7. jt \in [SUBSET (1 .. n + 1) -> S]
    <3>1. ASSUME NEW s \in SUBSET (1 .. n + 1), n + 1 \in s
          PROVE  F[<<it[s \ {n + 1}], n + 1>>] \in S
      <4>1. it[s \ {n + 1}] \in S
        BY <2>4
      <4> QED
        BY <4>1, <2>3
    <3>2. ASSUME NEW s \in SUBSET (1 .. n + 1), n + 1 \notin s
          PROVE  it[s] \in S
      BY <2>5, <3>2
    <3> QED
      BY <3>1, <3>2
  <2>8. ASSUME NEW s \in SUBSET (1 .. n + 1)
        PROVE  jt[s] = IF s = {} THEN base ELSE F[<<jt[s \ {Max(s)}], Max(s)>>]
    <3>1. CASE n + 1 \in s
      <4>1. Max(s) = n + 1
        BY <3>1, MaxIs
      <4>2. s \ {n + 1} \in SUBSET (1 .. n + 1) /\ n + 1 \notin s \ {n + 1}
        OBVIOUS
      <4>3. jt[s \ {n + 1}] = it[s \ {n + 1}]
        BY <4>2
      <4> QED
        BY <3>1, <4>1, <4>3
    <3>2. CASE n + 1 \notin s
      <4>1. s \in SUBSET (1 .. n)
        BY <3>2, <2>5
      <4>2. it[s] = IF s = {} THEN base ELSE F[<<it[s \ {Max(s)}], Max(s)>>]
        BY <2>6, <4>1 DEF FoldEq
      <4>3. jt[s] = it[s]
        BY <3>2
      <4> DEFINE m == Max(s)
                 r == s \ {m}
      <4> HIDE DEF m
      <4>4. r \in SUBSET (1 .. n + 1) /\ n + 1 \notin r
        BY <3>2
      <4> HIDE DEF r
      <4>5. jt[r] = it[r]
        BY <4>4
      <4> HIDE DEF jt
      <4> QED
        BY <4>2, <4>3, <4>5 DEF m, r
    <3> QED
      BY <3>1, <3>2
  <2> HIDE DEF jt
  <2>9. FoldEq(jt, F, base, n + 1)
    BY <2>8 DEF FoldEq
  <2> QED
    BY <2>7, <2>9
<1> HIDE DEF Typed
<1>3. Nat \subseteq T
  <2> HIDE DEF T
  <2> QED
    BY <1>1, <1>2, NatSetInduction
<1> QED
  BY <1>3 DEF Typed
=============================================================================
