----------------------------- MODULE TimersProofs -----------------------------
(***************************************************************************)
(* What is proved of the time wheel (IdleWheel) and of the timers           *)
(* (TimerQueue).                                                            *)
(***************************************************************************)
EXTENDS TimerQueue, IdleWheel, FiniteSetTheorems, TLAPS

-----------------------------------------------------------------------------
(* The wheel *)

(* The index after one of the ring. *)
LEMMA NextSlot ==
  ASSUME NEW n \in Nat \ {0}, NEW i \in 0 .. n - 1
  PROVE  (i + 1) % n = IF i = n - 1 THEN 0 ELSE i + 1
OBVIOUS

WheelType ==
  /\ bucket \in [Slots -> SUBSET Peers] /\ head \in Slots /\ tail \in Slots
  /\ full \in BOOLEAN /\ turns \in Nat /\ heard \in [Peers -> Nat]
  /\ peer \in [Peers -> {"none", "connected", "shut", "closed"}]

(* The ring fills up once and is full ever after. *)
RingInv ==
  /\ ~full => head = 0 /\ tail = turns /\ turns < IdleSeconds
  /\ full => head = tail /\ turns >= IdleSeconds

(* back() is the bucket that enqueue() empties: no other holds anything, and *)
(* an open connection has been heard of in this very turn.                   *)
OneTurnOnly ==
  /\ \A i \in Slots : i # tail => bucket[i] = {}
  /\ \A c \in Peers : /\ peer[c] = "connected" => c \in bucket[tail] /\ heard[c] = turns
                      /\ peer[c] = "shut" => c \notin bucket[tail]

WheelInv == WheelType /\ RingInv /\ OneTurnOnly

(* So the entries held are the ones in that bucket. *)
LEMMA HeldAtTail == WheelInv => Held(bucket) = bucket[tail]
BY DEF WheelInv, WheelType, OneTurnOnly, Held

(* A turn of the wheel drops every entry there is. *)
LEMMA TimerTurn == WheelInv /\ OnTimer => WheelInv'
<1> SUFFICES ASSUME WheelInv, OnTimer PROVE WheelInv'
  OBVIOUS
<1> USE WheelAssumption DEF Slots
<1>1. /\ turns' = turns + 1 /\ heard' = heard
      /\ bucket' = [bucket EXCEPT ![tail] = {}]
      /\ tail' = (tail + 1) % IdleSeconds
      /\ head' = IF full THEN (head + 1) % IdleSeconds ELSE head
      /\ full' = (tail' = head')
  BY DEF OnTimer, Enqueue
<1>2. /\ tail \in 0 .. IdleSeconds - 1 /\ head \in 0 .. IdleSeconds - 1
      /\ turns \in Nat /\ IdleSeconds \in Nat \ {0}
  BY DEF WheelInv, WheelType
<1>3. /\ tail' = IF tail = IdleSeconds - 1 THEN 0 ELSE tail + 1
      /\ full => head' = tail'
  BY <1>1, <1>2, NextSlot DEF WheelInv, RingInv
<1>4. tail' \in Slots /\ head' \in Slots
  BY <1>1, <1>2, <1>3
<1>5. full' \in BOOLEAN
  BY <1>1
<1>6. RingInv'
  <2>1. CASE full
    <3>1. head' = tail' /\ turns' >= IdleSeconds
      BY <2>1, <1>1, <1>2, <1>3 DEF WheelInv, RingInv
    <3>2. full'
      BY <3>1, <1>1
    <3> QED BY <3>1, <3>2 DEF RingInv
  <2>2. CASE ~full
    <3>1. head' = 0 /\ tail = turns /\ turns < IdleSeconds
      BY <2>2, <1>1 DEF WheelInv, RingInv
    <3>2. tail' = 0 <=> turns' >= IdleSeconds
      BY <3>1, <1>1, <1>2, <1>3
    <3>3. tail' # 0 => tail' = turns' /\ turns' < IdleSeconds
      BY <3>1, <1>1, <1>2, <1>3
    <3> QED BY <3>1, <3>2, <3>3, <1>1 DEF RingInv
  <2> QED BY <2>1, <2>2
<1>7. \A i \in Slots : bucket'[i] = {}
  BY <1>1, <1>2 DEF WheelInv, WheelType, OneTurnOnly
<1>8. Held(bucket') = {}
  BY <1>7 DEF Held
<1>9. peer' = [c \in Peers |-> IF peer[c] = "connected" THEN "shut" ELSE peer[c]]
  BY <1>8, HeldAtTail DEF OnTimer, DestroyEntries, WheelInv, OneTurnOnly
<1>10. WheelType'
  BY <1>1, <1>2, <1>4, <1>5, <1>9 DEF WheelInv, WheelType
<1>11. OneTurnOnly'
  BY <1>4, <1>7, <1>9 DEF OneTurnOnly
<1> QED BY <1>6, <1>10, <1>11 DEF WheelInv

(* A connection, a message and a close touch only the last bucket. *)
LEMMA WheelStep == WheelInv /\ [WheelNext]_wheelVars => WheelInv'
<1> SUFFICES ASSUME WheelInv, [WheelNext]_wheelVars PROVE WheelInv'
  OBVIOUS
<1>1. CASE OnTimer
  BY <1>1, TimerTurn
<1>2. ASSUME NEW c \in Peers, OnConnection(c) PROVE WheelInv'
  <2>1. WheelType' /\ RingInv'
    BY <1>2 DEF OnConnection, InsertAtBack, Back, WheelInv, WheelType, RingInv
  <2>2. OneTurnOnly'
    BY <1>2 DEF OnConnection, InsertAtBack, Back, WheelInv, WheelType, OneTurnOnly
  <2> QED BY <2>1, <2>2 DEF WheelInv
<1>3. ASSUME NEW c \in Peers, OnMessage(c) PROVE WheelInv'
  <2>1. bucket' = IF c \in bucket[tail] THEN [bucket EXCEPT ![tail] = @ \union {c}] ELSE bucket
    BY <1>3, HeldAtTail DEF OnMessage, InsertAtBack, Back
  <2>2. bucket' = bucket
    BY <2>1 DEF WheelInv, WheelType
  <2> QED BY <1>3, <2>2 DEF OnMessage, WheelInv, WheelType, RingInv, OneTurnOnly
<1>4. ASSUME NEW c \in Peers, PeerCloses(c) PROVE WheelInv'
  BY <1>4 DEF PeerCloses, ring, WheelInv, WheelType, RingInv, OneTurnOnly
<1>5. CASE UNCHANGED wheelVars
  BY <1>5 DEF wheelVars, ring, WheelInv, WheelType, RingInv, OneTurnOnly
<1> QED BY <1>1, <1>2, <1>3, <1>4, <1>5 DEF WheelNext

(* The inductive invariant of the wheel. *)
LEMMA WheelCorrect == WheelSpec => []WheelInv
<1>1. WheelInit => WheelInv
  <2> SUFFICES ASSUME WheelInit PROVE WheelInv
    OBVIOUS
  <2>1. 0 \in Slots /\ 0 < IdleSeconds
    BY WheelAssumption DEF Slots
  <2>2. WheelType
    BY <2>1 DEF WheelInit, WheelType
  <2>3. RingInv /\ OneTurnOnly
    BY <2>1 DEF WheelInit, RingInv, OneTurnOnly
  <2> QED BY <2>2, <2>3 DEF WheelInv
<1> QED BY <1>1, WheelStep, PTL DEF WheelSpec

(* An open connection has an entry in a bucket that will be emptied, an      *)
(* entry that was destroyed never comes back, and the indices of the ring    *)
(* agree about how much of it is in use.                                     *)
THEOREM ShutOnce == WheelSpec => []ShutForGood
<1>1. WheelInv => ShutForGood
  <2> SUFFICES ASSUME WheelInv PROVE ShutForGood
    OBVIOUS
  <2>1. \A c \in Peers : /\ peer[c] = "connected" => c \in Held(bucket)
                         /\ peer[c] = "shut" => c \notin Held(bucket)
    BY HeldAtTail DEF WheelInv, OneTurnOnly
  <2>2. full = (turns >= IdleSeconds)
    BY WheelAssumption DEF WheelInv, WheelType, RingInv
  <2>3. full => head = tail
    BY DEF WheelInv, RingInv
  <2> QED BY <2>1, <2>2, <2>3 DEF ShutForGood
<1> QED BY <1>1, WheelCorrect, PTL

(* The wheel is shorter than it looks: an entry lives until the next turn,   *)
(* because back() is the bucket that enqueue() replaces.                     *)
THEOREM EntriesLiveOneTurn == WheelSpec => []OneTurnOnly
<1>1. WheelInv => OneTurnOnly
  BY DEF WheelInv
<1> QED BY <1>1, WheelCorrect, PTL
-----------------------------------------------------------------------------
(* The timers *)

Entries == [when : Nat, timer : Timers]

TimerType ==
  /\ clock \in Nat
  /\ timer \in [Timers -> [life : Lives, expiration : Nat, interval : Nat]]
  /\ timers \subseteq Entries /\ IsFiniteSet(timers)
  /\ lpc \in {"poll", "run", "reset", "gone"}
  /\ expired \in Seq(Entries) /\ at \in Nat \ {0}
  /\ adding \in Timers \union {NoTimer}
  /\ ran \in Seq([timer : Timers, now : Nat, life : Lives, when : Nat])

(* The queue: an entry is its timer's own, and a live timer is in the queue  *)
(* or in the hands of handleRead(), never in both.                           *)
QueueInv ==
  /\ \A e \in timers : timer[e.timer].life = "live" /\ e = EntryOf(e.timer)
  /\ \A t \in InHand : timer[t].life = "live"
  /\ \A t \in Timers : timer[t].life = "live" => (EntryOf(t) \in timers <=> t \notin InHand)
  /\ lpc = "gone" => \A t \in Timers : timer[t].life # "live"

(* What handleRead() has in its hands: each timer once, due, and until       *)
(* reset() as it was taken.                                                  *)
HandInv ==
  /\ \A i, j \in 1 .. Len(expired) : i # j => expired[i].timer # expired[j].timer
  /\ \A i \in 1 .. Len(expired) - 1 : Before(expired[i], expired[i + 1])
  /\ lpc = "run" => \A i \in 1 .. Len(expired) : expired[i].when <= Now
  /\ adding # NoTimer => lpc = "run" /\ timer[adding].life = "new"

(* A timer that does not repeat and was run is deleted, or is about to be. *)
RanInv ==
  \A i \in 1 .. Len(ran) :
    LET t == ran[i].timer
    IN /\ ran[i].when <= ran[i].now /\ ran[i].life = "live"
       /\ timer[t].life \in {"live", "deleted"}
       /\ timer[t].interval = 0 =>
            \/ timer[t].life = "deleted"
            \/ lpc = "run" /\ \E k \in 1 .. Len(expired) : k < at /\ expired[k].timer = t
            \/ lpc = "reset" /\ \E k \in at .. Len(expired) : expired[k].timer = t
       /\ \A j \in 1 .. Len(ran) : i < j /\ ran[j].timer = t => timer[t].interval > 0

TimerInv == TimerType /\ QueueInv /\ HandInv /\ RanInv

(* A list in order has every entry of its set once. *)
LEMMA InOrderFacts ==
  ASSUME NEW S \in SUBSET Entries, IsFiniteSet(S), NEW s \in InOrder(S)
  PROVE  /\ s \in Seq(Entries)
         /\ \A i, j \in 1 .. Len(s) : i # j => s[i] # s[j]
         /\ \A i \in 1 .. Len(s) : s[i] \in S
         /\ \A e \in S : \E i \in 1 .. Len(s) : s[i] = e
         /\ \A i \in 1 .. Len(s) - 1 : Before(s[i], s[i + 1])
<1> DEFINE n == Cardinality(S)
<1>1. n \in Nat
  BY FS_CardinalityType
<1>2. /\ s \in [1 .. n -> S] /\ \A i, j \in 1 .. n : i # j => s[i] # s[j]
      /\ \A i \in 1 .. Len(s) - 1 : Before(s[i], s[i + 1])
  BY DEF InOrder, SetToSeqs
<1> HIDE DEF n
<1>3. Len(s) = n /\ s \in Seq(Entries)
  BY <1>1, <1>2
<1>4. s \in Injection(1 .. n, S)
  BY <1>2 DEF Injection, IsInjective
<1>5. Cardinality(1 .. n) = n
  BY <1>1, FS_Interval
<1>6. s \in Surjection(1 .. n, S)
  BY <1>4, <1>5, FS_Injection DEF n
<1>7. \A e \in S : \E i \in 1 .. n : s[i] = e
  BY <1>6 DEF Surjection
<1> QED BY <1>2, <1>3, <1>7

(* What a division leaves. *)
LEMMA DivBounds == ASSUME NEW a \in Nat, NEW b \in Nat \ {0}
                   PROVE  /\ a \div b \in Nat
                          /\ b * (a \div b) <= a /\ a < b * (a \div b) + b
OBVIOUS

(* Whole seconds pass in order. *)
LEMMA NowGrows ==
  ASSUME clock \in Nat, clock' \in {clock, clock + 1}
  PROVE  Now \in Nat /\ Now' \in Nat /\ Now <= Now'
<1> DEFINE q == clock \div Second
           r == clock' \div Second
<1>0. Second \in Nat \ {0} /\ clock' \in Nat /\ clock <= clock'
  BY TimerAssumption
<1>1. /\ q \in Nat /\ Second * q <= clock
      /\ r \in Nat /\ clock' < Second * r + Second
  BY <1>0, DivBounds
<1>2. Now = q /\ Now' = r
  BY DEF Now
<1> HIDE DEF q, r
<1>3. ASSUME r + 1 <= q PROVE FALSE
  <2>1. PICK d \in Nat : q = r + 1 + d
    BY <1>1, <1>3
  <2>2. Second * q = Second * r + Second + Second * d /\ Second * d \in Nat
    BY <1>0, <1>1, <2>1
  <2> QED BY <1>0, <1>1, <2>2
<1> QED BY <1>1, <1>2, <1>3

(* In the hands of handleRead(): the rest of the list in reset(), all of it  *)
(* in run().                                                                 *)
LEMMA HandFacts ==
  ASSUME TimerType
  PROVE  /\ lpc \in {"poll", "gone"} => InHand = {}
         /\ lpc = "run" => InHand = {expired[i].timer : i \in 1 .. Len(expired)}
         /\ lpc = "reset" => InHand = {expired[i].timer : i \in at .. Len(expired)}
         /\ InHand \subseteq Timers
<1>1. /\ lpc \in {"poll", "gone"} => InHand = {}
      /\ lpc = "run" => InHand = {expired[i].timer : i \in 1 .. Len(expired)}
      /\ lpc = "reset" => InHand = {expired[i].timer : i \in at .. Len(expired)}
  BY DEF InHand
<1>2. \A i \in 1 .. Len(expired) : expired[i].timer \in Timers
  <2>1. \A i \in 1 .. Len(expired) : expired[i] \in Entries
    BY DEF TimerType
  <2> QED BY <2>1 DEF Entries
<1>3. \A i \in at .. Len(expired) : i \in 1 .. Len(expired)
  BY DEF TimerType
<1> QED BY <1>1, <1>2, <1>3 DEF TimerType

(* The history names timers. *)
LEMMA RanFacts ==
  ASSUME TimerType
  PROVE  \A i \in 1 .. Len(ran) : /\ ran[i].timer \in Timers
                                  /\ ran[i].now \in Nat /\ ran[i].when \in Nat
<1> DEFINE R == [timer : Timers, now : Nat, life : Lives, when : Nat]
<1>1. ran \in Seq(R)
  BY DEF TimerType
<1> HIDE DEF R
<1>2. \A i \in 1 .. Len(ran) : ran[i] \in R
  BY <1>1
<1> QED BY <1>2 DEF R

(* A timer that is not in the hands of the queue changes: its life goes on   *)
(* from one stage to the next.                                               *)
LEMMA NewTimerKeeps ==
  ASSUME TimerInv, NEW t \in Timers, NewTimer(t), lpc' = lpc,
         adding' = adding \/ (adding' = t /\ lpc = "run")
  PROVE  TimerInv'
<1>1. PICK delay \in Delays, interval \in Intervals :
        timer' = [timer EXCEPT ![t] = [life |-> "new", interval |-> interval,
                                       expiration |-> AddTime(Now, delay)]]
  BY DEF NewTimer
<1> DEFINE new == [life |-> "new", interval |-> interval, expiration |-> AddTime(Now, delay)]
<1>2. /\ timer[t].life = "none" /\ UNCHANGED <<clock, timers, ran, expired, at, lpc>>
  BY DEF NewTimer
<1>3. Now \in Nat
  BY <1>2, NowGrows DEF TimerInv, TimerType
<1>4. delay \in Nat /\ interval \in Nat
  BY TimerAssumption
<1>5. new \in [life : Lives, expiration : Nat, interval : Nat] /\ new.life = "new"
  BY <1>3, <1>4 DEF AddTime, Lives
<1> HIDE DEF new
<1>6. /\ timer'[t] = new /\ \A u \in Timers : u # t => timer'[u] = timer[u]
      /\ timer' \in [Timers -> [life : Lives, expiration : Nat, interval : Nat]]
  BY <1>1, <1>5 DEF TimerInv, TimerType, new
<1>7. TimerType'
  BY <1>2, <1>6 DEF TimerInv, TimerType
<1>8. InHand' = InHand
  BY <1>2 DEF InHand
<1>9. InHand \subseteq Timers /\ t \notin InHand
  BY <1>2, HandFacts DEF TimerInv, QueueInv
<1>10. \A e \in timers : e.timer \in Timers /\ e.timer # t
  BY <1>2 DEF TimerInv, TimerType, Entries, QueueInv
<1>11. \A u \in Timers : u # t => EntryOf(u)' = EntryOf(u)
  BY <1>6 DEF EntryOf
<1>12. QueueInv'
  BY <1>2, <1>5, <1>6, <1>8, <1>9, <1>10, <1>11 DEF TimerInv, QueueInv
<1>13. HandInv'
  BY <1>2, <1>5, <1>6 DEF TimerInv, TimerType, HandInv, Now
<1>14. RanInv'
  <2>1. \A i \in 1 .. Len(ran) : ran[i].timer \in Timers /\ ran[i].timer # t
    <3>1. \A i \in 1 .. Len(ran) : ran[i].timer \in Timers
      BY RanFacts DEF TimerInv
    <3> QED BY <3>1, <1>2 DEF TimerInv, RanInv
  <2> QED BY <2>1, <1>2, <1>6 DEF TimerInv, RanInv
<1> QED BY <1>7, <1>12, <1>13, <1>14 DEF TimerInv

(* addTimerInLoop() of a new timer: it is live and in the queue. *)
LEMMA AddKeeps ==
  ASSUME TimerInv, NEW t \in Timers, timer[t].life = "new", AddTimerInLoop(t),
         adding' = NoTimer, UNCHANGED <<clock, lpc, expired, at, ran>>, lpc # "gone"
  PROVE  TimerInv'
<1>1. timer' = [timer EXCEPT ![t].life = "live"] /\ timers' = timers \union {EntryOf(t)}
  BY DEF AddTimerInLoop
<1> DEFINE T == [life : Lives, expiration : Nat, interval : Nat]
<1>2. timer \in [Timers -> T] /\ timer[t] \in T
  BY DEF TimerInv, TimerType
<1> DEFINE new == [timer[t] EXCEPT !.life = "live"]
<1>3. /\ new \in T /\ new.life = "live" /\ new.expiration = timer[t].expiration
      /\ new.interval = timer[t].interval
  BY <1>2 DEF Lives
<1>4. EntryOf(t) \in Entries
  BY <1>2 DEF EntryOf, Entries
<1>5. timer' = [timer EXCEPT ![t] = new]
  BY <1>1, <1>2
<1> HIDE DEF T, new
<1>6. /\ timer'[t] = new /\ \A u \in Timers : u # t => timer'[u] = timer[u]
      /\ timer' \in [Timers -> T]
  BY <1>2, <1>3, <1>5
<1>7. \A u \in Timers : EntryOf(u)' = EntryOf(u)
  BY <1>3, <1>6 DEF EntryOf
<1>8. TimerType'
  <2>1. timers' \subseteq Entries /\ IsFiniteSet(timers')
    BY <1>1, <1>4, FS_AddElement DEF TimerInv, TimerType
  <2> QED BY <2>1, <1>6 DEF TimerInv, TimerType, T
<1>9. InHand' = InHand
  BY DEF InHand
<1>10. InHand \subseteq Timers /\ t \notin InHand
  BY HandFacts DEF TimerInv, QueueInv
<1>11. \A e \in timers : e.timer \in Timers /\ e.timer # t
  BY DEF TimerInv, TimerType, Entries, QueueInv
<1>12. \A u \in Timers : EntryOf(u).timer = u
  BY DEF EntryOf
<1>13. QueueInv'
  <2>1. \A e \in timers' : timer'[e.timer].life = "live" /\ e = EntryOf(e.timer)'
    BY <1>1, <1>3, <1>6, <1>7, <1>11, <1>12 DEF TimerInv, QueueInv
  <2>2. \A u \in InHand' : timer'[u].life = "live"
    BY <1>6, <1>9, <1>10 DEF TimerInv, QueueInv
  <2>3. \A u \in Timers : timer'[u].life = "live" => (EntryOf(u)' \in timers' <=> u \notin InHand')
    BY <1>1, <1>6, <1>7, <1>9, <1>10, <1>12 DEF TimerInv, QueueInv
  <2> QED BY <2>1, <2>2, <2>3 DEF QueueInv
<1>14. HandInv'
  BY DEF TimerInv, HandInv, Now
<1>15. RanInv'
  <2>1. \A i \in 1 .. Len(ran) : ran[i].timer \in Timers /\ ran[i].timer # t
    <3>1. \A i \in 1 .. Len(ran) : ran[i].timer \in Timers
      BY RanFacts DEF TimerInv
    <3> QED BY <3>1 DEF TimerInv, RanInv
  <2> QED BY <2>1, <1>6 DEF TimerInv, RanInv
<1> QED BY <1>8, <1>13, <1>14, <1>15 DEF TimerInv

(* handleRead() moves what is due from the queue into its hands. *)
LEMMA HandleReadKeeps == ASSUME TimerInv, HandleRead PROVE TimerInv'
<1> DEFINE G == GetExpired(Now)
<1>1. /\ lpc = "poll" /\ expired' \in InOrder(G) /\ timers' = timers \ G /\ at' = 1
      /\ lpc' = IF expired' = <<>> THEN "poll" ELSE "run"
      /\ UNCHANGED <<clock, timer, adding, ran>>
  BY DEF HandleRead
<1>2. G \subseteq timers /\ G \subseteq Entries /\ IsFiniteSet(G) /\ \A e \in G : e.when <= Now
  BY FS_Subset DEF TimerInv, TimerType, GetExpired
<1> HIDE DEF G
<1>3. /\ expired' \in Seq(Entries)
      /\ \A i, j \in 1 .. Len(expired') : i # j => expired'[i] # expired'[j]
      /\ \A i \in 1 .. Len(expired') : expired'[i] \in G
      /\ \A e \in G : \E i \in 1 .. Len(expired') : expired'[i] = e
      /\ \A i \in 1 .. Len(expired') - 1 : Before(expired'[i], expired'[i + 1])
  BY <1>1, <1>2, InOrderFacts
<1>4. TimerType'
  <2>1. timers' \subseteq Entries /\ IsFiniteSet(timers')
    BY <1>1, FS_Subset DEF TimerInv, TimerType
  <2> QED BY <2>1, <1>1, <1>3 DEF TimerInv, TimerType
<1>5. InHand' = {e.timer : e \in G}
  <2>1. InHand' = {expired'[i].timer : i \in 1 .. Len(expired')}
    <3>1. CASE expired' = <<>>
      BY <3>1, <1>1 DEF InHand
    <3>2. CASE expired' # <<>>
      BY <3>2, <1>1 DEF InHand
    <3> QED BY <3>1, <3>2
  <2> QED BY <2>1, <1>3
<1>6. InHand = {}
  BY <1>1 DEF InHand
<1>7. \A u \in Timers : EntryOf(u)' = EntryOf(u) /\ EntryOf(u).timer = u
  BY <1>1 DEF EntryOf
<1>8. \A e \in timers : e.timer \in Timers
  BY DEF TimerInv, TimerType, Entries
<1>9. QueueInv'
  <2>1. \A e \in timers' : timer'[e.timer].life = "live" /\ e = EntryOf(e.timer)'
    BY <1>1, <1>7, <1>8 DEF TimerInv, QueueInv
  <2>2. \A u \in InHand' : timer'[u].life = "live"
    BY <1>1, <1>2, <1>5 DEF TimerInv, QueueInv
  <2>3. ASSUME NEW u \in Timers, timer'[u].life = "live"
        PROVE  EntryOf(u)' \in timers' <=> u \notin InHand'
    <3>1. EntryOf(u) \in timers
      BY <2>3, <1>1, <1>6 DEF TimerInv, QueueInv
    <3>2. EntryOf(u) \in G <=> u \in InHand'
      BY <1>2, <1>5, <1>7 DEF TimerInv, QueueInv
    <3> QED BY <3>1, <3>2, <1>1, <1>7
  <2> QED BY <2>1, <2>2, <2>3, <1>1 DEF QueueInv
<1>10. HandInv'
  <2>1. \A i, j \in 1 .. Len(expired') : i # j => expired'[i].timer # expired'[j].timer
    BY <1>2, <1>3 DEF TimerInv, QueueInv
  <2>2. Now' = Now
    BY <1>1 DEF Now
  <2>3. adding = NoTimer
    BY <1>1 DEF TimerInv, HandInv
  <2> QED BY <2>1, <2>2, <2>3, <1>1, <1>2, <1>3 DEF HandInv
<1>11. RanInv'
  BY <1>1 DEF TimerInv, RanInv
<1> QED BY <1>4, <1>9, <1>10, <1>11 DEF TimerInv

(* A callback runs: its timer is live and due, and if it does not repeat it  *)
(* has not run before.                                                       *)
LEMMA RunKeeps == ASSUME TimerInv, Run PROVE TimerInv'
<1> DEFINE t == expired[at].timer
           r == [timer |-> t, now |-> Now, life |-> timer[t].life, when |-> expired[at].when]
           R == [timer : Timers, now : Nat, life : Lives, when : Nat]
<1>1. /\ lpc = "run" /\ at <= Len(expired) /\ adding = NoTimer
      /\ ran' = Append(ran, r) /\ at' = at + 1
      /\ UNCHANGED <<clock, timer, timers, lpc, expired, adding>>
  BY DEF Run, queue
<1>2. at \in 1 .. Len(expired) /\ at' \in Nat \ {0} /\ Len(expired) \in Nat
  BY <1>1 DEF TimerInv, TimerType
<1>3. t \in Timers /\ t \in InHand
  BY <1>1, <1>2, HandFacts DEF TimerInv
<1>4. timer[t].life = "live"
  BY <1>3 DEF TimerInv, QueueInv
<1>5. expired[at].when \in Nat /\ Now \in Nat /\ expired[at].when <= Now
  <2>1. expired[at] \in Entries
    BY <1>2 DEF TimerInv, TimerType
  <2>2. Now \in Nat
    BY <1>1, NowGrows DEF TimerInv, TimerType
  <2> QED BY <2>1, <2>2, <1>1, <1>2 DEF Entries, TimerInv, HandInv
<1>6. r \in R /\ r.timer = t /\ r.when <= r.now /\ r.life = "live"
  BY <1>3, <1>4, <1>5 DEF Lives
<1>7. ran \in Seq(R)
  BY DEF TimerInv, TimerType
<1> HIDE DEF r, R
<1>8. /\ ran' \in Seq(R) /\ Len(ran') = Len(ran) + 1 /\ Len(ran) \in Nat
      /\ ran'[Len(ran) + 1] = r /\ \A i \in 1 .. Len(ran) : ran'[i] = ran[i]
  BY <1>1, <1>6, <1>7
<1>9. TimerType'
  BY <1>1, <1>2, <1>8 DEF TimerInv, TimerType, R
<1>10. QueueInv'
  <2>1. InHand' = InHand
    BY <1>1 DEF InHand
  <2>2. \A u \in Timers : EntryOf(u)' = EntryOf(u)
    BY <1>1 DEF EntryOf
  <2>3. \A e \in timers : e.timer \in Timers
    BY DEF TimerInv, TimerType, Entries
  <2> QED BY <2>1, <2>2, <2>3, <1>1 DEF TimerInv, QueueInv
<1>11. HandInv'
  BY <1>1 DEF TimerInv, HandInv, Now
<1>12. RanInv'
  <2>1. ASSUME NEW i \in 1 .. Len(ran), ran[i].timer = t, timer[t].interval = 0 PROVE FALSE
    <3>1. \E k \in 1 .. Len(expired) : k < at /\ expired[k].timer = t
      BY <2>1, <1>1, <1>4 DEF TimerInv, RanInv
    <3> QED BY <3>1, <1>2 DEF TimerInv, HandInv
  <2>2. timer[t].interval \in Nat /\ \A u \in Timers : timer[u].interval \in Nat
    BY <1>3 DEF TimerInv, TimerType
  <2>3. \A i \in 1 .. Len(ran) : ran[i].timer = t => timer[t].interval > 0
    BY <2>1, <2>2
  <2> SUFFICES ASSUME NEW i \in 1 .. Len(ran')
               PROVE  LET u == ran'[i].timer
                      IN /\ ran'[i].when <= ran'[i].now /\ ran'[i].life = "live"
                         /\ timer[u].life \in {"live", "deleted"}
                         /\ timer[u].interval = 0 =>
                              \/ timer[u].life = "deleted"
                              \/ \E k \in 1 .. Len(expired) : k < at' /\ expired[k].timer = u
                         /\ \A j \in 1 .. Len(ran') :
                              i < j /\ ran'[j].timer = u => timer[u].interval > 0
    BY <1>1 DEF RanInv
  <2>4. CASE i = Len(ran) + 1
    <3>1. ran'[i].timer = t /\ ran'[i].when <= ran'[i].now /\ ran'[i].life = "live"
      BY <2>4, <1>6, <1>8
    <3>2. at < at'
      BY <1>1, <1>2
    <3>3. ~\E j \in 1 .. Len(ran') : i < j
      BY <2>4, <1>8
    <3> QED BY <3>1, <3>2, <3>3, <1>2, <1>4
  <2>5. CASE i \in 1 .. Len(ran)
    <3>1. ran'[i] = ran[i]
      BY <2>5, <1>8
    <3>2. \A k \in 1 .. Len(expired) : k < at => k < at'
      BY <1>1, <1>2
    <3>3. ASSUME NEW j \in 1 .. Len(ran'), i < j, ran'[j].timer = ran[i].timer
          PROVE  timer[ran[i].timer].interval > 0
      <4>1. CASE j \in 1 .. Len(ran)
        BY <4>1, <3>3, <2>5, <1>8 DEF TimerInv, RanInv
      <4>2. CASE j = Len(ran) + 1
        BY <4>2, <3>3, <2>3, <2>5, <1>6, <1>8
      <4> QED BY <4>1, <4>2, <1>8
    <3> QED BY <3>1, <3>2, <3>3, <2>5, <1>1 DEF TimerInv, RanInv
  <2> QED BY <2>4, <2>5, <1>8
<1> QED BY <1>9, <1>10, <1>11, <1>12 DEF TimerInv

(* reset() takes one timer out of the hands: back into the queue or deleted. *)
LEMMA ResetKeeps == ASSUME TimerInv, ResetOne PROVE TimerInv'
<1>0. PICK t : t = expired[at].timer
  OBVIOUS
<1> DEFINE T == [life : Lives, expiration : Nat, interval : Nat]
           again == timer[t].interval > 0
           new == IF again THEN [timer[t] EXCEPT !.expiration = Restart(t)]
                           ELSE [timer[t] EXCEPT !.life = "deleted"]
           entry == [when |-> Restart(t), timer |-> t]
<1>1. /\ lpc = "reset" /\ at <= Len(expired) /\ at' = at + 1
      /\ UNCHANGED <<clock, lpc, expired, adding, ran>>
  BY DEF ResetOne
<1>2. /\ timer' = [timer EXCEPT ![t] = new]
      /\ timers' = IF again THEN timers \union {entry} ELSE timers
  BY <1>0 DEF ResetOne, TimerInv, TimerType
<1>3. at \in 1 .. Len(expired) /\ at' \in Nat \ {0} /\ Len(expired) \in Nat /\ at \in Nat
  BY <1>1 DEF TimerInv, TimerType
<1>4. t \in Timers /\ t \in InHand /\ InHand \subseteq Timers
  BY <1>0, <1>1, <1>3, HandFacts DEF TimerInv
<1>5. timer[t].life = "live" /\ EntryOf(t) \notin timers
  BY <1>4 DEF TimerInv, QueueInv
<1>6. timer \in [Timers -> T] /\ timer[t] \in T
  BY <1>4 DEF TimerInv, TimerType
<1>7. Restart(t) \in Nat
  <2>1. Now \in Nat
    BY <1>1, NowGrows DEF TimerInv, TimerType
  <2> QED BY <2>1, <1>6 DEF Restart, AddTime
<1>8. /\ new \in T /\ new.interval = timer[t].interval
      /\ again => new.life = "live" /\ new.expiration = Restart(t)
      /\ ~again => new.life = "deleted"
  <2>1. CASE again
    BY <2>1, <1>5, <1>6, <1>7 DEF Lives
  <2>2. CASE ~again
    BY <2>2, <1>6 DEF Lives
  <2> QED BY <2>1, <2>2
<1>9. entry \in Entries /\ entry.timer = t /\ entry.when = Restart(t)
  BY <1>4, <1>7 DEF Entries
<1>10. timer[t].interval \in Nat /\ (again <=> timer[t].interval # 0)
  BY <1>6
<1> HIDE DEF new, T, again
<1>11. /\ timer'[t] = new /\ \A u \in Timers : u # t => timer'[u] = timer[u]
       /\ timer' \in [Timers -> T]
  BY <1>2, <1>4, <1>6, <1>8
<1>12. \A e \in timers : e.timer \in Timers /\ e.timer # t
  BY <1>5 DEF TimerInv, TimerType, Entries, QueueInv
<1>13. /\ \A u \in Timers : u # t => EntryOf(u)' = EntryOf(u)
       /\ \A u \in Timers : EntryOf(u)'.timer = u
       /\ again => EntryOf(t)' = entry
  BY <1>4, <1>8, <1>11 DEF EntryOf
<1> HIDE DEF entry
<1>14. TimerType'
  <2>1. timers' \subseteq Entries /\ IsFiniteSet(timers')
    BY <1>2, <1>9, FS_AddElement DEF TimerInv, TimerType
  <2> QED BY <2>1, <1>1, <1>3, <1>11 DEF TimerInv, TimerType, T
<1>15. InHand' = InHand \ {t}
  <2>1. InHand = {expired[i].timer : i \in at .. Len(expired)}
    BY <1>1, HandFacts DEF TimerInv
  <2>2. InHand' = {expired[i].timer : i \in at' .. Len(expired)}
    BY <1>1, <1>14, HandFacts DEF InHand
  <2>3. \A i \in at .. Len(expired) : i = at \/ i \in at' .. Len(expired)
    BY <1>1, <1>3
  <2>4. \A i \in at' .. Len(expired) : i \in at .. Len(expired) /\ i # at /\ i \in 1 .. Len(expired)
    BY <1>1, <1>3
  <2>5. \A i \in at' .. Len(expired) : expired[i].timer # t
    BY <2>4, <1>0, <1>3 DEF TimerInv, HandInv
  <2> QED BY <2>1, <2>2, <2>3, <2>4, <2>5, <1>0
<1>16. QueueInv'
  <2>1. \A e \in timers' : timer'[e.timer].life = "live" /\ e = EntryOf(e.timer)'
    BY <1>2, <1>8, <1>9, <1>11, <1>12, <1>13 DEF TimerInv, QueueInv
  <2>2. \A u \in InHand' : timer'[u].life = "live"
    BY <1>4, <1>11, <1>15 DEF TimerInv, QueueInv
  <2>3. ASSUME NEW u \in Timers, timer'[u].life = "live"
        PROVE  EntryOf(u)' \in timers' <=> u \notin InHand'
    <3>1. CASE u = t
      BY <3>1, <2>3, <1>2, <1>8, <1>11, <1>13, <1>15
    <3>2. CASE u # t
      <4>1. EntryOf(u)' \in timers' <=> EntryOf(u) \in timers
        BY <3>2, <1>2, <1>9, <1>13
      <4> QED BY <4>1, <3>2, <2>3, <1>11, <1>15 DEF TimerInv, QueueInv
    <3> QED BY <3>1, <3>2
  <2> QED BY <2>1, <2>2, <2>3, <1>1 DEF QueueInv
<1>17. HandInv'
  <2>1. adding = NoTimer
    BY <1>1 DEF TimerInv, HandInv
  <2> QED BY <2>1, <1>1 DEF TimerInv, HandInv
<1>18. RanInv'
  <2> SUFFICES ASSUME NEW i \in 1 .. Len(ran)
               PROVE  LET u == ran[i].timer
                      IN /\ ran[i].when <= ran[i].now /\ ran[i].life = "live"
                         /\ timer'[u].life \in {"live", "deleted"}
                         /\ timer'[u].interval = 0 =>
                              \/ timer'[u].life = "deleted"
                              \/ \E k \in at' .. Len(expired) : expired[k].timer = u
                         /\ \A j \in 1 .. Len(ran) :
                              i < j /\ ran[j].timer = u => timer'[u].interval > 0
    BY <1>1 DEF RanInv
  <2>1. ran[i].timer \in Timers
    BY RanFacts DEF TimerInv
  <2>2. CASE ran[i].timer = t
    BY <2>2, <1>8, <1>10, <1>11 DEF TimerInv, RanInv
  <2>3. CASE ran[i].timer # t
    <3>1. timer'[ran[i].timer] = timer[ran[i].timer]
      BY <2>1, <2>3, <1>11
    <3>2. \A k \in at .. Len(expired) : expired[k].timer = ran[i].timer => k \in at' .. Len(expired)
      BY <2>3, <1>0, <1>1, <1>3
    <3> QED BY <3>1, <3>2, <1>1 DEF TimerInv, RanInv
  <2> QED BY <2>2, <2>3
<1> QED BY <1>14, <1>16, <1>17, <1>18 DEF TimerInv

(* Time passes: what was due stays due. *)
LEMMA TickKeeps == ASSUME TimerInv, Tick PROVE TimerInv'
<1>1. clock' = clock + 1 /\ UNCHANGED <<timer, timers, lpc, expired, at, adding, ran>>
  BY DEF Tick, queue
<1>2. Now \in Nat /\ Now' \in Nat /\ Now <= Now'
  BY <1>1, NowGrows DEF TimerInv, TimerType
<1>3. TimerType'
  BY <1>1 DEF TimerInv, TimerType
<1>4. QueueInv'
  <2>1. InHand' = InHand
    BY <1>1 DEF InHand
  <2>2. \A u : EntryOf(u)' = EntryOf(u)
    BY <1>1 DEF EntryOf
  <2> QED BY <2>1, <2>2, <1>1 DEF TimerInv, QueueInv
<1>5. HandInv'
  <2>1. \A i \in 1 .. Len(expired) : expired[i] \in Entries
    BY DEF TimerInv, TimerType
  <2>2. \A i \in 1 .. Len(expired) : expired[i].when \in Nat
    BY <2>1 DEF Entries
  <2>3. lpc = "run" => \A i \in 1 .. Len(expired) : expired[i].when <= Now'
    BY <2>2, <1>2 DEF TimerInv, HandInv
  <2> QED BY <2>3, <1>1 DEF TimerInv, HandInv
<1>6. RanInv'
  BY <1>1 DEF TimerInv, RanInv
<1> QED BY <1>3, <1>4, <1>5, <1>6 DEF TimerInv

(* run() ends and reset() begins, with the same timers in hand. *)
LEMMA RunDoneKeeps == ASSUME TimerInv, RunDone PROVE TimerInv'
<1>1. /\ lpc = "run" /\ lpc' = "reset" /\ at' = 1 /\ adding = NoTimer
      /\ UNCHANGED <<clock, timer, timers, expired, adding, ran>>
  BY DEF RunDone, queue
<1>2. TimerType'
  BY <1>1 DEF TimerInv, TimerType
<1>3. InHand' = InHand
  BY <1>1 DEF InHand
<1>4. QueueInv'
  <2>1. \A u : EntryOf(u)' = EntryOf(u)
    BY <1>1 DEF EntryOf
  <2> QED BY <2>1, <1>1, <1>3 DEF TimerInv, QueueInv
<1>5. HandInv'
  BY <1>1 DEF TimerInv, HandInv
<1>6. RanInv'
  BY <1>1 DEF TimerInv, RanInv
<1> QED BY <1>2, <1>4, <1>5, <1>6 DEF TimerInv

(* reset() ends with empty hands. *)
LEMMA ResetDoneKeeps == ASSUME TimerInv, ResetDone PROVE TimerInv'
<1>1. /\ lpc = "reset" /\ at > Len(expired) /\ lpc' = "poll" /\ expired' = <<>> /\ at' = 1
      /\ UNCHANGED <<clock, timer, timers, adding, ran>>
  BY DEF ResetDone, queue
<1>2. TimerType'
  BY <1>1 DEF TimerInv, TimerType
<1>3. at .. Len(expired) = {}
  BY <1>1 DEF TimerInv, TimerType
<1>4. InHand = {} /\ InHand' = {}
  BY <1>1, <1>3 DEF InHand
<1>5. QueueInv'
  <2>1. \A u : EntryOf(u)' = EntryOf(u)
    BY <1>1 DEF EntryOf
  <2> QED BY <2>1, <1>1, <1>4 DEF TimerInv, QueueInv
<1>6. HandInv'
  <2>1. adding = NoTimer
    BY <1>1 DEF TimerInv, HandInv
  <2> QED BY <2>1, <1>1 DEF HandInv
<1>7. RanInv'
  BY <1>1, <1>3 DEF TimerInv, RanInv
<1> QED BY <1>2, <1>5, <1>6, <1>7 DEF TimerInv

(* ~TimerQueue(): nothing is in hand, so every live timer is deleted. *)
LEMMA DestroyQueueKeeps == ASSUME TimerInv, DestroyQueue PROVE TimerInv'
<1> DEFINE T == [life : Lives, expiration : Nat, interval : Nat]
<1>1. /\ lpc = "poll" /\ timers' = {} /\ lpc' = "gone"
      /\ timer' = [t \in Timers |-> IF \E e \in timers : e.timer = t
                                    THEN [timer[t] EXCEPT !.life = "deleted"] ELSE timer[t]]
      /\ UNCHANGED <<clock, expired, at, adding, ran>>
  BY DEF DestroyQueue
<1>2. timer \in [Timers -> T]
  BY DEF TimerInv, TimerType
<1>3. ASSUME NEW t \in Timers
      PROVE  /\ timer'[t] \in T /\ timer'[t].interval = timer[t].interval
             /\ timer'[t].life = timer[t].life \/ timer'[t].life = "deleted"
             /\ timer'[t].life # "live"
  <2>1. timer[t] \in T
    BY <1>2
  <2>2. CASE \E e \in timers : e.timer = t
    <3>1. timer'[t] = [timer[t] EXCEPT !.life = "deleted"]
      BY <2>2, <1>1
    <3> QED BY <3>1, <2>1 DEF Lives
  <2>3. CASE ~\E e \in timers : e.timer = t
    <3>1. timer'[t] = timer[t]
      BY <2>3, <1>1
    <3>2. InHand = {} /\ EntryOf(t).timer = t
      BY <1>1 DEF InHand, EntryOf
    <3>3. timer[t].life # "live"
      BY <3>2, <2>3 DEF TimerInv, QueueInv
    <3> QED BY <3>1, <3>3, <2>1
  <2> QED BY <2>2, <2>3
<1>4. timer' \in [Timers -> T]
  BY <1>1, <1>3
<1>5. TimerType'
  BY <1>1, <1>4, FS_EmptySet DEF TimerInv, TimerType
<1>6. QueueInv'
  <2>1. InHand' = {}
    BY <1>1 DEF InHand
  <2> QED BY <2>1, <1>1, <1>3 DEF QueueInv
<1>7. HandInv'
  <2>1. adding = NoTimer
    BY <1>1 DEF TimerInv, HandInv
  <2> QED BY <2>1, <1>1 DEF TimerInv, HandInv
<1>8. RanInv'
  <2>1. \A i \in 1 .. Len(ran) : ran[i].timer \in Timers
    BY RanFacts DEF TimerInv
  <2> HIDE DEF T
  <2> QED BY <2>1, <1>1, <1>3 DEF TimerInv, RanInv
<1> QED BY <1>5, <1>6, <1>7, <1>8 DEF TimerInv

(* Nothing changes. *)
LEMMA TimerStutter == ASSUME TimerInv, UNCHANGED timerVars PROVE TimerInv'
<1>1. UNCHANGED <<clock, timer, timers, timerfd, lpc, expired, at, adding, ran>>
  BY DEF timerVars, queue
<1> QED BY <1>1 DEF TimerInv, TimerType, QueueInv, HandInv, RanInv, InHand, EntryOf, Now

(* Every step keeps the invariant of the queue. *)
LEMMA TimerStep == TimerInv /\ [TimerNext]_timerVars => TimerInv'
<1> SUFFICES ASSUME TimerInv, [TimerNext]_timerVars PROVE TimerInv'
  OBVIOUS
<1>1. ASSUME NEW t \in Timers, AddTimer(t) PROVE TimerInv'
  BY <1>1, NewTimerKeeps DEF AddTimer
<1>2. ASSUME NEW t \in Timers, RunAdds(t) PROVE TimerInv'
  BY <1>2, NewTimerKeeps DEF RunAdds
<1>3. ASSUME NEW t \in Timers, AddFunctor(t) PROVE TimerInv'
  <2>1. adding = NoTimer
    BY <1>3 DEF AddFunctor, TimerInv, HandInv
  <2> QED BY <2>1, <1>3, AddKeeps DEF AddFunctor
<1>4. ASSUME RunAdded PROVE TimerInv'
  <2>1. adding \in Timers /\ timer[adding].life = "new" /\ lpc = "run"
    BY <1>4 DEF RunAdded, TimerInv, TimerType, HandInv
  <2>2. PICK t \in Timers : t = adding
    BY <2>1
  <2> QED BY <2>1, <2>2, <1>4, AddKeeps DEF RunAdded
<1> QED BY <1>1, <1>2, <1>3, <1>4, TickKeeps, HandleReadKeeps, RunKeeps, RunDoneKeeps,
           ResetKeeps, ResetDoneKeeps, DestroyQueueKeeps, TimerStutter
        DEF TimerNext, LoopStep

(* The queue starts empty. *)
LEMMA TimerStart == TimerInit => TimerInv
<1> SUFFICES ASSUME TimerInit PROVE TimerInv
  OBVIOUS
<1>1. TimerType
  BY FS_EmptySet DEF TimerInit, TimerType, Lives
<1>2. InHand = {}
  BY DEF TimerInit, InHand
<1>3. \A t \in Timers : timer[t].life = "none"
  BY DEF TimerInit
<1> QED BY <1>1, <1>2, <1>3 DEF TimerInit, TimerInv, QueueInv, HandInv, RanInv

(* The inductive invariant of the timer queue holds in every reachable state. *)
LEMMA TimerCorrect == TimerSafeSpec => []TimerInv
BY TimerStart, TimerStep, PTL DEF TimerSafeSpec

(* For any set of timers, delays and intervals and any interleaving of user  *)
(* threads with handleRead(): a live timer is in exactly one place, in       *)
(* timers_ or in the list handleRead() works on, and what is in either was   *)
(* not deleted (addTimerInLoop(), getExpired(), reset(), ~TimerQueue()).     *)
THEOREM TimersInOnePlace == TimerSafeSpec => []TimersAgree
<1>1. ASSUME TimerInv PROVE TimersAgree
  <2>1. ASSUME NEW t \in Timers, timer[t].life = "live"
        PROVE  Cardinality({e \in timers : e.timer = t}) = (IF t \in InHand THEN 0 ELSE 1)
    <3>1. \A e \in timers : e.timer = t => e = EntryOf(t)
      BY <1>1 DEF TimerInv, QueueInv
    <3>2. EntryOf(t).timer = t
      BY DEF EntryOf
    <3>3. CASE t \in InHand
      <4>1. {e \in timers : e.timer = t} = {}
        BY <3>1, <3>3, <2>1, <1>1 DEF TimerInv, QueueInv
      <4> QED BY <4>1, <3>3, FS_EmptySet
    <3>4. CASE t \notin InHand
      <4>1. {e \in timers : e.timer = t} = {EntryOf(t)}
        BY <3>1, <3>2, <3>4, <2>1, <1>1 DEF TimerInv, QueueInv
      <4> QED BY <4>1, <3>4, FS_Singleton
    <3> QED BY <3>3, <3>4
  <2> QED BY <2>1, <1>1 DEF TimerInv, QueueInv, TimersAgree
<1> QED BY <1>1, TimerCorrect, PTL

(* No callback runs before its time or on a deleted Timer, one without an    *)
(* interval runs once, and one handleRead() runs its callbacks in the order  *)
(* of their times (getExpired(), Timer::run(), reset()).                     *)
THEOREM RunOnlyWhenDue == TimerSafeSpec => []RunWhenDue
<1>1. TimerInv => RunWhenDue
  BY DEF TimerInv, RanInv, HandInv, RunWhenDue
<1> QED BY <1>1, TimerCorrect, PTL

=============================================================================
