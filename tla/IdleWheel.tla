------------------------------- MODULE IdleWheel -------------------------------
(***************************************************************************)
(* The time wheel of the echo server: keepalive/CircularBuffer.h, myEntry.h *)
(* and example/server-timequeue/echoserver.cc.  A bucket holds shared       *)
(* pointers to the entries of connections; an entry that no bucket holds is *)
(* destroyed and shuts its connection down.  The handlers run on one loop:  *)
(* hardware_concurrency() - 4 is the number of the others, and the wheel    *)
(* has no lock.  onTimer() is what the server asks to be called once a      *)
(* second (it asks too late: start() does so after loop() has returned).    *)
(***************************************************************************)
EXTENDS Naturals, FiniteSets

CONSTANTS Peers,       \* the connections
          IdleSeconds, \* the size of the wheel
          MaxTurns     \* bound: calls of onTimer()

ASSUME WheelAssumption == IdleSeconds \in Nat \ {0} /\ MaxTurns \in Nat

VARIABLES
  bucket, head, tail, full,   \* the CircularBuffer
  peer,    \* the connections: "none", "connected", "shut" (half closed) or "closed"
  turns,   \* history: how often onTimer() ran
  heard    \* history: the turn of a connection's last sign of life

ring      == <<bucket, head, tail, full>>
wheelVars == <<ring, peer, turns, heard>>

Slots == 0 .. IdleSeconds - 1

(* CircularBuffer(size): all buckets are there, none is in use. *)
WheelInit ==
  /\ bucket = [i \in Slots |-> {}] /\ head = 0 /\ tail = 0 /\ full = FALSE
  /\ peer = [c \in Peers |-> "none"]
  /\ turns = 0 /\ heard = [c \in Peers |-> 0]

(* back(): the bucket at tail, which is the one that enqueue() replaces     *)
(* next; an empty ring is only logged.                                      *)
Back == tail

(* The entries some bucket of a ring holds. *)
Held(ringBuckets) == UNION {ringBuckets[i] : i \in Slots}

InsertAtBack(c) == bucket' = [bucket EXCEPT ![Back] = @ \union {c}]

(* onConnection(), connected: a new entry in the last bucket. *)
OnConnection(c) ==
  /\ peer[c] = "none"
  /\ peer' = [peer EXCEPT ![c] = "connected"]
  /\ InsertAtBack(c)
  /\ heard' = [heard EXCEPT ![c] = turns]
  /\ UNCHANGED <<head, tail, full, turns>>

(* Fault: the entry is kept by its connection and inserted dead or alive. *)
OnMessageRevives(c) ==
  /\ peer[c] \in {"connected", "shut"}
  /\ InsertAtBack(c)
  /\ heard' = [heard EXCEPT ![c] = turns]
  /\ UNCHANGED <<head, tail, full, peer, turns>>

(* onMessage(): the echo, and the entry, if it still lives, joins the last  *)
(* bucket too.                                                              *)
OnMessage(c) ==
  /\ peer[c] \in {"connected", "shut"}
  /\ IF c \in Held(bucket) THEN InsertAtBack(c) ELSE UNCHANGED bucket
  /\ heard' = [heard EXCEPT ![c] = turns]
  /\ UNCHANGED <<head, tail, full, peer, turns>>

(* enqueue(Bucket()) *)
Enqueue ==
  /\ bucket' = [bucket EXCEPT ![tail] = {}]
  /\ head' = IF full THEN (head + 1) % IdleSeconds ELSE head
  /\ tail' = (tail + 1) % IdleSeconds
  /\ full' = (tail' = head')

(* ~myEntry() of the entries no bucket holds any more. *)
DestroyEntries ==
  peer' = [c \in Peers |->
             IF peer[c] = "connected" /\ c \in Held(bucket) \ Held(bucket')
               THEN "shut" ELSE peer[c]]

OnTimer ==
  /\ turns < MaxTurns
  /\ turns' = turns + 1
  /\ Enqueue
  /\ DestroyEntries
  /\ UNCHANGED heard

(* The client closes; the entry stays where it is and finds its weak_ptr    *)
(* expired when its turn comes.                                             *)
PeerCloses(c) ==
  /\ peer[c] \in {"connected", "shut"}
  /\ peer' = [peer EXCEPT ![c] = "closed"]
  /\ UNCHANGED <<ring, turns, heard>>

WheelNext == \/ OnTimer
             \/ \E c \in Peers : OnConnection(c) \/ OnMessage(c) \/ PeerCloses(c)

WheelSpec == WheelInit /\ [][WheelNext]_wheelVars

-----------------------------------------------------------------------------
(* What the document of the wheel promises of a wheel of IdleSeconds buckets *)
(* turned once a second: a connection that is shut for being idle has given  *)
(* no sign of life for that many turns.                                      *)
LivesIdleSeconds ==
  [][\A c \in Peers : peer[c] = "connected" /\ peer'[c] = "shut" =>
       turns' - heard[c] >= IdleSeconds]_wheelVars

(* An open connection has an entry, so that the wheel can shut it, and one   *)
(* the wheel has given up has none and is never taken back: an entry lives   *)
(* only as long as it was held without a break, and so the wheel calls       *)
(* shutdown() once.  The ring's indices agree about what is in use.          *)
ShutForGood ==
  /\ \A c \in Peers : /\ peer[c] = "connected" => c \in Held(bucket)
                      /\ peer[c] = "shut" => c \notin Held(bucket)
  /\ full = (turns >= IdleSeconds) /\ (full => head = tail)

=============================================================================
