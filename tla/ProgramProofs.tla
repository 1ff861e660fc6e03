---------------------------- MODULE ProgramProofs ----------------------------
(***************************************************************************)
(* What is proved of the threads of the program: main(), the signal thread  *)
(* and the loops (ServerProgram), the writer of the log (AsyncLogging) and  *)
(* the records it is given (LogFrontEnd).                                   *)
(***************************************************************************)
EXTENDS ServerProgram, AsyncLogging, LogFrontEnd, FiniteSetTheorems, SequenceFacts, TLAPS

-----------------------------------------------------------------------------
(* Counting the entries of a queue *)

Places(s, f) == {i \in 1 .. Len(s) : s[i] = f}
Count(s, f)  == Cardinality(Places(s, f))

(* A count is a number, and zero where there is nothing to count. *)
LEMMA CountType ==
  ASSUME NEW S, NEW s \in Seq(S), NEW f
  PROVE  /\ Count(s, f) \in Nat /\ IsFiniteSet(Places(s, f))
         /\ (\A i \in 1 .. Len(s) : s[i] # f) => Count(s, f) = 0
         /\ (\E i \in 1 .. Len(s) : s[i] = f) => Count(s, f) >= 1
<1>1. IsFiniteSet(1 .. Len(s))
  BY FS_Interval
<1>2. IsFiniteSet(Places(s, f))
  BY <1>1, FS_Subset DEF Places
<1>3. Count(s, f) \in Nat /\ (Count(s, f) = 0 <=> Places(s, f) = {})
  BY <1>2, FS_CardinalityType, FS_EmptySet DEF Count
<1>4. (\A i \in 1 .. Len(s) : s[i] # f) <=> Places(s, f) = {}
  BY DEF Places
<1> QED BY <1>2, <1>3, <1>4

(* queueInLoop() adds one of what it queues. *)
LEMMA CountAppend ==
  ASSUME NEW S, NEW s \in Seq(S), NEW e \in S, NEW f
  PROVE  Count(Append(s, e), f) = Count(s, f) + (IF e = f THEN 1 ELSE 0)
<1> DEFINE a == Append(s, e)
<1>1. /\ Len(a) = Len(s) + 1 /\ Len(s) \in Nat /\ a[Len(s) + 1] = e
      /\ \A i \in 1 .. Len(s) : a[i] = s[i]
  OBVIOUS
<1> HIDE DEF a
<1>2. IsFiniteSet(Places(s, f)) /\ Count(s, f) \in Nat
  BY CountType
<1>3. Len(s) + 1 \notin Places(s, f)
  BY <1>1 DEF Places
<1>4. CASE e = f
  <2>1. Places(a, f) = Places(s, f) \union {Len(s) + 1}
    BY <1>1, <1>4 DEF Places
  <2> QED BY <2>1, <1>2, <1>3, <1>4, FS_AddElement DEF Count, a
<1>5. CASE e # f
  <2>1. Places(a, f) = Places(s, f)
    BY <1>1, <1>5 DEF Places
  <2> QED BY <2>1, <1>2, <1>5 DEF Count, a
<1> QED BY <1>4, <1>5

(* Running the first takes one of it away. *)
LEMMA CountTail ==
  ASSUME NEW S, NEW s \in Seq(S), s # <<>>, NEW f
  PROVE  Count(s, f) = Count(Tail(s), f) + (IF Head(s) = f THEN 1 ELSE 0)
<1> DEFINE t == Tail(s)
           P == Places(s, f) \ {1}
           Q == Places(t, f)
<1>1. /\ t \in Seq(S) /\ Len(t) = Len(s) - 1 /\ Len(s) >= 1 /\ Len(s) \in Nat
      /\ \A i \in 1 .. Len(t) : t[i] = s[i + 1]
      /\ Head(s) = s[1]
  BY HeadTailProperties
<1> HIDE DEF t
<1>2. IsFiniteSet(Q) /\ Count(t, f) \in Nat /\ IsFiniteSet(Places(s, f)) /\ Count(s, f) \in Nat
  BY <1>1, CountType
<1>3. Cardinality(P) = Cardinality(Q)
  <2> DEFINE g == [i \in Q |-> i + 1]
  <2>1. \A i \in Q : i + 1 \in P
    BY <1>1 DEF Places
  <2>2. \A j \in P : j - 1 \in Q /\ (j - 1) + 1 = j
    BY <1>1 DEF Places
  <2>3. \A i \in Q : i \in Int
    BY DEF Places
  <2> HIDE DEF P, Q
  <2>4. g \in Surjection(Q, P)
    BY <2>1, <2>2 DEF Surjection
  <2>5. g \in Injection(Q, P)
    BY <2>1, <2>3 DEF Injection, IsInjective
  <2>6. ExistsBijection(Q, P)
    BY <2>4, <2>5 DEF Bijection, ExistsBijection
  <2> QED BY <2>6, <1>2, FS_Bijection
<1>4. 1 \in Places(s, f) <=> Head(s) = f
  BY <1>1 DEF Places
<1>5. Cardinality(P) = IF Head(s) = f THEN Count(s, f) - 1 ELSE Count(s, f)
  BY <1>2, <1>4, FS_RemoveElement DEF Count
<1>6. Cardinality(Q) = Count(t, f)
  BY DEF Count
<1> HIDE DEF P, Q
<1>7. Count(s, f) = Count(t, f) + (IF Head(s) = f THEN 1 ELSE 0)
  <2>1. Count(t, f) = IF Head(s) = f THEN Count(s, f) - 1 ELSE Count(s, f)
    BY <1>3, <1>5, <1>6
  <2>2. Count(t, f) \in Nat /\ Count(s, f) \in Nat
    BY <1>2
  <2>3. CASE Head(s) = f
    BY <2>1, <2>2, <2>3
  <2>4. CASE Head(s) # f
    BY <2>1, <2>2, <2>4
  <2> QED BY <2>3, <2>4
<1> QED BY <1>7 DEF t

-----------------------------------------------------------------------------
(* The invariant *)

Functors == {"connectEstablished", "connectDestroyed", "removeConnectionInLoop", "response"}
              \X Conns

(* How far main() is. *)
Early == {"construct", "bind", "spawn", "await", "failed"}
Late  == {"quit", "wakeThread", "joinThread", "exit", "failed"}

ProgramType ==
  /\ mpc \in Early \union Late \union {"running", "stop", "join", "destroy"}
  /\ k \in Nat \ {0}
  /\ lpc \in [All -> {"none", "construct", "published", "check", "poll", "swap", "run",
                      "returned", "gone"}]
  /\ quit \in [All -> BOOLEAN] /\ wake \in [All -> BOOLEAN]
  /\ pending \in [All -> Seq(Functors)] /\ todo \in [All -> Seq(Functors)]
  /\ loops \in Seq(Loops) /\ next \in Loops
  /\ owner \in [Conns -> Loops \union {Nowhere}]
  /\ state \in [Conns -> {"kConnecting", "kConnected", "kDisconnected"}]
  /\ inMap \in [Conns -> BOOLEAN]
  /\ request \in [Conns -> {"none", "refused", "accepted", "computed", "answered"}]
  /\ ended \in [Conns -> Nat]

(* doPendingFunctors() has something to run exactly while it runs. *)
TodoInv ==
  \A l \in All : /\ lpc[l] \notin {"run", "gone"} => todo[l] = <<>>
                 /\ lpc[l] = "run" => todo[l] # <<>>

(* The pool: thread l is the l-th loop, and is started when it is in loops_. *)
PoolInv ==
  /\ \A i \in 1 .. Len(loops) :
       loops[i] = i /\ (mpc # "failed" => lpc[i] \notin {"none", "construct"})
  /\ mpc \in {"construct", "bind"} => Len(loops) = 0 /\ k = 1
  /\ mpc \in {"spawn", "await"} => Len(loops) = k - 1
  /\ mpc = "await" => k <= NumThreads
  /\ mpc \notin Early => Len(loops) = NumThreads
  /\ mpc \in {"construct", "bind", "spawn"} => \A l \in Loops : l >= k => lpc[l] = "none"
  /\ mpc = "await" => \A l \in Loops : l > k => lpc[l] = "none"

(* What the place main() has come to says about the loops and the requests:  *)
(* a loop is there from startLoop() until its destructor asks it to quit.    *)
MainInv ==
  /\ mpc \in Early => \A c \in Conns : owner[c] = Nowhere
  /\ mpc \in Early \ {"failed"} => lpc[Base] = "none"
  /\ mpc = "failed" => \A l \in All : lpc[l] = "gone"
  /\ mpc = "running" => lpc[Base] \notin {"none", "construct", "gone"}
  /\ Stopping /\ mpc # "failed" => lpc[Base] = "returned"
  /\ \A l \in Loops : quit[l] \/ lpc[l] \in {"returned", "gone"} => mpc \in Late
  /\ \A c \in Conns : owner[c] = Nowhere => request[c] = "none"
  /\ mpc \in Late \union {"join", "destroy"} => \A c \in Conns : request[c] # "accepted"

(* A functor is of a connection that was accepted, and queued to its loop,   *)
(* or to the base loop if it is to be removed.                               *)
Placed(l, f) ==
  /\ owner[f[2]] # Nowhere
  /\ IF f[1] = "removeConnectionInLoop" THEN l = Base ELSE l = owner[f[2]]

PlacedInv == \A l \in All : \A i \in 1 .. Len(Left(l)) : Placed(l, Left(l)[i])

(* What may still ask for the removal of a connection of loop l: it is going *)
(* to be established, it is connected, or its removal is queued.             *)
Removals(c, l) == Queued(l, <<"connectEstablished", c>>)
                    + (IF state[c] = "kConnected" THEN 1 ELSE 0)
                    + Queued(Base, <<"removeConnectionInLoop", c>>)

(* It is removed once: while the base loop runs, from the map; and destroyed *)
(* once, by its loop.                                                        *)
ConnInv(c) ==
  /\ \A l \in Loops : owner[c] = l =>
       /\ Removals(c, l) <= 1
       /\ lpc[Base] \notin {"returned", "gone"} /\ ~inMap[c] => Removals(c, l) = 0
       /\ ended[c] + Queued(l, <<"connectDestroyed", c>>) + (IF inMap[c] THEN 1 ELSE 0) = 1
  /\ owner[c] = Nowhere => ended[c] = 0 /\ ~inMap[c] /\ state[c] = "kConnecting"

RemovalInv == \A c \in Conns : ConnInv(c)

StageInv   == ProgramType /\ TodoInv /\ PoolInv /\ MainInv
ProgramInv == StageInv /\ PlacedInv /\ RemovalInv

(* exit(-1) while the program starts: nothing has been accepted. *)
LEMMA ExitKeeps == ASSUME StageInv, mpc \in Early \ {"failed"}, ExitFatal PROVE StageInv'
<1>1. /\ mpc' = "failed" /\ lpc' = [l \in All |-> "gone"]
      /\ UNCHANGED <<k, loops, quit, wake, todo, pending, next, owner, inMap, state, request,
                     ended>>
  BY DEF ExitFatal, conn
<1>2. \A l \in All : lpc'[l] = "gone"
  BY <1>1
<1>3. ProgramType'
  BY <1>1 DEF StageInv, ProgramType, Early
<1>4. TodoInv'
  BY <1>2 DEF TodoInv
<1>5. PoolInv'
  BY <1>1 DEF StageInv, PoolInv, Early
<1>6. MainInv'
  <2>1. Base \in All /\ Loops \subseteq All
    BY DEF All
  <2>2. \A c \in Conns : request[c] # "accepted"
    BY DEF StageInv, MainInv
  <2> QED BY <2>1, <2>2, <1>1, <1>2 DEF StageInv, MainInv, Early, Late
<1> QED BY <1>3, <1>4, <1>5, <1>6 DEF StageInv

(* What a loop's thread does to connections: they are accepted while main()  *)
(* is in the base loop, and requests until the scheduler stops.              *)
ConnsMove ==
  \A c \in Conns :
    /\ owner'[c] # owner[c] => mpc = "running" /\ owner'[c] # Nowhere
    /\ request'[c] # request[c] =>
         owner[c] # Nowhere /\ (request'[c] = "accepted" => ~Stopping)

(* A step of a loop's thread on its way through loop(): from one place to    *)
(* the next.                                                                 *)
LEMMA LoopMoves ==
  ASSUME StageInv, NEW l \in All, NEW to, lpc' = [lpc EXCEPT ![l] = to],
         UNCHANGED <<mpc, k, loops>>, ConnsMove,
         lpc[l] \notin {"none", "construct", "gone"},
         to \in {"check", "poll", "swap", "run", "returned", "gone"},
         to = "returned" => quit[l],
         to = "gone" <=> lpc[l] = "returned", lpc[l] = "returned" => l # Base,
         \A m \in All : quit'[m] => quit[m]
  PROVE  PoolInv' /\ MainInv'
<1>1. lpc'[l] = to /\ \A m \in All : m # l => lpc'[m] = lpc[m]
  BY DEF StageInv, ProgramType
<1>2. Base \in All /\ Loops \subseteq All /\ Base \notin Loops
  BY ProgramAssumption DEF All, Base, Loops
<1>3. \A i \in 1 .. Len(loops) : loops[i] = i /\ i \in Loops
  BY DEF StageInv, ProgramType, PoolInv
<1>4. mpc # "failed"
  BY DEF StageInv, MainInv
<1>5. PoolInv'
  BY <1>1, <1>2, <1>3, <1>4 DEF StageInv, PoolInv
<1>6. MainInv'
  <2>1. mpc \in Early => l # Base
    BY DEF StageInv, MainInv
  <2>2. /\ mpc \in Early => \A c \in Conns : owner'[c] = Nowhere
        /\ \A c \in Conns : owner'[c] = Nowhere => request'[c] = "none"
        /\ mpc \in Late \union {"join", "destroy"} => \A c \in Conns : request'[c] # "accepted"
    BY DEF StageInv, MainInv, ConnsMove, Stopping, Early, Late
  <2>3. CASE l = Base
    BY <2>1, <2>2, <2>3, <1>1, <1>2, <1>4 DEF StageInv, MainInv, Stopping
  <2>4. CASE l # Base
    BY <2>2, <2>4, <1>1, <1>2, <1>4 DEF StageInv, MainInv, Stopping
  <2> QED BY <2>3, <2>4
<1> QED BY <1>5, <1>6

(* main() starts the pool and enters the base loop. *)
LEMMA StartUpKeeps ==
  ASSUME StageInv,
         CreateNonblocking \/ BindAddress \/ SpawnThread \/ StartLoop \/ Listen
  PROVE  StageInv'
<1>0. /\ Base \in All /\ Loops \subseteq All /\ Base \notin Loops /\ Loops \subseteq Nat
      /\ NumThreads \in Loops /\ NumThreads \in Nat
  BY ProgramAssumption DEF All, Base, Loops
<1>1. CASE CreateNonblocking \/ BindAddress
  <2>1. /\ <<mpc, mpc'>> \in {<<"construct", "bind">>, <<"bind", "spawn">>}
        /\ UNCHANGED <<k, loops, lpc, quit, wake, todo, pending, next, owner, inMap, state,
                       request, ended>>
    BY <1>1 DEF CreateNonblocking, BindAddress, loop, conn
  <2> QED BY <2>1 DEF StageInv, ProgramType, TodoInv, PoolInv, MainInv, Early, Late, Stopping
<1>2. CASE SpawnThread
  <2>1. /\ mpc = "spawn" /\ mpc' = "await" /\ k <= NumThreads
        /\ lpc' = [lpc EXCEPT ![k] = "construct"]
        /\ UNCHANGED <<k, loops, quit, wake, todo, pending, next, owner, inMap, state, request,
                       ended>>
    BY <1>2 DEF SpawnThread, ThreadStart, conn
  <2>2. k \in Loops /\ k \in All /\ k \in Nat
    BY <2>1, <1>0 DEF StageInv, ProgramType, Loops
  <2>3. lpc'[k] = "construct" /\ \A m \in All : m # k => lpc'[m] = lpc[m]
    BY <2>1, <2>2 DEF StageInv, ProgramType
  <2>4. ProgramType'
    BY <2>1, <2>2 DEF StageInv, ProgramType, Early
  <2>5. TodoInv'
    BY <2>1, <2>2, <2>3 DEF StageInv, TodoInv, PoolInv
  <2>6. PoolInv'
    <3>1. \A i \in 1 .. Len(loops) : i \in All /\ i # k
      BY <2>1, <2>2, <1>0 DEF StageInv, PoolInv, Loops
    <3> QED BY <3>1, <2>1, <2>2, <2>3, <1>0 DEF StageInv, PoolInv, Early
  <2>7. MainInv'
    BY <2>1, <2>2, <2>3, <1>0 DEF StageInv, MainInv, Early, Late, Stopping
  <2> QED BY <2>4, <2>5, <2>6, <2>7 DEF StageInv
<1>3. CASE StartLoop
  <2>1. /\ mpc = "await" /\ mpc' = "spawn" /\ loops' = Append(loops, k) /\ k' = k + 1
        /\ lpc[k] \notin {"none", "construct", "gone"}
        /\ UNCHANGED <<lpc, quit, wake, todo, pending, next, owner, inMap, state, request,
                       ended>>
    BY <1>3 DEF StartLoop, Published, loop, conn
  <2>2. k \in Loops /\ k \in Nat /\ loops \in Seq(Loops) /\ Len(loops) = k - 1
    BY <2>1, <1>0 DEF StageInv, ProgramType, PoolInv, Loops
  <2>3. /\ loops' \in Seq(Loops) /\ Len(loops') = k /\ loops'[k] = k
        /\ \A i \in 1 .. k - 1 : loops'[i] = loops[i]
    BY <2>1, <2>2
  <2>4. ProgramType'
    BY <2>1, <2>2, <2>3 DEF StageInv, ProgramType, Early
  <2>5. TodoInv' /\ MainInv'
    BY <2>1 DEF StageInv, TodoInv, MainInv, Early, Late, Stopping
  <2>6. PoolInv'
    <3>1. \A i \in 1 .. k : i = k \/ i \in 1 .. k - 1
      BY <2>2
    <3>2. \A i \in 1 .. k : loops'[i] = i /\ lpc[i] \notin {"none", "construct"}
      BY <3>1, <2>1, <2>2, <2>3 DEF StageInv, PoolInv
    <3>3. k + 1 \in Nat /\ k' - 1 = k /\ \A l \in Loops : l >= k + 1 => l > k
      BY <2>1, <2>2, <1>0
    <3> QED BY <3>2, <3>3, <2>1, <2>2, <2>3 DEF StageInv, PoolInv, Early
  <2> QED BY <2>4, <2>5, <2>6 DEF StageInv
<1>4. CASE Listen
  <2>1. /\ mpc = "spawn" /\ mpc' = "running" /\ k > NumThreads /\ k' = 1
        /\ lpc' = [lpc EXCEPT ![Base] = "published"]
        /\ UNCHANGED <<loops, quit, wake, todo, pending, next, owner, inMap, state, request,
                       ended>>
    BY <1>4 DEF Listen, PoolStarted, conn
  <2>2. lpc'[Base] = "published" /\ \A m \in All : m # Base => lpc'[m] = lpc[m]
    BY <2>1, <1>0 DEF StageInv, ProgramType
  <2>3. ProgramType'
    BY <2>1, <1>0 DEF StageInv, ProgramType
  <2>4. TodoInv'
    BY <2>1, <2>2, <1>0 DEF StageInv, TodoInv, MainInv, Early
  <2>5. PoolInv'
    <3>1. loops \in Seq(Loops) /\ Len(loops) = k - 1 /\ k \in Nat
      BY <2>1 DEF StageInv, ProgramType, PoolInv
    <3>2. \A i \in 1 .. Len(loops) : loops[i] = i /\ i \in Loops
      BY <3>1 DEF StageInv, PoolInv
    <3>3. Len(loops) <= NumThreads
      <4>1. CASE Len(loops) = 0
        BY <4>1, <1>0
      <4>2. CASE Len(loops) > 0
        <5>1. Len(loops) \in 1 .. Len(loops)
          BY <4>2, <3>1
        <5>2. Len(loops) \in Loops
          BY <5>1, <3>2
        <5> QED BY <5>2 DEF Loops
      <4> QED BY <4>1, <4>2, <3>1
    <3>4. Len(loops) = NumThreads
      BY <3>1, <3>3, <2>1, <1>0
    <3> QED BY <3>2, <3>4, <2>1, <2>2, <1>0 DEF StageInv, PoolInv, Early
  <2>6. MainInv'
    BY <2>1, <2>2, <1>0 DEF StageInv, MainInv, Early, Late, Stopping
  <2> QED BY <2>3, <2>4, <2>5, <2>6 DEF StageInv
<1> QED BY <1>1, <1>2, <1>3, <1>4

(* queueInLoop() *)
LEMMA QueueType ==
  ASSUME ProgramType, NEW m \in All, NEW f \in Functors, Queue(m, f)
  PROVE  pending' \in [All -> Seq(Functors)] /\ wake' \in [All -> BOOLEAN]
BY DEF ProgramType, Queue

(* A functor that runs leaves todo, and the loop goes on to the next. *)
LEMMA RunningKeeps ==
  ASSUME StageInv, NEW l \in All, NEW name, NEW c \in Conns, Running(l, name, c), ConnsMove
  PROVE  /\ todo' \in [All -> Seq(Functors)] /\ TodoInv' /\ PoolInv' /\ MainInv'
         /\ lpc' \in [All -> {"none", "construct", "published", "check", "poll", "swap", "run",
                              "returned", "gone"}]
         /\ UNCHANGED <<mpc, k, loops, quit, next>>
<1> DEFINE to == IF Len(todo[l]) = 1 THEN "check" ELSE "run"
<1>1. /\ lpc[l] = "run" /\ todo' = [todo EXCEPT ![l] = Tail(todo[l])]
      /\ lpc' = [lpc EXCEPT ![l] = to] /\ UNCHANGED <<mpc, k, loops, quit, next>>
  BY DEF Running, main
<1>2. todo[l] \in Seq(Functors) /\ todo[l] # <<>>
  BY <1>1 DEF StageInv, ProgramType, TodoInv
<1>3. /\ Tail(todo[l]) \in Seq(Functors) /\ Len(Tail(todo[l])) = Len(todo[l]) - 1
      /\ Len(todo[l]) >= 1 /\ Len(todo[l]) \in Nat
  BY <1>2, HeadTailProperties
<1>4. to \in {"check", "run"} /\ (to = "check" <=> Len(todo[l]) = 1)
  OBVIOUS
<1> HIDE DEF to
<1>5. /\ lpc'[l] = to /\ \A m \in All : m # l => lpc'[m] = lpc[m]
      /\ todo'[l] = Tail(todo[l]) /\ \A m \in All : m # l => todo'[m] = todo[m]
  BY <1>1 DEF StageInv, ProgramType
<1>6. TodoInv'
  <2> DEFINE t == Tail(todo[l])
  <2>0. t \in Seq(Functors) /\ Len(t) = Len(todo[l]) - 1
    BY <1>3
  <2> HIDE DEF t
  <2>1. to = "check" => t = <<>>
    BY <2>0, <1>3, <1>4, EmptySeq
  <2>2. to = "run" => t # <<>>
    <3>1. to = "run" => Len(t) # 0
      BY <2>0, <1>3, <1>4
    <3>2. Len(<<>>) = 0
      OBVIOUS
    <3> QED BY <3>1, <3>2
  <2> QED BY <2>1, <2>2, <1>4, <1>5 DEF StageInv, TodoInv, t
<1>7. todo' \in [All -> Seq(Functors)]
  BY <1>1, <1>3 DEF StageInv, ProgramType
<1>8. lpc' \in [All -> {"none", "construct", "published", "check", "poll", "swap", "run",
                        "returned", "gone"}]
  BY <1>1, <1>4 DEF StageInv, ProgramType
<1>9. PoolInv' /\ MainInv'
  BY <1>1, <1>4, LoopMoves
<1> QED BY <1>1, <1>6, <1>7, <1>8, <1>9

(* A step of a loop's thread that leaves what it has to run alone. *)
LEMMA ThreadKeeps ==
  ASSUME StageInv, NEW l \in All, NEW to, lpc' = [lpc EXCEPT ![l] = to],
         UNCHANGED <<mpc, k, loops, todo>>, ConnsMove,
         lpc[l] \notin {"none", "construct", "run", "gone"},
         to \in {"check", "poll", "swap", "returned", "gone"},
         to = "returned" => quit[l],
         to = "gone" <=> lpc[l] = "returned", lpc[l] = "returned" => l # Base,
         \A m \in All : quit'[m] => quit[m],
         quit' \in [All -> BOOLEAN], wake' \in [All -> BOOLEAN],
         pending' \in [All -> Seq(Functors)], next' \in Loops,
         owner' \in [Conns -> Loops \union {Nowhere}],
         state' \in [Conns -> {"kConnecting", "kConnected", "kDisconnected"}],
         inMap' \in [Conns -> BOOLEAN],
         request' \in [Conns -> {"none", "refused", "accepted", "computed", "answered"}],
         ended' \in [Conns -> Nat]
  PROVE  StageInv'
<1>1. PoolInv' /\ MainInv'
  BY LoopMoves
<1>2. ProgramType'
  BY DEF StageInv, ProgramType
<1>3. lpc'[l] = to /\ \A m \in All : m # l => lpc'[m] = lpc[m]
  BY DEF StageInv, ProgramType
<1>4. TodoInv'
  BY <1>3 DEF StageInv, TodoInv
<1> QED BY <1>1, <1>2, <1>4 DEF StageInv

(* loop() goes round, and the poll reports what is there. *)
LEMMA LoopKeeps ==
  ASSUME StageInv, NEW l \in All,
         EnterLoop(l) \/ CheckQuit(l) \/ PollWakeup(l) \/ PollTimeout(l) \/ SwapPending(l)
  PROVE  StageInv'
<1>0. ProgramType
  BY DEF StageInv
<1>1. CASE EnterLoop(l)
  BY <1>0, <1>1, ThreadKeeps DEF EnterLoop, ProgramType, main, conn, ConnsMove
<1>2. CASE CheckQuit(l)
  <2>1. PICK to : to = IF quit[l] THEN "returned" ELSE "poll"
    OBVIOUS
  <2> QED BY <2>1, <1>0, <1>2, ThreadKeeps DEF CheckQuit, ProgramType, main, conn, ConnsMove
<1>3. CASE PollWakeup(l)
  BY <1>0, <1>3, ThreadKeeps DEF PollWakeup, Polled, ProgramType, main, conn, ConnsMove
<1>4. CASE PollTimeout(l)
  BY <1>0, <1>4, ThreadKeeps DEF PollTimeout, Polled, ProgramType, main, conn, ConnsMove
<1>5. CASE SwapPending(l)
  <2>1. /\ lpc[l] = "swap" /\ todo' = [todo EXCEPT ![l] = pending[l]]
        /\ pending' = [pending EXCEPT ![l] = <<>>]
        /\ lpc' = [lpc EXCEPT ![l] = IF pending[l] = <<>> THEN "check" ELSE "run"]
        /\ UNCHANGED <<mpc, k, loops, quit, wake, next, owner, inMap, state, request, ended>>
    BY <1>5 DEF SwapPending, main, conn
  <2>2. PICK to : to = IF pending[l] = <<>> THEN "check" ELSE "run"
    OBVIOUS
  <2>3. PoolInv' /\ MainInv'
    BY <2>1, <2>2, LoopMoves DEF ConnsMove
  <2>4. ProgramType'
    BY <1>0, <2>1, <2>2 DEF ProgramType
  <2>5. TodoInv'
    BY <1>0, <2>1, <2>2 DEF StageInv, ProgramType, TodoInv
  <2> QED BY <2>3, <2>4, <2>5 DEF StageInv
<1> QED BY <1>1, <1>2, <1>3, <1>4, <1>5

(* A connection is accepted while main() is in the base loop, and given one  *)
(* of the loops of the pool.                                                 *)
LEMMA AcceptFacts ==
  ASSUME StageInv, lpc[Base] \in {"check", "poll", "swap", "run"}
  PROVE  mpc = "running" /\ loops[next] \in Loops /\ NextLoop \in Loops
<1>1. mpc = "running"
  <2>1. Base \in All
    BY DEF All
  <2>2. mpc \notin Early
    BY <2>1 DEF StageInv, MainInv
  <2> QED BY <2>2 DEF StageInv, ProgramType, MainInv, Early, Late, Stopping
<1>2. Len(loops) = NumThreads /\ loops \in Seq(Loops) /\ next \in 1 .. NumThreads
  BY <1>1 DEF StageInv, ProgramType, PoolInv, Early, Loops
<1> QED BY <1>1, <1>2, ProgramAssumption DEF NextLoop, Loops

(* Accepting on the base loop. *)
LEMMA AcceptKeeps ==
  ASSUME StageInv, NEW c \in Conns, Accept(c) \/ AcceptFails
  PROVE  StageInv'
<1>0. ProgramType /\ Base \in All /\ Loops \subseteq All
  BY DEF StageInv, All
<1>1. CASE Accept(c)
  <2>1. /\ lpc[Base] = "poll" /\ lpc' = [lpc EXCEPT ![Base] = "swap"]
        /\ owner[c] = Nowhere /\ owner' = [owner EXCEPT ![c] = loops[next]]
        /\ next' = NextLoop /\ inMap' = [inMap EXCEPT ![c] = TRUE]
        /\ Queue(loops[next], <<"connectEstablished", c>>)
        /\ UNCHANGED <<mpc, k, loops, quit, todo, state, request, ended>>
    BY <1>1 DEF Accept, Polled, main
  <2>2. mpc = "running" /\ loops[next] \in Loops /\ NextLoop \in Loops
    BY <2>1, AcceptFacts
  <2>3. PICK m \in Loops : m = loops[next]
    BY <2>2
  <2>4. <<"connectEstablished", c>> \in Functors /\ m # Nowhere
    BY ProgramAssumption DEF Functors, Loops, Nowhere
  <2>5. pending' \in [All -> Seq(Functors)] /\ wake' \in [All -> BOOLEAN]
    BY <2>1, <2>3, <2>4, <1>0, QueueType
  <2>6. ConnsMove
    BY <2>1, <2>2, <2>3, <2>4, <1>0 DEF ConnsMove, ProgramType
  <2>7. owner' \in [Conns -> Loops \union {Nowhere}] /\ inMap' \in [Conns -> BOOLEAN]
    BY <2>1, <2>3, <1>0 DEF ProgramType
  <2> QED BY <2>1, <2>2, <2>5, <2>6, <2>7, <1>0, ThreadKeeps DEF ProgramType
<1>2. CASE AcceptFails
  BY <1>0, <1>2, ThreadKeeps DEF AcceptFails, Polled, ProgramType, main, conn, ConnsMove
<1> QED BY <1>1, <1>2

(* A handler of a connection. *)
LEMMA HandleKeeps ==
  ASSUME StageInv, NEW l \in Loops, NEW c \in Conns, RequestArrives(l, c) \/ PeerCloses(l, c)
  PROVE  StageInv'
<1>0. ProgramType /\ Base \in All /\ l \in All /\ l # Nowhere /\ l # Base
  BY ProgramAssumption DEF StageInv, All, Loops, Nowhere, Base
<1>1. CASE RequestArrives(l, c)
  <2>1. PICK to \in {"refused", "accepted"} :
          /\ to = "accepted" => ~Stopping
          /\ request' = [request EXCEPT ![c] = to]
    BY <1>1 DEF RequestArrives
  <2>2. /\ lpc[l] = "poll" /\ lpc' = [lpc EXCEPT ![l] = "swap"] /\ owner[c] = l
        /\ UNCHANGED <<mpc, k, loops, quit, wake, todo, pending, next, owner, inMap, state, ended>>
    BY <1>1 DEF RequestArrives, Polled, Watched, main, conn
  <2>3. ConnsMove
    BY <2>1, <2>2, <1>0 DEF ConnsMove, ProgramType
  <2>4. request' \in [Conns -> {"none", "refused", "accepted", "computed", "answered"}]
    BY <2>1, <1>0 DEF ProgramType
  <2> QED BY <2>2, <2>3, <2>4, <1>0, ThreadKeeps DEF ProgramType
<1>2. CASE PeerCloses(l, c)
  <2>1. /\ lpc[l] = "poll" /\ lpc' = [lpc EXCEPT ![l] = "swap"]
        /\ state' = [state EXCEPT ![c] = "kDisconnected"]
        /\ Queue(Base, <<"removeConnectionInLoop", c>>)
        /\ UNCHANGED <<mpc, k, loops, quit, todo, next, owner, inMap, request, ended>>
    BY <1>2 DEF PeerCloses, Polled, main, conn
  <2>2. <<"removeConnectionInLoop", c>> \in Functors
    BY DEF Functors
  <2>3. pending' \in [All -> Seq(Functors)] /\ wake' \in [All -> BOOLEAN]
    BY <2>1, <2>2, <1>0, QueueType
  <2>4. state' \in [Conns -> {"kConnecting", "kConnected", "kDisconnected"}]
    BY <2>1, <1>0 DEF ProgramType
  <2>5. ConnsMove
    BY <2>1 DEF ConnsMove
  <2> QED BY <2>1, <2>3, <2>4, <2>5, <1>0, ThreadKeeps DEF ProgramType
<1> QED BY <1>1, <1>2

(* threadFunc() before and after loop(). *)
LEMMA ThreadFuncKeeps ==
  ASSUME StageInv, NEW l \in Loops,
         PublishLoop(l) \/ CreateEventfdFails(l) \/ ThreadReturns(l)
  PROVE  StageInv'
<1>0. ProgramType /\ Base \in All /\ l \in All /\ l # Base /\ Loops \subseteq All /\ Base \notin Loops
  BY ProgramAssumption DEF StageInv, All, Loops, Base
<1>1. lpc[l] = "construct" => mpc \in Early \ {"failed"}
  <2>1. ASSUME lpc[l] = "construct", mpc \notin Early PROVE FALSE
    <3>1. l \in 1 .. Len(loops) /\ mpc # "failed"
      BY <2>1 DEF StageInv, PoolInv, Loops, Early
    <3> QED BY <3>1, <2>1 DEF StageInv, PoolInv
  <2> QED BY <2>1, <1>0 DEF StageInv, MainInv
<1>2. CASE PublishLoop(l)
  <2>1. /\ lpc[l] = "construct" /\ lpc' = [lpc EXCEPT ![l] = "published"]
        /\ UNCHANGED <<mpc, k, loops, quit, wake, todo, pending, next, owner, inMap, state,
                       request, ended>>
    BY <1>2 DEF PublishLoop, main, conn
  <2>2. lpc'[l] = "published" /\ \A m \in All : m # l => lpc'[m] = lpc[m]
    BY <2>1, <1>0 DEF ProgramType
  <2>3. ProgramType'
    BY <2>1, <1>0 DEF ProgramType
  <2>4. TodoInv'
    BY <2>1, <2>2, <1>0 DEF StageInv, TodoInv
  <2>5. PoolInv'
    <3>1. \A i \in 1 .. Len(loops) : loops[i] \in Loops
      BY <1>0 DEF ProgramType
    <3>2. \A i \in 1 .. Len(loops) : i \in All
      BY <3>1, <1>0 DEF StageInv, PoolInv
    <3> QED BY <3>2, <2>1, <2>2, <1>0 DEF StageInv, PoolInv
  <2>6. MainInv'
    BY <2>1, <2>2, <1>0 DEF StageInv, MainInv, Stopping
  <2> QED BY <2>3, <2>4, <2>5, <2>6 DEF StageInv
<1>3. CASE CreateEventfdFails(l)
  BY <1>1, <1>3, ExitKeeps DEF CreateEventfdFails
<1>4. CASE ThreadReturns(l)
  BY <1>0, <1>4, ThreadKeeps DEF ThreadReturns, ProgramType, main, conn, ConnsMove
<1> QED BY <1>2, <1>3, <1>4

-----------------------------------------------------------------------------
(* What a loop has left *)

(* The entries are functors, and the counts of them are numbers. *)
LEMMA LeftType ==
  ASSUME ProgramType, NEW l \in All
  PROVE  /\ pending[l] \in Seq(Functors) /\ todo[l] \in Seq(Functors)
         /\ Left(l) \in Seq(Functors)
         /\ \A f : Queued(l, f) = Count(Left(l), f) /\ Queued(l, f) \in Nat
<1>1. pending[l] \in Seq(Functors) /\ todo[l] \in Seq(Functors)
  BY DEF ProgramType
<1>2. Left(l) \in Seq(Functors)
  BY <1>1, ConcatProperties DEF Left
<1>3. \A f : Queued(l, f) = Count(Left(l), f)
  BY DEF Queued, Count, Places
<1>4. \A f : Count(Left(l), f) \in Nat
  BY <1>2, CountType
<1> QED BY <1>1, <1>2, <1>3, <1>4

(* The functor that runs is the first that the loop has left. *)
LEMMA RunsFirst ==
  ASSUME ProgramType, TodoInv, NEW l \in All, NEW name, NEW c, Running(l, name, c)
  PROVE  /\ Left(l) # <<>> /\ Head(Left(l)) = <<name, c>>
         /\ Tail(Left(l)) = Tail(todo[l]) \o pending[l]
         /\ todo'[l] = Tail(todo[l]) /\ \A m \in All : m # l => todo'[m] = todo[m]
<1>1. /\ lpc[l] = "run" /\ Head(todo[l]) = <<name, c>>
      /\ todo' = [todo EXCEPT ![l] = Tail(todo[l])]
  BY DEF Running
<1>2. todo[l] \in Seq(Functors) /\ todo[l] # <<>> /\ pending[l] \in Seq(Functors)
  BY <1>1, LeftType DEF TodoInv
<1>3. /\ todo[l] \o pending[l] # <<>> /\ Head(todo[l] \o pending[l]) = Head(todo[l])
      /\ Tail(todo[l] \o pending[l]) = Tail(todo[l]) \o pending[l]
  BY <1>2, ConcatHeadTail
<1>4. todo'[l] = Tail(todo[l]) /\ \A m \in All : m # l => todo'[m] = todo[m]
  BY <1>1 DEF ProgramType
<1> QED BY <1>1, <1>3, <1>4 DEF Left

(* Where a functor that runs was queued. *)
LEMMA RunsPlaced ==
  ASSUME StageInv, PlacedInv, NEW l \in All, NEW name, NEW c \in Conns, Running(l, name, c)
  PROVE  /\ owner[c] # Nowhere /\ owner[c] \in Loops
         /\ IF name = "removeConnectionInLoop" THEN l = Base ELSE l = owner[c]
<1>1. Left(l) # <<>> /\ Head(Left(l)) = <<name, c>> /\ Left(l) \in Seq(Functors)
  BY RunsFirst, LeftType DEF StageInv
<1>2. PICK s \in Seq(Functors) : s = Left(l)
  BY <1>1
<1>3. s[1] = <<name, c>> /\ 1 \in 1 .. Len(s)
  BY <1>1, <1>2, HeadTailProperties
<1>4. <<name, c>>[1] = name /\ <<name, c>>[2] = c
  OBVIOUS
<1>5. PICK f : f = <<name, c>>
  OBVIOUS
<1>6. owner[f[2]] # Nowhere /\ IF f[1] = "removeConnectionInLoop" THEN l = Base ELSE l = owner[f[2]]
  BY <1>2, <1>3, <1>5 DEF PlacedInv, Placed
<1>7. owner[c] # Nowhere /\ IF name = "removeConnectionInLoop" THEN l = Base ELSE l = owner[c]
  BY <1>4, <1>5, <1>6
<1> QED BY <1>7 DEF StageInv, ProgramType

(* A functor runs. *)
LEMMA FunctorKeeps ==
  ASSUME StageInv, PlacedInv, NEW l \in All, NEW c \in Conns,
         \/ ConnectEstablished(l, c) \/ ConnectDestroyed(l, c) \/ SendResponse(l, c)
         \/ l = Base /\ RemoveConnectionInLoop(c)
  PROVE  StageInv'
<1>0. ProgramType
  BY DEF StageInv
<1>1. CASE ConnectEstablished(l, c) \/ ConnectDestroyed(l, c)
  <2>1. PICK name : Running(l, name, c)
    BY <1>1 DEF ConnectEstablished, ConnectDestroyed
  <2>2. UNCHANGED <<wake, pending, owner, inMap, request>>
    BY <1>1 DEF ConnectEstablished, ConnectDestroyed, conn
  <2>3. /\ state' \in [Conns -> {"kConnecting", "kConnected", "kDisconnected"}]
        /\ ended' \in [Conns -> Nat]
    <3>1. \/ state' = [state EXCEPT ![c] = "kConnected"] /\ ended' = ended
          \/ /\ state' = [state EXCEPT ![c] = "kDisconnected"]
             /\ ended' = [ended EXCEPT ![c] = ended[c] + 1]
      BY <1>1 DEF ConnectEstablished, ConnectDestroyed
    <3>2. ended[c] + 1 \in Nat
      BY <1>0 DEF ProgramType
    <3> QED BY <3>1, <3>2, <1>0 DEF ProgramType
  <2>4. ConnsMove
    BY <2>2 DEF ConnsMove
  <2> QED BY <2>1, <2>2, <2>3, <2>4, <1>0, RunningKeeps DEF StageInv, ProgramType
<1>2. CASE SendResponse(l, c)
  <2>1. /\ Running(l, "response", c) /\ UNCHANGED <<wake, pending, owner, inMap, state, ended>>
        /\ request' = [request EXCEPT ![c] = IF state[c] = "kConnected" THEN "answered" ELSE @]
    BY <1>2 DEF SendResponse, conn
  <2>2. owner[c] # Nowhere
    BY <2>1, RunsPlaced
  <2>3. request' \in [Conns -> {"none", "refused", "accepted", "computed", "answered"}]
    BY <2>1, <1>0 DEF ProgramType
  <2>4. ConnsMove
    BY <2>1, <2>2, <1>0 DEF ConnsMove, ProgramType
  <2> QED BY <2>1, <2>3, <2>4, <1>0, RunningKeeps DEF StageInv, ProgramType
<1>3. CASE l = Base /\ RemoveConnectionInLoop(c)
  <2>1. /\ Running(Base, "removeConnectionInLoop", c) /\ Base \in All
        /\ inMap' = [inMap EXCEPT ![c] = FALSE]
        /\ Queue(owner[c], <<"connectDestroyed", c>>)
        /\ UNCHANGED <<owner, state, request, ended>>
    BY <1>3 DEF RemoveConnectionInLoop
  <2>2. owner[c] # Nowhere
    BY <2>1, RunsPlaced
  <2>3. owner[c] \in All /\ <<"connectDestroyed", c>> \in Functors
    BY <2>2, <1>0 DEF ProgramType, Functors, All
  <2>4. pending' \in [All -> Seq(Functors)] /\ wake' \in [All -> BOOLEAN]
    BY <2>1, <2>3, <1>0, QueueType
  <2>5. inMap' \in [Conns -> BOOLEAN]
    BY <2>1, <1>0 DEF ProgramType
  <2>6. ConnsMove
    BY <2>1 DEF ConnsMove
  <2> QED BY <2>1, <2>4, <2>5, <2>6, <1>0, RunningKeeps DEF StageInv, ProgramType
<1> QED BY <1>1, <1>2, <1>3

(* The workers, the signal thread. *)
LEMMA OthersKeep ==
  ASSUME StageInv,
         (\E c \in Conns : WorkerCompletes(c)) \/ Signal \/ SignalQuits \/ SignalWakes
  PROVE  StageInv'
<1>0. /\ ProgramType /\ Base \in All /\ Base \notin Loops
  BY ProgramAssumption DEF StageInv, All, Loops, Base
<1>1. ASSUME NEW c \in Conns, WorkerCompletes(c) PROVE StageInv'
  <2>1. /\ request[c] = "accepted" /\ request' = [request EXCEPT ![c] = "computed"]
        /\ Queue(owner[c], <<"response", c>>)
        /\ UNCHANGED <<mpc, k, loops, lpc, quit, todo, next, owner, inMap, state, ended>>
    BY <1>1 DEF WorkerCompletes, main, conn
  <2>2. owner[c] # Nowhere
    BY <2>1 DEF StageInv, MainInv
  <2>3. owner[c] \in All /\ <<"response", c>> \in Functors
    BY <2>2, <1>0 DEF ProgramType, Functors, All
  <2>4. pending' \in [All -> Seq(Functors)] /\ wake' \in [All -> BOOLEAN]
    BY <2>1, <2>3, <1>0, QueueType
  <2>5. \A d \in Conns : request'[d] = request[d] \/ (d = c /\ request'[d] = "computed")
    BY <2>1, <1>0 DEF ProgramType
  <2>6. ProgramType'
    BY <2>1, <2>4, <1>0 DEF ProgramType
  <2>7. TodoInv' /\ PoolInv'
    BY <2>1 DEF StageInv, TodoInv, PoolInv
  <2>8. MainInv'
    BY <2>1, <2>2, <2>5 DEF StageInv, MainInv, Stopping
  <2> QED BY <2>6, <2>7, <2>8 DEF StageInv
<1>2. CASE Signal \/ SignalQuits \/ SignalWakes
  <2>1. /\ UNCHANGED <<mpc, k, loops, lpc, todo, pending, next, owner, inMap, state, request, ended>>
        /\ quit' = quit \/ quit' = [quit EXCEPT ![Base] = TRUE]
        /\ wake' = wake \/ wake' = [wake EXCEPT ![Base] = TRUE]
    BY <1>2 DEF Signal, SignalQuits, SignalWakes, loop, conn
  <2>2. /\ quit' \in [All -> BOOLEAN] /\ wake' \in [All -> BOOLEAN]
        /\ \A l \in Loops : quit'[l] = quit[l]
    BY <2>1, <1>0 DEF ProgramType, All
  <2>3. ProgramType' /\ TodoInv' /\ PoolInv'
    BY <2>1, <2>2, <1>0 DEF StageInv, ProgramType, TodoInv, PoolInv
  <2>4. MainInv'
    BY <2>1, <2>2 DEF StageInv, MainInv, Stopping
  <2> QED BY <2>3, <2>4 DEF StageInv
<1> QED BY <1>1, <1>2

(* main() after the base loop has returned. *)
LEMMA ShutdownKeeps ==
  ASSUME StageInv, RemovalInv,
         \/ StopScheduler \/ StopReturns \/ JoinSignalThread \/ DestroyPool
         \/ QuitThread \/ WakeThread \/ JoinThread \/ Exit
         \/ \E c \in Conns : DestroyConnection(c)
  PROVE  StageInv'
<1>0. /\ ProgramType /\ Base \in All /\ Base \notin Loops
      /\ Loops \subseteq All /\ NumThreads \in Nat
  BY ProgramAssumption DEF StageInv, All, Loops, Base
<1>1. /\ UNCHANGED <<loops, lpc, todo, next, owner, state, request, ended>>
      /\ <<mpc, mpc'>> \in {<<"running", "stop">>, <<"stop", "join">>, <<"join", "destroy">>,
                            <<"destroy", "destroy">>, <<"destroy", "quit">>,
                            <<"quit", "wakeThread">>, <<"wakeThread", "joinThread">>,
                            <<"joinThread", "quit">>, <<"quit", "exit">>}
      /\ mpc = "running" => lpc[Base] = "returned"
      /\ mpc = "stop" => \A d \in Conns : request[d] # "accepted"
      /\ k' = k \/ k' = k + 1
      /\ quit' = quit \/ (mpc = "quit" /\ quit' = [quit EXCEPT ![loops[k]] = TRUE])
  BY DEF StopScheduler, StopReturns, JoinSignalThread, DestroyConnection, DestroyPool,
         QuitThread, WakeThread, JoinThread, Exit, MainGoes
<1>2. /\ pending' \in [All -> Seq(Functors)] /\ wake' \in [All -> BOOLEAN]
      /\ inMap' \in [Conns -> BOOLEAN]
  <2>1. CASE \E c \in Conns : DestroyConnection(c)
    <3>1. PICK c \in Conns : DestroyConnection(c)
      BY <2>1
    <3>2. owner[c] # Nowhere
      BY <3>1 DEF DestroyConnection, RemovalInv, ConnInv
    <3>3. owner[c] \in All /\ <<"connectDestroyed", c>> \in Functors
      BY <3>2, <1>0 DEF ProgramType, Functors, All
    <3> QED BY <3>1, <3>3, <1>0, QueueType DEF DestroyConnection, ProgramType
  <2>2. CASE ~\E c \in Conns : DestroyConnection(c)
    <3>1. /\ wake' = wake \/ wake' = [wake EXCEPT ![loops[k]] = TRUE]
          /\ UNCHANGED <<pending, inMap>>
      BY <2>2 DEF StopScheduler, StopReturns, JoinSignalThread, DestroyPool, QuitThread,
                  WakeThread, JoinThread, Exit
    <3> QED BY <3>1, <1>0 DEF ProgramType
  <2> QED BY <2>1, <2>2
<1>3. mpc \notin Early /\ mpc' \notin Early
  BY <1>1 DEF Early
<1>4. ProgramType'
  <2>1. quit' \in [All -> BOOLEAN]
    BY <1>0, <1>1 DEF ProgramType
  <2>2. k' \in Nat \ {0}
    BY <1>0, <1>1 DEF ProgramType
  <2>3. mpc' \in Early \union Late \union {"running", "stop", "join", "destroy"}
    BY <1>1 DEF Late
  <2> QED BY <2>1, <2>2, <2>3, <1>0, <1>1, <1>2 DEF ProgramType
<1>5. TodoInv'
  BY <1>1 DEF StageInv, TodoInv
<1>6. PoolInv'
  BY <1>1, <1>3 DEF StageInv, PoolInv, Early
<1>7. MainInv'
  <2>1. mpc' # "failed" /\ mpc # "failed" /\ mpc' # "running" /\ (Stopping \/ mpc = "running")
    BY <1>1, <1>3 DEF Early, Stopping
  <2>2. lpc[Base] = "returned"
    BY <2>1, <1>1 DEF StageInv, MainInv
  <2>3. mpc \in Late => mpc' \in Late
    BY <1>1 DEF Late
  <2>4. \A l \in Loops : quit'[l] # quit[l] => mpc \in Late
    BY <1>1 DEF Late
  <2>5. mpc' \in Late \union {"join", "destroy"} =>
          mpc = "stop" \/ mpc \in Late \union {"join", "destroy"}
    BY <1>1 DEF Late
  <2> QED BY <2>1, <2>2, <2>3, <2>4, <2>5, <1>1, <1>3 DEF StageInv, MainInv
<1> QED BY <1>4, <1>5, <1>6, <1>7 DEF StageInv

(* Every step of the program. *)
LEMMA StageStep ==
  ASSUME StageInv, PlacedInv, RemovalInv, [Next]_vars
  PROVE  StageInv'
<1>1. CASE MainStep
  <2>1. CASE CreateFails \/ BindFails \/ ListenFails
    <3>1. mpc \in Early \ {"failed"} /\ ExitFatal
      BY <2>1 DEF CreateFails, BindFails, ListenFails, PoolStarted, Early
    <3> QED BY <3>1, ExitKeeps
  <2>2. CASE CreateNonblocking \/ BindAddress \/ SpawnThread \/ StartLoop \/ Listen
    BY <2>2, StartUpKeeps
  <2>3. CASE \/ StopScheduler \/ StopReturns \/ JoinSignalThread \/ DestroyPool
             \/ QuitThread \/ WakeThread \/ JoinThread \/ Exit
             \/ \E c \in Conns : DestroyConnection(c)
    BY <2>3, ShutdownKeeps
  <2> QED BY <1>1, <2>1, <2>2, <2>3 DEF MainStep
<1>2. CASE (\E c \in Conns : WorkerCompletes(c)) \/ Signal \/ SignalQuits \/ SignalWakes
  BY <1>2, OthersKeep
<1>3. CASE \E l \in All : LoopStep(l) \/ PollTimeout(l)
  <2>1. PICK l \in All : LoopStep(l) \/ PollTimeout(l)
    BY <1>3
  <2>2. CASE RunFunctor(l)
    BY <2>2, FunctorKeeps DEF RunFunctor
  <2>3. CASE ~RunFunctor(l)
    BY <2>1, <2>3, LoopKeeps DEF LoopStep
  <2> QED BY <2>2, <2>3
<1>4. CASE \E l \in Loops : ThreadStep(l) \/ Handle(l)
  BY <1>4, ThreadFuncKeeps, HandleKeeps DEF ThreadStep, Handle
<1>5. CASE (\E c \in Conns : Accept(c)) \/ AcceptFails
  BY <1>5, AcceptKeeps DEF AcceptFails
<1>6. CASE UNCHANGED vars
  BY <1>6 DEF vars, main, loop, conn, StageInv, ProgramType, TodoInv, PoolInv, MainInv, Stopping
<1> QED BY <1>1, <1>2, <1>3, <1>4, <1>5, <1>6 DEF Next

-----------------------------------------------------------------------------
(* How a step changes what is left *)

(* A functor is queued. *)
LEMMA LeftAppended ==
  ASSUME ProgramType, NEW m \in All, NEW f \in Functors,
         pending'[m] = Append(pending[m], f), todo'[m] = todo[m]
  PROVE  /\ Left(m)' = Append(Left(m), f)
         /\ \A g : Queued(m, g)' = Queued(m, g) + (IF f = g THEN 1 ELSE 0)
<1>1. /\ pending[m] \in Seq(Functors) /\ todo[m] \in Seq(Functors)
      /\ Left(m) \in Seq(Functors) /\ \A g : Queued(m, g) = Count(Left(m), g)
  BY LeftType
<1>2. Left(m)' = Append(Left(m), f)
  <2>1. PICK s \in Seq(Functors) : s = todo[m]
    BY <1>1
  <2>2. PICK t \in Seq(Functors) : t = pending[m]
    BY <1>1
  <2>3. s \o Append(t, f) = Append(s \o t, f)
    BY ConcatAppend
  <2> QED BY <2>1, <2>2, <2>3 DEF Left
<1>3. \A g : Queued(m, g)' = Count(Left(m)', g)
  BY DEF Queued, Count, Places
<1>4. \A g : Count(Append(Left(m), f), g) = Count(Left(m), g) + (IF f = g THEN 1 ELSE 0)
  BY <1>1, CountAppend
<1> QED BY <1>1, <1>2, <1>3, <1>4

(* A functor runs. *)
LEMMA LeftTaken ==
  ASSUME StageInv, NEW l \in All, NEW name, NEW c, Running(l, name, c), pending'[l] = pending[l]
  PROVE  /\ Left(l)' = Tail(Left(l)) /\ Left(l) # <<>>
         /\ \A g : Queued(l, g) = Queued(l, g)' + (IF <<name, c>> = g THEN 1 ELSE 0)
<1>1. /\ Left(l) \in Seq(Functors) /\ \A g : Queued(l, g) = Count(Left(l), g)
  BY LeftType DEF StageInv
<1>2. /\ Left(l) # <<>> /\ Head(Left(l)) = <<name, c>>
      /\ Tail(Left(l)) = Tail(todo[l]) \o pending[l] /\ todo'[l] = Tail(todo[l])
  BY RunsFirst DEF StageInv
<1>3. Left(l)' = Tail(Left(l))
  BY <1>2 DEF Left
<1>4. \A g : Queued(l, g)' = Count(Left(l)', g)
  BY DEF Queued, Count, Places
<1>5. \A g : Count(Left(l), g) = Count(Tail(Left(l)), g) + (IF Head(Left(l)) = g THEN 1 ELSE 0)
  BY <1>1, <1>2, CountTail
<1>6. PICK f : f = <<name, c>>
  OBVIOUS
<1>7. \A g : Queued(l, g) = Queued(l, g)' + (IF f = g THEN 1 ELSE 0)
  BY <1>1, <1>2, <1>3, <1>4, <1>5, <1>6
<1> QED BY <1>2, <1>3, <1>6, <1>7

(* Nothing is queued and nothing runs. *)
LEMMA LeftSame ==
  ASSUME NEW l, Left(l)' = Left(l)
  PROVE  \A g : Queued(l, g)' = Queued(l, g)
BY DEF Queued

(* Functors stay where they were queued, and new ones are queued there. *)
LEMMA PlacedStep ==
  ASSUME ProgramType, PlacedInv,
         \A c \in Conns : owner[c] # Nowhere => owner'[c] = owner[c],
         \A l \in All :
           \/ Left(l)' = Left(l)
           \/ Left(l)' = Tail(Left(l)) /\ Left(l) # <<>>
           \/ \E f \in Functors : Left(l)' = Append(Left(l), f) /\ Placed(l, f)'
  PROVE  PlacedInv'
<1>1. ASSUME NEW l \in All, NEW f \in Functors, Placed(l, f) PROVE Placed(l, f)'
  <2>1. f[2] \in Conns
    BY DEF Functors
  <2> QED BY <2>1, <1>1 DEF Placed
<1>2. ASSUME NEW l \in All, NEW i \in 1 .. Len(Left(l)')
      PROVE  \E f : f = Left(l)'[i] /\ Placed(l, f)'
  <2>1. PICK s \in Seq(Functors) : s = Left(l)
    BY LeftType
  <2>2. PICK t : t = Left(l)'
    OBVIOUS
  <2>3. \A j \in 1 .. Len(s) : Placed(l, s[j]) /\ s[j] \in Functors
    BY <2>1 DEF PlacedInv
  <2>4. CASE t = s
    <3>1. PICK f \in Functors : f = s[i] /\ Placed(l, f)
      BY <1>2, <2>2, <2>3, <2>4
    <3> QED BY <3>1, <2>2, <2>4, <1>1
  <2>5. CASE t = Tail(s) /\ s # <<>>
    <3>1. t[i] = s[i + 1] /\ i + 1 \in 1 .. Len(s)
      BY <1>2, <2>2, <2>5, HeadTailProperties
    <3>2. PICK f \in Functors : f = s[i + 1] /\ Placed(l, f)
      BY <3>1, <2>3
    <3> QED BY <3>1, <3>2, <2>2, <1>1
  <2>6. CASE \E f \in Functors : t = Append(s, f) /\ Placed(l, f)'
    <3>1. PICK f \in Functors : t = Append(s, f) /\ Placed(l, f)'
      BY <2>6
    <3>2. /\ i \in 1 .. Len(s) + 1 /\ t[Len(s) + 1] = f /\ Len(s) \in Nat
          /\ \A j \in 1 .. Len(s) : t[j] = s[j]
      <4>1. /\ Len(t) = Len(s) + 1 /\ t[Len(s) + 1] = f /\ Len(s) \in Nat
            /\ \A j \in 1 .. Len(s) : t[j] = s[j]
        BY <3>1, AppendProperties
      <4> QED BY <4>1, <1>2, <2>2
    <3>3. CASE i = Len(s) + 1
      BY <3>1, <3>2, <3>3, <2>2
    <3>4. CASE i \in 1 .. Len(s)
      <4>1. PICK g \in Functors : g = s[i] /\ Placed(l, g)
        BY <3>4, <2>3
      <4> QED BY <4>1, <3>2, <3>4, <2>2, <1>1
    <3> QED BY <3>2, <3>3, <3>4
  <2> QED BY <2>1, <2>2, <2>4, <2>5, <2>6
<1> QED BY <1>2 DEF PlacedInv

(* queueInLoop() adds one functor to one loop. *)
LEMMA QueueCounts ==
  ASSUME StageInv, NEW m \in All, NEW f \in Functors, Queue(m, f), todo' = todo
  PROVE  /\ Left(m)' = Append(Left(m), f)
         /\ \A l \in All : l # m => Left(l)' = Left(l)
         /\ \A g : Queued(m, g)' = Queued(m, g) + (IF f = g THEN 1 ELSE 0)
         /\ \A l \in All : l # m => \A g : Queued(l, g)' = Queued(l, g)
<1>1. pending'[m] = Append(pending[m], f) /\ \A l \in All : l # m => pending'[l] = pending[l]
  BY DEF Queue, StageInv, ProgramType
<1>2. \A l \in All : l # m => Left(l)' = Left(l)
  BY <1>1 DEF Left
<1>3. \A l \in All : l # m => \A g : Queued(l, g)' = Queued(l, g)
  BY <1>2, LeftSame
<1> QED BY <1>1, <1>2, <1>3, LeftAppended DEF StageInv

(* doPendingFunctors() takes one functor from its loop. *)
LEMMA RunCounts ==
  ASSUME StageInv, NEW l \in All, NEW name, NEW c, Running(l, name, c), pending' = pending
  PROVE  /\ Left(l)' = Tail(Left(l)) /\ Left(l) # <<>>
         /\ \A m \in All : m # l => Left(m)' = Left(m)
         /\ \A g : Queued(l, g) = Queued(l, g)' + (IF <<name, c>> = g THEN 1 ELSE 0)
         /\ \A m \in All : m # l => \A g : Queued(m, g)' = Queued(m, g)
<1>1. \A m \in All : m # l => todo'[m] = todo[m]
  BY RunsFirst DEF StageInv
<1>2. \A m \in All : m # l => Left(m)' = Left(m)
  BY <1>1 DEF Left
<1>3. \A m \in All : m # l => \A g : Queued(m, g)' = Queued(m, g)
  BY <1>2, LeftSame
<1> QED BY <1>2, <1>3, LeftTaken

(* Once the base loop has returned it does not run again. *)
BaseStays == lpc[Base] \in {"returned", "gone"} => lpc'[Base] \in {"returned", "gone"}

(* What was and is queued for a connection. *)
SameCounts(c) == \A l \in All : \A n : Queued(l, <<n, c>>)' = Queued(l, <<n, c>>)

(* A connection that a step leaves alone. *)
LEMMA ConnSame ==
  ASSUME NEW c \in Conns, ConnInv(c), BaseStays, SameCounts(c),
         owner'[c] = owner[c], state'[c] = state[c], inMap'[c] = inMap[c], ended'[c] = ended[c]
  PROVE  ConnInv(c)'
<1>1. Base \in All /\ Loops \subseteq All
  BY DEF All
<1>2. ASSUME NEW l \in Loops PROVE Removals(c, l)' = Removals(c, l)
  BY <1>1 DEF Removals, SameCounts
<1>3. ASSUME NEW l \in Loops
      PROVE  Queued(l, <<"connectDestroyed", c>>)' = Queued(l, <<"connectDestroyed", c>>)
  BY <1>1 DEF SameCounts
<1> QED BY <1>2, <1>3 DEF ConnInv, BaseStays

(* A step that concerns one connection. *)
LEMMA ConnsStep ==
  ASSUME RemovalInv, NEW c \in Conns, BaseStays, ConnInv(c)',
         \A d \in Conns : d # c =>
           /\ SameCounts(d) /\ owner'[d] = owner[d] /\ state'[d] = state[d]
           /\ inMap'[d] = inMap[d] /\ ended'[d] = ended[d]
  PROVE  RemovalInv'
<1>1. \A d \in Conns : d # c => ConnInv(d)'
  BY ConnSame DEF RemovalInv
<1> QED BY <1>1 DEF RemovalInv

(* A step that leaves the connections and the queues alone. *)
LEMMA ConnsFrame ==
  ASSUME ProgramType, PlacedInv, RemovalInv, BaseStays,
         UNCHANGED <<owner, state, inMap, ended>>, \A l \in All : Left(l)' = Left(l)
  PROVE  PlacedInv' /\ RemovalInv'
<1>1. \A c \in Conns : SameCounts(c)
  BY LeftSame DEF SameCounts
<1>2. RemovalInv'
  BY <1>1, ConnSame DEF RemovalInv
<1> QED BY <1>2, PlacedStep

(* A new connection: it is in the map and going to be established. *)
LEMMA AcceptConn ==
  ASSUME ProgramInv, NEW c \in Conns, Accept(c)
  PROVE  PlacedInv' /\ RemovalInv'
<1>0. /\ StageInv /\ ProgramType /\ PlacedInv /\ RemovalInv
      /\ Base \in All /\ Loops \subseteq All /\ Base \notin Loops /\ Nowhere \notin Loops
  BY ProgramAssumption DEF ProgramInv, StageInv, All, Loops, Base, Nowhere
<1>1. /\ lpc[Base] = "poll" /\ owner[c] = Nowhere /\ owner' = [owner EXCEPT ![c] = loops[next]]
      /\ inMap' = [inMap EXCEPT ![c] = TRUE]
      /\ Queue(loops[next], <<"connectEstablished", c>>)
      /\ UNCHANGED <<todo, state, ended>>
  BY DEF Accept, Polled
<1>2. loops[next] \in Loops
  BY <1>0, <1>1, AcceptFacts
<1>3. PICK m \in Loops : m = loops[next]
  BY <1>2
<1>4. PICK f \in Functors : f = <<"connectEstablished", c>>
  BY DEF Functors
<1>5. m \in All
  BY <1>0
<1>6. /\ Left(m)' = Append(Left(m), f)
      /\ \A l \in All : l # m => Left(l)' = Left(l)
      /\ \A g : Queued(m, g)' = Queued(m, g) + (IF f = g THEN 1 ELSE 0)
      /\ \A l \in All : l # m => \A g : Queued(l, g)' = Queued(l, g)
  BY <1>0, <1>1, <1>3, <1>4, <1>5, QueueCounts
<1>7. \A l \in All : \A n : Queued(l, <<n, c>>) = 0
  <2> SUFFICES ASSUME NEW l \in All, NEW n PROVE Queued(l, <<n, c>>) = 0
    OBVIOUS
  <2>1. PICK s \in Seq(Functors) : s = Left(l)
    BY <1>0, LeftType
  <2>2. \A i \in 1 .. Len(s) : owner[s[i][2]] # Nowhere
    BY <2>1, <1>0 DEF PlacedInv, Placed
  <2>3. \A i \in 1 .. Len(s) : s[i] # <<n, c>>
    BY <2>2, <1>1
  <2>4. Count(s, <<n, c>>) = 0
    BY <2>3, CountType
  <2> QED BY <2>1, <2>4, <1>0, LeftType
<1>8. /\ owner'[c] = m /\ inMap'[c] = TRUE
      /\ \A d \in Conns : d # c => owner'[d] = owner[d] /\ inMap'[d] = inMap[d]
  BY <1>0, <1>1, <1>3 DEF ProgramType
<1>9. BaseStays
  BY <1>1 DEF BaseStays
<1>10. \A d \in Conns : d # c => SameCounts(d)
  <2> SUFFICES ASSUME NEW d \in Conns, d # c, NEW l \in All, NEW n
               PROVE  Queued(l, <<n, d>>)' = Queued(l, <<n, d>>)
    BY DEF SameCounts
  <2>1. f # <<n, d>>
    BY <1>4
  <2>2. Queued(l, <<n, d>>) \in Nat
    BY <1>0, LeftType
  <2> QED BY <2>1, <2>2, <1>6
<1>11. ConnInv(c)'
  <2>1. /\ Queued(m, <<"connectEstablished", c>>)' = 1
        /\ Queued(m, <<"connectDestroyed", c>>)' = 0
        /\ Queued(Base, <<"removeConnectionInLoop", c>>)' = 0
    <3>1. Base # m /\ f # <<"connectDestroyed", c>>
      BY <1>0, <1>4
    <3>2. Queued(m, <<"connectEstablished", c>>)' = 1
      BY <1>4, <1>5, <1>6, <1>7
    <3>3. Queued(m, <<"connectDestroyed", c>>)' = 0
      BY <3>1, <1>5, <1>6, <1>7
    <3>4. Queued(Base, <<"removeConnectionInLoop", c>>)' = 0
      BY <3>1, <1>0, <1>6, <1>7
    <3> QED BY <3>2, <3>3, <3>4
  <2>2. ended'[c] = 0 /\ state'[c] = "kConnecting"
    BY <1>0, <1>1 DEF RemovalInv, ConnInv
  <2>3. Removals(c, m)' = 1
    BY <2>1, <2>2 DEF Removals
  <2> QED BY <2>1, <2>2, <2>3, <1>0, <1>8 DEF ConnInv
<1>12. RemovalInv'
  BY <1>0, <1>1, <1>8, <1>9, <1>10, <1>11, ConnsStep
<1>13. Placed(m, f)'
  BY <1>0, <1>4, <1>8 DEF Placed
<1>14. PlacedInv'
  BY <1>0, <1>1, <1>6, <1>8, <1>13, PlacedStep
<1> QED BY <1>12, <1>14

(* A functor of a connection is queued. *)
LEMMA QueueConn ==
  ASSUME ProgramInv, NEW c \in Conns, NEW m \in All, NEW name,
         <<name, c>> \in Functors, Queue(m, <<name, c>>), UNCHANGED <<todo, owner>>, BaseStays,
         owner[c] # Nowhere, IF name = "removeConnectionInLoop" THEN m = Base ELSE m = owner[c],
         \A d \in Conns : d # c =>
           state'[d] = state[d] /\ inMap'[d] = inMap[d] /\ ended'[d] = ended[d]
  PROVE  /\ PlacedInv' /\ (ConnInv(c)' => RemovalInv')
         /\ Queued(m, <<name, c>>)' = Queued(m, <<name, c>>) + 1
         /\ \A l \in All : \A n : l # m \/ n # name =>
              Queued(l, <<n, c>>)' = Queued(l, <<n, c>>)
         /\ \A l \in All : \A n : Queued(l, <<n, c>>) \in Nat
<1>0. StageInv /\ ProgramType /\ PlacedInv /\ RemovalInv
  BY DEF ProgramInv, StageInv
<1>1. PICK f \in Functors : f = <<name, c>>
  OBVIOUS
<1>2. /\ Left(m)' = Append(Left(m), f)
      /\ \A l \in All : l # m => Left(l)' = Left(l)
      /\ \A g : Queued(m, g)' = Queued(m, g) + (IF f = g THEN 1 ELSE 0)
      /\ \A l \in All : l # m => \A g : Queued(l, g)' = Queued(l, g)
  BY <1>0, <1>1, QueueCounts
<1>3. \A l \in All : \A g : Queued(l, g) \in Nat
  BY <1>0, LeftType
<1>4. \A d, n : <<n, d>> # f => \A l \in All : Queued(l, <<n, d>>)' = Queued(l, <<n, d>>)
  BY <1>2, <1>3
<1>5. \A d \in Conns : d # c => SameCounts(d)
  BY <1>1, <1>4 DEF SameCounts
<1>6. ConnInv(c)' => RemovalInv'
  BY <1>0, <1>5, ConnsStep
<1>7. Placed(m, f)'
  BY <1>1 DEF Placed
<1>8. PlacedInv'
  BY <1>0, <1>2, <1>7, PlacedStep
<1>9. Queued(m, <<name, c>>)' = Queued(m, <<name, c>>) + 1
  BY <1>1, <1>2
<1>10. \A n : n # name => <<n, c>> # f
  BY <1>1
<1> QED BY <1>2, <1>3, <1>4, <1>6, <1>8, <1>9, <1>10

(* A functor of a connection runs, on the loop it was queued to. *)
LEMMA RunConn ==
  ASSUME ProgramInv, NEW c \in Conns, NEW l \in All, NEW name,
         Running(l, name, c), UNCHANGED <<pending, owner>>,
         \A d \in Conns : d # c =>
           state'[d] = state[d] /\ inMap'[d] = inMap[d] /\ ended'[d] = ended[d]
  PROVE  /\ PlacedInv' /\ (ConnInv(c)' => RemovalInv') /\ BaseStays
         /\ Queued(l, <<name, c>>) = Queued(l, <<name, c>>)' + 1
         /\ \A m \in All : \A n : m # l \/ n # name =>
              Queued(m, <<n, c>>)' = Queued(m, <<n, c>>)
         /\ \A m \in All : \A n : Queued(m, <<n, c>>) \in Nat /\ Queued(m, <<n, c>>)' \in Nat
<1>0. StageInv /\ ProgramType /\ PlacedInv /\ RemovalInv
  BY DEF ProgramInv, StageInv
<1>1. PICK f : f = <<name, c>>
  OBVIOUS
<1>2. /\ Left(l)' = Tail(Left(l)) /\ Left(l) # <<>>
      /\ \A m \in All : m # l => Left(m)' = Left(m)
      /\ \A g : Queued(l, g) = Queued(l, g)' + (IF f = g THEN 1 ELSE 0)
      /\ \A m \in All : m # l => \A g : Queued(m, g)' = Queued(m, g)
  BY <1>0, <1>1, RunCounts
<1>3. \A m \in All : \A g : Queued(m, g) \in Nat
  BY <1>0, LeftType
<1>4. \A m \in All : \A g : Queued(m, g)' \in Nat
  <2>1. \A g : Queued(l, g)' = Count(Left(l)', g)
    BY DEF Queued, Count, Places
  <2>2. Tail(Left(l)) \in Seq(Functors)
    BY <1>0, <1>2, LeftType, HeadTailProperties
  <2>3. \A g : Count(Tail(Left(l)), g) \in Nat
    BY <2>2, CountType
  <2> QED BY <1>2, <1>3, <2>1, <2>3
<1>5. \A d, n : <<n, d>> # f => \A m \in All : Queued(m, <<n, d>>)' = Queued(m, <<n, d>>)
  BY <1>2, <1>3, <1>4
<1>6. \A d \in Conns : d # c => SameCounts(d)
  BY <1>1, <1>5 DEF SameCounts
<1>7. BaseStays
  <2>1. lpc[l] = "run" /\ \A m \in All : m # l => lpc'[m] = lpc[m]
    BY <1>0 DEF Running, ProgramType
  <2> QED BY <2>1 DEF BaseStays, All
<1>8. ConnInv(c)' => RemovalInv'
  BY <1>0, <1>6, <1>7, ConnsStep
<1>9. PlacedInv'
  BY <1>0, <1>2, PlacedStep
<1>10. Queued(l, <<name, c>>) = Queued(l, <<name, c>>)' + 1
  BY <1>1, <1>2
<1>11. \A n : n # name => <<n, c>> # f
  BY <1>1
<1> QED BY <1>2, <1>3, <1>4, <1>5, <1>7, <1>8, <1>9, <1>10, <1>11

(* connectEstablished(), connectDestroyed() and the answer. *)
LEMMA FunctorConn ==
  ASSUME ProgramInv, NEW l \in All, NEW c \in Conns,
         ConnectEstablished(l, c) \/ ConnectDestroyed(l, c) \/ SendResponse(l, c)
  PROVE  PlacedInv' /\ RemovalInv'
<1>0. /\ StageInv /\ ProgramType /\ PlacedInv /\ ConnInv(c)
      /\ Base \in All /\ Base \notin Loops /\ Loops \subseteq All /\ Nowhere \notin Loops
  BY ProgramAssumption DEF ProgramInv, StageInv, RemovalInv, All, Loops, Base, Nowhere
<1>1. PICK name \in {"connectEstablished", "connectDestroyed", "response"} :
        /\ Running(l, name, c) /\ UNCHANGED <<pending, owner, inMap>>
        /\ name = "connectEstablished" =>
             state' = [state EXCEPT ![c] = "kConnected"] /\ ended' = ended
        /\ name = "connectDestroyed" =>
             /\ state' = [state EXCEPT ![c] = "kDisconnected"]
             /\ ended' = [ended EXCEPT ![c] = ended[c] + 1]
        /\ name = "response" => UNCHANGED <<state, ended>>
  BY DEF ConnectEstablished, ConnectDestroyed, SendResponse, conn
<1>2. owner[c] \in Loops /\ l = owner[c] /\ l \in Loops /\ l # Base /\ owner'[c] = l
  BY <1>0, <1>1, RunsPlaced
<1>3. \A d \in Conns : d # c =>
        state'[d] = state[d] /\ inMap'[d] = inMap[d] /\ ended'[d] = ended[d]
  BY <1>0, <1>1 DEF ProgramType
<1>4. /\ PlacedInv' /\ (ConnInv(c)' => RemovalInv') /\ BaseStays
      /\ Queued(l, <<name, c>>) = Queued(l, <<name, c>>)' + 1
      /\ \A m \in All : \A n : m # l \/ n # name =>
           Queued(m, <<n, c>>)' = Queued(m, <<n, c>>)
      /\ \A m \in All : \A n : Queued(m, <<n, c>>) \in Nat /\ Queued(m, <<n, c>>)' \in Nat
  BY <1>1, <1>3, RunConn
<1>5. PICK e, e1, d, d1, r \in Nat :
        /\ e = Queued(l, <<"connectEstablished", c>>)
        /\ e1 = Queued(l, <<"connectEstablished", c>>)'
        /\ d = Queued(l, <<"connectDestroyed", c>>)
        /\ d1 = Queued(l, <<"connectDestroyed", c>>)'
        /\ r = Queued(Base, <<"removeConnectionInLoop", c>>)
        /\ r = Queued(Base, <<"removeConnectionInLoop", c>>)'
        /\ name = "connectEstablished" => e = e1 + 1
        /\ name # "connectEstablished" => e = e1
        /\ name = "connectDestroyed" => d = d1 + 1
        /\ name # "connectDestroyed" => d = d1
  <2> DEFINE E == Queued(l, <<"connectEstablished", c>>)
             D == Queued(l, <<"connectDestroyed", c>>)
             R == Queued(Base, <<"removeConnectionInLoop", c>>)
  <2>1. E \in Nat /\ E' \in Nat /\ D \in Nat /\ D' \in Nat /\ R \in Nat /\ R' \in Nat
    BY <1>0, <1>4
  <2>2. R' = R
    BY <1>0, <1>2, <1>4
  <2>3. (name = "connectEstablished" => E = E' + 1) /\ (name # "connectEstablished" => E' = E)
    BY <1>4
  <2>4. (name = "connectDestroyed" => D = D' + 1) /\ (name # "connectDestroyed" => D' = D)
    BY <1>4
  <2> HIDE DEF E, D, R
  <2>5. PICK e, e1, d, d1, r \in Nat : e = E /\ e1 = E' /\ d = D /\ d1 = D' /\ r = R
    BY <2>1
  <2> QED BY <2>2, <2>3, <2>4, <2>5 DEF E, D, R
<1>6. PICK x \in Nat, n \in Nat : /\ x = (IF inMap[c] THEN 1 ELSE 0) /\ n = ended[c]
                                  /\ x = (IF inMap'[c] THEN 1 ELSE 0)
  BY <1>0, <1>1 DEF ProgramType
<1>7. PICK s, s1 \in {0, 1} :
        /\ s = (IF state[c] = "kConnected" THEN 1 ELSE 0)
        /\ s1 = (IF state'[c] = "kConnected" THEN 1 ELSE 0)
        /\ Removals(c, l) = e + s + r /\ Removals(c, l)' = e1 + s1 + r
  BY <1>5 DEF Removals
<1>8. /\ Removals(c, l) <= 1
      /\ lpc[Base] \notin {"returned", "gone"} /\ ~inMap[c] => Removals(c, l) = 0
      /\ n + d + x = 1
  BY <1>0, <1>2, <1>5, <1>6 DEF ConnInv
<1>9. Removals(c, l)' <= Removals(c, l) /\ Removals(c, l)' \in Nat /\ ended'[c] + d1 + x = 1
  <2>1. CASE name = "connectEstablished"
    <3>1. state'[c] = "kConnected" /\ ended'[c] = n
      BY <2>1, <1>0, <1>1, <1>6 DEF ProgramType
    <3>2. s1 = 1 /\ e = e1 + 1 /\ d = d1
      BY <2>1, <3>1, <1>5, <1>7
    <3> QED BY <3>1, <3>2, <1>7, <1>8
  <2>2. CASE name = "connectDestroyed"
    <3>1. state'[c] = "kDisconnected" /\ ended'[c] = n + 1
      BY <2>2, <1>0, <1>1, <1>6 DEF ProgramType
    <3>2. s1 = 0 /\ e = e1 /\ d = d1 + 1
      BY <2>2, <3>1, <1>5, <1>7
    <3> QED BY <3>1, <3>2, <1>7, <1>8
  <2>3. CASE name = "response"
    <3>1. state'[c] = state[c] /\ ended'[c] = n
      BY <2>3, <1>1, <1>6
    <3>2. s1 = s /\ e = e1 /\ d = d1
      BY <2>3, <3>1, <1>5, <1>7
    <3> QED BY <3>1, <3>2, <1>7, <1>8
  <2> QED BY <2>1, <2>2, <2>3, <1>1
<1>10. PICK R, R1 \in Int : R = Removals(c, l) /\ R1 = Removals(c, l)' /\ R1 <= R /\ 0 <= R1
  BY <1>7, <1>9, <1>5
<1>11. /\ Removals(c, l)' <= 1
       /\ lpc'[Base] \notin {"returned", "gone"} /\ ~inMap'[c] => Removals(c, l)' = 0
  BY <1>1, <1>4, <1>8, <1>10 DEF BaseStays
<1>12. ConnInv(c)'
  BY <1>0, <1>2, <1>5, <1>6, <1>9, <1>11 DEF ConnInv
<1> QED BY <1>4, <1>12

(* handleClose() asks for the removal: before, it was connected. *)
LEMMA CloseConn ==
  ASSUME ProgramInv, NEW l \in Loops, NEW c \in Conns, PeerCloses(l, c)
  PROVE  PlacedInv' /\ RemovalInv'
<1>0. /\ StageInv /\ ProgramType /\ PlacedInv /\ ConnInv(c)
      /\ Base \in All /\ Base \notin Loops /\ Loops \subseteq All /\ Nowhere \notin Loops
  BY ProgramAssumption DEF ProgramInv, StageInv, RemovalInv, All, Loops, Base, Nowhere
<1>1. /\ lpc[l] = "poll" /\ lpc' = [lpc EXCEPT ![l] = "swap"]
      /\ owner[c] = l /\ state[c] = "kConnected"
      /\ state' = [state EXCEPT ![c] = "kDisconnected"]
      /\ Queue(Base, <<"removeConnectionInLoop", c>>)
      /\ UNCHANGED <<todo, owner, inMap, ended>>
  BY DEF PeerCloses, Polled, Watched, conn
<1>2. BaseStays
  BY <1>0, <1>1 DEF BaseStays, ProgramType
<1>3. /\ state'[c] = "kDisconnected" /\ \A d \in Conns : d # c => state'[d] = state[d]
      /\ <<"removeConnectionInLoop", c>> \in Functors
  BY <1>0, <1>1 DEF ProgramType, Functors
<1>4. PICK name : name = "removeConnectionInLoop"
  OBVIOUS
<1>5. /\ PlacedInv' /\ (ConnInv(c)' => RemovalInv')
      /\ Queued(Base, <<name, c>>)' = Queued(Base, <<name, c>>) + 1
      /\ \A m \in All : \A n : m # Base \/ n # name =>
           Queued(m, <<n, c>>)' = Queued(m, <<n, c>>)
      /\ \A m \in All : \A n : Queued(m, <<n, c>>) \in Nat
  BY <1>0, <1>1, <1>2, <1>3, <1>4, QueueConn
<1>6. /\ Queued(l, <<"connectEstablished", c>>)' = Queued(l, <<"connectEstablished", c>>)
      /\ Queued(l, <<"connectDestroyed", c>>)' = Queued(l, <<"connectDestroyed", c>>)
      /\ Queued(Base, <<"removeConnectionInLoop", c>>)'
           = Queued(Base, <<"removeConnectionInLoop", c>>) + 1
      /\ Queued(l, <<"connectEstablished", c>>) \in Nat
      /\ Queued(Base, <<"removeConnectionInLoop", c>>) \in Nat
  BY <1>0, <1>4, <1>5
<1>7. Removals(c, l)' = Removals(c, l)
  BY <1>1, <1>3, <1>6 DEF Removals
<1>8. ConnInv(c)'
  BY <1>0, <1>1, <1>2, <1>6, <1>7 DEF ConnInv, BaseStays
<1> QED BY <1>5, <1>8

(* The answer of a worker. *)
LEMMA AnswerConn ==
  ASSUME ProgramInv, NEW c \in Conns, WorkerCompletes(c)
  PROVE  PlacedInv' /\ RemovalInv'
<1>0. /\ StageInv /\ ProgramType /\ PlacedInv /\ ConnInv(c) /\ Loops \subseteq All /\ Base \in All
  BY DEF ProgramInv, StageInv, RemovalInv, All
<1>1. /\ request[c] = "accepted" /\ Queue(owner[c], <<"response", c>>)
      /\ UNCHANGED <<lpc, todo, owner, inMap, state, ended>>
  BY DEF WorkerCompletes, conn
<1>2. owner[c] # Nowhere
  BY <1>0, <1>1 DEF StageInv, MainInv
<1>3. owner[c] \in All /\ <<"response", c>> \in Functors
  BY <1>0, <1>2 DEF ProgramType, Functors
<1>4. BaseStays
  BY <1>1 DEF BaseStays
<1>5. PICK m \in All, name \in {"response"} : m = owner[c]
  BY <1>3
<1>6. /\ PlacedInv' /\ (ConnInv(c)' => RemovalInv')
      /\ \A l \in All : \A n : l # m \/ n # name =>
           Queued(l, <<n, c>>)' = Queued(l, <<n, c>>)
  BY <1>1, <1>2, <1>3, <1>4, <1>5, QueueConn
<1>7. \A l \in All : \A n \in {"connectEstablished", "connectDestroyed", "removeConnectionInLoop"} :
        Queued(l, <<n, c>>)' = Queued(l, <<n, c>>)
  BY <1>5, <1>6
<1>8. \A l \in Loops : Removals(c, l)' = Removals(c, l)
  BY <1>0, <1>1, <1>7 DEF Removals
<1>9. ConnInv(c)'
  BY <1>0, <1>1, <1>7, <1>8 DEF ConnInv
<1> QED BY <1>6, <1>9

(* ~TcpServer() takes a connection from the map: the base loop has returned. *)
LEMMA DestroyConn ==
  ASSUME ProgramInv, NEW c \in Conns, DestroyConnection(c)
  PROVE  PlacedInv' /\ RemovalInv'
<1>0. /\ StageInv /\ ProgramType /\ PlacedInv /\ ConnInv(c)
      /\ Base \in All /\ Base \notin Loops /\ Loops \subseteq All
  BY ProgramAssumption DEF ProgramInv, StageInv, RemovalInv, All, Loops, Base
<1>1. /\ mpc = "destroy" /\ inMap[c] /\ inMap' = [inMap EXCEPT ![c] = FALSE]
      /\ Queue(owner[c], <<"connectDestroyed", c>>)
      /\ UNCHANGED <<lpc, todo, owner, state, ended>>
  BY DEF DestroyConnection, MainGoes
<1>2. /\ owner[c] # Nowhere /\ lpc[Base] = "returned" /\ BaseStays
      /\ <<"connectDestroyed", c>> \in Functors
  BY <1>0, <1>1 DEF StageInv, MainInv, Stopping, ConnInv, BaseStays, Functors
<1>3. PICK m \in Loops, name \in {"connectDestroyed"} : m = owner[c]
  BY <1>0, <1>2 DEF ProgramType
<1>4. inMap'[c] = FALSE /\ \A d \in Conns : d # c => inMap'[d] = inMap[d]
  BY <1>0, <1>1 DEF ProgramType
<1>5. /\ PlacedInv' /\ (ConnInv(c)' => RemovalInv')
      /\ Queued(m, <<name, c>>)' = Queued(m, <<name, c>>) + 1
      /\ \A l \in All : \A n : l # m \/ n # name =>
           Queued(l, <<n, c>>)' = Queued(l, <<n, c>>)
      /\ \A l \in All : \A n : Queued(l, <<n, c>>) \in Nat
  <2>1. m \in All /\ Queue(m, <<name, c>>) /\ <<name, c>> \in Functors /\ owner[c] = m
    BY <1>0, <1>1, <1>2, <1>3
  <2>2. IF name = "removeConnectionInLoop" THEN m = Base ELSE m = owner[c]
    BY <1>3
  <2>3. \A d \in Conns : d # c =>
          state'[d] = state[d] /\ inMap'[d] = inMap[d] /\ ended'[d] = ended[d]
    BY <1>1, <1>4
  <2>4. UNCHANGED <<todo, owner>> /\ BaseStays /\ owner[c] # Nowhere
    BY <1>1, <1>2
  <2> QED BY <2>1, <2>2, <2>3, <2>4, QueueConn
<1>6. /\ Queued(m, <<"connectEstablished", c>>)' = Queued(m, <<"connectEstablished", c>>)
      /\ Queued(Base, <<"removeConnectionInLoop", c>>)'
           = Queued(Base, <<"removeConnectionInLoop", c>>)
  BY <1>0, <1>3, <1>5
<1>7. Removals(c, m)' = Removals(c, m)
  BY <1>1, <1>6 DEF Removals
<1>8. ended'[c] + Queued(m, <<"connectDestroyed", c>>)' = 1
  <2>1. ended[c] + Queued(m, <<"connectDestroyed", c>>) + 1 = 1
    BY <1>0, <1>1, <1>3 DEF ConnInv
  <2>2. ended[c] \in Nat /\ Queued(m, <<"connectDestroyed", c>>) \in Nat
    BY <1>0, <1>3, <1>5 DEF ProgramType
  <2>3. Queued(m, <<"connectDestroyed", c>>)' = Queued(m, <<"connectDestroyed", c>>) + 1
    BY <1>3, <1>5
  <2> QED BY <2>1, <2>2, <2>3, <1>1
<1>9. ended'[c] + Queued(m, <<"connectDestroyed", c>>)' + (IF inMap'[c] THEN 1 ELSE 0) = 1
  BY <1>4, <1>8
<1>10. ConnInv(c)'
  BY <1>0, <1>1, <1>2, <1>3, <1>7, <1>9 DEF ConnInv
<1> QED BY <1>5, <1>10

(* removeConnectionInLoop(): its connection is in the map, and leaves it. *)
LEMMA RemoveConn ==
  ASSUME ProgramInv, NEW c \in Conns, RemoveConnectionInLoop(c)
  PROVE  PlacedInv' /\ RemovalInv'
<1>0. /\ StageInv /\ ProgramType /\ PlacedInv /\ RemovalInv /\ ConnInv(c)
      /\ Base \in All /\ Base \notin Loops /\ Loops \subseteq All /\ Nowhere \notin Loops
  BY ProgramAssumption DEF ProgramInv, StageInv, RemovalInv, All, Loops, Base, Nowhere
<1>1. /\ Running(Base, "removeConnectionInLoop", c) /\ inMap' = [inMap EXCEPT ![c] = FALSE]
      /\ Queue(owner[c], <<"connectDestroyed", c>>)
      /\ UNCHANGED <<owner, state, ended>>
  BY DEF RemoveConnectionInLoop
<1>2. owner[c] \in Loops
  BY <1>0, <1>1, RunsPlaced
<1>3. PICK m \in Loops : m = owner[c]
  BY <1>2
<1>4. m \in All /\ m # Base /\ m # Nowhere
  BY <1>0
<1>5. PICK f \in Functors : f = <<"connectDestroyed", c>>
  BY DEF Functors
<1>6. PICK g : g = <<"removeConnectionInLoop", c>>
  OBVIOUS
<1>7. /\ pending'[m] = Append(pending[m], f) /\ \A l \in All : l # m => pending'[l] = pending[l]
      /\ \A l \in All : l # Base => todo'[l] = todo[l]
  <2>1. \A l \in All : l # Base => todo'[l] = todo[l]
    BY <1>0, <1>1, RunsFirst DEF StageInv
  <2> QED BY <2>1, <1>0, <1>1, <1>3, <1>4, <1>5 DEF Queue, ProgramType
<1>8. /\ Left(m)' = Append(Left(m), f)
      /\ \A h : Queued(m, h)' = Queued(m, h) + (IF f = h THEN 1 ELSE 0)
  BY <1>0, <1>4, <1>7, LeftAppended
<1>9. /\ Left(Base)' = Tail(Left(Base)) /\ Left(Base) # <<>>
      /\ \A h : Queued(Base, h) = Queued(Base, h)' + (IF g = h THEN 1 ELSE 0)
  BY <1>0, <1>1, <1>4, <1>6, <1>7, LeftTaken
<1>10. \A l \in All : l # m /\ l # Base => Left(l)' = Left(l) /\ \A h : Queued(l, h)' = Queued(l, h)
  <2>1. \A l \in All : l # m /\ l # Base => Left(l)' = Left(l)
    BY <1>7 DEF Left
  <2> QED BY <2>1, LeftSame
<1>11. /\ \A l \in All : \A h : Queued(l, h) \in Nat
       /\ \A h : Queued(Base, h)' \in Nat
  <2>1. \A h : Queued(Base, h)' = Count(Left(Base)', h)
    BY DEF Queued, Count, Places
  <2>2. Tail(Left(Base)) \in Seq(Functors)
    BY <1>0, <1>9, LeftType, HeadTailProperties
  <2>3. \A h : Count(Tail(Left(Base)), h) \in Nat
    BY <2>2, CountType
  <2> QED BY <1>0, <1>9, <2>1, <2>3, LeftType
<1>12. \A d \in Conns : d # c => SameCounts(d)
  <2> SUFFICES ASSUME NEW d \in Conns, d # c, NEW l \in All, NEW n
               PROVE  Queued(l, <<n, d>>)' = Queued(l, <<n, d>>)
    BY DEF SameCounts
  <2>1. f # <<n, d>> /\ g # <<n, d>>
    BY <1>5, <1>6
  <2>2. CASE l = m
    BY <2>1, <2>2, <1>8, <1>11
  <2>3. CASE l = Base
    BY <2>1, <2>3, <1>0, <1>9, <1>11
  <2> QED BY <2>2, <2>3, <1>10
<1>13. lpc[Base] = "run" /\ BaseStays
  BY <1>1 DEF Running, BaseStays
<1>14. inMap'[c] = FALSE /\ \A d \in Conns : d # c => inMap'[d] = inMap[d]
  BY <1>0, <1>1 DEF ProgramType
<1>15. PICK e, d, r, r1 \in Nat, n \in Nat, s \in {0, 1} :
         /\ e = Queued(m, <<"connectEstablished", c>>)
         /\ e = Queued(m, <<"connectEstablished", c>>)'
         /\ d = Queued(m, <<"connectDestroyed", c>>)
         /\ d + 1 = Queued(m, <<"connectDestroyed", c>>)'
         /\ r = Queued(Base, <<"removeConnectionInLoop", c>>)
         /\ r1 = Queued(Base, <<"removeConnectionInLoop", c>>)'
         /\ r = r1 + 1 /\ n = ended[c]
         /\ s = IF state[c] = "kConnected" THEN 1 ELSE 0
  <2>1. f # <<"connectEstablished", c>>
    BY <1>5
  <2>2. ended[c] \in Nat
    BY <1>0 DEF ProgramType
  <2>3. /\ Queued(m, <<"connectEstablished", c>>)' = Queued(m, <<"connectEstablished", c>>)
        /\ Queued(m, <<"connectDestroyed", c>>)' = Queued(m, <<"connectDestroyed", c>>) + 1
    BY <2>1, <1>4, <1>5, <1>8, <1>11
  <2>4. Queued(Base, <<"removeConnectionInLoop", c>>)
          = Queued(Base, <<"removeConnectionInLoop", c>>)' + 1
    BY <1>6, <1>9
  <2> QED BY <2>2, <2>3, <2>4, <1>0, <1>4, <1>11
<1>16. Removals(c, m) = e + s + r /\ Removals(c, m)' = e + s + r1
  BY <1>1, <1>15 DEF Removals
<1>17. inMap[c] /\ Removals(c, m)' = 0
  <2>1. e + s + r <= 1 /\ (~inMap[c] => e + s + r = 0)
    BY <1>0, <1>3, <1>13, <1>16 DEF ConnInv
  <2> QED BY <2>1, <1>15, <1>16
<1>18. n + d + 1 = 1
  BY <1>0, <1>3, <1>15, <1>17 DEF ConnInv
<1>19. ended'[c] + Queued(m, <<"connectDestroyed", c>>)' = 1
  BY <1>1, <1>15, <1>18
<1>20. ended'[c] + Queued(m, <<"connectDestroyed", c>>)' + (IF inMap'[c] THEN 1 ELSE 0) = 1
  BY <1>14, <1>19
<1>21. ConnInv(c)'
  BY <1>1, <1>3, <1>4, <1>17, <1>20 DEF ConnInv
<1>22. RemovalInv'
  BY <1>0, <1>1, <1>12, <1>13, <1>14, <1>21, ConnsStep
<1>23. Placed(m, f)'
  BY <1>1, <1>3, <1>4, <1>5 DEF Placed
<1>24. PlacedInv'
  BY <1>0, <1>1, <1>8, <1>9, <1>10, <1>23, PlacedStep
<1> QED BY <1>22, <1>24

(* The rest of the steps leave what is queued for connections alone. *)
LEMMA OtherConn ==
  ASSUME ProgramInv,
         \/ UNCHANGED vars \/ AcceptFails \/ Signal \/ SignalQuits \/ SignalWakes
         \/ MainStep /\ ~\E c \in Conns : DestroyConnection(c)
         \/ \E l \in All : (LoopStep(l) /\ ~RunFunctor(l)) \/ PollTimeout(l)
         \/ \E l \in Loops : ThreadStep(l) \/ \E c \in Conns : RequestArrives(l, c)
  PROVE  PlacedInv' /\ RemovalInv'
<1>0. /\ StageInv /\ ProgramType /\ PlacedInv /\ RemovalInv
      /\ Base \in All /\ Base \notin Loops /\ Loops \subseteq All /\ Loops \subseteq Nat
  BY ProgramAssumption DEF ProgramInv, StageInv, All, Loops, Base
<1>1. CASE \E l \in All : SwapPending(l)
  <2>1. PICK l \in All : SwapPending(l)
    BY <1>1
  <2>2. /\ lpc[l] = "swap" /\ todo' = [todo EXCEPT ![l] = pending[l]]
        /\ pending' = [pending EXCEPT ![l] = <<>>]
        /\ \E to : lpc' = [lpc EXCEPT ![l] = to]
        /\ UNCHANGED <<owner, state, inMap, ended>>
    BY <2>1 DEF SwapPending, conn
  <2>3. todo[l] = <<>>
    BY <2>2, <1>0 DEF StageInv, TodoInv
  <2>4. PICK s \in Seq(Functors) : s = pending[l]
    BY <1>0, LeftType
  <2>5. s \o <<>> = s /\ <<>> \o s = s
    BY ConcatEmptySeq
  <2>6. \A m \in All : Left(m)' = Left(m)
    <3>1. todo'[l] = s /\ pending'[l] = <<>>
      BY <2>2, <2>4, <1>0 DEF ProgramType
    <3>2. \A m \in All : m # l => todo'[m] = todo[m] /\ pending'[m] = pending[m]
      BY <2>2, <1>0 DEF ProgramType
    <3> QED BY <3>1, <3>2, <2>3, <2>4, <2>5 DEF Left
  <2>7. BaseStays
    BY <2>2, <1>0 DEF BaseStays, ProgramType
  <2> QED BY <1>0, <2>2, <2>6, <2>7, ConnsFrame
<1>2. CASE ~\E l \in All : SwapPending(l)
  <2>1. UNCHANGED <<todo, pending, owner, state, inMap, ended>>
    <3>1. CASE MainStep /\ ~\E c \in Conns : DestroyConnection(c)
      BY <3>1 DEF MainStep, CreateNonblocking, CreateFails, BindAddress, BindFails, ListenFails,
                  ExitFatal, SpawnThread, StartLoop, Listen, StopScheduler, StopReturns,
                  JoinSignalThread, DestroyPool, QuitThread, WakeThread, JoinThread, Exit,
                  MainGoes, loop, conn
    <3>2. CASE UNCHANGED vars \/ AcceptFails \/ Signal \/ SignalQuits \/ SignalWakes
      BY <3>2 DEF vars, AcceptFails, Signal, SignalQuits, SignalWakes, loop, conn
    <3>3. CASE \E l \in All : (LoopStep(l) /\ ~RunFunctor(l)) \/ PollTimeout(l)
      BY <3>3, <1>2 DEF LoopStep, EnterLoop, CheckQuit, PollWakeup, PollTimeout, conn
    <3>4. CASE \E l \in Loops : ThreadStep(l) \/ \E c \in Conns : RequestArrives(l, c)
      BY <3>4 DEF ThreadStep, PublishLoop, CreateEventfdFails, ExitFatal, ThreadReturns,
                  RequestArrives, conn
    <3> QED BY <3>1, <3>2, <3>3, <3>4
  <2>2. \A l \in All : Left(l)' = Left(l)
    BY <2>1 DEF Left
  <2>3. BaseStays
    <3>1. CASE MainStep /\ ~\E c \in Conns : DestroyConnection(c)
      <4>1. \/ lpc' = lpc \/ lpc' = [l \in All |-> "gone"]
            \/ mpc = "spawn" /\ \E l, to : lpc' = [lpc EXCEPT ![l] = to]
        BY <3>1 DEF MainStep, CreateNonblocking, CreateFails, BindAddress, BindFails,
                    ListenFails, ExitFatal, SpawnThread, ThreadStart, StartLoop, Listen,
                    PoolStarted, StopScheduler, StopReturns, JoinSignalThread, DestroyPool,
                    QuitThread, WakeThread, JoinThread, Exit, MainGoes, loop
      <4>2. mpc = "spawn" => lpc[Base] = "none"
        BY <1>0 DEF StageInv, MainInv, Early
      <4> QED BY <4>1, <4>2, <1>0 DEF BaseStays
    <3>2. CASE UNCHANGED vars \/ AcceptFails \/ Signal \/ SignalQuits \/ SignalWakes
      <4>1. lpc' = lpc \/ lpc[Base] = "poll"
        BY <3>2 DEF vars, AcceptFails, Polled, Signal, SignalQuits, SignalWakes, loop
      <4> QED BY <4>1 DEF BaseStays
    <3>3. CASE \E l \in All : (LoopStep(l) /\ ~RunFunctor(l)) \/ PollTimeout(l)
      <4>1. PICK l \in All : (LoopStep(l) /\ ~RunFunctor(l)) \/ PollTimeout(l)
        BY <3>3
      <4>2. lpc[l] \in {"published", "check", "poll"} /\ \E to : lpc' = [lpc EXCEPT ![l] = to]
        BY <4>1, <1>2 DEF LoopStep, EnterLoop, CheckQuit, PollWakeup, PollTimeout, Polled
      <4> QED BY <4>2, <1>0 DEF BaseStays, ProgramType
    <3>4. CASE \E l \in Loops : ThreadStep(l) \/ \E c \in Conns : RequestArrives(l, c)
      <4>1. PICK l \in Loops : ThreadStep(l) \/ \E c \in Conns : RequestArrives(l, c)
        BY <3>4
      <4>2. lpc' = [m \in All |-> "gone"] \/ \E to : lpc' = [lpc EXCEPT ![l] = to]
        BY <4>1 DEF ThreadStep, PublishLoop, CreateEventfdFails, ExitFatal, ThreadReturns,
                    RequestArrives, Polled
      <4> QED BY <4>2, <1>0 DEF BaseStays, ProgramType
    <3> QED BY <3>1, <3>2, <3>3, <3>4
  <2> QED BY <1>0, <2>1, <2>2, <2>3, ConnsFrame
<1> QED BY <1>1, <1>2

(* Every step keeps the invariant. *)
LEMMA ProgramStep == ASSUME ProgramInv, [Next]_vars PROVE ProgramInv'
<1>1. StageInv'
  BY StageStep DEF ProgramInv
<1>2. CASE \E c \in Conns : Accept(c)
  BY <1>1, <1>2, AcceptConn DEF ProgramInv
<1>3. CASE \E c \in Conns : WorkerCompletes(c)
  BY <1>1, <1>3, AnswerConn DEF ProgramInv
<1>4. CASE \E c \in Conns : DestroyConnection(c)
  BY <1>1, <1>4, DestroyConn DEF ProgramInv
<1>5. CASE \E l \in Loops : \E c \in Conns : PeerCloses(l, c)
  BY <1>1, <1>5, CloseConn DEF ProgramInv
<1>6. CASE \E l \in All : RunFunctor(l)
  BY <1>1, <1>6, FunctorConn, RemoveConn DEF ProgramInv, RunFunctor
<1>7. CASE \/ UNCHANGED vars \/ AcceptFails \/ Signal \/ SignalQuits \/ SignalWakes
           \/ MainStep /\ ~\E c \in Conns : DestroyConnection(c)
           \/ \E l \in All : (LoopStep(l) /\ ~RunFunctor(l)) \/ PollTimeout(l)
           \/ \E l \in Loops : ThreadStep(l) \/ \E c \in Conns : RequestArrives(l, c)
  BY <1>1, <1>7, OtherConn DEF ProgramInv
<1> QED BY <1>2, <1>3, <1>4, <1>5, <1>6, <1>7 DEF Next, Handle

(* Nothing is accepted or queued when the program begins. *)
LEMMA ProgramInit == ASSUME Init PROVE ProgramInv
<1>0. Base \in All /\ Loops \subseteq All /\ 1 \in Loops
  BY ProgramAssumption DEF All, Loops
<1>1. ProgramType
  BY <1>0, ProgramAssumption DEF Init, ProgramType, Early
<1>2. TodoInv /\ PoolInv /\ MainInv
  BY <1>0 DEF Init, TodoInv, PoolInv, MainInv, Early, Late, Stopping
<1>3. \A l \in All : Left(l) = <<>>
  BY <1>1, ConcatEmptySeq DEF Init, Left, ProgramType
<1>4. PlacedInv
  BY <1>3 DEF PlacedInv
<1>5. RemovalInv
  BY ProgramAssumption DEF Init, RemovalInv, ConnInv, Nowhere, Loops
<1> QED BY <1>1, <1>2, <1>4, <1>5 DEF ProgramInv, StageInv

-----------------------------------------------------------------------------
(* From a reachable state on, the loops are there while they are used. *)
LEMMA LoopsLive ==
  ASSUME StageInv, mpc \in {"running", "stop", "join", "destroy"}
  PROVE  \A l \in All : Published(l)
<1>1. Len(loops) = NumThreads /\ mpc \notin Late /\ mpc # "failed"
  BY DEF StageInv, PoolInv, Early, Late
<1>2. \A l \in Loops : lpc[l] \notin {"none", "construct", "gone"}
  BY <1>1 DEF StageInv, PoolInv, MainInv, Loops
<1>3. lpc[Base] \notin {"none", "construct", "gone"}
  BY DEF StageInv, MainInv, Stopping
<1> QED BY <1>2, <1>3 DEF Published, All

(* queueInLoop() makes the queue of one loop longer. *)
LEMMA QueueGrows ==
  ASSUME ProgramType, NEW m, NEW f, Queue(m, f)
  PROVE  \A l \in All : l # m => Len(pending'[l]) = Len(pending[l])
BY DEF ProgramType, Queue

(* Who queues a functor, and when. *)
LEMMA Handed ==
  ASSUME ProgramInv, [Next]_vars, NEW l \in All, Len(pending'[l]) > Len(pending[l])
  PROVE  Published(l)
<1>0. /\ StageInv /\ ProgramType /\ Base \in All /\ Loops \subseteq All
      /\ pending[l] \in Seq(Functors)
  BY LeftType DEF ProgramInv, StageInv, All
<1>1. CASE \E c \in Conns : Accept(c)
  BY <1>0, <1>1, AcceptFacts, LoopsLive DEF Accept, Polled
<1>2. CASE \E c \in Conns : WorkerCompletes(c)
  <2>1. PICK c \in Conns : request[c] = "accepted"
    BY <1>2 DEF WorkerCompletes
  <2>2. mpc \notin Early /\ mpc \notin Late \union {"join", "destroy"}
    BY <2>1, <1>0 DEF StageInv, MainInv
  <2>3. mpc \in {"running", "stop", "join", "destroy"}
    BY <2>2, <1>0 DEF ProgramType
  <2> QED BY <2>3, <1>0, LoopsLive
<1>3. CASE \E c \in Conns : DestroyConnection(c)
  BY <1>0, <1>3, LoopsLive DEF DestroyConnection, MainGoes
<1>4. CASE \E m \in Loops : \E c \in Conns : PeerCloses(m, c)
  <2>1. PICK m \in Loops, c \in Conns : PeerCloses(m, c)
    BY <1>4
  <2>2. /\ lpc[m] = "poll" /\ owner[c] = m /\ m \in All /\ m # Nowhere
        /\ Queue(Base, <<"removeConnectionInLoop", c>>)
    BY <2>1, <1>0, ProgramAssumption DEF PeerCloses, Polled, Watched, Loops, Nowhere
  <2>3. mpc \notin Early
    BY <2>2, <1>0 DEF StageInv, MainInv
  <2>4. lpc[Base] \notin {"none", "construct", "gone"}
    BY <2>3, <1>0 DEF StageInv, ProgramType, MainInv, Early, Stopping
  <2>5. l = Base
    BY <2>2, <1>0, QueueGrows
  <2> QED BY <2>4, <2>5 DEF Published
<1>5. CASE \E m \in All : RunFunctor(m)
  <2>1. PICK m \in All : RunFunctor(m)
    BY <1>5
  <2>2. pending' = pending \/ lpc[Base] = "run"
    BY <2>1 DEF RunFunctor, ConnectEstablished, ConnectDestroyed, SendResponse,
                RemoveConnectionInLoop, Running
  <2>3. lpc[Base] = "run"
    BY <2>2, <1>0
  <2> QED BY <2>3, <1>0, AcceptFacts, LoopsLive
<1>6. CASE \E m \in All : SwapPending(m)
  <2>1. pending'[l] = pending[l] \/ pending'[l] = <<>>
    BY <1>0, <1>6 DEF SwapPending, ProgramType
  <2>2. Len(<<>>) = 0 /\ Len(pending[l]) \in Nat
    BY <1>0, LenProperties
  <2> QED BY <2>1, <2>2
<1>7. CASE pending' = pending
  BY <1>0, <1>7
<1>8. \/ UNCHANGED vars \/ MainStep \/ Signal \/ SignalQuits \/ SignalWakes \/ AcceptFails
      \/ \E m \in All : LoopStep(m) \/ PollTimeout(m)
      \/ \E m \in Loops : ThreadStep(m) \/ Handle(m)
      \/ \E c \in Conns : Accept(c) \/ WorkerCompletes(c)
  BY DEF Next
<1>9. CASE MainStep /\ ~\E c \in Conns : DestroyConnection(c)
  <2>1. pending' = pending
    BY <1>9 DEF MainStep, CreateNonblocking, CreateFails, BindAddress, BindFails, ListenFails,
                ExitFatal, SpawnThread, StartLoop, Listen, StopScheduler, StopReturns,
                JoinSignalThread, DestroyPool, QuitThread, WakeThread, JoinThread, Exit
  <2> QED BY <2>1, <1>7
<1>10. CASE UNCHANGED vars \/ AcceptFails \/ Signal \/ SignalQuits \/ SignalWakes
  <2>1. pending' = pending
    BY <1>10 DEF vars, AcceptFails, Signal, SignalQuits, SignalWakes
  <2> QED BY <2>1, <1>7
<1>11. CASE \E m \in All : (LoopStep(m) /\ ~RunFunctor(m) /\ ~SwapPending(m)) \/ PollTimeout(m)
  <2>1. pending' = pending
    BY <1>11 DEF LoopStep, EnterLoop, CheckQuit, PollWakeup, PollTimeout
  <2> QED BY <2>1, <1>7
<1>12. CASE \E m \in Loops : ThreadStep(m) \/ \E c \in Conns : RequestArrives(m, c)
  <2>1. pending' = pending
    BY <1>12 DEF ThreadStep, PublishLoop, CreateEventfdFails, ExitFatal, ThreadReturns,
                 RequestArrives
  <2> QED BY <2>1, <1>7
<1> QED BY <1>1, <1>2, <1>3, <1>4, <1>5, <1>6, <1>8, <1>9, <1>10, <1>11, <1>12 DEF Handle

(* The invariant says that an accepted connection is destroyed once. *)
LEMMA OnceFromInv == ASSUME ProgramInv PROVE DestroyedOnce
<1> SUFFICES ASSUME NEW c \in Conns, owner[c] # Nowhere
             PROVE  ended[c] + Queued(owner[c], <<"connectDestroyed", c>>)
                      + (IF inMap[c] THEN 1 ELSE 0) = 1
  BY DEF DestroyedOnce
<1>1. PICK l \in Loops : owner[c] = l
  BY DEF ProgramInv, StageInv, ProgramType
<1> QED BY <1>1 DEF ProgramInv, RemovalInv, ConnInv

(* A connection is destroyed exactly once, by its loop, however the peer's   *)
(* close, its removal on the base loop and the end of the server meet.       *)
THEOREM ConnectionsDestroyedOnce == SafeSpec => []DestroyedOnce
<1>1. Init => ProgramInv
  BY ProgramInit
<1>2. ProgramInv /\ [Next]_vars => ProgramInv'
  BY ProgramStep
<1>3. ProgramInv => DestroyedOnce
  BY OnceFromInv
<1> QED BY <1>1, <1>2, <1>3, PTL DEF SafeSpec

(* Every functor is handed to a loop that exists: queueInLoop() is called    *)
(* neither before startLoop() has returned the loop nor after its thread has *)
(* returned.                                                                 *)
THEOREM FunctorsHandedToLiveLoops == SafeSpec => HandedToLiveLoop
<1>1. Init => ProgramInv
  BY ProgramInit
<1>2. ProgramInv /\ [Next]_vars => ProgramInv'
  BY ProgramStep
<1>3. ProgramInv /\ [Next]_vars =>
        [\A l \in All : Len(pending'[l]) > Len(pending[l]) => Published(l)]_vars
  BY Handed
<1> QED BY <1>1, <1>2, <1>3, PTL DEF SafeSpec, HandedToLiveLoop

-----------------------------------------------------------------------------
(***************************************************************************)
(* The asynchronous log (AsyncLogging): the buffers that the front end and   *)
(* the writer exchange.                                                      *)
(***************************************************************************)

Datas == [1 .. BufferSize -> 0 .. MaxRecords]

(* The writer holds two buffers before it swaps, the front end its current   *)
(* one, and the spare one unless a full one waits.                           *)
LogInv ==
  /\ count \in 0 .. MaxRecords
  /\ wpc \in {"none", "begin", "check", "lock", "wait", "write", "exited"}
  /\ currentBuffer \in Buffer /\ buffers \in Seq(Buffer) /\ toWrite \in Seq(Buffer)
  /\ nextBuffer \in Buffer \union {NoBuffer}
  /\ new1 \in Buffer \union {NoBuffer} /\ new2 \in Buffer \union {NoBuffer}
  /\ freed \subseteq Datas
  /\ nextBuffer = NoBuffer => buffers # <<>>
  /\ wpc \in {"check", "lock", "wait"} => new1 \in Buffer /\ new2 \in Buffer
  /\ wpc = "write" => Len(toWrite) >= 1 /\ (new2 = NoBuffer => Len(toWrite) >= 2)

(* An empty pointer is no buffer, and a zeroed one is. *)
LEMMA BufferFacts ==
  /\ NoBuffer \notin Buffer /\ ZeroedBuffer \in Buffer
  /\ \A b \in Buffer : b.data \in Datas /\ b.cur \in 0 .. BufferSize - 1 /\ Reset(b) \in Buffer
  /\ \A d \in Datas : [data |-> d, cur |-> 0] \in Buffer
<1>0. BufferSize \in Nat /\ BufferSize >= 2 /\ MaxRecords \in Nat
  BY LoggingAssumption
<1>1. NoBuffer \notin Buffer
  <2>1. SUFFICES ASSUME NoBuffer \in Buffer PROVE FALSE
    OBVIOUS
  <2>2. NoBuffer.data = <<>>
    BY DEF NoBuffer
  <2>3. NoBuffer.data \in Datas
    BY <2>1 DEF Buffer, Datas
  <2>4. DOMAIN <<>> = 1 .. BufferSize
    BY <2>2, <2>3 DEF Datas
  <2>5. 1 \in DOMAIN <<>>
    BY <2>4, <1>0
  <2> QED BY <2>5
<1>2. BlankData \in Datas
  BY <1>0 DEF BlankData, Blank, Datas
<1>3. \A d \in Datas : [data |-> d, cur |-> 0] \in Buffer
  BY <1>0 DEF Buffer, Datas
<1>4. ZeroedBuffer \in Buffer
  BY <1>2, <1>3 DEF ZeroedBuffer
<1>5. \A b \in Buffer : b.data \in Datas /\ b.cur \in 0 .. BufferSize - 1 /\ Reset(b) \in Buffer
  BY <1>0 DEF Buffer, Datas, Reset
<1> QED BY <1>1, <1>3, <1>4, <1>5

(* A record fits into a buffer that has room. *)
LEMMA AppendKeepsBuffer ==
  ASSUME NEW b \in Buffer, NEW r \in 0 .. MaxRecords
  PROVE  FixedAppend(b, r) \in Buffer
<1>0. BufferSize \in Nat /\ BufferSize >= 2 /\ MaxRecords \in Nat
  BY LoggingAssumption
<1>1. b.data \in Datas /\ b.cur \in 0 .. BufferSize - 1
  BY BufferFacts
<1>2. CASE Avail(b) > 1
  <2>1. b.cur + 1 \in 0 .. BufferSize - 1
    BY <1>0, <1>1, <1>2 DEF Avail
  <2>2. [b.data EXCEPT ![b.cur + 1] = r] \in Datas
    BY <1>1 DEF Datas
  <2> QED BY <2>1, <2>2, <1>2 DEF FixedAppend, Buffer, Datas
<1>3. CASE ~(Avail(b) > 1)
  BY <1>3 DEF FixedAppend
<1> QED BY <1>2, <1>3

(* append() by a front-end thread. *)
LEMMA AppendRecordKeeps == ASSUME LogInv, AppendRecord PROVE LogInv'
<1>0. MaxRecords \in Nat /\ count \in Nat
  BY LoggingAssumption DEF LogInv
<1>1. /\ count' \in 0 .. MaxRecords
      /\ UNCHANGED <<wpc, new1, new2, toWrite, freed>>
  BY <1>0 DEF AppendRecord, writer, LogInv
<1>2. CASE currentBuffer' = FixedAppend(currentBuffer, count') /\ UNCHANGED <<nextBuffer, buffers>>
  BY <1>1, <1>2, AppendKeepsBuffer DEF LogInv
<1>3. CASE /\ buffers' = Append(buffers, currentBuffer)
           /\ \E b \in IF nextBuffer # NoBuffer THEN {nextBuffer} ELSE NewBuffers :
                currentBuffer' = FixedAppend(b, count')
           /\ nextBuffer' = NoBuffer
  <2>1. PICK b \in IF nextBuffer # NoBuffer THEN {nextBuffer} ELSE NewBuffers :
          currentBuffer' = FixedAppend(b, count')
    BY <1>3
  <2>2. BlankData \in Datas
    BY BufferFacts DEF ZeroedBuffer
  <2>3. NewBuffers \subseteq Buffer
    BY <2>2, BufferFacts DEF NewBuffers, LogInv
  <2>4. b \in Buffer
    BY <2>1, <2>3 DEF LogInv
  <2>5. currentBuffer' \in Buffer
    BY <2>1, <2>4, <1>1, AppendKeepsBuffer
  <2>6. buffers' \in Seq(Buffer) /\ buffers' # <<>>
    BY <1>3, AppendProperties DEF LogInv
  <2> QED BY <1>1, <1>3, <2>5, <2>6 DEF LogInv
<1> QED BY <1>2, <1>3 DEF AppendRecord

(* The swap: as many full buffers are taken as the writer hands out. *)
LEMMA SwapKeeps == ASSUME LogInv, Swap PROVE LogInv'
<1>1. /\ wpc \in {"lock", "wait"} /\ wpc' = "write"
      /\ toWrite' = Append(buffers, currentBuffer) /\ buffers' = <<>>
      /\ currentBuffer' = new1 /\ new1' = NoBuffer
      /\ nextBuffer' = (IF nextBuffer = NoBuffer THEN new2 ELSE nextBuffer)
      /\ new2' = (IF nextBuffer = NoBuffer THEN NoBuffer ELSE new2)
      /\ UNCHANGED <<count, freed>>
  BY DEF Swap, SwapBuffers, SwapRest
<1>2. /\ new1 \in Buffer /\ new2 \in Buffer /\ NoBuffer \notin Buffer
      /\ buffers \in Seq(Buffer) /\ currentBuffer \in Buffer
  BY <1>1, BufferFacts DEF LogInv
<1>3. toWrite' \in Seq(Buffer) /\ Len(toWrite') = Len(buffers) + 1 /\ Len(buffers) \in Nat
  BY <1>1, <1>2, AppendProperties, LenProperties
<1>4. buffers # <<>> => Len(buffers) # 0
  BY <1>2, EmptySeq
<1>5. nextBuffer' \in Buffer
  BY <1>1, <1>2 DEF LogInv
<1>6. Len(toWrite') >= 1 /\ (new2' = NoBuffer => Len(toWrite') >= 2)
  BY <1>1, <1>2, <1>3, <1>4 DEF LogInv
<1>7. new2' \in Buffer \union {NoBuffer} /\ buffers' \in Seq(Buffer)
  BY <1>1, <1>2
<1> QED BY <1>1, <1>2, <1>3, <1>5, <1>6, <1>7 DEF LogInv

(* The writer takes back one buffer, or two if it gave two away. *)
LEMMA RecycleKeeps == ASSUME LogInv, Recycle PROVE LogInv'
<1> DEFINE n     == Min({2, Len(toWrite)})
           kept  == SubSeq(toWrite, 1, n)
           rest  == Front(kept)
           taken == IF new2 = NoBuffer THEN Front(rest) ELSE rest
<1>1. /\ wpc = "write" /\ wpc' = "check" /\ toWrite' = <<>>
      /\ new1' = Reset(Last(kept))
      /\ new2' = IF new2 = NoBuffer THEN Reset(Last(rest)) ELSE new2
      /\ freed' = freed \union {toWrite[i].data : i \in 3 .. Len(toWrite)}
                        \union {taken[i].data : i \in 1 .. Len(taken)}
      /\ UNCHANGED <<count, currentBuffer, nextBuffer, buffers>>
  BY DEF Recycle, front
<1>2. /\ toWrite \in Seq(Buffer) /\ Len(toWrite) \in Nat /\ Len(toWrite) >= 1
      /\ new2 = NoBuffer => Len(toWrite) >= 2
  BY <1>1, LenProperties DEF LogInv
<1>3. n \in {1, 2} /\ n <= Len(toWrite) /\ (Len(toWrite) >= 2 => n = 2)
  <2>1. CASE Len(toWrite) = 1
    BY <2>1 DEF Min
  <2>2. CASE Len(toWrite) >= 2
    BY <2>2, <1>2 DEF Min
  <2>3. Len(toWrite) = 1 \/ Len(toWrite) >= 2
    <3>1. \A j \in Nat : j >= 1 => j = 1 \/ j >= 2
      OBVIOUS
    <3> QED BY <3>1, <1>2
  <2> QED BY <2>1, <2>2, <2>3
<1> HIDE DEF n
<1>4. kept \in Seq(Buffer) /\ Len(kept) = n /\ \A i \in 1 .. n : kept[i] = toWrite[i]
  BY <1>2, <1>3
<1> HIDE DEF kept
<1>5. Last(kept) \in Buffer
  BY <1>3, <1>4 DEF Last
<1>6. rest \in Seq(Buffer) /\ Len(rest) = n - 1 /\ \A i \in 1 .. n - 1 : rest[i] = kept[i]
  BY <1>3, <1>4 DEF Front
<1> HIDE DEF rest
<1>7. new2 = NoBuffer => Last(rest) \in Buffer
  BY <1>2, <1>3, <1>6 DEF Last
<1>8. taken \in Seq(Buffer)
  BY <1>3, <1>6 DEF Front
<1> HIDE DEF taken
<1>9. freed' \subseteq Datas
  <2>1. \A i \in 3 .. Len(toWrite) : toWrite[i].data \in Datas
    BY <1>2, BufferFacts
  <2>2. \A i \in 1 .. Len(taken) : taken[i].data \in Datas
    BY <1>8, BufferFacts
  <2> QED BY <2>1, <2>2, <1>1 DEF LogInv
<1>10. new1' \in Buffer /\ new2' \in Buffer
  BY <1>1, <1>5, <1>7, BufferFacts DEF LogInv
<1>11. toWrite' \in Seq(Buffer)
  BY <1>1
<1> QED BY <1>1, <1>9, <1>10, <1>11 DEF LogInv

(* Every step of the log. *)
LEMMA LogStep == ASSUME LogInv, [LogNext]_logVars PROVE LogInv'
<1>1. CASE AppendRecord
  BY <1>1, AppendRecordKeeps
<1>2. CASE Swap
  BY <1>2, SwapKeeps
<1>3. CASE Recycle
  BY <1>3, RecycleKeeps
<1>4. CASE Begin
  BY <1>4, BufferFacts DEF Begin, front, LogInv
<1>5. CASE Tick \/ Stop \/ Join \/ UNCHANGED logVars
  BY <1>5 DEF Tick, Stop, Join, logVars, front, writer, LogInv
<1>6. CASE Start \/ Check \/ Wait
  BY <1>6 DEF Start, Check, Wait, front, writer, LogInv
<1>7. CASE WriteBuffer
  BY <1>7 DEF WriteBuffer, front, LogInv
<1> QED BY <1>1, <1>2, <1>3, <1>4, <1>5, <1>6, <1>7 DEF LogNext, WriterStep

(* The front end never lacks a current buffer, and back() is never called on *)
(* an empty vector: the writer takes back as many buffers as it gave.        *)
THEOREM LogBuffersComeBack == LogSafe => []BuffersComeBack
<1>1. LogInit => LogInv
  BY BufferFacts, LoggingAssumption DEF LogInit, LogInv
<1>2. LogInv /\ [LogNext]_logVars => LogInv'
  BY LogStep
<1>3. LogInv => BuffersComeBack
  BY DEF LogInv, BuffersComeBack
<1> QED BY <1>1, <1>2, <1>3, PTL DEF LogSafe

-----------------------------------------------------------------------------
(* What FirstOccurrences() makes of a sequence of records *)

(* One record more. *)
See(seen, r) == IF r = Blank \/ Contains(seen, r) THEN seen ELSE Append(seen, r)

FirstTrace(g, s) ==
  /\ g[0] = <<>>
  /\ \A i \in 1 .. Len(s) : g[i] = See(g[i - 1], s[i])

(* Adding a record that may be there already leaves a sequence of records. *)
LEMMA SeeType ==
  ASSUME NEW x \in Seq(Nat), NEW r \in Nat
  PROVE  See(x, r) \in Seq(Nat)
BY AppendProperties DEF See

(* The first occurrences are collected record by record. *)
LEMMA FirstIsTrace ==
  ASSUME NEW s \in Seq(Nat)
  PROVE  \E g : FirstTrace(g, s) /\ FirstOccurrences(s) = g[Len(s)]
<1>1. PICK n \in Nat : n = Len(s) /\ DOMAIN s = 1 .. n /\ \A i \in 1 .. n : s[i] \in Nat
  OBVIOUS
<1> DEFINE S == Seq(Nat)
           F == [p \in S \X (1 .. n) |-> See(p[1], s[p[2]])]
           Eq(it) == it = [t \in SUBSET (1 .. n) |->
                             IF t = {} THEN <<>> ELSE See(it[t \ {Max(t)}], s[Max(t)])]
<1>2. \E it : Eq(it)
  <2>1. \A x \in S, i \in 1 .. n : F[<<x, i>>] = See(x, s[i])
    OBVIOUS
  <2>2. \A x \in S, i \in 1 .. n : See(x, s[i]) \in S
    BY <1>1, SeeType
  <2>3. <<>> \in S
    OBVIOUS
  <2> HIDE DEF F, S
  <2>4. \A x \in S, i \in 1 .. n : F[<<x, i>>] \in S
    BY <2>1, <2>2
  <2>5. PICK it \in [SUBSET (1 .. n) -> S] : FoldEq(it, F, <<>>, n)
    BY <2>3, <2>4, FoldExists
  <2>6. ASSUME NEW t \in SUBSET (1 .. n)
        PROVE  it[t] = IF t = {} THEN <<>> ELSE See(it[t \ {Max(t)}], s[Max(t)])
    <3>1. CASE t = {}
      BY <2>5, <3>1 DEF FoldEq
    <3>2. CASE t # {}
      <4>1. PICK m \in 1 .. n : m = Max(t)
        BY <3>2, MaxInRange
      <4>2. t \ {m} \in SUBSET (1 .. n)
        OBVIOUS
      <4>3. it[t \ {m}] \in S
        BY <4>2
      <4>4. it[t] = F[<<it[t \ {m}], m>>]
        BY <2>5, <3>2, <4>1 DEF FoldEq
      <4> QED
        BY <2>1, <3>2, <4>1, <4>3, <4>4
    <3> QED
      BY <3>1, <3>2
  <2>7. it = [t \in SUBSET (1 .. n) |-> it[t]]
    OBVIOUS
  <2> QED
    BY <2>6, <2>7
<1>3. PICK iter : iter = (CHOOSE it : Eq(it))
  OBVIOUS
<1>4. Eq(iter)
  BY <1>2, <1>3
<1>5. FirstOccurrences(s) = iter[1 .. n]
  BY <1>1, <1>3 DEF FirstOccurrences, FoldLeft, MapThenFoldSet, See
<1> DEFINE g == [done \in 0 .. n |-> iter[1 .. done]]
<1>6. g[0] = <<>>
  <2>1. 1 .. 0 = {} /\ {} \in SUBSET (1 .. n)
    OBVIOUS
  <2>2. iter[{}] = <<>>
    BY <1>4, <2>1
  <2> QED
    BY <2>1, <2>2
<1>7. ASSUME NEW done \in 1 .. n PROVE g[done] = See(g[done - 1], s[done])
  <2> DEFINE t == 1 .. done
  <2>1. t \in SUBSET (1 .. n) /\ t # {} /\ Max(t) = done /\ t \ {done} = 1 .. done - 1
    BY PrefixSets
  <2> HIDE DEF t
  <2>2. iter[t] = IF t = {} THEN <<>> ELSE See(iter[t \ {Max(t)}], s[Max(t)])
    BY <1>4, <2>1
  <2>3. iter[1 .. done] = See(iter[1 .. done - 1], s[done])
    BY <2>1, <2>2 DEF t
  <2> QED
    BY <2>3
<1>8. FirstOccurrences(s) = g[n]
  BY <1>5
<1> HIDE DEF g
<1> QED
  BY <1>1, <1>6, <1>7, <1>8 DEF FirstTrace

(* The traces of a sequence and of a longer one agree. *)
LEMMA FirstTraceUnique ==
  ASSUME NEW s \in Seq(Nat), NEW t \in Seq(Nat), Len(s) <= Len(t),
         \A i \in 1 .. Len(s) : s[i] = t[i],
         NEW g, FirstTrace(g, s), NEW h, FirstTrace(h, t)
  PROVE  g[Len(s)] = h[Len(s)]
<1>0. PICK n \in Nat : n = Len(s) /\ n <= Len(t) /\ \A i \in 1 .. n : s[i] = t[i]
  OBVIOUS
<1> DEFINE T == {done \in Nat : done <= n => g[done] = h[done]}
<1>1. 0 \in T
  BY DEF FirstTrace
<1>2. ASSUME NEW done \in Nat, done \in T PROVE done + 1 \in T
  <2> SUFFICES ASSUME done + 1 <= n PROVE g[done + 1] = h[done + 1]
    OBVIOUS
  <2> DEFINE j == done + 1
  <2>1. j \in 1 .. n /\ j \in 1 .. Len(t) /\ j - 1 = done /\ g[done] = h[done]
    BY <1>0, <1>2
  <2> HIDE DEF j
  <2>2. g[j] = See(g[j - 1], s[j]) /\ h[j] = See(h[j - 1], t[j])
    BY <1>0, <2>1 DEF FirstTrace
  <2>3. s[j] = t[j]
    BY <1>0, <2>1
  <2> QED
    BY <2>1, <2>2, <2>3 DEF j
<1>3. Nat \subseteq T
  BY <1>1, <1>2, NatSetInduction
<1>4. g[n] = h[n]
  BY <1>3
<1> QED
  BY <1>0, <1>4

(* Nothing occurs in an empty log. *)
LEMMA FirstEmpty == FirstOccurrences(<<>>) = <<>>
<1> DEFINE s == <<>>
<1>1. s \in Seq(Nat) /\ Len(s) = 0
  OBVIOUS
<1> HIDE DEF s
<1>2. PICK g : FirstTrace(g, s) /\ FirstOccurrences(s) = g[Len(s)]
  BY <1>1, FirstIsTrace
<1> QED
  BY <1>1, <1>2 DEF FirstTrace, s

(* One record more at the end of the log. *)
LEMMA FirstAppend ==
  ASSUME NEW s \in Seq(Nat), NEW r \in Nat
  PROVE  FirstOccurrences(Append(s, r)) = See(FirstOccurrences(s), r)
<1> DEFINE t == Append(s, r)
<1>1. PICK n \in Nat : n = Len(s)
  OBVIOUS
<1>2. /\ t \in Seq(Nat) /\ Len(t) = n + 1 /\ t[n + 1] = r
      /\ \A i \in 1 .. n : s[i] = t[i]
  BY <1>1, AppendProperties
<1> HIDE DEF t
<1>3. PICK g : FirstTrace(g, s) /\ FirstOccurrences(s) = g[n]
  BY <1>1, FirstIsTrace
<1>4. PICK h : FirstTrace(h, t) /\ FirstOccurrences(t) = h[n + 1]
  BY <1>2, FirstIsTrace
<1>5. g[n] = h[n]
  <2>1. Len(s) <= Len(t) /\ \A i \in 1 .. Len(s) : s[i] = t[i]
    BY <1>1, <1>2
  <2>2. g[Len(s)] = h[Len(s)]
    BY <1>2, <1>3, <1>4, <2>1, FirstTraceUnique
  <2> QED
    BY <1>1, <2>2
<1>6. ASSUME NEW j, j = n + 1 PROVE h[j] = See(h[n], t[j])
  <2>1. j \in 1 .. Len(t) /\ j - 1 = n
    BY <1>2, <1>6
  <2>2. h[j] = See(h[j - 1], t[j])
    BY <1>4, <2>1 DEF FirstTrace
  <2> QED
    BY <2>1, <2>2
<1> QED
  BY <1>2, <1>3, <1>4, <1>5, <1>6 DEF t

(* The records in order. *)
Counted(n) == [i \in 1 .. n |-> i]

-----------------------------------------------------------------------------
(* A buffer that is written after the records 1 .. done: its fresh records are  *)
(* the next ones, and what it still holds of earlier rounds is repeated.     *)

(* The records handed over so far, by their numbers. *)
LEMMA CountedFacts ==
  \A n \in Nat : /\ Counted(n) \in Seq(Nat) /\ Len(Counted(n)) = n
                 /\ \A i \in 1 .. n : Counted(n)[i] = i
BY DEF Counted

(* One record more is handed over. *)
LEMMA CountedNext ==
  \A n, m \in Nat : m = n + 1 => Append(Counted(n), m) = Counted(m)
<1> SUFFICES ASSUME NEW n \in Nat, NEW m \in Nat, m = n + 1
             PROVE  Append(Counted(n), m) = Counted(m)
  OBVIOUS
<1>1. PICK c \in Seq(Nat) : c = Counted(n) /\ Len(c) = n /\ \A i \in 1 .. n : c[i] = i
  BY CountedFacts
<1>2. PICK b \in Seq(Nat) : b = Counted(m) /\ Len(b) = m /\ \A i \in 1 .. m : b[i] = i
  BY CountedFacts
<1>3. PICK a \in Seq(Nat) : /\ a = Append(c, m) /\ Len(a) = m /\ a[m] = m
                            /\ \A i \in 1 .. n : a[i] = i
  <2>1. /\ Append(c, m) \in Seq(Nat) /\ Len(Append(c, m)) = Len(c) + 1
        /\ Append(c, m)[Len(c) + 1] = m
        /\ \A i \in 1 .. Len(c) : Append(c, m)[i] = c[i]
    BY AppendProperties
  <2> QED
    BY <1>1, <2>1
<1>4. \A i \in 1 .. m : i = m \/ i \in 1 .. n
  OBVIOUS
<1>5. \A i \in 1 .. m : a[i] = b[i]
  BY <1>2, <1>3, <1>4
<1>6. a = b
  BY <1>2, <1>3, <1>5, SeqEqual
<1> QED
  BY <1>1, <1>2, <1>3, <1>6

(* A record after the records 1 .. done: the next one, or one of them. *)
LEMMA SeeNext ==
  ASSUME NEW done \in Nat, NEW r \in 0 .. done + 1
  PROVE  See(Counted(done), r) = IF r = done + 1 THEN Counted(done + 1) ELSE Counted(done)
<1>1. PICK c \in Seq(Nat) : c = Counted(done) /\ Len(c) = done /\ \A i \in 1 .. done : c[i] = i
  BY CountedFacts
<1>2. Contains(c, r) <=> r \in 1 .. done
  BY <1>1 DEF Contains
<1>3. Append(c, done + 1) = Counted(done + 1)
  BY <1>1, CountedNext, done + 1 \in Nat
<1>4. CASE r = done + 1
  <2>1. ~Contains(c, r) /\ r # 0
    BY <1>2, <1>4
  <2> QED
    BY <1>1, <1>3, <1>4, <2>1 DEF See, Blank
<1>5. CASE r # done + 1
  <2>1. Contains(c, r) \/ r = 0
    BY <1>2, <1>5
  <2> QED
    BY <1>1, <1>5, <2>1 DEF See, Blank
<1> QED
  BY <1>4, <1>5

(* Reading w for the first time gives the records up to done. *)
Reads(w, done) == FirstOccurrences(w) = Counted(done)

(* Such a buffer makes the records known 1 .. done + c. *)
LEMMA FirstData ==
  ASSUME NEW w \in Seq(Nat), NEW done \in Nat, Reads(w, done),
         NEW d \in Seq(Nat), NEW c \in 0 .. Len(d),
         \A j \in 1 .. c : d[j] = done + j,
         \A j \in c + 1 .. Len(d) : d[j] <= done
  PROVE  w \o d \in Seq(Nat) /\ Reads(w \o d, done + c)
<1>0. PICK n \in Nat : n = Len(d)
  OBVIOUS
<1> DEFINE P(m) == SubSeq(d, 1, m)
           Known(m) == done + (IF m <= c THEN m ELSE c)
           T == {m \in Nat : m <= n => FirstOccurrences(w \o P(m)) = Counted(Known(m))}
<1>1. \A m \in 0 .. n : P(m) \in Seq(Nat) /\ Len(P(m)) = m /\ w \o P(m) \in Seq(Nat)
  BY <1>0, ConcatProperties
<1>2. 0 \in T
  <2>1. P(0) = <<>> /\ w \o <<>> = w
    BY ConcatEmptySeq
  <2>2. Known(0) = done
    BY <1>0
  <2> HIDE DEF P, Known
  <2> QED
    BY <2>1, <2>2 DEF Reads
<1>3. ASSUME NEW m \in Nat, m \in T PROVE m + 1 \in T
  <2> SUFFICES ASSUME m + 1 <= n
               PROVE  FirstOccurrences(w \o P(m + 1)) = Counted(Known(m + 1))
    OBVIOUS
  <2>1. FirstOccurrences(w \o P(m)) = Counted(Known(m))
    BY <1>3
  <2>2. PICK r \in Nat : r = d[m + 1]
    BY <1>0
  <2>3. P(m) \in Seq(Nat) /\ w \o P(m) \in Seq(Nat)
    <3>1. m \in 0 .. n
      OBVIOUS
    <3> HIDE DEF P
    <3> QED
      BY <1>1, <3>1
  <2>4. P(m + 1) = Append(P(m), r)
    <3> DEFINE e == P(m + 1)
    <3>0. m + 1 \in 0 .. n /\ m + 1 <= Len(d)
      BY <1>0
    <3>1. e \in Seq(Nat) /\ Len(e) = m + 1 /\ \A i \in 1 .. m + 1 : e[i] = d[i]
      BY <3>0
    <3>2. SubSeq(e, 1, m) = P(m)
      BY <1>0, <3>1
    <3> HIDE DEF e
    <3>3. e = Append(SubSeq(e, 1, m), e[m + 1])
      BY <3>1, FrontThenLast
    <3> QED
      BY <2>2, <3>1, <3>2, <3>3 DEF e
  <2>5. w \o P(m + 1) = Append(w \o P(m), r)
    <3>1. PICK before \in Seq(Nat) : before = P(m)
      BY <2>3
    <3>2. w \o Append(before, r) = Append(w \o before, r)
      BY ConcatAppend
    <3> HIDE DEF P
    <3> QED
      BY <2>4, <3>1, <3>2
  <2>6. FirstOccurrences(w \o P(m + 1)) = See(FirstOccurrences(w \o P(m)), r)
    BY <2>3, <2>5, FirstAppend
  <2>7. PICK q \in Nat : q = Known(m)
    BY <1>0
  <2>8. CASE m < c
    <3>1. r = q + 1 /\ Known(m + 1) = q + 1
      BY <1>0, <2>2, <2>7, <2>8
    <3>2. See(Counted(q), r) = Counted(q + 1)
      BY <3>1, SeeNext
    <3> HIDE DEF P, Known
    <3> QED
      BY <2>1, <2>6, <2>7, <3>1, <3>2
  <2>9. CASE m >= c
    <3>1. r <= done
      <4>1. m + 1 \in c + 1 .. Len(d)
        BY <1>0, <2>9
      <4> QED
        BY <2>2, <4>1
    <3>2. r <= q /\ Known(m + 1) = q
      BY <1>0, <2>2, <2>7, <2>9, <3>1
    <3>3. See(Counted(q), r) = Counted(q)
      BY <3>2, SeeNext
    <3> HIDE DEF P, Known
    <3> QED
      BY <2>1, <2>6, <2>7, <3>2, <3>3
  <2> QED
    BY <1>0, <2>8, <2>9
<1>4. Nat \subseteq T
  <2> HIDE DEF T
  <2> QED
    BY <1>2, <1>3, NatSetInduction
<1>5. FirstOccurrences(w \o P(n)) = Counted(Known(n))
  BY <1>4
<1>6. P(n) = d /\ Known(n) = done + c
  BY <1>0
<1>7. w \o d \in Seq(Nat)
  BY ConcatProperties
<1> HIDE DEF P, Known
<1> QED
  BY <1>5, <1>6, <1>7 DEF Reads

(* What is read first somewhere has been written. *)
LEMMA FirstType ==
  ASSUME NEW w \in Seq(Nat)
  PROVE  /\ FirstOccurrences(w) \in Seq(Nat)
         /\ \A i \in 1 .. Len(FirstOccurrences(w)) : Contains(w, FirstOccurrences(w)[i])
<1> DEFINE Good(s) == \A i \in 1 .. Len(FirstOccurrences(s)) :
                        Contains(s, FirstOccurrences(s)[i])
           T == {n \in Nat : \A s \in Seq(Nat) : Len(s) = n =>
                   FirstOccurrences(s) \in Seq(Nat) /\ Good(s)}
<1>1. 0 \in T
  <2>1. \A s \in Seq(Nat) : Len(s) = 0 => s = <<>>
    BY EmptySeq
  <2>2. FirstOccurrences(<<>>) = <<>> /\ <<>> \in Seq(Nat) /\ Len(<<>>) = 0
    BY FirstEmpty
  <2>3. Good(<<>>)
    BY <2>2
  <2> QED
    BY <2>1, <2>2, <2>3
<1>2. ASSUME NEW n \in Nat, n \in T PROVE n + 1 \in T
  <2> SUFFICES ASSUME NEW s \in Seq(Nat), Len(s) = n + 1
               PROVE  FirstOccurrences(s) \in Seq(Nat) /\ Good(s)
    OBVIOUS
  <2>1. PICK u \in Seq(Nat), x \in Nat : Len(u) = n /\ s = Append(u, x)
    <3>1. /\ SubSeq(s, 1, n) \in Seq(Nat) /\ Len(SubSeq(s, 1, n)) = n
          /\ s[n + 1] \in Nat /\ s = Append(SubSeq(s, 1, n), s[n + 1])
      BY FrontThenLast
    <3> QED
      BY <3>1
  <2>2. PICK f \in Seq(Nat) : f = FirstOccurrences(u) /\ \A i \in 1 .. Len(f) : Contains(u, f[i])
    BY <1>2, <2>1
  <2>3. PICK g : g = FirstOccurrences(s) /\ g = See(f, x)
    BY <2>1, <2>2, FirstAppend
  <2>4. (\A y : Contains(u, y) => Contains(s, y)) /\ Contains(s, x)
    <3>1. Len(s) = n + 1 /\ s[n + 1] = x /\ \A i \in 1 .. n : s[i] = u[i]
      BY <2>1, AppendProperties
    <3>2. n + 1 \in 1 .. n + 1 /\ \A i \in 1 .. n : i \in 1 .. n + 1
      OBVIOUS
    <3> QED
      BY <2>1, <3>1, <3>2 DEF Contains
  <2>6. g \in Seq(Nat)
    BY <2>3, SeeType
  <2>7. CASE g = f
    BY <2>2, <2>3, <2>4, <2>7
  <2>8. CASE g = Append(f, x)
    <3>1. PICK m \in Nat : m = Len(f)
      OBVIOUS
    <3>2. Len(g) = m + 1 /\ g[m + 1] = x /\ \A i \in 1 .. m : g[i] = f[i]
      BY <2>8, <3>1, AppendProperties
    <3>3. \A i \in 1 .. m + 1 : Contains(s, g[i])
      <4>1. \A i \in 1 .. m : Contains(s, g[i])
        BY <2>2, <2>4, <3>1, <3>2
      <4>2. \A i \in 1 .. m + 1 : i = m + 1 \/ i \in 1 .. m
        OBVIOUS
      <4> QED
        BY <2>4, <3>2, <4>1, <4>2
    <3> QED
      BY <2>3, <2>6, <3>2, <3>3
  <2> QED
    BY <2>3, <2>6, <2>7, <2>8 DEF See
<1> HIDE DEF Good
<1>3. Nat \subseteq T
  <2> HIDE DEF T
  <2> QED
    BY <1>1, <1>2, NatSetInduction
<1>4. FirstOccurrences(w) \in Seq(Nat) /\ Good(w)
  BY <1>3
<1> QED
  BY <1>4 DEF Good

-----------------------------------------------------------------------------
(* The fresh records of a line of buffers *)

Flat(line) == FlattenSeq([i \in 1 .. Len(line) |-> Fresh(line[i])])

(* The records that an append put into a buffer since its reset. *)
LEMMA FreshType ==
  \A b \in Buffer : /\ Fresh(b) \in Seq(Nat) /\ Len(Fresh(b)) = b.cur
                    /\ \A j \in 1 .. b.cur : Fresh(b)[j] = b.data[j]
                    /\ b.data \in Seq(Nat) /\ Len(b.data) = BufferSize
<1> SUFFICES ASSUME NEW b \in Buffer
             PROVE  /\ Fresh(b) \in Seq(Nat) /\ Len(Fresh(b)) = b.cur
                    /\ \A j \in 1 .. b.cur : Fresh(b)[j] = b.data[j]
                    /\ b.data \in Seq(Nat) /\ Len(b.data) = BufferSize
  OBVIOUS
<1>0. BufferSize \in Nat /\ BufferSize >= 2 /\ MaxRecords \in Nat
  BY LoggingAssumption
<1>1. PICK d \in Datas, c \in 0 .. BufferSize - 1 : d = b.data /\ c = b.cur
  BY BufferFacts
<1>2. d \in Seq(Nat) /\ Len(d) = BufferSize
  BY <1>0 DEF Datas
<1>3. SubSeq(d, 1, c) \in Seq(Nat) /\ Len(SubSeq(d, 1, c)) = c
  BY <1>0, <1>2
<1>4. \A j \in 1 .. c : SubSeq(d, 1, c)[j] = d[j]
  BY <1>0, <1>2
<1> QED
  BY <1>1, <1>2, <1>3, <1>4 DEF Fresh

(* The records of several buffers are a sequence of records. *)
LEMMA FlatFacts ==
  ASSUME NEW s \in Seq(Buffer)
  PROVE  /\ [i \in 1 .. Len(s) |-> Fresh(s[i])] \in Seq(Seq(Nat))
         /\ Flat(s) \in Seq(Nat)
<1>1. \A i \in 1 .. Len(s) : Fresh(s[i]) \in Seq(Nat)
  BY FreshType
<1>2. [i \in 1 .. Len(s) |-> Fresh(s[i])] \in Seq(Seq(Nat))
  BY <1>1
<1>3. Flat(s) \in Seq(Nat)
  BY <1>2, FlattenType DEF Flat
<1> QED
  BY <1>2, <1>3

(* No buffers hold no records. *)
LEMMA FlatEmpty == Flat(<<>>) = <<>>
<1> DEFINE f == [i \in 1 .. Len(<<>>) |-> Fresh((<<>>)[i])]
<1>1. f \in Seq({}) /\ Len(f) = 0
  OBVIOUS
<1>2. f = <<>>
  BY <1>1, EmptySeq
<1> QED
  BY <1>2 DEF Flat, FlattenSeq

(* The records of two queues of buffers, one behind the other. *)
LEMMA FlatConcat ==
  ASSUME NEW s \in Seq(Buffer), NEW t \in Seq(Buffer)
  PROVE  Flat(s \o t) = Flat(s) \o Flat(t)
<1> DEFINE F(x) == [i \in 1 .. Len(x) |-> Fresh(x[i])]
<1>1. PICK m \in Nat, n \in Nat : m = Len(s) /\ n = Len(t)
  OBVIOUS
<1>2. PICK st \in Seq(Buffer) : /\ st = s \o t /\ Len(st) = m + n
                                /\ \A i \in 1 .. m : st[i] = s[i]
                                /\ \A i \in 1 .. n : st[m + i] = t[i]
  <2> DEFINE X == Buffer
  <2> HIDE DEF X
  <2>1. s \in Seq(X) /\ t \in Seq(X)
    BY DEF X
  <2>2. /\ s \o t \in Seq(X) /\ Len(s \o t) = m + n
        /\ \A i \in 1 .. m : (s \o t)[i] = s[i]
        /\ \A i \in 1 .. n : (s \o t)[m + i] = t[i]
    BY <1>1, <2>1, ConcatIs
  <2> QED
    BY <2>2 DEF X
<1>3. F(s) \in Seq(Seq(Nat)) /\ F(t) \in Seq(Seq(Nat)) /\ F(st) \in Seq(Seq(Nat))
  BY FlatFacts
<1>4. /\ Len(F(s)) = m /\ Len(F(t)) = n /\ Len(F(st)) = m + n
      /\ \A i \in 1 .. m : F(s)[i] = Fresh(s[i])
      /\ \A i \in 1 .. n : F(t)[i] = Fresh(t[i])
      /\ \A i \in 1 .. m + n : F(st)[i] = Fresh(st[i])
  BY <1>1, <1>2
<1> HIDE DEF F
<1>5. PICK fs, ft, fst : fs = F(s) /\ ft = F(t) /\ fst = F(st)
  OBVIOUS
<1>6. \A i \in 1 .. m : fst[i] = fs[i]
  BY <1>2, <1>4, <1>5
<1>7. \A i \in 1 .. n : fst[m + i] = ft[i]
  <2>1. \A i \in 1 .. n : m + i \in 1 .. m + n
    OBVIOUS
  <2>2. \A i \in 1 .. n : fst[m + i] = Fresh(st[m + i])
    BY <1>4, <1>5, <2>1
  <2> QED
    BY <1>2, <1>4, <1>5, <2>2
<1>8. F(st) = F(s) \o F(t)
  <2> DEFINE X == Seq(Nat)
  <2> HIDE DEF X
  <2>1. fs \in Seq(X) /\ ft \in Seq(X) /\ fst \in Seq(X)
    BY <1>3, <1>5 DEF X
  <2>2. Len(fs) = m /\ Len(ft) = n /\ Len(fst) = m + n
    BY <1>4, <1>5
  <2>3. fst = fs \o ft
    BY <2>1, <2>2, <1>6, <1>7, IsConcat
  <2> QED
    BY <1>5, <2>3
<1>9. FlattenSeq(F(st)) = FlattenSeq(F(s)) \o FlattenSeq(F(t))
  BY <1>3, <1>8, FlattenConcat
<1> QED
  BY <1>2, <1>9 DEF Flat, F

(* The records of one buffer. *)
LEMMA FlatOne ==
  ASSUME NEW b \in Buffer
  PROVE  Flat(<<b>>) = Fresh(b)
<1> DEFINE f == [i \in 1 .. Len(<<b>>) |-> Fresh((<<b>>)[i])]
<1>1. f = <<Fresh(b)>>
  OBVIOUS
<1> QED
  BY <1>1, FlattenOne DEF Flat

(* One buffer more at the end of the queue. *)
LEMMA FlatAppend ==
  ASSUME NEW s \in Seq(Buffer), NEW b \in Buffer
  PROVE  Flat(Append(s, b)) = Flat(s) \o Fresh(b)
<1>1. \A X : \A u \in Seq(X), e \in X : <<e>> \in Seq(X) /\ Append(u, e) = u \o <<e>>
  <2> SUFFICES ASSUME NEW X, NEW u \in Seq(X), NEW e \in X
               PROVE  <<e>> \in Seq(X) /\ Append(u, e) = u \o <<e>>
    OBVIOUS
  <2> QED
    BY AppendIsConcat
<1>2. <<b>> \in Seq(Buffer) /\ Append(s, b) = s \o <<b>>
  BY <1>1
<1>3. Flat(s \o <<b>>) = Flat(s) \o Flat(<<b>>)
  BY <1>2, FlatConcat
<1> QED
  BY <1>2, <1>3, FlatOne

(* The concatenation of records is associative. *)
LEMMA RecordsAssoc ==
  \A a, b, c \in Seq(Nat) : (a \o b) \o c = a \o (b \o c)
<1> SUFFICES ASSUME NEW a \in Seq(Nat), NEW b \in Seq(Nat), NEW c \in Seq(Nat)
             PROVE  (a \o b) \o c = a \o (b \o c)
  OBVIOUS
<1> QED
  BY SMTT(30)

(* What waits: the rest of the buffers being written, then the front end. *)
Rest == SubSeq(toWrite, at, Len(toWrite))

(* While the writer is at work, what waits is in its hands, in the queue *)
(* and in the current buffer.                                            *)
LEMMA WaitingIs ==
  ASSUME LogInv, at \in Nat \ {0}
  PROVE  /\ Rest \in Seq(Buffer)
         /\ Waiting = Flat(Rest) \o (Flat(buffers) \o Fresh(currentBuffer))
<1>1. PICK r \in Seq(Buffer) : r = Rest
  <2> DEFINE X == Buffer
  <2> HIDE DEF X
  <2>1. toWrite \in Seq(X)
    BY DEF LogInv, X
  <2>2. Len(toWrite) \in Nat
    BY <2>1, LenProperties
  <2>3. SubSeq(toWrite, at, Len(toWrite)) \in Seq(X)
    BY <2>1, <2>2, SubSeqIs
  <2> QED
    BY <2>3 DEF Rest, X
<1>2. PICK b \in Seq(Buffer), c \in Seq(Buffer) : b = buffers /\ c = <<currentBuffer>>
  <2>1. currentBuffer \in Buffer /\ buffers \in Seq(Buffer)
    BY DEF LogInv
  <2>2. \A X : \A e \in X : <<e>> \in Seq(X)
    OBVIOUS
  <2>3. <<currentBuffer>> \in Seq(Buffer)
    BY <2>1, <2>2
  <2> QED
    BY <2>1, <2>3
<1>3. Waiting = Flat((r \o b) \o c)
  BY <1>1, <1>2 DEF Waiting, Flat, Rest
<1>4. r \o b \in Seq(Buffer)
  BY ConcatProperties
<1>5. Flat((r \o b) \o c) = (Flat(r) \o Flat(b)) \o Flat(c)
  BY <1>4, FlatConcat
<1>6. Flat(c) = Fresh(currentBuffer)
  BY <1>2, FlatOne DEF LogInv
<1>7. PICK x \in Seq(Nat), y \in Seq(Nat), z \in Seq(Nat) : x = Flat(r) /\ y = Flat(b) /\ z = Flat(c)
  BY FlatFacts
<1>8. (x \o y) \o z = x \o (y \o z)
  BY RecordsAssoc
<1> QED
  BY <1>1, <1>2, <1>3, <1>5, <1>6, <1>7, <1>8

-----------------------------------------------------------------------------
(* What the files hold *)

OneFile == [opened : Nat, content : Seq(Nat)]

Files == Seq(OneFile)

LogFile == [files : Files, flushed : Nat, n : Nat, start : Nat, lastRoll : Nat,
            lastFlush : Nat]

ContentsOf(files) == [i \in 1 .. Len(files) |-> files[i].content]

(* The contents, with one file more, and with more in the last file. *)
LEMMA FileFacts ==
  ASSUME NEW fs \in Files
  PROVE  /\ ContentsOf(fs) \in Seq(Seq(Nat)) /\ FlattenSeq(ContentsOf(fs)) \in Seq(Nat)
         /\ \A t \in Nat : /\ Append(fs, File(t)) \in Files /\ Append(fs, File(t)) # <<>>
                           /\ FlattenSeq(ContentsOf(Append(fs, File(t)))) = FlattenSeq(ContentsOf(fs))
         /\ \A d \in Seq(Nat) : fs # <<>> =>
              LET more == [fs EXCEPT ![Len(fs)].content = @ \o d]
              IN /\ more \in Files /\ more # <<>>
                 /\ FlattenSeq(ContentsOf(more)) = FlattenSeq(ContentsOf(fs)) \o d
<1>0. PICK n \in Nat : n = Len(fs) /\ DOMAIN fs = 1 .. n
  BY DEF Files
<1>1. \A f \in Files : ContentsOf(f) \in Seq(Seq(Nat)) /\ Len(ContentsOf(f)) = Len(f)
  <2> SUFFICES ASSUME NEW f \in Files
               PROVE  ContentsOf(f) \in Seq(Seq(Nat)) /\ Len(ContentsOf(f)) = Len(f)
    OBVIOUS
  <2>1. \A i \in 1 .. Len(f) : f[i].content \in Seq(Nat)
    <3>1. \A i \in 1 .. Len(f) : f[i] \in OneFile
      BY DEF Files
    <3> QED
      BY <3>1 DEF OneFile
  <2>2. Len(f) \in Nat
    BY DEF Files
  <2> QED
    BY <2>1, <2>2 DEF ContentsOf
<1>2. \A f \in Files : FlattenSeq(ContentsOf(f)) \in Seq(Nat)
  BY <1>1, FlattenType
<1>3. ASSUME NEW t \in Nat
      PROVE  /\ Append(fs, File(t)) \in Files /\ Append(fs, File(t)) # <<>>
             /\ FlattenSeq(ContentsOf(Append(fs, File(t)))) = FlattenSeq(ContentsOf(fs))
  <2> DEFINE f == File(t)
             gs == Append(fs, f)
  <2>1. f \in OneFile /\ f.content = <<>>
    BY DEF File, OneFile
  <2> HIDE DEF f
  <2>2. /\ gs \in Files /\ Len(gs) = n + 1 /\ gs[n + 1] = f
        /\ \A i \in 1 .. n : gs[i] = fs[i]
    BY <1>0, <2>1, AppendProperties DEF Files
  <2> HIDE DEF gs
  <2>3. PICK a, b : a = ContentsOf(fs) /\ b = ContentsOf(gs)
    OBVIOUS
  <2>4. /\ a \in Seq(Seq(Nat)) /\ b \in Seq(Seq(Nat)) /\ Len(a) = n /\ Len(b) = n + 1
    BY <1>0, <1>1, <2>2, <2>3
  <2>5. b[n + 1] = <<>> /\ \A i \in 1 .. n : a[i] = b[i]
    BY <1>0, <2>1, <2>2, <2>3 DEF ContentsOf
  <2>6. FlattenSeq(b) = FlattenSeq(a)
    <3>1. CASE n = 0
      <4> DEFINE X == Seq(Nat)
      <4> HIDE DEF X
      <4>1. a \in Seq(X) /\ b \in Seq(X)
        BY <2>4 DEF X
      <4>2. a = <<>>
        BY <2>4, <3>1, <4>1, EmptySeq
      <4>3. b = << <<>> >>
        BY <2>4, <2>5, <3>1, <4>1
      <4> QED
        BY <4>2, <4>3, FlattenOne DEF FlattenSeq
    <3>2. CASE n # 0
      <4>1. FlattenSeq(b) = FlattenSeq(a) \o b[n + 1]
        BY <2>4, <2>5, <3>2, FlattenExtend
      <4>2. FlattenSeq(a) \in Seq(Nat)
        BY <2>4, FlattenType
      <4> QED
        BY <2>5, <4>1, <4>2, ConcatEmptySeq
    <3> QED
      BY <3>1, <3>2
  <2>7. gs # <<>>
    BY <2>2
  <2> QED
    BY <2>2, <2>3, <2>6, <2>7 DEF gs, f
<1>4. ASSUME NEW d \in Seq(Nat), fs # <<>>, NEW more,
             more = [fs EXCEPT ![Len(fs)].content = @ \o d]
      PROVE  /\ more \in Files /\ more # <<>>
             /\ FlattenSeq(ContentsOf(more)) = FlattenSeq(ContentsOf(fs)) \o d
  <2>1. PICK m \in Nat : n = m + 1
    <3>1. n # 0
      BY <1>0, <1>4, EmptySeq DEF Files
    <3>2. n - 1 \in Nat /\ n - 1 + 1 = n
      BY <3>1
    <3> QED
      BY <3>2
  <2>2. fs[n] \in OneFile
    BY <1>0, <2>1 DEF Files
  <2>3. PICK c \in Seq(Nat), e \in Seq(Nat) : c = fs[n].content /\ e = c \o d
    <3>1. fs[n].content \in Seq(Nat)
      BY <2>2 DEF OneFile
    <3> QED
      BY <3>1, ConcatProperties
  <2>4. PICK g \in OneFile : g = [fs[n] EXCEPT !.content = e] /\ g.content = e
    <3>1. \A r \in OneFile : [r EXCEPT !.content = e] \in OneFile /\ [r EXCEPT !.content = e].content = e
      BY DEF OneFile
    <3> QED
      BY <2>2, <3>1
  <2>5. more = [fs EXCEPT ![n] = g]
    BY <1>0, <1>4, <2>1, <2>3, <2>4
  <2>6. more \in Files /\ Len(more) = n /\ more[n] = g /\ \A i \in 1 .. m : more[i] = fs[i]
    <3>1. fs \in Seq(OneFile) /\ n \in 1 .. n
      BY <2>1 DEF Files
    <3>2. more \in Seq(OneFile) /\ Len(more) = n
      BY <1>0, <2>5, <3>1, ExceptSeq
    <3>3. more[n] = g /\ \A i \in 1 .. m : more[i] = fs[i]
      BY <1>0, <2>1, <2>5
    <3> QED
      BY <3>2, <3>3 DEF Files
  <2>7. PICK a, b : a = ContentsOf(fs) /\ b = ContentsOf(more)
    OBVIOUS
  <2>8. /\ a \in Seq(Seq(Nat)) /\ b \in Seq(Seq(Nat)) /\ Len(a) = m + 1 /\ Len(b) = m + 1
    BY <1>0, <1>1, <2>1, <2>6, <2>7
  <2>9. a[m + 1] = c /\ b[m + 1] = e /\ \A i \in 1 .. m : a[i] = b[i]
    <3>1. \A i \in 1 .. n : a[i] = fs[i].content /\ b[i] = more[i].content
      BY <1>0, <2>6, <2>7 DEF ContentsOf
    <3>2. n \in 1 .. n /\ \A i \in 1 .. m : i \in 1 .. n
      BY <2>1
    <3>3. a[n] = c /\ b[n] = e
      BY <2>3, <2>4, <2>6, <3>1, <3>2
    <3>4. \A i \in 1 .. m : a[i] = b[i]
      BY <2>6, <3>1, <3>2
    <3> QED
      BY <2>1, <3>3, <3>4
  <2>10. PICK p \in Seq(Seq(Nat)) : a = Append(p, c) /\ b = Append(p, e)
    <3> DEFINE X == Seq(Nat)
    <3> HIDE DEF X
    <3>1. a \in Seq(X) /\ b \in Seq(X)
      BY <2>8 DEF X
    <3>2. /\ SubSeq(a, 1, m) \in Seq(X) /\ Len(SubSeq(a, 1, m)) = m
          /\ a = Append(SubSeq(a, 1, m), a[m + 1])
      BY <2>8, <3>1, FrontThenLast
    <3>3. /\ SubSeq(b, 1, m) \in Seq(X) /\ Len(SubSeq(b, 1, m)) = m
          /\ b = Append(SubSeq(b, 1, m), b[m + 1])
      BY <2>8, <3>1, FrontThenLast
    <3>4. \A i \in 1 .. m : SubSeq(a, 1, m)[i] = a[i] /\ SubSeq(b, 1, m)[i] = b[i]
      BY <2>8, <3>1
    <3>5. \A i \in 1 .. m : SubSeq(a, 1, m)[i] = SubSeq(b, 1, m)[i]
      BY <2>9, <3>4
    <3>6. SubSeq(a, 1, m) = SubSeq(b, 1, m)
      BY <3>2, <3>3, <3>5, SeqEqual
    <3> QED
      BY <2>9, <3>2, <3>3, <3>6 DEF X
  <2>11. FlattenSeq(a) = FlattenSeq(p) \o c /\ FlattenSeq(b) = FlattenSeq(p) \o e
    BY <2>10, FlattenAppend
  <2>12. PICK q \in Seq(Nat) : q = FlattenSeq(p)
    BY <2>10, FlattenType
  <2>13. q \o (c \o d) = (q \o c) \o d
    BY RecordsAssoc
  <2>14. FlattenSeq(b) = FlattenSeq(a) \o d
    BY <2>3, <2>11, <2>12, <2>13
  <2>15. more # <<>>
    BY <2>1, <2>6
  <2> QED
    BY <2>6, <2>7, <2>14, <2>15
<1> QED
  BY <1>1, <1>2, <1>3, <1>4

(* What is written is what the files hold, one behind the other. *)
LEMMA WrittenIs == \A l : Written(l) = FlattenSeq(ContentsOf(l.files))
  BY DEF Written, ContentsOf

(* The fields of a log file, changed one at a time. *)
LEMMA LogFileExcept ==
  ASSUME NEW l \in LogFile
  PROVE  /\ l.files \in Files /\ l.n \in Nat /\ l.flushed \in Nat
         /\ \A done \in Nat :
              /\ [l EXCEPT !.flushed = done] \in LogFile /\ [l EXCEPT !.flushed = done].files = l.files
              /\ [l EXCEPT !.flushed = done].flushed = done
              /\ [l EXCEPT !.n = done] \in LogFile /\ [l EXCEPT !.n = done].files = l.files
              /\ [l EXCEPT !.lastFlush = done] \in LogFile /\ [l EXCEPT !.lastFlush = done].files = l.files
         /\ \A fs \in Files :
              [l EXCEPT !.files = fs] \in LogFile /\ [l EXCEPT !.files = fs].files = fs
BY DEF LogFile

(* A file that is opened or flushed changes nothing that is written, and     *)
(* append() adds what it is given.                                           *)
LEMMA RollFacts ==
  ASSUME NEW l \in LogFile, NEW now \in Nat
  PROVE  /\ Written(l) \in Seq(Nat)
         /\ Flush(l) \in LogFile /\ Flush(l).files = l.files /\ Written(Flush(l)) = Written(l)
         /\ Flush(l).flushed = Len(Written(l))
         /\ RollFile(l, now) \in LogFile /\ Written(RollFile(l, now)) = Written(l)
         /\ (l.files # <<>> => RollFile(l, now).files # <<>>)
         /\ (now > l.lastRoll => RollFile(l, now).files # <<>>)
<1>1. l.files \in Files
  BY DEF LogFile
<1>2. Written(l) \in Seq(Nat)
  BY <1>1, FileFacts, WrittenIs
<1>3. PICK done \in Nat : done = Len(Written(l))
  BY <1>2
<1>4. PICK f \in LogFile : f = Flush(l) /\ f.files = l.files /\ f.flushed = done
  <2>1. \A j \in Nat : /\ [l EXCEPT !.flushed = j] \in LogFile
                       /\ [l EXCEPT !.flushed = j].files = l.files
                       /\ [l EXCEPT !.flushed = j].flushed = j
    BY LogFileExcept
  <2> QED
    BY <1>3, <2>1 DEF Flush
<1>5. Written(f) = Written(l)
  BY <1>4, WrittenIs
<1>6. CASE ~(now > l.lastRoll)
  BY <1>2, <1>3, <1>4, <1>5, <1>6 DEF RollFile
<1>7. CASE now > l.lastRoll
  <2>1. PICK s \in Nat : s = StartOfPeriod(now)
    <3>1. Period \in Nat \ {0}
      BY LoggingAssumption
    <3>2. now \div Period \in Nat
      BY <3>1
    <3>3. \A x, y \in Nat : x * y \in Nat
      OBVIOUS
    <3> QED
      BY <3>1, <3>2, <3>3 DEF StartOfPeriod
  <2>2. PICK a \in Files : /\ a = Append(l.files, File(now)) /\ a # <<>>
                           /\ FlattenSeq(ContentsOf(a)) = FlattenSeq(ContentsOf(l.files))
    BY <1>1, FileFacts
  <2>3. RollFile(l, now) = [f EXCEPT !.files = a, !.lastRoll = now, !.lastFlush = now, !.start = s]
    BY <1>4, <1>7, <2>1, <2>2 DEF RollFile
  <2>4. PICK r \in LogFile : r = RollFile(l, now) /\ r.files = a
    BY <2>3 DEF LogFile
  <2>5. Written(r) = Written(l)
    BY <2>2, <2>4, WrittenIs
  <2> QED
    BY <1>2, <1>3, <1>4, <1>5, <2>2, <2>4, <2>5
<1> QED
  BY <1>6, <1>7

(* append() adds the data to what is written, whether or not it rolls the *)
(* file.                                                                  *)
LEMMA AppendInLockFacts ==
  ASSUME NEW l \in LogFile, l.files # <<>>, NEW d \in Seq(Nat), NEW now \in Nat
  PROVE  /\ AppendInLock(l, d, now) \in LogFile /\ AppendInLock(l, d, now).files # <<>>
         /\ Written(AppendInLock(l, d, now)) = Written(l) \o d
<1>1. l.files \in Files
  BY DEF LogFile
<1>2. PICK m \in Files : /\ m = [l.files EXCEPT ![Len(l.files)].content = @ \o d] /\ m # <<>>
                         /\ FlattenSeq(ContentsOf(m)) = FlattenSeq(ContentsOf(l.files)) \o d
  BY <1>1, FileFacts
<1>3. PICK a \in LogFile : a = FileAppend(l, d) /\ a.files = m
  <2>1. FileAppend(l, d) = [l EXCEPT !.files = m]
    BY <1>2 DEF FileAppend, LogFile
  <2> QED
    <3>1. [l EXCEPT !.files = m] \in LogFile /\ [l EXCEPT !.files = m].files = m
      BY LogFileExcept
    <3> QED
      BY <2>1, <3>1
<1>4. Written(a) = Written(l) \o d
  BY <1>2, <1>3, WrittenIs
<1>5. PICK c \in LogFile : c = [a EXCEPT !.n = (a.n + 1) % CheckEveryN] /\ c.files = m
  <2>1. a.n \in Nat /\ CheckEveryN \in Nat \ {0}
    BY LoggingAssumption DEF LogFile
  <2>2. (a.n + 1) % CheckEveryN \in Nat
    BY <2>1
  <2> QED
    <3>1. \A j \in Nat : [a EXCEPT !.n = j] \in LogFile /\ [a EXCEPT !.n = j].files = a.files
      BY LogFileExcept
    <3> QED
      BY <1>3, <2>2, <3>1
<1>6. Written(c) = Written(l) \o d
  BY <1>3, <1>4, <1>5, WrittenIs
<1>7. PICK e \in LogFile : e = [c EXCEPT !.lastFlush = now] /\ e.files = m
  <2>1. [c EXCEPT !.lastFlush = now] \in LogFile /\ [c EXCEPT !.lastFlush = now].files = m
    BY <1>5, LogFileExcept
  <2> QED
    BY <2>1
<1>8. Written(e) = Written(l) \o d
  BY <1>6, <1>5, <1>7, WrittenIs
<1>9. \/ AppendInLock(l, d, now) = RollFile(a, now)
      \/ AppendInLock(l, d, now) = c
      \/ AppendInLock(l, d, now) = RollFile(c, now)
      \/ AppendInLock(l, d, now) = Flush(e)
  BY <1>3, <1>5, <1>7 DEF AppendInLock
<1>10. \A x \in LogFile : x.files = m =>
         /\ RollFile(x, now) \in LogFile /\ RollFile(x, now).files # <<>>
         /\ Written(RollFile(x, now)) = Written(x)
         /\ Flush(x) \in LogFile /\ Flush(x).files # <<>> /\ Written(Flush(x)) = Written(x)
  BY <1>2, RollFacts
<1> QED
  BY <1>2, <1>3, <1>4, <1>5, <1>6, <1>7, <1>8, <1>9, <1>10

(* The first file of a log. *)
LEMMA NewLogFacts ==
  ASSUME NEW now \in Nat \ {0}
  PROVE  /\ NewLogFile(now) \in LogFile /\ NewLogFile(now).files # <<>>
         /\ Written(NewLogFile(now)) = <<>>
<1> DEFINE l == [files |-> <<>>, flushed |-> 0, n |-> 0, start |-> 0, lastRoll |-> 0,
                 lastFlush |-> 0]
<1>1. l \in LogFile /\ l.files = <<>> /\ l.lastRoll = 0
  BY DEF LogFile, Files
<1>2. NewLogFile(now) = RollFile(l, now)
  BY DEF NewLogFile
<1> HIDE DEF l
<1>3. Written(l) = <<>>
  <2>1. Len(l.files) = 0
    BY <1>1
  <2>2. [i \in 1 .. Len(l.files) |-> l.files[i].content] = <<>>
    BY <2>1
  <2> QED
    BY <2>2 DEF Written, FlattenSeq
<1>4. /\ RollFile(l, now) \in LogFile /\ Written(RollFile(l, now)) = Written(l)
      /\ (now > l.lastRoll => RollFile(l, now).files # <<>>)
  BY <1>1, RollFacts
<1>5. now > l.lastRoll
  BY <1>1
<1> QED
  BY <1>2, <1>3, <1>4, <1>5

-----------------------------------------------------------------------------
(* The records 1 .. Done are written; the fresh records of what waits are    *)
(* the ones after them.  Every other slot of a buffer, the memory of the     *)
(* destroyed ones included, holds a record that is written already: writing  *)
(* whole buffers repeats records and never runs ahead.                       *)

Done == Len(FirstOccurrences(AllWritten))

OldData(d, done) == \A j \in 1 .. BufferSize : d[j] <= done

OldTail(b, done) == \A j \in b.cur + 1 .. BufferSize : b.data[j] <= done

OldSpare(b, done) == b \in Buffer => b.cur = 0 /\ OldData(b.data, done)

LineInv ==
  /\ FirstOccurrences(AllWritten) = Counted(Done)
  /\ Counted(Done) \o (Flat(Rest) \o (Flat(buffers) \o Fresh(currentBuffer))) = Counted(count)
  /\ OldTail(currentBuffer, Done)
  /\ \A i \in 1 .. Len(buffers) : OldTail(buffers[i], Done)
  /\ \A i \in 1 .. Len(toWrite) : IF i < at THEN OldData(toWrite[i].data, Done)
                                            ELSE OldTail(toWrite[i], Done)
  /\ OldSpare(nextBuffer, Done) /\ OldSpare(new1, Done) /\ OldSpare(new2, Done)
  /\ \A d \in freed : OldData(d, Done)

ControlInv ==
  /\ user \in {"new", "started", "join", "stopped"}
  /\ running = (user = "started")
  /\ (user = "new") = (wpc = "none")
  /\ user = "stopped" => wpc = "exited"
  /\ wpc # "write" => toWrite = <<>>
  /\ clock \in Nat \ {0} /\ at \in Nat \ {0} /\ owed \in 0 .. count
  /\ wpc \notin {"none", "begin"} => log \in LogFile /\ log.files # <<>>
  /\ wpc = "exited" => log.flushed = Len(Written(log)) /\ user \in {"join", "stopped"}

(* What the writer has still in hand covers what stop() owes. *)
StopInv ==
  user \in {"join", "stopped"} /\ wpc \notin {"lock", "wait"} =>
    Done + Len(Flat(Rest)) >= owed

LostInv == LogInv /\ ControlInv /\ LineInv /\ StopInv

(* The parts of the line, typed. *)
LEMMA LostTypes ==
  ASSUME LostInv
  PROVE  /\ AllWritten \in Seq(Nat) /\ Done \in Nat
         /\ Rest \in Seq(Buffer) /\ Flat(Rest) \in Seq(Nat)
         /\ Flat(buffers) \in Seq(Nat) /\ Fresh(currentBuffer) \in Seq(Nat)
         /\ Len(Fresh(currentBuffer)) = currentBuffer.cur /\ currentBuffer.cur \in Nat
         /\ count \in Nat /\ count <= MaxRecords /\ MaxRecords \in Nat /\ BufferSize \in Nat /\ BufferSize >= 2
<1>1. AllWritten \in Seq(Nat)
  <2>1. CASE user = "new" \/ wpc = "begin"
    BY <2>1 DEF AllWritten
  <2>2. CASE ~(user = "new" \/ wpc = "begin")
    <3>1. log \in LogFile /\ AllWritten = Written(log)
      BY <2>2 DEF LostInv, ControlInv, AllWritten
    <3> QED
      BY <3>1, RollFacts
  <2> QED
    BY <2>1, <2>2
<1>2. LogInv /\ at \in Nat \ {0}
  BY DEF LostInv, ControlInv
<1>3. Done \in Nat
  <2>1. PICK f \in Seq(Nat) : f = FirstOccurrences(AllWritten)
    BY <1>1, FirstType
  <2> QED
    BY <2>1 DEF Done
<1>4. Rest \in Seq(Buffer)
  BY <1>2, WaitingIs
<1>5. buffers \in Seq(Buffer) /\ currentBuffer \in Buffer
  BY <1>2 DEF LogInv
<1>6. currentBuffer.cur \in Nat
  BY <1>5, BufferFacts, LoggingAssumption
<1>7. BufferSize \in Nat /\ BufferSize >= 2 /\ MaxRecords \in Nat
  BY LoggingAssumption
<1>8. count \in Nat /\ count <= MaxRecords
  BY <1>2, <1>7 DEF LogInv
<1> QED
  BY <1>1, <1>3, <1>4, <1>5, <1>6, <1>7, <1>8, FlatFacts, FreshType

(* s, or c and then x, or c and then x and y, are the records done + 1 .. n. *)
Follow(done, s, n) == Counted(done) \o s = Counted(n)

FollowTwo(done, c, x, n) == Follow(done, c \o x, n)

FollowThree(done, c, x, y, n) == Follow(done, (c \o x) \o y, n)

(* The records of c are the next ones, and x follows them. *)
LEMMA CountedSplit ==
  ASSUME NEW done \in Nat, NEW n \in Nat, NEW c \in Seq(Nat), NEW x \in Seq(Nat),
         FollowTwo(done, c, x, n)
  PROVE  /\ \A j \in 1 .. Len(c) : c[j] = done + j
         /\ Follow(done + Len(c), x, n)
<1>1. PICK a \in Seq(Nat) : a = Counted(done) /\ Len(a) = done /\ \A i \in 1 .. done : a[i] = i
  BY CountedFacts
<1>2. PICK t \in Seq(Nat) : t = Counted(n) /\ Len(t) = n /\ \A i \in 1 .. n : t[i] = i
  BY CountedFacts
<1>3. PICK m \in Nat, p \in Nat : m = Len(c) /\ p = Len(x)
  OBVIOUS
<1>4. PICK cx \in Seq(Nat) : /\ cx = c \o x /\ Len(cx) = m + p
                             /\ \A i \in 1 .. m : cx[i] = c[i]
                             /\ \A i \in 1 .. p : cx[m + i] = x[i]
  <2>1. /\ c \o x \in Seq(Nat) /\ Len(c \o x) = Len(c) + Len(x)
        /\ \A i \in 1 .. Len(c) : (c \o x)[i] = c[i]
        /\ \A i \in 1 .. Len(x) : (c \o x)[Len(c) + i] = x[i]
    BY ConcatIs
  <2> QED
    BY <1>3, <2>1
<1>5. Len(t) = done + (m + p) /\ \A i \in 1 .. m + p : t[done + i] = cx[i]
  <2>1. /\ a \o cx \in Seq(Nat) /\ Len(a \o cx) = Len(a) + Len(cx)
        /\ \A i \in 1 .. Len(a) : (a \o cx)[i] = a[i]
        /\ \A i \in 1 .. Len(cx) : (a \o cx)[Len(a) + i] = cx[i]
    BY ConcatIs
  <2> QED
    BY <1>1, <1>2, <1>4, <2>1 DEF FollowTwo, Follow
<1>6. \A i \in 1 .. m + p : cx[i] = done + i
  <2>1. \A i \in 1 .. m + p : done + i \in 1 .. n
    BY <1>2, <1>5
  <2> QED
    BY <1>2, <1>5, <2>1
<1>7. \A j \in 1 .. m : c[j] = done + j
  <2>1. \A j \in 1 .. m : j \in 1 .. m + p
    OBVIOUS
  <2> QED
    BY <1>4, <1>6, <2>1
<1>8. PICK q \in Nat : q = done + m
  OBVIOUS
<1>9. PICK b \in Seq(Nat) : b = Counted(q) /\ Len(b) = q /\ \A i \in 1 .. q : b[i] = i
  BY CountedFacts
<1>10. n = q + p
  BY <1>2, <1>5, <1>8
<1>11. \A i \in 1 .. q : t[i] = b[i]
  <2>1. \A i \in 1 .. q : i \in 1 .. n
    BY <1>10
  <2> QED
    BY <1>2, <1>9, <2>1
<1>12. \A i \in 1 .. p : t[q + i] = x[i]
  <2> SUFFICES ASSUME NEW i \in 1 .. p PROVE t[q + i] = x[i]
    OBVIOUS
  <2>1. PICK j \in 1 .. m + p : j = m + i
    OBVIOUS
  <2>2. cx[j] = x[i] /\ cx[j] = done + j
    BY <1>4, <1>6, <2>1
  <2>3. q + i \in 1 .. n /\ q + i = done + j
    BY <1>8, <1>10, <2>1
  <2> QED
    BY <1>2, <2>2, <2>3
<1>13. t = b \o x
  <2>1. Len(t) = Len(b) + Len(x)
    BY <1>2, <1>3, <1>9, <1>10
  <2>2. Len(b) = q /\ Len(x) = p
    BY <1>3, <1>9
  <2>3. \A i \in 1 .. Len(b) : t[i] = b[i]
    BY <1>11, <2>2
  <2>4. \A i \in 1 .. Len(x) : t[Len(b) + i] = x[i]
    BY <1>12, <2>2
  <2> QED
    BY <2>1, <2>3, <2>4, IsConcat
<1>14. Follow(q, x, n)
  BY <1>2, <1>9, <1>13 DEF Follow
<1> QED
  BY <1>3, <1>7, <1>8, <1>14

(* Taking the first part off a run of consecutive records leaves a run. *)
LEMMA LineSplit ==
  ASSUME NEW done \in Nat, NEW n \in Nat, NEW c \in Seq(Nat), NEW x \in Seq(Nat), NEW y \in Seq(Nat),
         FollowThree(done, c, x, y, n)
  PROVE  /\ \A j \in 1 .. Len(c) : c[j] = done + j
         /\ Follow(done + Len(c), x \o y, n)
         /\ Len(c \o x) = Len(c) + Len(x)
<1>1. (c \o x) \o y = c \o (x \o y)
  BY RecordsAssoc
<1>2. x \o y \in Seq(Nat) /\ Len(c \o x) = Len(c) + Len(x)
  BY ConcatProperties
<1>3. PICK xy \in Seq(Nat) : xy = x \o y
  BY <1>2
<1>4. FollowTwo(done, c, xy, n)
  BY <1>1, <1>3 DEF FollowTwo, FollowThree
<1>5. /\ \A j \in 1 .. Len(c) : c[j] = done + j
      /\ Follow(done + Len(c), xy, n)
  BY <1>4, CountedSplit
<1> QED
  BY <1>2, <1>3, <1>5

(* A record at the end of the second part is at the end of the whole. *)
LEMMA RecordsAppend ==
  \A u, v \in Seq(Nat), r \in Nat :
    u \o v \in Seq(Nat) /\ u \o Append(v, r) = Append(u \o v, r)
<1> SUFFICES ASSUME NEW u \in Seq(Nat), NEW v \in Seq(Nat), NEW r \in Nat
             PROVE  u \o v \in Seq(Nat) /\ u \o Append(v, r) = Append(u \o v, r)
  OBVIOUS
<1>1. u \o v \in Seq(Nat)
  BY ConcatProperties
<1>2. u \o Append(v, r) = Append(u \o v, r)
  BY ConcatAppend
<1> QED
  BY <1>1, <1>2

(* One record more in a buffer. *)
LEMMA FreshAppend ==
  ASSUME NEW b \in Buffer, NEW r \in 0 .. MaxRecords, Avail(b) > 1, NEW done \in Nat, OldTail(b, done)
  PROVE  Fresh(FixedAppend(b, r)) = Append(Fresh(b), r) /\ OldTail(FixedAppend(b, r), done)
<1>0. BufferSize \in Nat /\ BufferSize >= 2 /\ MaxRecords \in Nat
  BY LoggingAssumption
<1>1. PICK d \in Datas, c \in 0 .. BufferSize - 1 : d = b.data /\ c = b.cur
  BY BufferFacts
<1>2. PICK e : e = FixedAppend(b, r) /\ e.data = [d EXCEPT ![c + 1] = r] /\ e.cur = c + 1
  <2>1. FixedAppend(b, r) = [data |-> [d EXCEPT ![c + 1] = r], cur |-> c + 1]
    BY <1>1 DEF FixedAppend
  <2>2. \A u, v : [data |-> u, cur |-> v].data = u /\ [data |-> u, cur |-> v].cur = v
    OBVIOUS
  <2> QED
    BY <2>1, <2>2
<1>3. e \in Buffer
  BY <1>2, AppendKeepsBuffer
<1>4. c + 1 \in 1 .. BufferSize /\ c \in Nat
  BY <1>0, <1>1 DEF Avail
<1>5. /\ e.data[c + 1] = r
      /\ \A i \in 1 .. BufferSize : i # c + 1 => e.data[i] = d[i]
  BY <1>1, <1>2, <1>4 DEF Datas
<1>6. OldTail(e, done)
  BY <1>1, <1>2, <1>4, <1>5 DEF OldTail
<1>7. PICK f \in Seq(Nat) : /\ f = Fresh(e) /\ Len(f) = c + 1
                            /\ \A j \in 1 .. c + 1 : f[j] = e.data[j]
  <2>1. /\ Fresh(e) \in Seq(Nat) /\ Len(Fresh(e)) = e.cur
        /\ \A j \in 1 .. e.cur : Fresh(e)[j] = e.data[j]
    BY <1>3, FreshType
  <2> QED
    BY <1>2, <2>1
<1>8. PICK g \in Seq(Nat) : /\ g = Fresh(b) /\ Len(g) = c
                            /\ \A j \in 1 .. c : g[j] = d[j]
  BY <1>1, FreshType
<1>9. PICK h \in Seq(Nat) : /\ h = Append(g, r) /\ Len(h) = c + 1 /\ h[c + 1] = r
                            /\ \A j \in 1 .. c : h[j] = g[j]
  <2>1. r \in Nat
    BY <1>0
  <2> QED
    <3>1. /\ Append(g, r) \in Seq(Nat) /\ Len(Append(g, r)) = Len(g) + 1
          /\ Append(g, r)[Len(g) + 1] = r /\ \A j \in 1 .. Len(g) : Append(g, r)[j] = g[j]
      BY <2>1, AppendProperties
    <3> QED
      BY <1>8, <3>1
<1>10. \A j \in 1 .. c + 1 : f[j] = h[j]
  <2>1. \A j \in 1 .. c : j \in 1 .. c + 1 /\ j \in 1 .. BufferSize /\ j # c + 1
    BY <1>0, <1>4
  <2>2. \A j \in 1 .. c : f[j] = h[j]
    <3>1. \A j \in 1 .. c : f[j] = e.data[j] /\ e.data[j] = d[j]
      BY <1>5, <1>7, <2>1
    <3> QED
      BY <1>8, <1>9, <3>1
  <2>3. c + 1 \in 1 .. c + 1 /\ \A j \in 1 .. c + 1 : j = c + 1 \/ j \in 1 .. c
    BY <1>4
  <2>4. f[c + 1] = h[c + 1]
    BY <1>5, <1>7, <1>9, <2>3
  <2> QED
    BY <2>2, <2>3, <2>4
<1>11. f = h
  BY <1>7, <1>9, <1>10, SeqEqual
<1> QED
  BY <1>2, <1>6, <1>7, <1>8, <1>9, <1>11

(* More records are written: what is old stays old. *)
LEMMA OldStays ==
  ASSUME NEW done \in Nat, NEW n \in Nat, done <= n
  PROVE  /\ \A d \in Datas : OldData(d, done) => OldData(d, n)
         /\ \A b \in Buffer : OldTail(b, done) => OldTail(b, n)
         /\ \A b : OldSpare(b, done) => OldSpare(b, n)
<1>0. BufferSize \in Nat /\ MaxRecords \in Nat
  BY LoggingAssumption
<1>1. ASSUME NEW d \in Datas, OldData(d, done) PROVE OldData(d, n)
  <2>1. \A j \in 1 .. BufferSize : d[j] \in Nat /\ d[j] <= done
    BY <1>0, <1>1 DEF OldData, Datas
  <2> QED
    BY <2>1 DEF OldData
<1>2. ASSUME NEW b \in Buffer, OldTail(b, done) PROVE OldTail(b, n)
  <2>1. PICK d \in Datas, c \in Nat : d = b.data /\ c = b.cur
    BY <1>0, BufferFacts
  <2>2. \A j \in c + 1 .. BufferSize : d[j] \in Nat /\ d[j] <= done
    BY <1>0, <1>2, <2>1 DEF OldTail, Datas
  <2> QED
    BY <2>1, <2>2 DEF OldTail
<1>3. ASSUME NEW b, OldSpare(b, done) PROVE OldSpare(b, n)
  BY <1>1, <1>3, BufferFacts DEF OldSpare
<1> QED
  BY <1>1, <1>2, <1>3

(* A spare buffer has nothing fresh. *)
LEMMA SpareIsOld ==
  ASSUME NEW b \in Buffer, NEW done \in Nat, OldSpare(b, done)
  PROVE  OldTail(b, done) /\ Fresh(b) = <<>> /\ b.cur = 0
<1>1. b.cur = 0 /\ OldTail(b, done)
  BY DEF OldSpare, OldTail, OldData
<1>2. Fresh(b) \in Seq(Nat) /\ Len(Fresh(b)) = 0
  BY <1>1, FreshType
<1> QED
  BY <1>1, <1>2, EmptySeq

-----------------------------------------------------------------------------
(* append(): the record joins the end of the line. *)
LEMMA AppendRecordInLine == ASSUME LostInv, AppendRecord PROVE LostInv'
<1>0. LogInv' /\ LogInv /\ ControlInv /\ LineInv /\ StopInv
  BY AppendRecordKeeps DEF LostInv
<1>1. /\ count' = count + 1 /\ count < MaxRecords
      /\ UNCHANGED <<running, user, wpc, new1, new2, toWrite, at, freed, clock, log, owed>>
  BY DEF AppendRecord, writer
<1>2. AllWritten' = AllWritten /\ Rest' = Rest /\ Done' = Done
  BY <1>1 DEF AllWritten, Rest, Done, Written
<1>3. PICK done \in Nat, n \in Nat, x \in Seq(Nat), y \in Seq(Nat), z \in Seq(Nat) :
        /\ done = Done /\ n = count /\ x = Flat(Rest) /\ y = Flat(buffers) /\ z = Fresh(currentBuffer)
        /\ MaxRecords \in Nat /\ BufferSize \in Nat /\ BufferSize >= 2
  BY LostTypes
<1>4. PICK r \in 0 .. MaxRecords : r = n + 1 /\ count' = r /\ r \in Nat
  BY <1>1, <1>3
<1>5. PICK a \in Seq(Nat) : a = Counted(done) /\ a \o (x \o (y \o z)) = Counted(n)
  BY <1>0, <1>3, CountedFacts DEF LineInv
<1>6. a \o (x \o (y \o Append(z, r))) = Counted(r)
  <2>1. PICK yz \in Seq(Nat) : yz = y \o z /\ y \o Append(z, r) = Append(yz, r)
    <3>1. y \o z \in Seq(Nat) /\ y \o Append(z, r) = Append(y \o z, r)
      BY <1>4, RecordsAppend, Zenon
    <3> QED
      BY <3>1
  <2>2. PICK w \in Seq(Nat) : w = x \o yz /\ x \o Append(yz, r) = Append(w, r)
    <3>1. x \o yz \in Seq(Nat) /\ x \o Append(yz, r) = Append(x \o yz, r)
      BY <1>4, RecordsAppend, Zenon
    <3> QED
      BY <3>1
  <2>3. a \o Append(w, r) = Append(a \o w, r)
    BY <1>4, RecordsAppend, Zenon
  <2>4. Append(Counted(n), r) = Counted(r)
    BY <1>4, CountedNext
  <2> QED
    BY <1>4, <1>5, <2>1, <2>2, <2>3, <2>4
<1>7. ControlInv'
  BY <1>0, <1>1, <1>3, <1>4 DEF ControlInv, Written
<1>8. StopInv'
  BY <1>0, <1>1, <1>2 DEF StopInv, Flat
<1>9. currentBuffer \in Buffer /\ buffers \in Seq(Buffer)
  BY <1>0 DEF LogInv
<1>10. CASE HasRoom /\ currentBuffer' = FixedAppend(currentBuffer, count') /\ UNCHANGED <<nextBuffer, buffers>>
  <2>1. Fresh(currentBuffer)' = Append(z, r) /\ OldTail(currentBuffer, Done)'
    <3>1. Avail(currentBuffer) > 1 /\ OldTail(currentBuffer, done)
      BY <1>0, <1>3, <1>10 DEF HasRoom, LineInv
    <3>2. /\ Fresh(FixedAppend(currentBuffer, r)) = Append(Fresh(currentBuffer), r)
          /\ OldTail(FixedAppend(currentBuffer, r), done)
      BY <1>9, <3>1, FreshAppend
    <3> QED
      BY <1>2, <1>3, <1>4, <1>10, <3>2 DEF Fresh, OldTail
  <2>2. Flat(Rest)' = x /\ Flat(buffers)' = y
    BY <1>2, <1>3, <1>10 DEF Flat, Fresh
  <2>3. LineInv'
    BY <1>0, <1>1, <1>2, <1>3, <1>4, <1>5, <1>6, <1>10, <2>1, <2>2 DEF LineInv, OldTail, OldData, OldSpare, Counted
  <2> QED
    BY <1>0, <1>7, <1>8, <2>3 DEF LostInv
<1>11. CASE /\ buffers' = Append(buffers, currentBuffer)
            /\ \E b \in IF nextBuffer # NoBuffer THEN {nextBuffer} ELSE NewBuffers :
                 currentBuffer' = FixedAppend(b, count')
            /\ nextBuffer' = NoBuffer
  <2>1. PICK b \in IF nextBuffer # NoBuffer THEN {nextBuffer} ELSE NewBuffers :
          currentBuffer' = FixedAppend(b, r)
    BY <1>4, <1>11
  <2>2. b \in Buffer /\ OldSpare(b, done)
    <3>1. BlankData \in Datas
      BY BufferFacts DEF ZeroedBuffer
    <3>2. OldData(BlankData, done)
      BY <1>3 DEF OldData, BlankData, Blank
    <3>3. CASE nextBuffer # NoBuffer
      BY <1>0, <1>3, <2>1, <3>3 DEF LineInv, LogInv
    <3>4. CASE nextBuffer = NoBuffer
      <4>1. PICK d \in freed \union {BlankData} : b = [data |-> d, cur |-> 0]
        BY <2>1, <3>4 DEF NewBuffers
      <4>2. d \in Datas /\ OldData(d, done)
        BY <1>0, <1>3, <3>1, <3>2 DEF LineInv, LogInv
      <4> QED
        BY <4>1, <4>2, BufferFacts DEF OldSpare
    <3> QED
      BY <3>3, <3>4
  <2>3. OldTail(b, done) /\ Fresh(b) = <<>> /\ b.cur = 0
    BY <2>2, SpareIsOld
  <2>4. Avail(b) > 1
    BY <1>3, <2>3 DEF Avail
  <2>5. Fresh(FixedAppend(b, r)) = Append(<<>>, r) /\ OldTail(FixedAppend(b, r), done)
    BY <2>2, <2>3, <2>4, FreshAppend
  <2>6. Fresh(currentBuffer)' = <<r>> /\ OldTail(currentBuffer, Done)'
    BY <1>2, <1>3, <2>1, <2>5 DEF Fresh, OldTail
  <2>7. Flat(Rest)' = x
    BY <1>2, <1>3 DEF Flat, Fresh
  <2>8. Flat(buffers') = y \o z
    BY <1>3, <1>9, <1>11, FlatAppend
  <2>9. Flat(buffers)' = y \o z
    BY <2>8 DEF Flat, Fresh
  <2>10. a \o (x \o ((y \o z) \o <<r>>)) = Counted(r)
    <3>1. PICK yz \in Seq(Nat) : yz = y \o z /\ y \o Append(z, r) = Append(yz, r)
      BY <1>4, RecordsAppend
    <3>2. yz \o <<r>> = Append(yz, r)
      BY <1>4, AppendIsConcat
    <3> QED
      BY <1>6, <3>1, <3>2
  <2>11. \A i \in 1 .. Len(buffers') : OldTail(buffers'[i], done)
    <3> DEFINE X == Buffer
    <3> HIDE DEF X
    <3>1. PICK m \in Nat : m = Len(buffers)
      BY <1>9, LenProperties
    <3>2. buffers \in Seq(X) /\ currentBuffer \in X
      BY <1>9 DEF X
    <3>3. /\ Len(buffers') = m + 1 /\ buffers'[m + 1] = currentBuffer
          /\ \A i \in 1 .. m : buffers'[i] = buffers[i]
      BY <1>11, <3>1, <3>2, AppendProperties
    <3>4. OldTail(currentBuffer, done) /\ \A i \in 1 .. m : OldTail(buffers[i], done)
      BY <1>0, <1>3, <3>1 DEF LineInv
    <3>5. \A i \in 1 .. m + 1 : i = m + 1 \/ i \in 1 .. m
      OBVIOUS
    <3> QED
      BY <3>3, <3>4, <3>5
  <2>12. \A i \in 1 .. Len(buffers)' : OldTail(buffers[i], Done)'
    BY <1>2, <1>3, <2>11 DEF OldTail
  <2>13. OldSpare(nextBuffer, Done)'
    BY <1>11, BufferFacts DEF OldSpare
  <2>14. LineInv'
    BY <1>0, <1>1, <1>2, <1>3, <1>4, <1>5, <2>6, <2>7, <2>9, <2>10, <2>12, <2>13
    DEF LineInv, OldTail, OldData, OldSpare, Counted
  <2> QED
    BY <1>0, <1>7, <1>8, <2>14 DEF LostInv
<1> QED
  BY <1>10, <1>11 DEF AppendRecord

-----------------------------------------------------------------------------
(* The swap takes the whole line of the front end. *)
LEMMA SwapKeepsLine == ASSUME LostInv, Swap PROVE LostInv'
<1>0. LogInv' /\ LogInv /\ ControlInv /\ LineInv /\ StopInv
  BY SwapKeeps DEF LostInv
<1>1. /\ wpc \in {"lock", "wait"} /\ wpc' = "write"
      /\ toWrite' = Append(buffers, currentBuffer) /\ at' = 1 /\ buffers' = <<>>
      /\ currentBuffer' = new1 /\ new1' = NoBuffer
      /\ nextBuffer' = (IF nextBuffer = NoBuffer THEN new2 ELSE nextBuffer)
      /\ new2' = (IF nextBuffer = NoBuffer THEN NoBuffer ELSE new2)
      /\ UNCHANGED <<count, running, user, freed, clock, log, owed>>
  BY DEF Swap, SwapBuffers, SwapRest
<1>2. /\ new1 \in Buffer /\ buffers \in Seq(Buffer) /\ currentBuffer \in Buffer
      /\ toWrite = <<>> /\ NoBuffer \notin Buffer
  BY <1>0, <1>1, BufferFacts DEF LogInv, ControlInv
<1>3. AllWritten' = AllWritten /\ Done' = Done
  BY <1>1 DEF AllWritten, Done, Written
<1>4. PICK done \in Nat, n \in Nat, x \in Seq(Nat), y \in Seq(Nat), z \in Seq(Nat) :
        /\ done = Done /\ n = count /\ x = Flat(Rest) /\ y = Flat(buffers) /\ z = Fresh(currentBuffer)
  BY LostTypes
<1>5. PICK a \in Seq(Nat) : a = Counted(done) /\ a \o (x \o (y \o z)) = Counted(n) /\ Len(a) = done
  BY <1>0, <1>4, CountedFacts DEF LineInv
<1>6. x = <<>>
  <2>1. Rest = <<>>
    BY <1>0, <1>2 DEF Rest, ControlInv
  <2> QED
    BY <1>4, <2>1, FlatEmpty
<1>7. PICK yz \in Seq(Nat) : yz = y \o z /\ x \o yz = yz /\ yz \o <<>> = yz
  <2>1. y \o z \in Seq(Nat)
    BY RecordsAppend
  <2>2. <<>> \o (y \o z) = y \o z /\ (y \o z) \o <<>> = y \o z
    BY <2>1, ConcatEmptySeq
  <2> QED
    BY <1>6, <2>1, <2>2
<1>8. Flat(Rest)' = yz
  <2>1. Flat(toWrite') = yz
    BY <1>1, <1>2, <1>4, <1>7, FlatAppend
  <2>2. Rest' = toWrite'
    <3> DEFINE X == Buffer
    <3> HIDE DEF X
    <3>1. toWrite' \in Seq(X)
      BY <1>0 DEF LogInv, X
    <3>2. SubSeq(toWrite', 1, Len(toWrite')) = toWrite'
      BY <3>1
    <3> QED
      BY <1>1, <3>2 DEF Rest
  <2> QED
    BY <2>1, <2>2 DEF Flat, Fresh
<1>9. Flat(buffers)' = <<>>
  <2>1. Flat(buffers') = <<>>
    BY <1>1, FlatEmpty
  <2> QED
    BY <2>1 DEF Flat, Fresh
<1>10. OldTail(currentBuffer, Done)' /\ Fresh(currentBuffer)' = <<>>
  <2>1. OldTail(new1, done) /\ Fresh(new1) = <<>>
    BY <1>0, <1>2, <1>4, SpareIsOld DEF LineInv
  <2> QED
    BY <1>1, <1>3, <1>4, <2>1 DEF OldTail, Fresh
<1>11. Counted(Done)' \o (Flat(Rest)' \o (Flat(buffers)' \o Fresh(currentBuffer)')) = Counted(count)'
  <2>1. <<>> \o <<>> = <<>>
    OBVIOUS
  <2>2. Counted(Done)' = Counted(done) /\ Counted(count)' = Counted(n)
    BY <1>1, <1>3, <1>4 DEF Counted
  <2>3. Counted(done) \o yz = Counted(n)
    BY <1>5, <1>7
  <2> QED
    BY <1>7, <1>8, <1>9, <1>10, <2>1, <2>2, <2>3
<1>12. \A i \in 1 .. Len(toWrite') : OldTail(toWrite'[i], done)
  <2> DEFINE X == Buffer
  <2> HIDE DEF X
  <2>1. PICK m \in Nat : m = Len(buffers)
    BY <1>2, LenProperties
  <2>2. buffers \in Seq(X) /\ currentBuffer \in X
    BY <1>2 DEF X
  <2>3. /\ Len(toWrite') = m + 1 /\ toWrite'[m + 1] = currentBuffer
        /\ \A i \in 1 .. m : toWrite'[i] = buffers[i]
    BY <1>1, <2>1, <2>2, AppendProperties
  <2>4. OldTail(currentBuffer, done) /\ \A i \in 1 .. m : OldTail(buffers[i], done)
    BY <1>0, <1>4, <2>1 DEF LineInv
  <2>5. \A i \in 1 .. m + 1 : i = m + 1 \/ i \in 1 .. m
    OBVIOUS
  <2> QED
    BY <2>3, <2>4, <2>5
<1>13. \A i \in 1 .. Len(toWrite)' : IF (i < at)' THEN OldData(toWrite[i].data, Done)'
                                                 ELSE OldTail(toWrite[i], Done)'
  <2>1. Len(toWrite)' \in Nat
    <3>1. toWrite' \in Seq(Buffer)
      BY <1>0 DEF LogInv
    <3> QED
      BY <3>1, LenProperties
  <2>2. \A i \in 1 .. Len(toWrite)' : ~(i < 1)
    BY <2>1
  <2> QED
    BY <1>1, <1>3, <1>4, <1>12, <2>2 DEF OldTail
<1>14. OldSpare(nextBuffer, Done)' /\ OldSpare(new1, Done)' /\ OldSpare(new2, Done)'
  BY <1>0, <1>1, <1>2, <1>3 DEF OldSpare, OldData, LineInv
<1>15. LineInv'
  <2>1. \A i \in 1 .. Len(buffers)' : OldTail(buffers[i], Done)'
    BY <1>1
  <2>2. \A d \in freed' : OldData(d, Done)'
    BY <1>0, <1>1, <1>3 DEF LineInv, OldData
  <2>3. FirstOccurrences(AllWritten)' = Counted(Done)'
    BY <1>0, <1>3 DEF LineInv, Counted
  <2> QED
    BY <1>10, <1>11, <1>13, <1>14, <2>1, <2>2, <2>3 DEF LineInv
<1>16. ControlInv'
  BY <1>0, <1>1 DEF ControlInv, Written
<1>17. StopInv'
  <2>1. done + Len(yz) = n
    <3>1. /\ a \o yz = Counted(n) /\ Len(Counted(n)) = n
      BY <1>5, <1>7, CountedFacts
    <3>2. Len(a \o yz) = Len(a) + Len(yz)
      BY ConcatProperties
    <3> QED
      BY <1>5, <3>1, <3>2
  <2>2. Done' + Len(Flat(Rest)') = n
    BY <1>3, <1>4, <1>8, <2>1
  <2>3. owed' \in 0 .. n
    BY <1>0, <1>1, <1>4 DEF ControlInv
  <2> QED
    BY <2>2, <2>3 DEF StopInv
<1> QED
  BY <1>0, <1>15, <1>16, <1>17 DEF LostInv

-----------------------------------------------------------------------------
(* A buffer is written: its fresh records are the next ones. *)
LEMMA WriteBufferInLine == ASSUME LostInv, WriteBuffer PROVE LostInv'
<1>0. LogInv' /\ LogInv /\ ControlInv /\ LineInv /\ StopInv
  BY LogStep DEF LostInv, LogNext, WriterStep
<1>1. /\ wpc = "write" /\ at <= Len(toWrite)
      /\ log' = AppendInLock(log, Contents(toWrite[at]), clock) /\ at' = at + 1
      /\ UNCHANGED <<count, currentBuffer, nextBuffer, buffers, running, user, wpc, new1, new2, toWrite,
                     freed, clock, owed>>
  BY DEF WriteBuffer, front
<1>2. /\ user # "new" /\ log \in LogFile /\ log.files # <<>> /\ at \in Nat \ {0} /\ clock \in Nat
  BY <1>0, <1>1 DEF ControlInv
<1>3. PICK p \in Nat, i \in Nat \ {0} : p = Len(toWrite) /\ i = at /\ i <= p /\ toWrite \in Seq(Buffer)
  <2>1. toWrite \in Seq(Buffer)
    BY <1>0 DEF LogInv
  <2> QED
    BY <1>1, <1>2, <2>1, LenProperties
<1>4. PICK b \in Buffer : b = toWrite[i]
  <2> DEFINE X == Buffer
  <2> HIDE DEF X
  <2>1. toWrite \in Seq(X)
    BY <1>3 DEF X
  <2>2. toWrite[i] \in X
    BY <1>3, <2>1
  <2> QED
    BY <2>2 DEF X
<1>5. PICK d \in Seq(Nat), c \in Nat : /\ d = b.data /\ c = b.cur /\ Len(d) = BufferSize
                                       /\ c <= BufferSize /\ d \in Datas
  <2>1. b.data \in Seq(Nat) /\ Len(b.data) = BufferSize
    BY FreshType
  <2>2. b.data \in Datas /\ b.cur \in 0 .. BufferSize - 1 /\ BufferSize \in Nat
    BY BufferFacts, LoggingAssumption
  <2> QED
    BY <2>1, <2>2
<1>6. /\ log' \in LogFile /\ log'.files # <<>> /\ Written(log') = Written(log) \o d
  BY <1>1, <1>2, <1>3, <1>4, <1>5, AppendInLockFacts DEF Contents
<1>7. PICK w \in Seq(Nat) : w = AllWritten /\ AllWritten' = w \o d
  <2>1. AllWritten = Written(log)
    BY <1>1, <1>2 DEF AllWritten
  <2>2. AllWritten' = Written(log')
    BY <1>1, <1>2 DEF AllWritten, Written
  <2> QED
    BY <1>6, <2>1, <2>2, LostTypes
<1>8. PICK done \in Nat, n \in Nat, y \in Seq(Nat), z \in Seq(Nat) :
        /\ done = Done /\ n = count /\ y = Flat(buffers) /\ z = Fresh(currentBuffer)
  BY LostTypes
<1>9. PICK f \in Seq(Nat) : /\ f = Fresh(b) /\ Len(f) = c
                            /\ \A j \in 1 .. c : f[j] = d[j]
  <2>1. /\ Fresh(b) \in Seq(Nat) /\ Len(Fresh(b)) = b.cur
        /\ \A j \in 1 .. b.cur : Fresh(b)[j] = b.data[j]
    BY FreshType
  <2> QED
    BY <1>5, <2>1
<1>10. PICK rest \in Seq(Buffer) : rest = Rest' /\ Rest = <<b>> \o rest
  <2> DEFINE X == Buffer
  <2> HIDE DEF X
  <2>1. toWrite \in Seq(X) /\ b \in X /\ <<b>> \in Seq(X)
    BY <1>3 DEF X
  <2>2. Rest' = SubSeq(toWrite, i + 1, p) /\ Rest = SubSeq(toWrite, i, p)
    BY <1>1, <1>3 DEF Rest
  <2>3. SubSeq(toWrite, i, p) = <<toWrite[i]>> \o SubSeq(toWrite, i + 1, p) /\ SubSeq(toWrite, i + 1, p) \in Seq(X)
    BY <1>3, <2>1, SubSeqHead, SMTT(30)
  <2> QED
    BY <1>4, <2>2, <2>3 DEF X
<1>11. PICK x \in Seq(Nat) : x = Flat(rest) /\ Flat(Rest) = f \o x
  <2>1. <<b>> \in Seq(Buffer)
    <3>1. \A X : \A e \in X : <<e>> \in Seq(X)
      OBVIOUS
    <3> QED
      BY <3>1
  <2>2. Flat(<<b>> \o rest) = Flat(<<b>>) \o Flat(rest) /\ Flat(<<b>>) = Fresh(b)
    BY <2>1, FlatConcat, FlatOne
  <2> QED
    BY <1>9, <1>10, <2>2, FlatFacts
<1>12. PICK yz \in Seq(Nat) : yz = y \o z
  BY RecordsAppend
<1>13. FollowThree(done, f, x, yz, n)
  BY <1>0, <1>8, <1>11, <1>12 DEF LineInv, FollowThree, Follow
<1>14. /\ \A j \in 1 .. Len(f) : f[j] = done + j
       /\ Follow(done + Len(f), x \o yz, n)
       /\ Len(f \o x) = Len(f) + Len(x)
  BY <1>13, LineSplit
<1>15. /\ \A j \in 1 .. c : f[j] = done + j
       /\ Counted(done + c) \o (x \o yz) = Counted(n)
       /\ Len(f \o x) = c + Len(x)
  BY <1>9, <1>14 DEF Follow
<1>16. OldTail(b, done)
  <2>1. i \in 1 .. Len(toWrite) /\ ~(i < at)
    BY <1>3
  <2> QED
    BY <1>0, <1>4, <1>8, <2>1 DEF LineInv
<1>17. FirstOccurrences(w \o d) = Counted(done + c)
  <2>1. Reads(w, done)
    BY <1>0, <1>7, <1>8 DEF LineInv, Reads
  <2>2. \A j \in 1 .. c : d[j] = done + j
    BY <1>9, <1>15
  <2>3. \A j \in c + 1 .. Len(d) : d[j] <= done
    BY <1>5, <1>16 DEF OldTail
  <2>4. c \in 0 .. Len(d)
    BY <1>5
  <2>5. /\ w \o d \in Seq(Nat) /\ Reads(w \o d, done + c)
    BY <2>1, <2>2, <2>3, <2>4, FirstData
  <2> QED
    BY <2>5 DEF Reads
<1>18. PICK q \in Nat : q = done + c
  OBVIOUS
<1>19. FirstOccurrences(AllWritten)' = Counted(q) /\ Done' = q
  <2>1. FirstOccurrences(AllWritten)' = FirstOccurrences(w \o d)
    BY <1>7
  <2>2. Done' = Len(FirstOccurrences(AllWritten)')
    BY DEF Done
  <2>3. Len(Counted(q)) = q
    BY CountedFacts
  <2> QED
    BY <1>17, <1>18, <2>1, <2>2, <2>3
<1>20. OldData(d, q)
  <2>1. \A j \in 1 .. c : d[j] <= q
    BY <1>9, <1>15, <1>18
  <2>2. \A j \in c + 1 .. BufferSize : d[j] <= done /\ d[j] \in Nat
    <3>1. \A j \in c + 1 .. BufferSize : d[j] <= done
      BY <1>5, <1>16 DEF OldTail
    <3>2. \A j \in c + 1 .. BufferSize : j \in 1 .. BufferSize
      BY LoggingAssumption
    <3>3. \A j \in 1 .. BufferSize : d[j] \in Nat
      BY <1>5, LoggingAssumption DEF Datas
    <3> QED
      BY <3>1, <3>2, <3>3
  <2>3. \A j \in 1 .. BufferSize : j \in 1 .. c \/ j \in c + 1 .. BufferSize
    BY LoggingAssumption
  <2> QED
    BY <1>18, <2>1, <2>2, <2>3 DEF OldData
<1>21. LineInv'
  <2>0. done <= q
    BY <1>18
  <2>1. /\ \A e \in Datas : OldData(e, done) => OldData(e, q)
        /\ \A e \in Buffer : OldTail(e, done) => OldTail(e, q)
        /\ \A e : OldSpare(e, done) => OldSpare(e, q)
    BY <2>0, OldStays
  <2>2. Counted(Done)' = Counted(q) /\ Counted(count)' = Counted(n)
    BY <1>1, <1>8, <1>19 DEF Counted
  <2>3. Flat(Rest)' = x /\ Flat(buffers)' = y /\ Fresh(currentBuffer)' = z
    <3>1. Flat(Rest)' = Flat(rest)
      BY <1>10 DEF Flat, Fresh
    <3> QED
      BY <1>1, <1>8, <1>11, <3>1 DEF Flat, Fresh
  <2>4. (Counted(Done) \o (Flat(Rest) \o (Flat(buffers) \o Fresh(currentBuffer))) = Counted(count))'
    BY <1>12, <1>15, <1>18, <2>2, <2>3
  <2>5. currentBuffer \in Buffer /\ buffers \in Seq(Buffer) /\ freed \subseteq Datas
    BY <1>0 DEF LogInv
  <2>6. OldTail(currentBuffer, Done)'
    BY <1>0, <1>1, <1>8, <1>19, <2>1, <2>5 DEF LineInv, OldTail
  <2>7. \A j \in 1 .. Len(buffers)' : OldTail(buffers[j], Done)'
    <3>1. \A j \in 1 .. Len(buffers) : buffers[j] \in Buffer /\ OldTail(buffers[j], done)
      BY <1>0, <1>8, <2>5 DEF LineInv
    <3>2. \A j \in 1 .. Len(buffers) : OldTail(buffers[j], q)
      BY <2>1, <3>1
    <3> QED
      BY <1>1, <1>19, <3>2 DEF OldTail
  <2>8. \A j \in 1 .. Len(toWrite) : IF j < i + 1 THEN OldData(toWrite[j].data, q) ELSE OldTail(toWrite[j], q)
    <3> SUFFICES ASSUME NEW j \in 1 .. Len(toWrite)
                 PROVE  IF j < i + 1 THEN OldData(toWrite[j].data, q) ELSE OldTail(toWrite[j], q)
      OBVIOUS
    <3>1. PICK e \in Buffer : e = toWrite[j] /\ e.data \in Datas
      BY <1>3, BufferFacts
    <3>2. IF j < i THEN OldData(e.data, done) ELSE OldTail(e, done)
      BY <1>0, <1>3, <1>8, <3>1 DEF LineInv
    <3>3. CASE j < i
      BY <1>3, <2>1, <3>1, <3>2, <3>3
    <3>4. CASE j = i
      BY <1>3, <1>4, <1>5, <1>20, <3>4
    <3>5. CASE j > i
      <4>1. ~(j < i) /\ ~(j < i + 1)
        BY <3>5
      <4> QED
        BY <2>1, <3>1, <3>2, <4>1
    <3> QED
      BY <1>3, <3>3, <3>4, <3>5
  <2>9. \A j \in 1 .. Len(toWrite)' : IF (j < at)' THEN OldData(toWrite[j].data, Done)'
                                                   ELSE OldTail(toWrite[j], Done)'
    BY <1>1, <1>3, <1>19, <2>8 DEF OldTail, OldData
  <2>10. OldSpare(nextBuffer, Done)' /\ OldSpare(new1, Done)' /\ OldSpare(new2, Done)'
    <3>1. OldSpare(nextBuffer, q) /\ OldSpare(new1, q) /\ OldSpare(new2, q)
      BY <1>0, <1>8, <2>1 DEF LineInv
    <3> QED
      BY <1>1, <1>19, <3>1 DEF OldSpare, OldData
  <2>11. \A e \in freed' : OldData(e, Done)'
    <3>1. \A e \in freed : OldData(e, q)
      BY <1>0, <1>8, <2>1, <2>5 DEF LineInv
    <3> QED
      BY <1>1, <1>19, <3>1 DEF OldData
  <2> QED
    BY <1>19, <2>2, <2>4, <2>6, <2>7, <2>9, <2>10, <2>11 DEF LineInv
<1>22. ControlInv'
  BY <1>0, <1>1, <1>2, <1>6 DEF ControlInv
<1>23. StopInv'
  <2>1. Flat(Rest)' = x
    BY <1>10, <1>11 DEF Flat, Fresh
  <2>2. Len(f \o x) = c + Len(x) /\ Len(x) \in Nat
    BY <1>15, LenProperties
  <2>3. user \in {"join", "stopped"} => done + Len(f \o x) >= owed
    BY <1>0, <1>1, <1>8, <1>11 DEF StopInv
  <2>4. owed \in Nat
    BY <1>0, LostTypes DEF ControlInv
  <2> QED
    BY <1>1, <1>18, <1>19, <2>1, <2>2, <2>3, <2>4 DEF StopInv
<1> QED
  BY <1>0, <1>21, <1>22, <1>23 DEF LostInv

-----------------------------------------------------------------------------
(* The buffers come back when all of them are written. *)
LEMMA RecycleKeepsLine == ASSUME LostInv, Recycle PROVE LostInv'
<1> DEFINE m     == Min({2, Len(toWrite)})
           kept  == SubSeq(toWrite, 1, m)
           rest  == Front(kept)
           taken == IF new2 = NoBuffer THEN Front(rest) ELSE rest
<1>0. LogInv' /\ LogInv /\ ControlInv /\ LineInv /\ StopInv
  BY RecycleKeeps DEF LostInv
<1>1. /\ wpc = "write" /\ wpc' = "check" /\ at > Len(toWrite) /\ toWrite' = <<>>
      /\ new1' = Reset(Last(kept))
      /\ new2' = IF new2 = NoBuffer THEN Reset(Last(rest)) ELSE new2
      /\ freed' = freed \union {toWrite[i].data : i \in 3 .. Len(toWrite)}
                        \union {taken[i].data : i \in 1 .. Len(taken)}
      /\ log' = Flush(log)
      /\ UNCHANGED <<count, currentBuffer, nextBuffer, buffers, running, user, at, clock, owed>>
  BY DEF Recycle, front
<1>2. /\ toWrite \in Seq(Buffer) /\ Len(toWrite) \in Nat /\ Len(toWrite) >= 1
      /\ new2 = NoBuffer => Len(toWrite) >= 2
      /\ user # "new" /\ at \in Nat \ {0}
  BY <1>0, <1>1, LenProperties DEF LogInv, ControlInv
<1>3. m \in {1, 2} /\ m <= Len(toWrite) /\ (Len(toWrite) >= 2 => m = 2)
  <2>1. CASE Len(toWrite) = 1
    BY <2>1 DEF Min
  <2>2. CASE Len(toWrite) >= 2
    BY <2>2, <1>2 DEF Min
  <2>3. Len(toWrite) = 1 \/ Len(toWrite) >= 2
    <3>1. \A j \in Nat : j >= 1 => j = 1 \/ j >= 2
      OBVIOUS
    <3> QED BY <3>1, <1>2
  <2> QED BY <2>1, <2>2, <2>3
<1> HIDE DEF m
<1>4. kept \in Seq(Buffer) /\ Len(kept) = m /\ \A i \in 1 .. m : kept[i] = toWrite[i]
  BY <1>2, <1>3
<1> HIDE DEF kept
<1>5. rest \in Seq(Buffer) /\ Len(rest) = m - 1 /\ \A i \in 1 .. m - 1 : rest[i] = kept[i]
  BY <1>3, <1>4 DEF Front
<1> HIDE DEF rest
<1>6. log \in LogFile /\ log.files # <<>>
  BY <1>0, <1>1 DEF ControlInv
<1>7. /\ log' \in LogFile /\ log'.files # <<>> /\ Written(log') = Written(log)
  BY <1>1, <1>6, RollFacts, 0 \in Nat
<1>8. AllWritten' = AllWritten
  <2>1. AllWritten = Written(log)
    BY <1>1, <1>2 DEF AllWritten
  <2>2. AllWritten' = Written(log')
    BY <1>1, <1>2 DEF AllWritten, Written
  <2> QED
    BY <1>7, <2>1, <2>2
<1>9. Done' = Done /\ Done \in Nat
  BY <1>8, LostTypes DEF Done
<1>10. Rest = <<>> /\ Rest' = <<>>
  <2>1. SubSeq(toWrite, at, Len(toWrite)) = <<>>
    BY <1>1, <1>2
  <2>2. SubSeq(<<>>, at, 0) = <<>>
    BY <1>2
  <2> QED
    BY <1>1, <2>1, <2>2 DEF Rest
<1>11. \A i \in 1 .. Len(toWrite) : OldData(toWrite[i].data, Done)
  BY <1>0, <1>1, <1>2 DEF LineInv
<1>12. OldSpare(new1', Done)
  <2>1. Last(kept) = toWrite[m] /\ m \in 1 .. Len(toWrite)
    BY <1>2, <1>3, <1>4 DEF Last
  <2> QED
    BY <1>1, <1>2, <1>11, <2>1 DEF OldSpare, Reset
<1>13. OldSpare(new2', Done)
  <2>1. CASE new2 = NoBuffer
    <3>1. Last(rest) = toWrite[1] /\ 1 \in 1 .. Len(toWrite)
      BY <1>2, <1>3, <1>4, <1>5, <2>1 DEF Last
    <3> QED
      BY <1>1, <1>2, <1>11, <2>1, <3>1 DEF OldSpare, Reset
  <2>2. CASE new2 # NoBuffer
    BY <1>0, <1>1, <2>2 DEF LineInv
  <2> QED
    BY <2>1, <2>2
<1>14. \A d \in freed' : OldData(d, Done)
  <2>1. \A i \in 3 .. Len(toWrite) : OldData(toWrite[i].data, Done)
    BY <1>2, <1>11
  <2>2. \A i \in 1 .. Len(rest) : OldData(rest[i].data, Done)
    BY <1>2, <1>3, <1>4, <1>5, <1>11
  <2>3. \A i \in 1 .. Len(taken) : OldData(taken[i].data, Done)
    <3>1. CASE new2 # NoBuffer
      BY <2>2, <3>1
    <3>2. CASE new2 = NoBuffer
      <4>1. Len(rest) = 1
        BY <1>2, <1>3, <1>5, <3>2
      <4>2. Front(rest) = <<>>
        BY <4>1, SubSeqEmpty DEF Front
      <4> QED
        BY <3>2, <4>2
    <3> QED
      BY <3>1, <3>2
  <2> HIDE DEF taken
  <2> QED
    BY <1>0, <1>1, <2>1, <2>3 DEF LineInv
<1>15. LineInv'
  <2>1. Flat(Rest)' = Flat(Rest) /\ Flat(buffers)' = Flat(buffers) /\ Fresh(currentBuffer)' = Fresh(currentBuffer)
    BY <1>1, <1>10 DEF Flat, Fresh
  <2>2. (Counted(Done) \o (Flat(Rest) \o (Flat(buffers) \o Fresh(currentBuffer))) = Counted(count))'
    BY <1>0, <1>1, <1>9, <2>1 DEF LineInv, Counted
  <2>3. FirstOccurrences(AllWritten)' = Counted(Done)'
    BY <1>0, <1>8, <1>9 DEF LineInv, Counted
  <2>4. OldTail(currentBuffer, Done)' /\ \A i \in 1 .. Len(buffers)' : OldTail(buffers[i], Done)'
    BY <1>0, <1>1, <1>9 DEF LineInv, OldTail
  <2>5. OldSpare(nextBuffer, Done)' /\ OldSpare(new1, Done)' /\ OldSpare(new2, Done)'
    BY <1>0, <1>1, <1>9, <1>12, <1>13 DEF LineInv, OldSpare, OldData
  <2>6. \A d \in freed' : OldData(d, Done)'
    BY <1>9, <1>14 DEF OldData
  <2>7. 1 .. Len(toWrite)' = {}
    BY <1>1
  <2> QED
    BY <2>2, <2>3, <2>4, <2>5, <2>6, <2>7 DEF LineInv
<1>16. ControlInv'
  BY <1>0, <1>1, <1>7 DEF ControlInv
<1>17. StopInv'
  <2>1. Flat(Rest)' = Flat(Rest)
    BY <1>10 DEF Flat, Fresh
  <2> QED
    BY <1>0, <1>1, <1>9, <2>1 DEF StopInv
<1> QED
  BY <1>0, <1>15, <1>16, <1>17 DEF LostInv

(* The writer begins: a file is opened. *)
LEMMA BeginKeepsLine == ASSUME LostInv, Begin PROVE LostInv'
<1>0. LogInv' /\ LogInv /\ ControlInv /\ LineInv /\ StopInv
  BY LogStep DEF LostInv, LogNext, WriterStep
<1>1. /\ wpc = "begin" /\ wpc' = "check" /\ log' = NewLogFile(clock)
      /\ new1' = ZeroedBuffer /\ new2' = ZeroedBuffer
      /\ UNCHANGED <<count, currentBuffer, nextBuffer, buffers, running, user, toWrite, at, freed, clock, owed>>
  BY DEF Begin, front
<1>2. log' \in LogFile /\ log'.files # <<>> /\ Written(log') = <<>>
  BY <1>0, <1>1, NewLogFacts DEF ControlInv
<1>3. AllWritten = <<>> /\ AllWritten' = <<>>
  <2>1. AllWritten = <<>>
    BY <1>1 DEF AllWritten
  <2>2. user # "new" /\ AllWritten' = Written(log')
    BY <1>0, <1>1 DEF ControlInv, AllWritten, Written
  <2> QED
    BY <1>2, <2>1, <2>2
<1>4. Done' = Done /\ Done \in Nat /\ FirstOccurrences(AllWritten)' = FirstOccurrences(AllWritten)
  BY <1>3, LostTypes DEF Done
<1>5. OldSpare(ZeroedBuffer, Done)
  BY <1>4 DEF OldSpare, ZeroedBuffer, OldData, BlankData, Blank
<1>6. Flat(Rest)' = Flat(Rest) /\ Flat(buffers)' = Flat(buffers) /\ Fresh(currentBuffer)' = Fresh(currentBuffer)
  BY <1>1 DEF Flat, Fresh, Rest
<1>7. LineInv'
  <2>1. (Counted(Done) \o (Flat(Rest) \o (Flat(buffers) \o Fresh(currentBuffer))) = Counted(count))'
    BY <1>0, <1>1, <1>4, <1>6 DEF LineInv, Counted
  <2>2. FirstOccurrences(AllWritten)' = Counted(Done)'
    BY <1>0, <1>4 DEF LineInv, Counted
  <2>3. OldSpare(nextBuffer, Done)' /\ OldSpare(new1, Done)' /\ OldSpare(new2, Done)'
    BY <1>0, <1>1, <1>4, <1>5 DEF LineInv, OldSpare, OldData
  <2>4. \A d \in freed' : OldData(d, Done)'
    BY <1>0, <1>1, <1>4 DEF LineInv, OldData
  <2>5. OldTail(currentBuffer, Done)' /\ \A i \in 1 .. Len(buffers)' : OldTail(buffers[i], Done)'
    BY <1>0, <1>1, <1>4 DEF LineInv, OldTail
  <2>6. toWrite' = <<>>
    BY <1>0, <1>1 DEF ControlInv
  <2>7. 1 .. Len(toWrite)' = {}
    BY <2>6
  <2> QED
    BY <2>1, <2>2, <2>3, <2>4, <2>5, <2>7 DEF LineInv
<1>8. ControlInv'
  BY <1>0, <1>1, <1>2 DEF ControlInv
<1>9. StopInv'
  BY <1>0, <1>1, <1>4, <1>6 DEF StopInv
<1> QED
  BY <1>0, <1>7, <1>8, <1>9 DEF LostInv

(* A step that leaves the buffers and what is written alone. *)
LEMMA LineUntouched ==
  ASSUME LostInv, LogInv', ControlInv', StopInv',
         UNCHANGED <<count, front, new1, new2, toWrite, at, freed>>, AllWritten' = AllWritten
  PROVE  LostInv'
<1>1. LineInv
  BY DEF LostInv
<1>2. LineInv'
  BY <1>1 DEF LineInv, front, Done, Rest, Flat, Fresh, OldTail, OldData, OldSpare, Counted
<1> QED
  BY <1>2 DEF LostInv

(* The writer's look at running_ moves no record. *)
LEMMA CheckKeepsLine == ASSUME LostInv, Check PROVE LostInv'
<1>0. LogInv' /\ LogInv /\ ControlInv /\ LineInv /\ StopInv
  BY LogStep DEF LostInv, LogNext, WriterStep
<1>1. /\ wpc = "check"
      /\ \/ running /\ wpc' = "lock" /\ UNCHANGED log
         \/ ~running /\ wpc' = "exited" /\ log' = Flush(log)
      /\ UNCHANGED <<count, front, running, user, new1, new2, toWrite, at, freed, clock, owed>>
  BY DEF Check, writer
<1>2. log \in LogFile /\ log.files # <<>> /\ user # "new"
  BY <1>0, <1>1 DEF ControlInv
<1>3. /\ Flush(log) \in LogFile /\ Flush(log).files # <<>> /\ Written(Flush(log)) = Written(log)
      /\ Flush(log).flushed = Len(Written(log))
  BY <1>2, RollFacts, 0 \in Nat
<1>4. /\ log' \in LogFile /\ log'.files # <<>> /\ Written(log') = Written(log)
      /\ wpc' = "exited" => log'.flushed = Len(Written(log'))
  BY <1>1, <1>2, <1>3
<1>5. AllWritten' = AllWritten
  <2>1. AllWritten = Written(log)
    BY <1>1, <1>2 DEF AllWritten
  <2>2. AllWritten' = Written(log')
    BY <1>1, <1>2 DEF AllWritten, Written
  <2> QED
    BY <1>4, <2>1, <2>2
<1>6. ControlInv'
  BY <1>0, <1>1, <1>4 DEF ControlInv
<1>7. StopInv'
  BY <1>0, <1>1, <1>5 DEF StopInv, Done, Rest, Flat, Fresh
<1> QED
  BY <1>0, <1>1, <1>5, <1>6, <1>7, LineUntouched DEF LostInv

(* The owner of the log: start(), stop() and the return of join(). *)
LEMMA OwnerKeepsLine ==
  ASSUME LostInv, Start \/ Stop \/ Join \/ Tick \/ Wait \/ UNCHANGED logVars
  PROVE  LostInv'
<1>0. LogInv' /\ LogInv /\ ControlInv /\ LineInv /\ StopInv
  BY LogStep DEF LostInv, LogNext, WriterStep
<1>1. UNCHANGED <<count, front, new1, new2, toWrite, at, freed, log>>
  BY DEF Start, Stop, Join, Tick, Wait, logVars, writer
<1>2. AllWritten' = AllWritten
  <2>1. Written(log)' = Written(log)
    BY <1>1 DEF Written
  <2> QED
    BY <1>0, <2>1 DEF AllWritten, ControlInv, Start, Stop, Join, Tick, Wait, logVars
<1>3. Done' = Done /\ Done \in Nat /\ Flat(Rest)' = Flat(Rest) /\ Len(Flat(Rest)) \in Nat
  <2>1. Done \in Nat /\ Flat(Rest) \in Seq(Nat)
    BY LostTypes
  <2> QED
    BY <1>1, <1>2, <2>1, LenProperties DEF Done, Rest, Flat, Fresh
<1>4. count \in Nat
  BY LostTypes
<1>5. ControlInv' /\ StopInv'
  <2>1. CASE Start
    BY <1>0, <1>1, <2>1 DEF Start, ControlInv, StopInv, writer
  <2>2. CASE Stop
    <3>1. /\ user = "started" /\ running' = FALSE /\ user' = "join"
          /\ owed' = (IF wpc \in {"lock", "wait"} THEN count ELSE 0)
          /\ UNCHANGED <<wpc, clock, log>>
      BY <2>2 DEF Stop
    <3>2. owed' \in 0 .. count'
      BY <1>1, <1>4, <3>1
    <3>3. ControlInv'
      BY <1>0, <1>1, <3>1, <3>2 DEF ControlInv, Written
    <3>4. wpc' \notin {"lock", "wait"} => owed' = 0
      BY <3>1
    <3>5. StopInv'
      BY <1>3, <3>4 DEF StopInv
    <3> QED
      BY <3>3, <3>5
  <2>3. CASE Join
    BY <1>0, <1>1, <1>3, <2>3 DEF Join, ControlInv, StopInv, writer, Written
  <2>4. CASE Tick
    BY <1>0, <1>1, <1>3, <2>4 DEF Tick, ControlInv, StopInv, writer, Written
  <2>5. CASE Wait
    BY <1>0, <1>1, <1>3, <2>5 DEF Wait, ControlInv, StopInv, writer, Written
  <2>6. CASE UNCHANGED logVars
    BY <1>0, <1>1, <1>3, <2>6 DEF logVars, ControlInv, StopInv, writer, Written
  <2> QED
    BY <2>1, <2>2, <2>3, <2>4, <2>5, <2>6
<1> QED
  BY <1>0, <1>1, <1>2, <1>5, LineUntouched DEF LostInv

(* Every step of the log keeps the records in line. *)
LEMMA LostStep == ASSUME LostInv, [LogNext]_logVars PROVE LostInv'
BY AppendRecordInLine, SwapKeepsLine, WriteBufferInLine, RecycleKeepsLine, BeginKeepsLine,
   CheckKeepsLine, OwnerKeepsLine DEF LogNext, WriterStep

(* The log begins with no record. *)
LEMMA LostInit == LogInit => LostInv
<1> SUFFICES ASSUME LogInit PROVE LostInv
  OBVIOUS
<1>1. LogInv
  BY BufferFacts, LoggingAssumption DEF LogInit, LogInv
<1>2. ControlInv
  <2>1. owed \in 0 .. count /\ clock \in Nat \ {0} /\ at \in Nat \ {0}
    BY DEF LogInit
  <2>2. running = (user = "started") /\ (user = "new") = (wpc = "none")
    BY DEF LogInit
  <2> QED
    BY <2>1, <2>2 DEF LogInit, ControlInv
<1>3. AllWritten = <<>> /\ Rest = <<>> /\ Done = 0
  <2>1. AllWritten = <<>> /\ Rest = <<>>
    BY DEF LogInit, AllWritten, Rest
  <2> QED
    BY <2>1, FirstEmpty DEF Done
<1>4. OldSpare(ZeroedBuffer, 0) /\ ZeroedBuffer \in Buffer
  BY BufferFacts DEF OldSpare, ZeroedBuffer, OldData, BlankData, Blank
<1>5. OldTail(ZeroedBuffer, 0) /\ Fresh(ZeroedBuffer) = <<>>
  BY <1>4, SpareIsOld
<1>6. Counted(0) = <<>>
  BY DEF Counted
<1>7. Flat(Rest) = <<>> /\ Flat(buffers) = <<>> /\ Fresh(currentBuffer) = <<>>
  BY <1>3, <1>5, FlatEmpty DEF LogInit
<1>8. LineInv
  <2>1. <<>> \o (<<>> \o (<<>> \o <<>>)) = <<>>
    OBVIOUS
  <2>2. OldSpare(NoBuffer, 0)
    BY BufferFacts DEF OldSpare
  <2>3. FirstOccurrences(AllWritten) = Counted(Done)
    BY <1>3, <1>6, FirstEmpty
  <2>4. Counted(Done) \o (Flat(Rest) \o (Flat(buffers) \o Fresh(currentBuffer))) = Counted(count)
    BY <1>3, <1>6, <1>7, <2>1 DEF LogInit
  <2> QED
    BY <1>3, <1>4, <1>5, <2>2, <2>3, <2>4 DEF LineInv, LogInit
<1>9. StopInv
  BY DEF StopInv, LogInit
<1> QED
  BY <1>1, <1>2, <1>8, <1>9 DEF LostInv

(* No record is lost and none overtakes another. *)
THEOREM LogNothingLost == LogSafe => []NothingLost
<1>1. LostInv => NothingLost
  <2> SUFFICES ASSUME LostInv PROVE NothingLost
    OBVIOUS
  <2>1. Waiting = Flat(Rest) \o (Flat(buffers) \o Fresh(currentBuffer))
    BY WaitingIs DEF LostInv, ControlInv
  <2> QED
    BY <2>1 DEF LostInv, LineInv, NothingLost, Counted
<1> QED
  BY <1>1, LostInit, LostStep, PTL DEF LogSafe

(* What stop() owes is on disk when it returns. *)
THEOREM LogKeptAtStop == LogSafe => []KeptAtStop
<1>1. LostInv => KeptAtStop
  <2> SUFFICES ASSUME LostInv, user = "stopped", NEW r \in 1 .. owed PROVE Contains(Flushed, r)
    BY DEF KeptAtStop
  <2>1. /\ wpc = "exited" /\ toWrite = <<>> /\ at \in Nat \ {0} /\ owed \in 0 .. count
        /\ log.flushed = Len(Written(log)) /\ AllWritten = Written(log)
    BY DEF LostInv, ControlInv, AllWritten
  <2>2. Flat(Rest) = <<>>
    <3>1. Rest = <<>>
      BY <2>1 DEF Rest
    <3> QED
      BY <3>1, FlatEmpty
  <2>3. PICK w \in Seq(Nat), done \in Nat : w = AllWritten /\ done = Done /\ count \in Nat
    BY LostTypes
  <2>4. done + Len(<<>>) >= owed
    BY <2>1, <2>2, <2>3 DEF LostInv, StopInv
  <2>5. r \in 1 .. done
    BY <2>1, <2>3, <2>4
  <2>6. Contains(w, r)
    <3>1. FirstOccurrences(w) = Counted(done) /\ Len(Counted(done)) = done /\ Counted(done)[r] = r
      BY <2>3, <2>5, CountedFacts DEF LostInv, LineInv
    <3>2. \A i \in 1 .. Len(FirstOccurrences(w)) : Contains(w, FirstOccurrences(w)[i])
      BY FirstType
    <3> QED
      BY <2>5, <3>1, <3>2
  <2>7. Flushed = w
    <3>1. SubSeq(w, 1, Len(w)) = w
      OBVIOUS
    <3>2. CASE w = <<>>
      BY <2>3, <3>2 DEF Flushed
    <3>3. CASE w # <<>>
      BY <2>1, <2>3, <3>1, <3>3 DEF Flushed
    <3> QED
      BY <3>2, <3>3
  <2> QED
    BY <2>6, <2>7
<1> QED
  BY <1>1, LostInit, LostStep, PTL DEF LogSafe

-----------------------------------------------------------------------------
(* The records of the front end: formatInteger(), LogStream and Logger *)

Digit == 0 .. 9

Magnitude(n) == IF n < 0 THEN -n ELSE n

Span(upto) == {n \in Int : Magnitude(n) <= upto}

(* One turn of formatInteger(): the last digit is cut off. *)
LEMMA CutOff ==
  ASSUME NEW n \in Int
  PROVE  /\ Magnitude(n) \in Nat /\ Quotient(n) \in Int /\ Magnitude(Quotient(n)) \in Nat
         /\ Zero[Remainder(n)] \in Digit
         /\ Magnitude(n) = 10 * Magnitude(Quotient(n)) + Zero[Remainder(n)]
         /\ Quotient(n) # 0 => Magnitude(Quotient(n)) + 1 <= Magnitude(n)
<1>1. PICK m \in Nat : m = Magnitude(n)
  BY DEF Magnitude
<1>2. PICK q \in Nat, r \in Digit : q = m \div 10 /\ r = m % 10 /\ m = 10 * q + r
  BY DEF Digit
<1>e. r \in Nat /\ (q # 0 => q + 1 <= m) /\ (-q # 0 => q # 0) /\ -q \in Int
  BY <1>2 DEF Digit
<1>3. CASE n < 0
  <2>1. m = -n
    BY <1>1, <1>3 DEF Magnitude
  <2>2. Quotient(n) = -q /\ Remainder(n) = -r
    BY <1>2, <1>3, <2>1 DEF Quotient, Remainder
  <2>3. Magnitude(-q) = q
    BY DEF Magnitude
  <2>4. -r \in -9 .. 9 /\ (-r < 0 => -(-r) = r) /\ (~(-r < 0) => -r = r)
    BY DEF Digit
  <2>5. Zero[-r] = r
    BY <2>4 DEF Zero
  <2>6. Magnitude(Quotient(n)) = q /\ Zero[Remainder(n)] = r
    BY <2>2, <2>3, <2>5
  <2> QED
    <3>1. Quotient(n) \in Int /\ (Quotient(n) # 0 => q # 0)
      BY <1>e, <2>2
    <3>2. r \in Digit /\ m = 10 * q + r
      BY <1>2
    <3> QED
      BY <1>e, <1>1, <2>6, <3>1, <3>2
<1>4. CASE ~(n < 0)
  <2>1. m = n
    BY <1>1, <1>4 DEF Magnitude
  <2>2. Quotient(n) = q /\ Remainder(n) = r
    BY <1>2, <1>4, <2>1 DEF Quotient, Remainder
  <2>3. Magnitude(q) = q
    BY DEF Magnitude
  <2>4. r \in -9 .. 9 /\ ~(r < 0)
    BY DEF Digit
  <2>5. Zero[r] = r
    BY <2>4 DEF Zero
  <2>6. Magnitude(Quotient(n)) = q /\ Zero[Remainder(n)] = r
    BY <2>2, <2>3, <2>5
  <2> QED
    <3>1. Quotient(n) \in Int /\ (Quotient(n) # 0 => q # 0)
      BY <1>e, <2>2
    <3>2. r \in Digit /\ m = 10 * q + r
      BY <1>2
    <3> QED
      BY <1>e, <1>1, <2>6, <3>1, <3>2
<1> QED
  BY <1>3, <1>4

(* The digits of n, when f knows those of the numbers before it. *)
DigitsBy(f, n) ==
  <<Zero[Remainder(n)]>> \o IF Quotient(n) = 0 THEN <<>> ELSE f[Quotient(n)]

(* One turn gives digits when the earlier ones did. *)
LEMMA DigitsByType ==
  ASSUME NEW n \in Int, NEW f, Quotient(n) # 0 => f[Quotient(n)] \in Seq(Digit)
  PROVE  DigitsBy(f, n) \in Seq(Digit)
<1>1. PICK d \in Digit : d = Zero[Remainder(n)]
  BY CutOff
<1>2. PICK rest : rest = IF Quotient(n) = 0 THEN <<>> ELSE f[Quotient(n)]
  OBVIOUS
<1>3. rest \in Seq(Digit)
  BY <1>2
<1>4. <<d>> \in Seq(Digit)
  OBVIOUS
<1>5. <<d>> \o rest \in Seq(Digit)
  BY <1>3, <1>4
<1> QED
  BY <1>1, <1>2, <1>5 DEF DigitsBy

(* f is what the recursion defines, as far as upto. *)
Partial(f, upto) == /\ f \in [Span(upto) -> Seq(Digit)]
                 /\ \A n \in Span(upto) : f[n] = DigitsBy(f, n)

(* As far as any bound there is a function that satisfies the recursion. *)
LEMMA PartialExists == \A upto \in Nat : \E f : Partial(f, upto)
<1> DEFINE T == {upto \in Nat : \E f : Partial(f, upto)}
<1>1. 0 \in T
  <2> DEFINE f == [n \in Span(0) |-> DigitsBy(<<>>, n)]
  <2>1. \A n \in Span(0) : n \in Int /\ Quotient(n) = 0
    BY CutOff DEF Span
  <2>2. \A n \in Span(0) : DigitsBy(<<>>, n) \in Seq(Digit)
    BY <2>1, DigitsByType
  <2>3. f \in [Span(0) -> Seq(Digit)]
    BY <2>2
  <2>4. \A n \in Span(0) : f[n] = DigitsBy(<<>>, n)
    OBVIOUS
  <2> HIDE DEF f
  <2>5. \A n \in Span(0) : DigitsBy(f, n) = DigitsBy(<<>>, n)
    BY <2>1 DEF DigitsBy
  <2>6. Partial(f, 0)
    BY <2>3, <2>4, <2>5 DEF Partial
  <2> QED
    BY <2>6
<1>2. ASSUME NEW upto \in Nat, upto \in T PROVE upto + 1 \in T
  <2>1. PICK f : Partial(f, upto)
    BY <1>2
  <2>2. f \in [Span(upto) -> Seq(Digit)] /\ \A n \in Span(upto) : f[n] = DigitsBy(f, n)
    BY <2>1 DEF Partial
  <2> DEFINE g == [n \in Span(upto + 1) |-> DigitsBy(f, n)]
  <2>3. \A n \in Span(upto + 1) : n \in Int /\ (Quotient(n) # 0 => Quotient(n) \in Span(upto))
    BY CutOff DEF Span
  <2>4. \A n \in Span(upto + 1) : DigitsBy(f, n) \in Seq(Digit)
    BY <2>2, <2>3, DigitsByType
  <2>5. g \in [Span(upto + 1) -> Seq(Digit)]
    BY <2>4
  <2>6. \A n \in Span(upto + 1) : g[n] = DigitsBy(f, n)
    OBVIOUS
  <2> HIDE DEF g
  <2>7. \A n \in Span(upto) : n \in Span(upto + 1)
    BY CutOff DEF Span
  <2>8. \A n \in Span(upto) : g[n] = f[n]
    BY <2>2, <2>6, <2>7
  <2>9. \A n \in Span(upto + 1) : DigitsBy(g, n) = DigitsBy(f, n)
    BY <2>3, <2>8 DEF DigitsBy
  <2>10. Partial(g, upto + 1)
    BY <2>5, <2>6, <2>9 DEF Partial
  <2> QED
    BY <2>10
<1>3. Nat \subseteq T
  <2> HIDE DEF T
  <2> QED
    BY <1>1, <1>2, NatSetInduction
<1> QED
  BY <1>3

(* Two such functions agree where both are defined. *)
LEMMA PartialAgree ==
  ASSUME NEW upto \in Nat, NEW l \in Nat, NEW f, NEW g, Partial(f, upto), Partial(g, l)
  PROVE  \A n \in Span(upto) : n \in Span(l) => f[n] = g[n]
<1> DEFINE T == {m \in Nat : \A n \in Span(upto) : n \in Span(l) /\ Magnitude(n) <= m => f[n] = g[n]}
<1>0. /\ \A n \in Span(upto) : f[n] = DigitsBy(f, n)
      /\ \A n \in Span(l) : g[n] = DigitsBy(g, n)
  BY DEF Partial
<1>e. \A n \in Int : (Quotient(n) # 0 => f[Quotient(n)] = g[Quotient(n)]) =>
                       DigitsBy(f, n) = DigitsBy(g, n)
  BY DEF DigitsBy
<1>1. 0 \in T
  <2>1. \A n \in Span(upto) : Magnitude(n) <= 0 => n \in Int /\ Quotient(n) = 0
    BY CutOff DEF Span
  <2> QED
    BY <1>0, <1>e, <2>1
<1>2. ASSUME NEW m \in Nat, m \in T PROVE m + 1 \in T
  <2> SUFFICES ASSUME NEW n \in Span(upto), n \in Span(l), Magnitude(n) <= m + 1
               PROVE  f[n] = g[n]
    OBVIOUS
  <2>1. /\ n \in Int
        /\ Quotient(n) # 0 => /\ Quotient(n) \in Span(upto) /\ Quotient(n) \in Span(l)
                              /\ Magnitude(Quotient(n)) <= m
    BY CutOff DEF Span
  <2>2. Quotient(n) # 0 => f[Quotient(n)] = g[Quotient(n)]
    BY <1>2, <2>1
  <2> QED
    BY <1>0, <1>e, <2>1, <2>2
<1>3. Nat \subseteq T
  <2> HIDE DEF T
  <2> QED
    BY <1>1, <1>2, NatSetInduction
<1>4. upto \in T /\ \A n \in Span(upto) : Magnitude(n) <= upto
  BY <1>3 DEF Span
<1> QED
  BY <1>4

(* The recursion defines a function on all numbers. *)
LEMMA DigitsStep == \A n \in Int : Digits[n] = DigitsBy(Digits, n)
<1> DEFINE Choice(n) == CHOOSE f : Partial(f, Magnitude(n))
           F == [n \in Int |-> Choice(n)[n]]
<1>1. \A n \in Int : Partial(Choice(n), Magnitude(n))
  <2> SUFFICES ASSUME NEW n \in Int PROVE Partial(Choice(n), Magnitude(n))
    OBVIOUS
  <2>1. PICK m \in Nat : m = Magnitude(n)
    BY CutOff
  <2>2. \E f : Partial(f, m)
    BY PartialExists
  <2> QED
    BY <2>1, <2>2
<1> HIDE DEF Choice
<1>2. \A n \in Int : F[n] = Choice(n)[n]
  OBVIOUS
<1>3. F = [n \in Int |-> F[n]]
  OBVIOUS
<1> HIDE DEF F
<1>4. ASSUME NEW n \in Int PROVE F[n] = DigitsBy(F, n)
  <2>1. PICK m \in Nat : m = Magnitude(n)
    BY CutOff
  <2>2. n \in Span(m)
    BY <2>1 DEF Span
  <2>3. PICK f : f = Choice(n)
    OBVIOUS
  <2>4. Partial(f, m)
    BY <1>1, <2>1, <2>3
  <2>5. f[n] = DigitsBy(f, n) /\ F[n] = f[n]
    BY <1>2, <2>2, <2>3, <2>4 DEF Partial
  <2>6. ASSUME Quotient(n) # 0 PROVE f[Quotient(n)] = F[Quotient(n)]
    <3>1. PICK q \in Int : q = Quotient(n)
      BY CutOff
    <3>2. PICK l \in Nat : l = Magnitude(q)
      BY CutOff
    <3>3. PICK g : g = Choice(q)
      OBVIOUS
    <3>4. Partial(g, l)
      BY <1>1, <3>2, <3>3
    <3>5. l + 1 <= m
      BY <2>1, <2>6, <3>1, <3>2, CutOff
    <3>6. q \in Span(m) /\ q \in Span(l)
      BY <3>2, <3>5 DEF Span
    <3>7. f[q] = g[q]
      BY <2>4, <3>4, <3>6, PartialAgree
    <3> QED
      BY <1>2, <3>1, <3>3, <3>7
  <2>7. DigitsBy(f, n) = DigitsBy(F, n)
    BY <2>6 DEF DigitsBy
  <2> QED
    BY <2>5, <2>7
<1> DEFINE Eq(d) == d = [n \in Int |-> <<Zero[Remainder(n)]>> \o
                                         IF Quotient(n) = 0 THEN <<>> ELSE d[Quotient(n)]]
<1>5. Eq(F)
  BY <1>3, <1>4 DEF DigitsBy
<1>6. Digits = CHOOSE d : Eq(d)
  BY DEF Digits
<1>7. Eq(Digits)
  BY <1>5, <1>6
<1> QED
  BY <1>7 DEF DigitsBy

(* The text of a number is digits. *)
LEMMA DigitsType == \A n \in Int : Digits[n] \in Seq(Digit)
<1> DEFINE T == {upto \in Nat : \A n \in Span(upto) : Digits[n] \in Seq(Digit)}
<1>1. 0 \in T
  <2>1. \A n \in Span(0) : n \in Int /\ Quotient(n) = 0
    BY CutOff DEF Span
  <2> QED
    BY <2>1, DigitsByType, DigitsStep
<1>2. ASSUME NEW upto \in Nat, upto \in T PROVE upto + 1 \in T
  <2>1. \A n \in Span(upto + 1) : n \in Int /\ (Quotient(n) # 0 => Quotient(n) \in Span(upto))
    BY CutOff DEF Span
  <2> QED
    BY <1>2, <2>1, DigitsByType, DigitsStep
<1>3. Nat \subseteq T
  <2> HIDE DEF T
  <2> QED
    BY <1>1, <1>2, NatSetInduction
<1>4. \A n \in Int : Magnitude(n) \in Nat /\ n \in Span(Magnitude(n))
  BY CutOff DEF Span
<1> QED
  BY <1>3, <1>4

(* The number that digits stand for. *)
Value(digits) == FoldLeft(NextDigit, 0, digits)

(* It is read digit by digit. *)
LEMMA ValueTrace ==
  ASSUME NEW s \in Seq(Digit)
  PROVE  \E g : /\ g[0] = 0 /\ Value(s) = g[Len(s)]
                /\ \A i \in 1 .. Len(s) : g[i] = NextDigit(g[i - 1], s[i])
                /\ \A i \in 0 .. Len(s) : g[i] \in Nat
<1>1. PICK n \in Nat : /\ n = Len(s) /\ DOMAIN s = 1 .. n
                       /\ \A i \in 1 .. n : s[i] \in Digit
  OBVIOUS
<1>t. \A x \in Nat, i \in 1 .. n : NextDigit(x, s[i]) \in Nat
  BY <1>1 DEF NextDigit, Digit
<1> DEFINE F == [p \in Nat \X (1 .. n) |-> NextDigit(p[1], s[p[2]])]
           Eq(it) == it = [t \in SUBSET (1 .. n) |->
                             IF t = {} THEN 0 ELSE NextDigit(it[t \ {Max(t)}], s[Max(t)])]
<1>2. PICK it \in [SUBSET (1 .. n) -> Nat] : Eq(it)
  <2>1. \A x \in Nat, i \in 1 .. n : F[<<x, i>>] = NextDigit(x, s[i])
    OBVIOUS
  <2> HIDE DEF F
  <2>2. 0 \in Nat
    OBVIOUS
  <2>3. \A x \in Nat, i \in 1 .. n : F[<<x, i>>] \in Nat
    BY <1>t, <2>1
  <2>4. PICK it \in [SUBSET (1 .. n) -> Nat] : FoldEq(it, F, 0, n)
    BY <2>2, <2>3, FoldExists
  <2>5. ASSUME NEW t \in SUBSET (1 .. n)
        PROVE  it[t] = IF t = {} THEN 0 ELSE NextDigit(it[t \ {Max(t)}], s[Max(t)])
    <3>1. CASE t = {}
      BY <2>4, <3>1 DEF FoldEq
    <3>2. CASE t # {}
      <4>1. PICK m \in 1 .. n : m = Max(t)
        BY <3>2, MaxInRange
      <4>2. t \ {m} \in SUBSET (1 .. n)
        OBVIOUS
      <4>3. it[t \ {m}] \in Nat
        BY <4>2
      <4>4. it[t] = F[<<it[t \ {m}], m>>]
        BY <2>4, <3>2, <4>1 DEF FoldEq
      <4>5. it[t] = NextDigit(it[t \ {m}], s[m])
        BY <2>1, <4>3, <4>4
      <4> QED
        BY <3>2, <4>1, <4>5
    <3> QED
      BY <3>1, <3>2
  <2>6. it = [t \in SUBSET (1 .. n) |-> it[t]]
    OBVIOUS
  <2> QED
    BY <2>5, <2>6
<1>3. PICK iter : iter = (CHOOSE f : Eq(f))
  OBVIOUS
<1>4. Eq(iter)
  BY <1>2, <1>3
<1>5. Value(s) = iter[1 .. n]
  <2>1. Value(s) = FoldLeft(NextDigit, 0, s)
    BY DEF Value
  <2> QED
    BY <1>1, <1>3, <2>1 DEF FoldLeft, MapThenFoldSet
<1> DEFINE g == [done \in 0 .. n |-> iter[1 .. done]]
<1>6. g[0] = 0
  <2>1. 1 .. 0 = {} /\ {} \in SUBSET (1 .. n)
    OBVIOUS
  <2>2. iter[{}] = 0
    BY <1>4, <2>1
  <2> QED
    BY <2>1, <2>2
<1>7. ASSUME NEW done \in 1 .. n PROVE g[done] = NextDigit(g[done - 1], s[done])
  <2> DEFINE t == 1 .. done
  <2>1. t \in SUBSET (1 .. n) /\ t # {} /\ Max(t) = done /\ t \ {done} = 1 .. done - 1
    BY PrefixSets
  <2> HIDE DEF t
  <2>2. iter[t] = IF t = {} THEN 0 ELSE NextDigit(iter[t \ {Max(t)}], s[Max(t)])
    BY <1>4, <2>1
  <2>3. iter[1 .. done] = NextDigit(iter[1 .. done - 1], s[done])
    BY <2>1, <2>2 DEF t
  <2>4. g[done] = iter[1 .. done] /\ g[done - 1] = iter[1 .. done - 1]
    <3>1. done \in 0 .. n /\ done - 1 \in 0 .. n
      OBVIOUS
    <3> QED
      BY <3>1
  <2> HIDE DEF g
  <2> QED
    BY <2>3, <2>4
<1>8. Value(s) = g[n]
  BY <1>5
<1> HIDE DEF g, Eq
<1>9. \A upto \in 0 .. n : g[upto] \in Nat
  <2> DEFINE R == {upto \in 0 .. n : g[upto] \in Nat}
  <2>1. 0 \in R
    BY <1>6
  <2>2. ASSUME NEW upto \in 1 .. n, upto - 1 \in R PROVE upto \in R
    <3>1. PICK x \in Nat : x = g[upto - 1]
      BY <2>2
    <3>2. g[upto] = NextDigit(x, s[upto])
      BY <1>7, <3>1
    <3>3. NextDigit(x, s[upto]) \in Nat
      BY <1>t
    <3>4. upto \in 0 .. n
      OBVIOUS
    <3> QED
      BY <3>2, <3>3, <3>4
  <2>3. ASSUME NEW upto \in 0 .. n PROVE upto \in R
    <3>1. upto \in Nat /\ \A i \in 1 .. upto : i \in 1 .. n
      OBVIOUS
    <3> HIDE DEF R
    <3> QED
      BY <2>1, <2>2, <3>1, TurnByTurn
  <2> QED
    BY <2>3
<1> QED
  BY <1>1, <1>6, <1>7, <1>8, <1>9

(* One more digit at the end. *)
LEMMA ValueAppend ==
  ASSUME NEW s \in Seq(Digit), NEW d \in Digit
  PROVE  Value(Append(s, d)) = 10 * Value(s) + d /\ Value(s) \in Nat
<1>1. PICK n \in Nat : n = Len(s)
  OBVIOUS
<1>2. PICK t : t = Append(s, d)
  OBVIOUS
<1>3. /\ t \in Seq(Digit) /\ Len(t) = n + 1 /\ t[n + 1] = d
      /\ \A i \in 1 .. n : t[i] = s[i]
  BY <1>1, <1>2, AppendProperties
<1>4. PICK g : /\ g[0] = 0 /\ Value(s) = g[n]
               /\ \A i \in 1 .. n : g[i] = NextDigit(g[i - 1], s[i])
               /\ \A i \in 0 .. n : g[i] \in Nat
  BY <1>1, ValueTrace
<1>5. PICK h : /\ h[0] = 0 /\ Value(t) = h[n + 1]
               /\ \A i \in 1 .. n + 1 : h[i] = NextDigit(h[i - 1], t[i])
  BY <1>3, ValueTrace
<1> DEFINE R == {i \in 0 .. n : h[i] = g[i]}
<1>6. 0 \in R
  BY <1>4, <1>5
<1>7. ASSUME NEW i \in 1 .. n, i - 1 \in R PROVE i \in R
  <2>1. i \in 1 .. n + 1 /\ i \in 0 .. n /\ h[i - 1] = g[i - 1]
    BY <1>7
  <2> QED
    BY <1>3, <1>4, <1>5, <2>1
<1>8. n \in R
  <2> HIDE DEF R
  <2> QED
    BY <1>6, <1>7, TurnByTurn
<1>9. n + 1 \in 1 .. n + 1 /\ (n + 1) - 1 = n /\ n \in 0 .. n
  OBVIOUS
<1>10. h[n + 1] = NextDigit(g[n], d)
  BY <1>3, <1>5, <1>8, <1>9
<1> QED
  BY <1>2, <1>4, <1>5, <1>9, <1>10 DEF NextDigit

(* Nothing is read from no digits. *)
LEMMA ValueEmpty == Value(<<>>) = 0
<1>1. <<>> \in Seq(Digit) /\ Len(<<>>) = 0
  OBVIOUS
<1> QED
  BY <1>1, ValueTrace

(* std::reverse() *)
LEMMA ReverseType ==
  ASSUME NEW S, NEW s \in Seq(S)
  PROVE  /\ Reverse(s) \in Seq(S) /\ Len(Reverse(s)) = Len(s)
         /\ \A i \in 1 .. Len(s) : Reverse(s)[i] = s[Len(s) - i + 1]
<1>1. PICK n \in Nat : n = Len(s) /\ \A i \in 1 .. n : s[i] \in S
  OBVIOUS
<1>2. \A i \in 1 .. n : (n - i) + 1 \in 1 .. n
  OBVIOUS
<1>3. Reverse(s) = [i \in 1 .. n |-> s[(n - i) + 1]]
  BY <1>1 DEF Reverse
<1>4. Reverse(s) \in [1 .. n -> S]
  BY <1>1, <1>2, <1>3
<1> QED
  BY <1>1, <1>3, <1>4

(* The digit that was cut off first is the last one of the text. *)
LEMMA ReverseCons ==
  ASSUME NEW S, NEW d \in S, NEW rest \in Seq(S)
  PROVE  Reverse(<<d>> \o rest) = Append(Reverse(rest), d)
<1>1. PICK n \in Nat : n = Len(rest)
  OBVIOUS
<1>2. PICK s : s = <<d>> \o rest
  OBVIOUS
<1>3. /\ s \in Seq(S) /\ Len(s) = n + 1 /\ s[1] = d
      /\ \A i \in 1 .. n : s[i + 1] = rest[i]
  BY <1>1, <1>2
<1>4. PICK r : r = Reverse(rest)
  OBVIOUS
<1>5. r \in Seq(S) /\ Len(r) = n /\ \A i \in 1 .. n : r[i] = rest[n - i + 1]
  BY <1>1, <1>4, ReverseType
<1>6. PICK a : a = Append(r, d)
  OBVIOUS
<1>7. a \in Seq(S) /\ Len(a) = n + 1 /\ a[n + 1] = d /\ \A i \in 1 .. n : a[i] = r[i]
  BY <1>5, <1>6, AppendProperties
<1>8. PICK b : b = Reverse(s)
  OBVIOUS
<1>9. /\ b \in Seq(S) /\ Len(b) = n + 1
      /\ \A i \in 1 .. n + 1 : b[i] = s[(n + 1) - i + 1]
  BY <1>3, <1>8, ReverseType
<1>10. ASSUME NEW i \in 1 .. n + 1 PROVE b[i] = a[i]
  <2>1. CASE i = n + 1
    <3>1. (n + 1) - i + 1 = 1
      BY <2>1
    <3> QED
      BY <1>3, <1>7, <1>9, <2>1, <3>1
  <2>2. CASE i # n + 1
    <3>1. PICK j \in 1 .. n : j = n - i + 1 /\ (n + 1) - i + 1 = j + 1 /\ i \in 1 .. n
      BY <2>2
    <3>2. b[i] = s[j + 1]
      BY <1>9, <3>1
    <3>3. a[i] = rest[j]
      BY <1>5, <1>7, <3>1
    <3> QED
      BY <1>3, <3>2, <3>3
  <2> QED
    BY <2>1, <2>2
<1>11. a = b
  BY <1>7, <1>9, <1>10, SeqEqual
<1> QED
  BY <1>2, <1>4, <1>6, <1>8, <1>11

(* The digits of a number, the first one first, read as its magnitude. *)
LEMMA DigitsRead == \A n \in Int : Value(Reverse(Digits[n])) = Magnitude(n)
<1> DEFINE T == {upto \in Nat : \A n \in Span(upto) : Value(Reverse(Digits[n])) = Magnitude(n)}
<1>e. ASSUME NEW n \in Int,
             Quotient(n) # 0 => Value(Reverse(Digits[Quotient(n)])) = Magnitude(Quotient(n))
      PROVE  Value(Reverse(Digits[n])) = Magnitude(n)
  <2>1. PICK d \in Digit : d = Zero[Remainder(n)]
    BY CutOff
  <2>2. PICK q \in Int : q = Quotient(n)
    BY CutOff
  <2>3. Magnitude(n) = 10 * Magnitude(q) + d
    BY <2>1, <2>2, CutOff
  <2>4. PICK rest : rest = IF q = 0 THEN <<>> ELSE Digits[q]
    OBVIOUS
  <2>5. rest \in Seq(Digit)
    BY <2>4, DigitsType
  <2>6. Digits[n] = <<d>> \o rest
    BY <2>1, <2>2, <2>4, DigitsStep DEF DigitsBy
  <2>7. PICK back : back = Reverse(rest)
    OBVIOUS
  <2>8. Reverse(<<d>> \o rest) = Append(back, d)
    BY <2>5, <2>7, ReverseCons
  <2>9. back \in Seq(Digit)
    BY <2>5, <2>7, ReverseType
  <2>10. Value(Append(back, d)) = 10 * Value(back) + d
    BY <2>9, ValueAppend
  <2>11. Value(back) = Magnitude(q)
    <3>1. CASE q = 0
      <4>1. rest = <<>> /\ Magnitude(q) = 0
        BY <2>4, <3>1 DEF Magnitude
      <4>2. Len(back) = 0
        BY <2>5, <2>7, <4>1, ReverseType
      <4>3. back = <<>>
        BY <2>9, <4>2
      <4> QED
        BY <4>1, <4>3, ValueEmpty
    <3>2. CASE q # 0
      BY <1>e, <2>2, <2>4, <2>7, <3>2
    <3> QED
      BY <3>1, <3>2
  <2> QED
    BY <2>3, <2>6, <2>8, <2>10, <2>11
<1>1. 0 \in T
  <2>1. \A n \in Span(0) : n \in Int /\ Quotient(n) = 0
    BY CutOff DEF Span
  <2> QED
    BY <1>e, <2>1
<1>2. ASSUME NEW upto \in Nat, upto \in T PROVE upto + 1 \in T
  <2>1. \A n \in Span(upto + 1) : n \in Int /\ (Quotient(n) # 0 => Quotient(n) \in Span(upto))
    BY CutOff DEF Span
  <2> QED
    BY <1>2, <1>e, <2>1
<1>3. Nat \subseteq T
  <2> HIDE DEF T
  <2> QED
    BY <1>1, <1>2, NatSetInduction
<1>4. \A n \in Int : Magnitude(n) \in Nat /\ n \in Span(Magnitude(n))
  BY CutOff DEF Span
<1> QED
  BY <1>3, <1>4

(* formatInteger() writes a number that reads as itself. *)
LEMMA ReadsAsItself == \A n \in Int : ReadBack(FormatInteger(n)) = n
<1> SUFFICES ASSUME NEW n \in Int PROVE ReadBack(FormatInteger(n)) = n
  OBVIOUS
<1>1. PICK v : v = Value(Reverse(Digits[n]))
  OBVIOUS
<1>2. v = Magnitude(n)
  BY <1>1, DigitsRead
<1>3. PICK text : text = FormatInteger(n)
  OBVIOUS
<1>4. text.negative = (n < 0) /\ text.digits = Reverse(Digits[n])
  BY <1>3 DEF FormatInteger
<1>5. FoldLeft(NextDigit, 0, text.digits) = Value(text.digits)
  BY DEF Value
<1>6. ReadBack(text) = (IF n < 0 THEN -1 ELSE 1) * v
  BY <1>1, <1>4, <1>5 DEF ReadBack
<1>7. (IF n < 0 THEN -1 ELSE 1) * v = n
  BY <1>2 DEF Magnitude
<1> QED
  BY <1>3, <1>6, <1>7

(* The length of a piece. *)
LEMMA LengthType ==
  ASSUME NEW p \in Piece
  PROVE  Length(p) \in Nat
<1>1. CASE p \in [kind : {"text", "real"}, length : Nat]
  BY <1>1 DEF Length
<1>2. CASE p \in [kind : {"number"}, value : Int]
  <2>1. p.kind = "number" /\ p.value \in Int
    BY <1>2
  <2>2. PICK digits : digits = Reverse(Digits[p.value])
    OBVIOUS
  <2>3. digits \in Seq(Digit)
    BY <2>1, <2>2, DigitsType, ReverseType
  <2>4. Len(digits) \in Nat
    BY <2>3
  <2>5. Length(p) = Len(digits) + IF p.value < 0 THEN 1 ELSE 0
    BY <2>1, <2>2 DEF Length, FormatInteger
  <2> QED
    BY <2>4, <2>5
<1> QED
  BY <1>1, <1>2 DEF Piece

(* The length of a statement, piece by piece. *)
LEMMA TotalTrace ==
  ASSUME NEW s \in Seq(Piece)
  PROVE  \E g : /\ g[0] = 0 /\ Total(s) = g[Len(s)]
                /\ \A i \in 1 .. Len(s) : g[i] = NextPiece(g[i - 1], s[i])
                /\ \A i \in 0 .. Len(s) : g[i] \in Nat
<1>1. PICK n \in Nat : /\ n = Len(s) /\ DOMAIN s = 1 .. n
                       /\ \A i \in 1 .. n : s[i] \in Piece
  OBVIOUS
<1>t. \A x \in Nat, i \in 1 .. n : NextPiece(x, s[i]) \in Nat
  BY <1>1, LengthType DEF NextPiece
<1> DEFINE F == [p \in Nat \X (1 .. n) |-> NextPiece(p[1], s[p[2]])]
           Eq(it) == it = [t \in SUBSET (1 .. n) |->
                             IF t = {} THEN 0 ELSE NextPiece(it[t \ {Max(t)}], s[Max(t)])]
<1>2. PICK it \in [SUBSET (1 .. n) -> Nat] : Eq(it)
  <2>1. \A x \in Nat, i \in 1 .. n : F[<<x, i>>] = NextPiece(x, s[i])
    OBVIOUS
  <2> HIDE DEF F
  <2>2. 0 \in Nat
    OBVIOUS
  <2>3. \A x \in Nat, i \in 1 .. n : F[<<x, i>>] \in Nat
    BY <1>t, <2>1
  <2>4. PICK it \in [SUBSET (1 .. n) -> Nat] : FoldEq(it, F, 0, n)
    BY <2>2, <2>3, FoldExists
  <2>5. ASSUME NEW t \in SUBSET (1 .. n)
        PROVE  it[t] = IF t = {} THEN 0 ELSE NextPiece(it[t \ {Max(t)}], s[Max(t)])
    <3>1. CASE t = {}
      BY <2>4, <3>1 DEF FoldEq
    <3>2. CASE t # {}
      <4>1. PICK m \in 1 .. n : m = Max(t)
        BY <3>2, MaxInRange
      <4>2. t \ {m} \in SUBSET (1 .. n)
        OBVIOUS
      <4>3. it[t \ {m}] \in Nat
        BY <4>2
      <4>4. it[t] = F[<<it[t \ {m}], m>>]
        BY <2>4, <3>2, <4>1 DEF FoldEq
      <4>5. it[t] = NextPiece(it[t \ {m}], s[m])
        BY <2>1, <4>3, <4>4
      <4> QED
        BY <3>2, <4>1, <4>5
    <3> QED
      BY <3>1, <3>2
  <2>6. it = [t \in SUBSET (1 .. n) |-> it[t]]
    OBVIOUS
  <2> QED
    BY <2>5, <2>6
<1>3. PICK iter : iter = (CHOOSE f : Eq(f))
  OBVIOUS
<1>4. Eq(iter)
  BY <1>2, <1>3
<1>5. Total(s) = iter[1 .. n]
  <2>1. Total(s) = FoldLeft(NextPiece, 0, s)
    BY DEF Total
  <2> QED
    BY <1>1, <1>3, <2>1 DEF FoldLeft, MapThenFoldSet
<1> DEFINE g == [done \in 0 .. n |-> iter[1 .. done]]
<1>6. g[0] = 0
  <2>1. 1 .. 0 = {} /\ {} \in SUBSET (1 .. n)
    OBVIOUS
  <2>2. iter[{}] = 0
    BY <1>4, <2>1
  <2> QED
    BY <2>1, <2>2
<1>7. ASSUME NEW done \in 1 .. n PROVE g[done] = NextPiece(g[done - 1], s[done])
  <2> DEFINE t == 1 .. done
  <2>1. t \in SUBSET (1 .. n) /\ t # {} /\ Max(t) = done /\ t \ {done} = 1 .. done - 1
    BY PrefixSets
  <2> HIDE DEF t
  <2>2. iter[t] = IF t = {} THEN 0 ELSE NextPiece(iter[t \ {Max(t)}], s[Max(t)])
    BY <1>4, <2>1
  <2>3. iter[1 .. done] = NextPiece(iter[1 .. done - 1], s[done])
    BY <2>1, <2>2 DEF t
  <2>4. g[done] = iter[1 .. done] /\ g[done - 1] = iter[1 .. done - 1]
    <3>1. done \in 0 .. n /\ done - 1 \in 0 .. n
      OBVIOUS
    <3> QED
      BY <3>1
  <2> HIDE DEF g
  <2> QED
    BY <2>3, <2>4
<1>8. Total(s) = g[n]
  BY <1>5
<1> HIDE DEF g, Eq
<1>9. \A upto \in 0 .. n : g[upto] \in Nat
  <2> DEFINE R == {upto \in 0 .. n : g[upto] \in Nat}
  <2>1. 0 \in R
    BY <1>6
  <2>2. ASSUME NEW upto \in 1 .. n, upto - 1 \in R PROVE upto \in R
    <3>1. PICK x \in Nat : x = g[upto - 1]
      BY <2>2
    <3>2. g[upto] = NextPiece(x, s[upto])
      BY <1>7, <3>1
    <3>3. NextPiece(x, s[upto]) \in Nat
      BY <1>t
    <3>4. upto \in 0 .. n
      OBVIOUS
    <3> QED
      BY <3>2, <3>3, <3>4
  <2>3. ASSUME NEW upto \in 0 .. n PROVE upto \in R
    <3>1. upto \in Nat /\ \A i \in 1 .. upto : i \in 1 .. n
      OBVIOUS
    <3> HIDE DEF R
    <3> QED
      BY <2>1, <2>2, <3>1, TurnByTurn
  <2> QED
    BY <2>3
<1> QED
  BY <1>1, <1>6, <1>7, <1>8, <1>9

(* The line number of finish() has three digits. *)
LEMMA LineLength == Length(Number(117)) = 3
<1>1. Quotient(117) = 11 /\ Quotient(11) = 1 /\ Quotient(1) = 0
  BY DEF Quotient
<1>2. ASSUME NEW n \in Int
      PROVE  /\ Quotient(n) = 0 => Len(Digits[n]) = 1
             /\ Quotient(n) # 0 => Len(Digits[n]) = Len(Digits[Quotient(n)]) + 1
  <2>1. PICK d \in Digit : d = Zero[Remainder(n)]
    BY CutOff
  <2>2. PICK rest : rest = IF Quotient(n) = 0 THEN <<>> ELSE Digits[Quotient(n)]
    OBVIOUS
  <2>3. rest \in Seq(Digit)
    <3>1. Quotient(n) \in Int
      BY CutOff
    <3>2. Digits[Quotient(n)] \in Seq(Digit)
      BY <3>1, DigitsType
    <3> QED
      BY <2>2, <3>2
  <2>4. Digits[n] = <<d>> \o rest
    BY <2>1, <2>2, DigitsStep DEF DigitsBy
  <2>5. PICK upto \in Nat : upto = Len(rest)
    BY <2>3
  <2>6. Len(<<d>> \o rest) = upto + 1
    BY <2>3, <2>5
  <2>7. Quotient(n) = 0 => upto = 0
    BY <2>2, <2>5
  <2> QED
    BY <2>2, <2>4, <2>5, <2>6, <2>7
<1>3. 117 \in Int /\ 11 \in Int /\ 1 \in Int
  OBVIOUS
<1>4. Len(Digits[1]) = 1
  BY <1>1, <1>2, <1>3
<1>5. Digits[117] \in Seq(Digit)
  BY <1>3, DigitsType
<1>6. Len(Digits[11]) = 2
  <2>1. 11 \in Int /\ Quotient(11) = 1 /\ Quotient(11) # 0
    BY <1>1
  <2>2. Len(Digits[11]) = Len(Digits[Quotient(11)]) + 1
    BY <1>2, <2>1
  <2> QED
    <3>1. Digits[Quotient(11)] = Digits[1]
      BY <2>1, Zenon
    <3>2. Len(Digits[11]) = Len(Digits[1]) + 1
      BY <2>2, <3>1, Zenon
    <3> QED
      BY <1>4, <3>2
<1>7. Len(Digits[117]) = 3
  <2>1. 117 \in Int /\ Quotient(117) = 11 /\ Quotient(117) # 0
    BY <1>1
  <2>2. Len(Digits[117]) = Len(Digits[Quotient(117)]) + 1
    BY <1>2, <2>1
  <2> QED
    <3>1. Digits[Quotient(117)] = Digits[11]
      BY <2>1, Zenon
    <3>2. Len(Digits[117]) = Len(Digits[11]) + 1
      BY <2>2, <3>1, Zenon
    <3> QED
      BY <1>6, <3>2
<1>8. Len(Reverse(Digits[117])) = 3
  BY <1>5, <1>7, ReverseType
<1>9. PICK p : p = Number(117)
  OBVIOUS
<1>10. p.kind = "number" /\ p.value = 117
  BY <1>9 DEF Number
<1>11. Length(p) = 3
  <2>1. PICK text : text = FormatInteger(117)
    OBVIOUS
  <2>2. ~text.negative /\ text.digits = Reverse(Digits[117])
    <3>1. text = [negative |-> 117 < 0, digits |-> Reverse(Digits[117])]
      BY <2>1 DEF FormatInteger
    <3>2. text.negative = (117 < 0) /\ text.digits = Reverse(Digits[117])
      BY <3>1
    <3>3. ~(117 < 0)
      OBVIOUS
    <3> QED
      BY <3>2, <3>3
  <2>3. Length(p) = Len(text.digits) + IF text.negative THEN 1 ELSE 0
    BY <1>10, <2>1 DEF Length
  <2> QED
    BY <1>8, <2>2, <2>3
<1> QED
  BY <1>8, <1>9, <1>11

(* A text. *)
LEMMA TextFacts ==
  ASSUME NEW n \in Nat
  PROVE  Text(n) \in Piece /\ Text(n).kind = "text" /\ Length(Text(n)) = n
BY DEF Text, Piece, Length

(* got begins with the first upto of pieces. *)
Agrees(got, pieces, upto) == upto <= Len(got) /\ \A i \in 1 .. upto : got[i] = pieces[i]

(* A piece that fits into kMaxNumericSize, if it is to be formatted. *)
Sized(p) == p.kind # "text" => Length(p) < MaxNumericSize

(* The pieces of the constructor: three, or five for LOG_DEBUG. *)
LEMMA HeadFacts ==
  ASSUME NEW l
  PROVE  /\ Head0(l) \in Seq(Piece)
         /\ Len(Head0(l)) \in {3, 5}
         /\ Head0(l)[1] = Text(17) /\ Head0(l)[2] = Text(7) /\ Head0(l)[3] = Text(6)
         /\ Len(Head0(l)) = 5 => Head0(l)[4] = Text(4) /\ Head0(l)[5] = Text(1)
<1>1. /\ Text(17) \in Piece /\ Text(7) \in Piece /\ Text(6) \in Piece
      /\ Text(4) \in Piece /\ Text(1) \in Piece
  BY TextFacts
<1>2. PICK a : a = <<Text(17), Text(7), Text(6)>>
  OBVIOUS
<1>3. a \in Seq(Piece) /\ Len(a) = 3 /\ a[1] = Text(17) /\ a[2] = Text(7) /\ a[3] = Text(6)
  BY <1>1, <1>2
<1>4. CASE l = "DEBUG"
  <2>1. PICK b : b = <<Text(4), Text(1)>>
    OBVIOUS
  <2>2. b \in Seq(Piece) /\ Len(b) = 2 /\ b[1] = Text(4) /\ b[2] = Text(1)
    BY <1>1, <2>1
  <2>3. Head0(l) = a \o b
    BY <1>2, <1>4, <2>1 DEF Head0
  <2>4. /\ a \o b \in Seq(Piece) /\ Len(a \o b) = 5
        /\ (a \o b)[1] = a[1] /\ (a \o b)[2] = a[2] /\ (a \o b)[3] = a[3]
        /\ (a \o b)[4] = b[1] /\ (a \o b)[5] = b[2]
    <3>1. PICK c : c = a \o b
      OBVIOUS
    <3>2. /\ c \in Seq(Piece) /\ Len(c) = Len(a) + Len(b)
          /\ \A i \in 1 .. Len(a) + Len(b) :
               c[i] = IF i <= Len(a) THEN a[i] ELSE b[i - Len(a)]
      BY <1>3, <2>2, <3>1, ConcatProperties
    <3>3. /\ Len(c) = 5 /\ \A i \in 1 .. 5 : c[i] = IF i <= 3 THEN a[i] ELSE b[i - 3]
      BY <1>3, <2>2, <3>2
    <3>4. c[1] = a[1] /\ c[2] = a[2] /\ c[3] = a[3]
      BY <3>3
    <3>5. c[4] = b[4 - 3] /\ c[5] = b[5 - 3] /\ 4 - 3 = 1 /\ 5 - 3 = 2
      BY <3>3
    <3> QED
      BY <3>1, <3>2, <3>3, <3>4, <3>5
  <2> QED
    BY <1>3, <2>2, <2>3, <2>4
<1>5. CASE l # "DEBUG"
  <2>1. Head0(l) = a \o <<>>
    BY <1>2, <1>5 DEF Head0
  <2>2. a \o <<>> = a
    BY <1>3
  <2> QED
    BY <1>3, <2>1, <2>2
<1> QED
  BY <1>4, <1>5

(* The pieces of a statement: those of the constructor first. *)
WellMade(level, pieces) ==
  /\ pieces \in Seq(Piece) /\ \A i \in 1 .. Len(pieces) : Sized(pieces[i])
  /\ Agrees(pieces, Head0(level), Len(Head0(level)))

(* The pieces of finish(); its line number fits into kMaxNumericSize. *)
LEMMA FinishFacts == Finish \in Seq(Piece) /\ \A i \in 1 .. Len(Finish) : Sized(Finish[i])
<1>1. /\ Text(3) \in Piece /\ Text(8) \in Piece /\ Text(1) \in Piece
      /\ Sized(Text(3)) /\ Sized(Text(8)) /\ Sized(Text(1))
  BY TextFacts DEF Sized
<1>2. Number(117) \in Piece
  BY DEF Number, Piece
<1>3. Sized(Number(117))
  BY LineLength, FrontEndAssumption DEF Sized
<1>4. Finish \in Seq(Piece) /\ Len(Finish) = 5
  BY <1>1, <1>2 DEF Finish
<1>5. /\ Finish[1] = Text(3) /\ Finish[2] = Text(8) /\ Finish[3] = Text(1)
      /\ Finish[4] = Number(117) /\ Finish[5] = Text(1)
  BY DEF Finish
<1>6. \A i \in 1 .. 5 : i = 1 \/ i = 2 \/ i = 3 \/ i = 4 \/ i = 5
  OBVIOUS
<1> QED
  BY <1>1, <1>3, <1>4, <1>5, <1>6

(* Pieces behind pieces: all of them keep their place and their size. *)
LEMMA SizedConcat ==
  ASSUME NEW a \in Seq(Piece), NEW b \in Seq(Piece),
         \A i \in 1 .. Len(a) : Sized(a[i]), \A i \in 1 .. Len(b) : Sized(b[i])
  PROVE  /\ a \o b \in Seq(Piece) /\ Len(a) <= Len(a \o b)
         /\ \A i \in 1 .. Len(a) : (a \o b)[i] = a[i]
         /\ \A i \in 1 .. Len(a \o b) : Sized((a \o b)[i])
<1>1. PICK m \in Nat : m = Len(a)
  OBVIOUS
<1>2. PICK n \in Nat : n = Len(b)
  OBVIOUS
<1>3. PICK c : c = a \o b
  OBVIOUS
<1>4. /\ c \in Seq(Piece) /\ Len(c) = m + n
      /\ \A i \in 1 .. m + n : c[i] = IF i <= m THEN a[i] ELSE b[i - m]
  BY <1>1, <1>2, <1>3, ConcatProperties
<1>5. \A i \in 1 .. m : i \in 1 .. m + n /\ i <= m
  OBVIOUS
<1>6. ASSUME NEW i \in 1 .. m + n PROVE Sized(c[i])
  <2>1. CASE i <= m
    BY <1>1, <1>4, <2>1
  <2>2. CASE ~(i <= m)
    <3>1. i - m \in 1 .. n
      BY <2>2
    <3> QED
      BY <1>2, <1>4, <2>2, <3>1
  <2> QED
    BY <2>1, <2>2
<1> QED
  BY <1>1, <1>3, <1>4, <1>5, <1>6

(* What the macros and finish() put together is well made. *)
LEMMA StatementWellMade ==
  ASSUME NEW l, NEW msg \in Messages
  PROVE  WellMade(l, Head0(l) \o msg \o Finish)
<1>1. PICK h : h = Head0(l)
  OBVIOUS
<1>2. h \in Seq(Piece) /\ Len(h) \in Nat /\ \A i \in 1 .. Len(h) : Sized(h[i])
  <2>1. /\ h \in Seq(Piece) /\ Len(h) \in {3, 5}
        /\ h[1] = Text(17) /\ h[2] = Text(7) /\ h[3] = Text(6)
        /\ Len(h) = 5 => h[4] = Text(4) /\ h[5] = Text(1)
    BY <1>1, HeadFacts
  <2>2. \A n \in Nat : Sized(Text(n))
    BY TextFacts DEF Sized
  <2>3. \A i \in 1 .. Len(h) : \/ i = 1 \/ i = 2 \/ i = 3
                               \/ (Len(h) = 5 /\ (i = 4 \/ i = 5))
    <3>1. CASE Len(h) = 3
      BY <3>1
    <3>2. CASE Len(h) = 5
      BY <3>2
    <3> QED
      BY <2>1, <3>1, <3>2
  <2> QED
    BY <2>1, <2>2, <2>3
<1>3. msg \in Seq(Piece) /\ \A i \in 1 .. Len(msg) : Sized(msg[i])
  BY FrontEndAssumption DEF Sized
<1>4. PICK a : a = h \o msg
  OBVIOUS
<1>5. /\ a \in Seq(Piece) /\ Len(h) <= Len(a)
      /\ \A i \in 1 .. Len(h) : a[i] = h[i]
      /\ \A i \in 1 .. Len(a) : Sized(a[i])
  BY <1>2, <1>3, <1>4, SizedConcat
<1>6. PICK b : b = a \o Finish
  OBVIOUS
<1>7. /\ b \in Seq(Piece) /\ Len(a) <= Len(b)
      /\ \A i \in 1 .. Len(a) : b[i] = a[i]
      /\ \A i \in 1 .. Len(b) : Sized(b[i])
  BY <1>5, <1>6, FinishFacts, SizedConcat
<1>8. Len(h) <= Len(b) /\ \A i \in 1 .. Len(h) : i \in 1 .. Len(a)
  <2>1. Len(a) \in Nat /\ Len(b) \in Nat
    BY <1>5, <1>7
  <2> QED
    BY <1>2, <1>5, <1>7, <2>1
<1>9. Agrees(b, h, Len(h))
  BY <1>5, <1>7, <1>8 DEF Agrees
<1> QED
  BY <1>1, <1>4, <1>6, <1>7, <1>9 DEF WellMade

(* g is what the pieces need, up to each of them. *)
Sums(g, pieces) ==
  /\ g[0] = 0 /\ Total(pieces) = g[Len(pieces)]
  /\ \A i \in 1 .. Len(pieces) : g[i] = g[i - 1] + Length(pieces[i])
  /\ \A i \in 0 .. Len(pieces) : g[i] \in Nat

(* The lengths of the pieces add up to that of the statement. *)
LEMMA SumsExist ==
  ASSUME NEW pieces \in Seq(Piece)
  PROVE  \E g : Sums(g, pieces)
<1>1. PICK g : /\ g[0] = 0 /\ Total(pieces) = g[Len(pieces)]
               /\ \A i \in 1 .. Len(pieces) : g[i] = NextPiece(g[i - 1], pieces[i])
               /\ \A i \in 0 .. Len(pieces) : g[i] \in Nat
  BY TotalTrace
<1>2. Sums(g, pieces)
  BY <1>1 DEF Sums, NextPiece
<1> QED
  BY <1>2

(* A piece fits behind cur bytes. *)
FitsAt(cur, p) ==
  IF p.kind = "text" THEN SmallBuffer - cur > Length(p) ELSE SmallBuffer - cur >= MaxNumericSize

AllFit(g, pieces, upto) == \A i \in 1 .. upto : FitsAt(g[i - 1], pieces[i])

(* After `done` of the pieces: as long as they fit one behind the other, the  *)
(* buffer begins with them, and has nothing else if all have.                 *)
Streamed(g, pieces, done, s) ==
  \A upto \in 0 .. done :
    AllFit(g, pieces, upto) => /\ Agrees(s.pieces, pieces, upto)
                               /\ upto = done => Len(s.pieces) = upto /\ s.cur = g[upto]

StreamType == [cur : 0 .. SmallBuffer - 1, pieces : Seq(Piece)]

(* One operator<<. *)
LEMMA OnePiece ==
  ASSUME NEW g, NEW pieces \in Seq(Piece), Sums(g, pieces),
         NEW i \in 1 .. Len(pieces), Sized(pieces[i]),
         NEW s \in StreamType, Streamed(g, pieces, i - 1, s)
  PROVE  LET t == Stream(s, pieces[i])
         IN t \in StreamType /\ Streamed(g, pieces, i, t)
<1>1. PICK p \in Piece : p = pieces[i]
  OBVIOUS
<1>2. PICK length \in Nat : length = Length(p)
  BY LengthType
<1>3. PICK cur \in 0 .. SmallBuffer - 1 : cur = s.cur
  BY DEF StreamType
<1>4. PICK had \in Seq(Piece) : had = s.pieces
  BY DEF StreamType
<1>5. PICK n \in Nat : n = Len(had)
  OBVIOUS
<1>6. PICK t : t = Stream(s, p)
  OBVIOUS
<1>7. SmallBuffer \in Nat /\ MaxNumericSize \in Nat
  BY FrontEndAssumption
<1>8. Fits(s, p) <=> FitsAt(cur, p)
  BY <1>3 DEF Fits, FitsAt, Room
<1>9. /\ \A upto \in 0 .. i : upto \in 0 .. i - 1 \/ upto = i
      /\ i - 1 \in 0 .. i - 1 /\ i \in 1 .. i
      /\ \A upto \in 0 .. i - 1 : upto # i
      /\ \A upto \in 1 .. i - 1 : upto \in 1 .. i
      /\ \A upto \in 1 .. i : upto \in 1 .. i - 1 \/ upto = i
  OBVIOUS
<1>10. AllFit(g, pieces, i) => AllFit(g, pieces, i - 1) /\ FitsAt(g[i - 1], p)
  BY <1>1, <1>9 DEF AllFit
<1>11. AllFit(g, pieces, i - 1) =>
         Agrees(had, pieces, i - 1) /\ n = i - 1 /\ cur = g[i - 1]
  BY <1>3, <1>4, <1>5, <1>9 DEF Streamed
<1>12. \A upto \in 0 .. i - 1 : AllFit(g, pieces, upto) => Agrees(had, pieces, upto)
  BY <1>4 DEF Streamed
<1>13. CASE Fits(s, p)
  <2>1. PICK more : more = Append(had, p)
    OBVIOUS
  <2>2. /\ more \in Seq(Piece) /\ Len(more) = n + 1 /\ more[n + 1] = p
        /\ \A j \in 1 .. n : more[j] = had[j]
    BY <1>5, <2>1, AppendProperties
  <2>3. t = [cur |-> cur + length, pieces |-> more]
    BY <1>2, <1>3, <1>4, <1>6, <1>13, <2>1 DEF Stream
  <2>4. t.cur = cur + length /\ t.pieces = more
    BY <2>3
  <2>5. cur + length \in 0 .. SmallBuffer - 1
    <3>1. CASE p.kind = "text"
      BY <1>2, <1>7, <1>8, <1>13, <3>1 DEF FitsAt
    <3>2. CASE p.kind # "text"
      <4>1. length < MaxNumericSize /\ SmallBuffer - cur >= MaxNumericSize
        BY <1>1, <1>2, <1>8, <1>13, <3>2 DEF FitsAt, Sized
      <4> QED
        BY <1>7, <4>1
    <3> QED
      BY <3>1, <3>2
  <2>6. t \in StreamType
    BY <2>2, <2>3, <2>5 DEF StreamType
  <2>7. ASSUME NEW upto \in 0 .. i - 1, AllFit(g, pieces, upto) PROVE Agrees(more, pieces, upto)
    <3>1. upto <= n /\ \A j \in 1 .. upto : had[j] = pieces[j]
      BY <1>5, <1>12, <2>7 DEF Agrees
    <3>2. upto <= n + 1 /\ \A j \in 1 .. upto : j \in 1 .. n
      BY <3>1
    <3> QED
      BY <2>2, <3>1, <3>2 DEF Agrees
  <2>8. ASSUME AllFit(g, pieces, i)
        PROVE  Agrees(more, pieces, i) /\ Len(more) = i /\ cur + length = g[i]
    <3>1. Agrees(had, pieces, i - 1) /\ n = i - 1 /\ cur = g[i - 1]
      BY <1>10, <1>11, <2>8
    <3>2. n + 1 = i
      BY <3>1
    <3>3. \A j \in 1 .. i - 1 : more[j] = pieces[j]
      BY <2>2, <3>1 DEF Agrees
    <3>4. more[i] = pieces[i]
      BY <1>1, <2>2, <3>2
    <3>5. \A j \in 1 .. i : more[j] = pieces[j]
      BY <1>9, <3>3, <3>4
    <3>6. g[i] = g[i - 1] + length
      BY <1>1, <1>2 DEF Sums
    <3> QED
      BY <2>2, <3>1, <3>2, <3>5, <3>6 DEF Agrees
  <2>9. Streamed(g, pieces, i, t)
    BY <1>9, <2>4, <2>7, <2>8 DEF Streamed
  <2> QED
    BY <1>1, <1>6, <2>6, <2>9
<1>14. CASE ~Fits(s, p)
  <2>1. t = s
    BY <1>6, <1>14 DEF Stream
  <2>2. ~AllFit(g, pieces, i)
    BY <1>8, <1>10, <1>11, <1>14
  <2>3. Streamed(g, pieces, i, s)
    BY <1>4, <1>9, <1>12, <2>2 DEF Streamed
  <2> QED
    BY <1>1, <1>6, <2>1, <2>3
<1> QED
  BY <1>13, <1>14

(* What is needed grows. *)
LEMMA SumsGrow ==
  ASSUME NEW g, NEW pieces \in Seq(Piece), Sums(g, pieces), NEW i \in 0 .. Len(pieces)
  PROVE  g[i] <= Total(pieces)
<1>1. PICK n \in Nat : n = Len(pieces) /\ \A j \in 1 .. n : pieces[j] \in Piece
  OBVIOUS
<1>2. /\ Total(pieces) = g[n] /\ \A j \in 0 .. n : g[j] \in Nat
      /\ \A j \in 1 .. n : g[j] = g[j - 1] + Length(pieces[j])
  BY <1>1 DEF Sums
<1> DEFINE R == {upto \in 0 .. n : upto >= i => g[i] <= g[upto]}
<1>3. 0 \in R
  <2>1. 0 >= i => i = 0
    BY <1>1
  <2>2. g[0] <= g[0] /\ 0 \in 0 .. n
    BY <1>2
  <2> QED
    BY <2>1, <2>2
<1>4. ASSUME NEW upto \in 1 .. n, upto - 1 \in R PROVE upto \in R
  <2>1. upto \in 0 .. n /\ upto - 1 \in 0 .. n /\ i \in 0 .. n
    BY <1>1
  <2> SUFFICES ASSUME upto >= i PROVE g[i] <= g[upto]
    BY <2>1
  <2>2. CASE upto = i
    BY <1>2, <2>1, <2>2
  <2>3. CASE upto # i
    <3>1. upto - 1 >= i
      BY <2>1, <2>3
    <3>2. PICK a \in Nat : a = g[i]
      BY <1>2, <2>1
    <3>3. PICK b \in Nat : b = g[upto - 1]
      BY <1>2, <2>1
    <3>4. PICK c \in Nat : c = Length(pieces[upto])
      BY <1>1, LengthType
    <3>5. a <= b /\ g[upto] = b + c
      BY <1>2, <1>4, <3>1, <3>2, <3>3, <3>4
    <3> QED
      BY <3>2, <3>5
  <2> QED
    BY <2>2, <2>3
<1>5. n \in R
  <2> HIDE DEF R
  <2> QED
    BY <1>3, <1>4, TurnByTurn
<1> QED
  BY <1>1, <1>2, <1>5

(* A statement that leaves room for a number fits as a whole. *)
LEMMA WholeFits ==
  ASSUME NEW g, NEW pieces \in Seq(Piece), Sums(g, pieces),
         Total(pieces) + MaxNumericSize <= SmallBuffer
  PROVE  AllFit(g, pieces, Len(pieces))
<1>1. PICK n \in Nat : n = Len(pieces) /\ \A j \in 1 .. n : pieces[j] \in Piece
  OBVIOUS
<1>2. SmallBuffer \in Nat /\ MaxNumericSize \in Nat /\ MaxNumericSize > 0
  BY FrontEndAssumption
<1>3. PICK total \in Nat : total = Total(pieces)
  BY <1>1 DEF Sums
<1>4. ASSUME NEW i \in 1 .. n PROVE FitsAt(g[i - 1], pieces[i])
  <2>1. i - 1 \in 0 .. n /\ i \in 0 .. n
    OBVIOUS
  <2>2. PICK a \in Nat : a = g[i - 1]
    BY <1>1, <2>1 DEF Sums
  <2>3. PICK c \in Nat : c = Length(pieces[i])
    BY <1>1, LengthType
  <2>4. g[i] = a + c
    BY <1>1, <2>2, <2>3 DEF Sums
  <2>5. a + c <= total /\ a <= total
    BY <1>1, <1>3, <2>1, <2>2, <2>4, SumsGrow
  <2>6. SmallBuffer - a > c /\ SmallBuffer - a >= MaxNumericSize
    BY <1>2, <1>3, <2>5
  <2> QED
    BY <2>2, <2>3, <2>6 DEF FitsAt
<1> QED
  BY <1>1, <1>4 DEF AllFit

(* So do the pieces of the constructor, however long the statement is. *)
LEMMA HeadFits ==
  ASSUME NEW g, NEW level, NEW pieces, WellMade(level, pieces), Sums(g, pieces)
  PROVE  AllFit(g, pieces, Len(Head0(level)))
<1>1. PICK h : h = Head0(level)
  OBVIOUS
<1>2. /\ h \in Seq(Piece) /\ Len(h) \in {3, 5}
      /\ h[1] = Text(17) /\ h[2] = Text(7) /\ h[3] = Text(6)
      /\ Len(h) = 5 => h[4] = Text(4) /\ h[5] = Text(1)
  BY <1>1, HeadFacts
<1>3. /\ pieces \in Seq(Piece)
      /\ Len(h) <= Len(pieces) /\ \A i \in 1 .. Len(h) : pieces[i] = h[i]
  BY <1>1 DEF WellMade, Agrees
<1>4. PICK n \in Nat : n = Len(pieces)
  BY <1>3
<1>5. /\ g[0] = 0
      /\ \A i \in 1 .. n : g[i] = g[i - 1] + Length(pieces[i])
  BY <1>4 DEF Sums
<1>6. /\ Length(Text(17)) = 17 /\ Length(Text(7)) = 7 /\ Length(Text(6)) = 6
      /\ Length(Text(4)) = 4 /\ Length(Text(1)) = 1
      /\ Text(17).kind = "text" /\ Text(7).kind = "text" /\ Text(6).kind = "text"
      /\ Text(4).kind = "text" /\ Text(1).kind = "text"
  BY TextFacts
<1>7. SmallBuffer \in Nat /\ SmallBuffer > 35
  BY FrontEndAssumption
<1>8. /\ 1 \in 1 .. Len(h) /\ 2 \in 1 .. Len(h) /\ 3 \in 1 .. Len(h)
      /\ 1 \in 1 .. n /\ 2 \in 1 .. n /\ 3 \in 1 .. n
      /\ Len(h) = 5 => /\ 4 \in 1 .. Len(h) /\ 5 \in 1 .. Len(h)
                       /\ 4 \in 1 .. n /\ 5 \in 1 .. n
  BY <1>2, <1>3, <1>4
<1>9. 1 - 1 = 0 /\ 2 - 1 = 1 /\ 3 - 1 = 2 /\ 4 - 1 = 3 /\ 5 - 1 = 4
  OBVIOUS
<1>10. pieces[1] = Text(17) /\ pieces[2] = Text(7) /\ pieces[3] = Text(6)
  BY <1>2, <1>3, <1>8
<1>11. Len(h) = 5 => pieces[4] = Text(4) /\ pieces[5] = Text(1)
  BY <1>2, <1>3, <1>8
<1>12. g[1] = 17
  BY <1>5, <1>6, <1>8, <1>9, <1>10
<1>13. g[2] = 24
  BY <1>5, <1>6, <1>8, <1>9, <1>10, <1>12
<1>14. g[3] = 30
  BY <1>5, <1>6, <1>8, <1>9, <1>10, <1>13
<1>15. Len(h) = 5 => g[4] = 34
  BY <1>5, <1>6, <1>8, <1>9, <1>11, <1>14
<1>16. FitsAt(g[0], pieces[1])
  BY <1>5, <1>6, <1>7, <1>10 DEF FitsAt
<1>17. FitsAt(g[1], pieces[2])
  BY <1>6, <1>7, <1>10, <1>12 DEF FitsAt
<1>18. FitsAt(g[2], pieces[3])
  BY <1>6, <1>7, <1>10, <1>13 DEF FitsAt
<1>19. Len(h) = 5 => FitsAt(g[3], pieces[4])
  BY <1>6, <1>7, <1>11, <1>14 DEF FitsAt
<1>20. Len(h) = 5 => FitsAt(g[4], pieces[5])
  BY <1>6, <1>7, <1>11, <1>15 DEF FitsAt
<1>21. ASSUME NEW i \in 1 .. Len(h) PROVE FitsAt(g[i - 1], pieces[i])
  <2>1. i = 1 \/ i = 2 \/ i = 3 \/ (Len(h) = 5 /\ (i = 4 \/ i = 5))
    <3>1. CASE Len(h) = 3
      BY <3>1
    <3>2. CASE Len(h) = 5
      BY <3>2
    <3> QED
      BY <1>2, <3>1, <3>2
  <2> QED
    BY <1>9, <1>16, <1>17, <1>18, <1>19, <1>20, <2>1
<1> QED
  BY <1>1, <1>21 DEF AllFit

(* What RecordWhole says of one record. *)
Whole(r) ==
  /\ Total(r.stmt.pieces) + MaxNumericSize <= SmallBuffer =>
       r.stream.pieces = r.stmt.pieces
  /\ IsPrefix(Head0(r.stmt.level), r.stream.pieces)
  /\ \A j \in 1 .. Len(r.stream.pieces) :
       r.stream.pieces[j].kind = "number" =>
         ReadBack(FormatInteger(r.stream.pieces[j].value)) = r.stream.pieces[j].value

StatementType ==
  [level : {"none", "DEBUG", "INFO", "WARN", "ERROR", "FATAL"}, pieces : Seq(Piece), at : Nat]

TellerType ==
  [level : {"INFO", "ERROR", "FATAL"}, at : {"idle", "set", "labelled"}, done : Nat]

(* The object of Logger.cc: its level is that of a thread's statement. *)
TellerInv ==
  /\ teller \in [Tellers -> TellerType]
  /\ \E t \in Tellers : level_ = teller[t].level

(* A statement under way: what is in the buffer is what was streamed so far. *)
UnderWay(st, s) ==
  /\ st.at \in 1 .. Len(st.pieces) + 1 /\ WellMade(st.level, st.pieces)
  /\ \E g : Sums(g, st.pieces) /\ Streamed(g, st.pieces, st.at - 1, s)

StreamInv ==
  /\ stmt \in StatementType /\ stream \in StreamType
  /\ stmt # NoStmt => UnderWay(stmt, stream)
  /\ told \in Seq([stmt : StatementType, stream : StreamType])
  /\ \A i \in 1 .. Len(told) : Whole(told[i])

FrontInv == TellerInv /\ StreamInv

(* Before a statement the buffer is empty. *)
LEMMA Empty == EmptyStream \in StreamType /\ NoStmt \in StatementType
<1>1. <<>> \in Seq(Piece)
  OBVIOUS
<1>2. 0 \in 0 .. SmallBuffer - 1
  BY FrontEndAssumption
<1>3. EmptyStream \in StreamType
  BY <1>1, <1>2 DEF EmptyStream, StreamType
<1>4. NoStmt \in StatementType
  BY <1>1 DEF NoStmt, StatementType
<1> QED
  BY <1>3, <1>4

(* The statement begins with an empty buffer. *)
LEMMA BeginsEmpty ==
  ASSUME NEW g, NEW pieces \in Seq(Piece), Sums(g, pieces)
  PROVE  Streamed(g, pieces, 0, EmptyStream)
<1>1. EmptyStream.cur = 0 /\ EmptyStream.pieces = <<>>
  BY DEF EmptyStream
<1>2. Len(<<>>) = 0
  OBVIOUS
<1>3. g[0] = 0
  BY DEF Sums
<1>4. \A upto \in 0 .. 0 : upto = 0
  OBVIOUS
<1>5. Agrees(EmptyStream.pieces, pieces, 0)
  BY <1>1, <1>2 DEF Agrees
<1> QED
  BY <1>1, <1>2, <1>3, <1>4, <1>5 DEF Streamed

(* A statement that is finished makes a whole record. *)
LEMMA RecordIsWhole ==
  ASSUME NEW st \in StatementType, NEW s \in StreamType, UnderWay(st, s),
         st.at = Len(st.pieces) + 1
  PROVE  Whole([stmt |-> st, stream |-> s])
<1>1. PICK pieces \in Seq(Piece) : pieces = st.pieces
  BY DEF StatementType
<1>2. PICK got \in Seq(Piece) : got = s.pieces
  BY DEF StreamType
<1>3. PICK n \in Nat : n = Len(pieces)
  OBVIOUS
<1>4. PICK m \in Nat : m = Len(got)
  OBVIOUS
<1>5. WellMade(st.level, pieces)
  BY <1>1 DEF UnderWay
<1>6. st.at - 1 = n
  BY <1>1, <1>3
<1>7. PICK g : Sums(g, pieces) /\ Streamed(g, pieces, n, s)
  BY <1>1, <1>6 DEF UnderWay
<1>8. \A upto \in 0 .. n :
        AllFit(g, pieces, upto) => /\ Agrees(got, pieces, upto)
                                   /\ upto = n => m = upto
  BY <1>2, <1>4, <1>7 DEF Streamed
<1>9. Total(pieces) + MaxNumericSize <= SmallBuffer => got = pieces
  <2> SUFFICES ASSUME Total(pieces) + MaxNumericSize <= SmallBuffer PROVE got = pieces
    OBVIOUS
  <2>1. AllFit(g, pieces, n)
    BY <1>3, <1>7, WholeFits
  <2>2. n \in 0 .. n
    OBVIOUS
  <2>3. Agrees(got, pieces, n) /\ m = n
    BY <1>8, <2>1, <2>2
  <2>4. \A i \in 1 .. n : got[i] = pieces[i]
    BY <2>3 DEF Agrees
  <2> QED
    BY <1>3, <1>4, <2>3, <2>4, SeqEqual
<1>10. PICK h \in Seq(Piece) : h = Head0(st.level)
  BY HeadFacts
<1>11. PICK upto \in Nat : upto = Len(h)
  OBVIOUS
<1>12. upto <= m /\ \A i \in 1 .. upto : got[i] = h[i]
  <2>1. upto <= n /\ \A i \in 1 .. upto : pieces[i] = h[i]
    BY <1>3, <1>5, <1>10, <1>11 DEF WellMade, Agrees
  <2>2. AllFit(g, pieces, upto)
    BY <1>5, <1>7, <1>10, <1>11, HeadFits
  <2>3. upto \in 0 .. n
    BY <2>1
  <2>4. Agrees(got, pieces, upto)
    BY <1>8, <2>2, <2>3
  <2>5. upto <= m /\ \A i \in 1 .. upto : got[i] = pieces[i]
    BY <1>4, <2>4 DEF Agrees
  <2> QED
    BY <2>1, <2>5
<1>13. IsPrefix(h, got)
  <2>1. SubSeq(h, 1, upto) = [i \in 1 .. upto |-> h[i]]
    BY <1>11
  <2>2. SubSeq(got, 1, upto) = [i \in 1 .. upto |-> got[i]]
    BY <1>4, <1>12
  <2>3. SubSeq(h, 1, upto) = SubSeq(got, 1, upto)
    BY <1>12, <2>1, <2>2
  <2> QED
    BY <1>4, <1>11, <1>12, <2>3 DEF IsPrefix
<1>14. ASSUME NEW j \in 1 .. m, got[j].kind = "number"
       PROVE  ReadBack(FormatInteger(got[j].value)) = got[j].value
  <2>1. got[j] \in Piece
    BY <1>4
  <2>2. got[j].value \in Int
    BY <1>14, <2>1 DEF Piece
  <2> QED
    BY <2>2, ReadsAsItself
<1>15. PICK r : r = [stmt |-> st, stream |-> s]
  OBVIOUS
<1>16. r.stmt = st /\ r.stream = s
  BY <1>15
<1>17. Whole(r)
  BY <1>1, <1>2, <1>4, <1>9, <1>10, <1>13, <1>14, <1>16 DEF Whole
<1> QED
  BY <1>15, <1>17

(* FrontInv holds before the first statement. *)
LEMMA FrontStart == FrontInit => FrontInv
<1> SUFFICES ASSUME FrontInit PROVE FrontInv
  OBVIOUS
<1>1. TellerInv
  <2>1. \A t \in Tellers : teller[t].level = "INFO"
    BY DEF FrontInit
  <2>2. teller \in [Tellers -> TellerType]
    BY DEF FrontInit, TellerType
  <2>3. PICK t : t \in Tellers
    BY FrontEndAssumption
  <2>4. level_ = "INFO"
    BY DEF FrontInit
  <2> QED
    BY <2>1, <2>2, <2>3, <2>4 DEF TellerInv
<1>2. StreamInv
  <2>1. stmt = NoStmt /\ stream = EmptyStream /\ told = <<>>
    BY DEF FrontInit
  <2>2. told \in Seq([stmt : StatementType, stream : StreamType]) /\ Len(told) = 0
    BY <2>1
  <2> QED
    BY <2>1, <2>2, Empty DEF StreamInv
<1> QED
  BY <1>1, <1>2 DEF FrontInv

(* The threads of Logger.cc: a thread that sets the level makes it its own;   *)
(* no thread's level changes otherwise.                                       *)
LEMMA TellerStep == TellerInv /\ TellerNext => TellerInv'
<1> SUFFICES ASSUME TellerInv, TellerNext PROVE TellerInv'
  OBVIOUS
<1>1. PICK t \in Tellers : Tell(t) \/ Label(t) \/ Message(t)
  BY DEF TellerNext
<1>2. teller \in [Tellers -> TellerType] /\ teller[t] \in TellerType
  BY DEF TellerInv
<1>3. PICK u \in Tellers : level_ = teller[u].level
  BY DEF TellerInv
<1>4. CASE Tell(t)
  <2>1. PICK l \in {"INFO", "ERROR", "FATAL"} :
          /\ level_' = l
          /\ teller' = [teller EXCEPT ![t].level = l,
                          ![t].at = IF l = "INFO" THEN "idle" ELSE "set",
                          ![t].done = @ + 1]
    BY <1>4 DEF Tell
  <2>2. teller' \in [Tellers -> TellerType] /\ teller'[t].level = l
    BY <1>2, <2>1 DEF TellerType
  <2> QED
    BY <2>1, <2>2 DEF TellerInv
<1>5. CASE Label(t)
  <2>1. level_' = level_ /\ teller' = [teller EXCEPT ![t].at = "labelled"]
    BY <1>5 DEF Label
  <2>2. teller' \in [Tellers -> TellerType] /\ teller'[u].level = teller[u].level
    BY <1>2, <2>1 DEF TellerType
  <2> QED
    BY <1>3, <2>1, <2>2 DEF TellerInv
<1>6. CASE Message(t)
  <2>1. level_' = level_ /\ teller' = [teller EXCEPT ![t].at = "idle"]
    BY <1>6 DEF Message
  <2>2. teller' \in [Tellers -> TellerType] /\ teller'[u].level = teller[u].level
    BY <1>2, <2>1 DEF TellerType
  <2> QED
    BY <1>3, <2>1, <2>2 DEF TellerInv
<1> QED
  BY <1>1, <1>4, <1>5, <1>6

(* The statement of Logging.cc. *)
LEMMA StatementStep == StreamInv /\ Statement => StreamInv'
<1> SUFFICES ASSUME StreamInv, Statement PROVE StreamInv'
  OBVIOUS
<1>1. PICK l \in {"DEBUG", "INFO", "WARN", "ERROR", "FATAL"}, msg \in Messages :
        stmt' = [level |-> l, pieces |-> Head0(l) \o msg \o Finish, at |-> 1]
  BY DEF Statement
<1>2. PICK pieces : pieces = Head0(l) \o msg \o Finish
  OBVIOUS
<1>3. WellMade(l, pieces)
  BY <1>2, StatementWellMade
<1>4. pieces \in Seq(Piece)
  BY <1>3 DEF WellMade
<1>5. stmt' = [level |-> l, pieces |-> pieces, at |-> 1]
  BY <1>1, <1>2
<1>6. stmt'.level = l /\ stmt'.pieces = pieces /\ stmt'.at = 1
  BY <1>5
<1>7. stmt' \in StatementType
  BY <1>4, <1>5 DEF StatementType
<1>8. stream' = EmptyStream /\ told' = told
  BY DEF Statement
<1>9. PICK g : Sums(g, pieces)
  BY <1>4, SumsExist
<1>10. Streamed(g, pieces, 0, stream')
  BY <1>4, <1>8, <1>9, BeginsEmpty
<1>11. 1 \in 1 .. Len(pieces) + 1 /\ 1 - 1 = 0
  BY <1>4
<1>12. UnderWay(stmt', stream')
  BY <1>3, <1>6, <1>9, <1>10, <1>11 DEF UnderWay
<1> QED
  BY <1>7, <1>8, <1>12, Empty DEF StreamInv

(* One operator<<. *)
LEMMA PutStep == StreamInv /\ Put => StreamInv'
<1> SUFFICES ASSUME StreamInv, Put PROVE StreamInv'
  OBVIOUS
<1>1. stmt \in StatementType /\ stream \in StreamType
  BY DEF StreamInv
<1>2. PICK pieces \in Seq(Piece) : pieces = stmt.pieces
  BY <1>1 DEF StatementType
<1>3. PICK i \in 1 .. Len(pieces) : i = stmt.at
  BY <1>2 DEF Put
<1>4. stmt # NoStmt
  <2>1. NoStmt.at = 0 /\ i # 0
    BY DEF NoStmt
  <2> QED
    BY <1>3, <2>1
<1>5. UnderWay(stmt, stream)
  BY <1>4 DEF StreamInv
<1>6. WellMade(stmt.level, pieces)
  BY <1>2, <1>5 DEF UnderWay
<1>7. PICK g : Sums(g, pieces) /\ Streamed(g, pieces, i - 1, stream)
  BY <1>2, <1>3, <1>5 DEF UnderWay
<1>8. stream' = Stream(stream, pieces[i])
  BY <1>2, <1>3 DEF Put
<1>9. Sized(pieces[i])
  BY <1>6 DEF WellMade
<1>10. stream' \in StreamType /\ Streamed(g, pieces, i, stream')
  BY <1>1, <1>7, <1>8, <1>9, OnePiece
<1>11. stmt' = [stmt EXCEPT !.at = @ + 1] /\ told' = told
  BY DEF Put
<1>12. /\ stmt' \in StatementType /\ stmt'.at = i + 1 /\ stmt'.pieces = pieces
       /\ stmt'.level = stmt.level
  BY <1>1, <1>2, <1>3, <1>11 DEF StatementType
<1>13. i + 1 \in 1 .. Len(pieces) + 1 /\ (i + 1) - 1 = i
  BY <1>2
<1>14. UnderWay(stmt', stream')
  BY <1>6, <1>7, <1>10, <1>12, <1>13 DEF UnderWay
<1> QED
  BY <1>10, <1>11, <1>12, <1>14 DEF StreamInv

(* ~Logger() *)
LEMMA DeleteStep == StreamInv /\ DeleteLogger => StreamInv'
<1> SUFFICES ASSUME StreamInv, DeleteLogger PROVE StreamInv'
  OBVIOUS
<1>1. stmt \in StatementType /\ stream \in StreamType
  BY DEF StreamInv
<1>2. UnderWay(stmt, stream) /\ stmt.at = Len(stmt.pieces) + 1
  BY DEF StreamInv, DeleteLogger
<1>3. PICK r \in [stmt : StatementType, stream : StreamType] :
        r = [stmt |-> stmt, stream |-> stream]
  BY <1>1
<1>4. Whole(r)
  BY <1>1, <1>2, <1>3, RecordIsWhole
<1>5. PICK had \in Seq([stmt : StatementType, stream : StreamType]) : had = told
  BY DEF StreamInv
<1>6. \A i \in 1 .. Len(had) : Whole(had[i])
  BY <1>5 DEF StreamInv
<1>7. PICK n \in Nat : n = Len(had)
  OBVIOUS
<1>8. PICK more : more = Append(had, r)
  OBVIOUS
<1>9. /\ more \in Seq([stmt : StatementType, stream : StreamType])
      /\ Len(more) = n + 1 /\ more[n + 1] = r /\ \A i \in 1 .. n : more[i] = had[i]
  BY <1>7, <1>8, AppendProperties
<1>10. \A i \in 1 .. n + 1 : i \in 1 .. n \/ i = n + 1
  OBVIOUS
<1>11. \A i \in 1 .. Len(more) : Whole(more[i])
  BY <1>4, <1>6, <1>7, <1>9, <1>10
<1>12. told' = more /\ stmt' = NoStmt /\ stream' = EmptyStream
  BY <1>3, <1>5, <1>8 DEF DeleteLogger
<1> QED
  BY <1>9, <1>11, <1>12, Empty DEF StreamInv

(* Every step of either front end keeps FrontInv. *)
LEMMA FrontKept == FrontInv /\ [FrontNext]_frontVars => FrontInv'
<1> SUFFICES ASSUME FrontInv, [FrontNext]_frontVars PROVE FrontInv'
  OBVIOUS
<1>1. ASSUME UNCHANGED tellerVars PROVE TellerInv'
  BY <1>1 DEF FrontInv, TellerInv, tellerVars
<1>2. ASSUME stmt' = stmt, stream' = stream, told' = told PROVE StreamInv'
  BY <1>2 DEF FrontInv, StreamInv
<1>3. ASSUME UNCHANGED streamVars PROVE StreamInv'
  BY <1>2, <1>3 DEF streamVars
<1>4. CASE StreamNext /\ UNCHANGED tellerVars
  <2>1. ASSUME SetLogLevel PROVE StreamInv'
    <3>1. stmt' = stmt /\ stream' = stream /\ told' = told
      BY <2>1 DEF SetLogLevel
    <3> QED
      BY <1>2, <3>1
  <2>2. StreamNext => SetLogLevel \/ Statement \/ Put \/ DeleteLogger
    BY DEF StreamNext
  <2>3. StreamInv'
    BY <1>4, <2>1, <2>2, StatementStep, PutStep, DeleteStep DEF FrontInv
  <2> QED
    BY <1>1, <1>4, <2>3 DEF FrontInv
<1>5. CASE TellerNext /\ UNCHANGED streamVars
  BY <1>3, <1>5, TellerStep DEF FrontInv
<1>6. CASE UNCHANGED frontVars
  <2>1. UNCHANGED tellerVars /\ UNCHANGED streamVars
    BY <1>6 DEF frontVars
  <2> QED
    BY <1>1, <1>3, <2>1 DEF FrontInv
<1> QED
  BY <1>4, <1>5, <1>6 DEF FrontNext

(* For every size of the buffer, all messages of pieces and all threads: no   *)
(* statement of logger/Logging.cc overruns its FixedBuffer; a record is       *)
(* complete when its statement leaves room for a number and has its time and  *)
(* level always; formatInteger() writes every number so that it reads as      *)
(* itself; and the level that Logger.cc holds is a thread's latest.           *)
THEOREM RecordsAreWhole == FrontSpec => []RecordWhole
<1>1. FrontInv => RecordWhole
  <2> SUFFICES ASSUME FrontInv PROVE RecordWhole
    OBVIOUS
  <2>1. stream.cur < SmallBuffer
    <3>1. stream.cur \in 0 .. SmallBuffer - 1 /\ SmallBuffer \in Nat
      BY FrontEndAssumption DEF FrontInv, StreamInv, StreamType
    <3> QED
      BY <3>1
  <2>2. \E t \in Tellers : level_ = teller[t].level
    BY DEF FrontInv, TellerInv
  <2>3. \A i \in 1 .. Len(told) : Whole(told[i])
    BY DEF FrontInv, StreamInv
  <2> QED
    BY <2>1, <2>2, <2>3 DEF RecordWhole, Whole
<1> QED
  BY <1>1, FrontStart, FrontKept, PTL DEF FrontSpec

=============================================================================
