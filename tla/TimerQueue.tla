------------------------------ MODULE TimerQueue ------------------------------
(***************************************************************************)
(* timer/TimerQueue.cc, Timer.cc and Timestamp: the timers of a loop,       *)
(* ordered by expiration, and the one timerfd that wakes the loop for the   *)
(* earliest of them.                                                        *)
(*                                                                          *)
(* clock is the real time in microseconds, Second of them to a second.      *)
(* Timestamp::now() is time(NULL): whole seconds, kept in a field that all  *)
(* other code reads as microseconds.  A user constructs the queue on a loop *)
(* and calls addTimer() from another thread, or from a timer's callback.    *)
(***************************************************************************)
EXTENDS Integers, Sequences, SequencesExt, FiniteSets, FiniteSetsExt

CONSTANTS Timers,     \* the Timer objects, by address
          Second,     \* kMicroSecondsPerSecond
          MinDelay,   \* the least delay given to the timerfd
          Delays,     \* waiting times, in microseconds
          Intervals,  \* intervals, in microseconds; 0: not repeated
          MaxClock,   \* bound: the time
          MaxRuns     \* bound: callbacks run

ASSUME TimerAssumption ==
  /\ Timers \subseteq Nat /\ Second \in Nat \ {0} /\ MinDelay \in Nat \ {0}
  /\ Delays \subseteq Nat /\ Intervals \subseteq Nat
  /\ MaxClock \in Nat /\ MaxRuns \in Nat

VARIABLES
  clock,
  timer,     \* the Timer objects: expiration_, interval_ and a life cycle
  timers,    \* timers_
  timerfd,   \* when the timerfd expires; Disarmed when it will not
  lpc,       \* the loop: in epoll_wait, or in a part of handleRead()
  expired,   \* the entries handleRead() took out
  at,        \* the one of them that is handled next
  adding,    \* the timer a callback is about to add
  ran        \* history: the callbacks run, with the time now() gave

queue     == <<timer, timers, timerfd>>
timerVars == <<clock, queue, lpc, expired, at, adding, ran>>

Disarmed == -1
NoTimer  == -1

(* The life of a Timer: not there, between new and addTimerInLoop(), owned  *)
(* by the queue, deleted.                                                   *)
Lives == {"none", "new", "live", "deleted"}

-----------------------------------------------------------------------------
(* Timestamp *)

Now == clock \div Second

AddTime(timestamp, microseconds) == timestamp + microseconds

-----------------------------------------------------------------------------
(* Entry: a pair ordered by time and then by address *)

Before(a, b) == \/ a.when < b.when
                \/ a.when = b.when /\ a.timer < b.timer

Earliest(set) == CHOOSE e \in set : \A f \in set \ {e} : Before(e, f)

EntryOf(t) == [when |-> timer[t].expiration, timer |-> t]

(* The time the timerfd is set to for an expiration. *)
ResetTimerfd(expiration) == clock + Max({MinDelay, expiration - Now})

(* insert(): whether the new entry is the first one now. *)
EarliestChanged(set, e) == set = {} \/ e.when < Earliest(set).when

TimerInit ==
  /\ clock = 0
  /\ timer = [t \in Timers |-> [life |-> "none", expiration |-> 0, interval |-> 0]]
  /\ timers = {} /\ timerfd = Disarmed
  /\ lpc = "poll" /\ expired = <<>> /\ at = 1 /\ adding = NoTimer
  /\ ran = <<>>

(* Real time passes, whatever the threads do. *)
Tick == /\ clock < MaxClock
        /\ clock' = clock + 1
        /\ UNCHANGED <<queue, lpc, expired, at, adding, ran>>

-----------------------------------------------------------------------------
(* runAfter() and runEvery() compute the expiration before the timer is on  *)
(* its way; getchar() in addTimer() then keeps it there for any time.       *)
NewTimer(t) ==
  /\ timer[t].life = "none"
  /\ \E delay \in Delays, interval \in Intervals :
       timer' = [timer EXCEPT ![t] = [life |-> "new", interval |-> interval,
                                      expiration |-> AddTime(Now, delay)]]
  /\ UNCHANGED <<clock, timers, timerfd, ran, expired, at>>

AddTimer(t) == lpc # "gone" /\ NewTimer(t) /\ UNCHANGED <<lpc, adding>>

(* addTimerInLoop(): the timerfd is set again if the timer is the first. *)
AddTimerInLoop(t) ==
  /\ timer' = [timer EXCEPT ![t].life = "live"]
  /\ timers' = timers \union {EntryOf(t)}
  /\ timerfd' = IF EarliestChanged(timers, EntryOf(t))
                  THEN ResetTimerfd(timer[t].expiration) ELSE timerfd

(* The functor that runInLoop() handed to the loop. *)
AddFunctor(t) ==
  /\ lpc = "poll" /\ timer[t].life = "new"
  /\ AddTimerInLoop(t)
  /\ UNCHANGED <<clock, lpc, expired, at, adding, ran>>

-----------------------------------------------------------------------------
(* handleRead() *)

Fired == timerfd # Disarmed /\ clock >= timerfd

(* Fault: the next second counts as now. *)
GetExpiredEarly(now) == {e \in timers : e.when <= now + 1}

(* getExpired(): the entries before (now, the highest address). *)
GetExpired(now) == {e \in timers : e.when <= now}

(* The lists of a set of entries in the order of std::set: there is one. *)
InOrder(set) ==
  {s \in SetToSeqs(set) : \A i \in 1 .. Len(s) - 1 : Before(s[i], s[i + 1])}

(* ReadTimerFd() disarms a timerfd without an interval. *)
HandleRead ==
  /\ lpc = "poll" /\ Fired
  /\ timerfd' = Disarmed
  /\ expired' \in InOrder(GetExpired(Now))
  /\ timers' = timers \ GetExpired(Now)
  /\ lpc' = IF expired' = <<>> THEN "poll" ELSE "run"
  /\ at' = 1
  /\ UNCHANGED <<clock, timer, adding, ran>>

(* Timer::run() *)
Run ==
  /\ lpc = "run" /\ at <= Len(expired) /\ adding = NoTimer
  /\ Len(ran) < MaxRuns
  /\ ran' = Append(ran, [timer |-> expired[at].timer, now |-> Now,
                         life |-> timer[expired[at].timer].life,
                         when |-> expired[at].when])
  /\ at' = at + 1
  /\ UNCHANGED <<clock, queue, lpc, expired, adding>>

(* A callback adds a timer: on the loop thread runInLoop() runs at once.    *)
RunAdds(t) ==
  /\ lpc = "run" /\ at > 1 /\ adding = NoTimer
  /\ NewTimer(t)
  /\ adding' = t
  /\ UNCHANGED lpc

RunAdded ==
  /\ adding # NoTimer
  /\ AddTimerInLoop(adding)
  /\ adding' = NoTimer
  /\ UNCHANGED <<clock, lpc, expired, at, ran>>

RunDone ==
  /\ lpc = "run" /\ at > Len(expired) /\ adding = NoTimer
  /\ lpc' = "reset" /\ at' = 1
  /\ UNCHANGED <<clock, queue, expired, adding, ran>>

(* Timer::restart() *)
Restart(t) == AddTime(Now, timer[t].interval)

(* Fault: a timer that repeats is inserted under its old expiration. *)
ResetOldKey ==
  /\ lpc = "reset" /\ at <= Len(expired)
  /\ LET t == expired[at].timer IN
       /\ IF timer[t].interval > 0
            THEN /\ timer' = [timer EXCEPT ![t].expiration = Restart(t)]
                 /\ timers' = timers \union {EntryOf(t)}
            ELSE /\ timer' = [timer EXCEPT ![t].life = "deleted"]
                 /\ UNCHANGED timers
       /\ timerfd' = IF timers' = {} THEN timerfd
                     ELSE ResetTimerfd(Earliest(timers').when)
  /\ at' = at + 1
  /\ UNCHANGED <<clock, lpc, expired, adding, ran>>

(* One turn of the loop of reset(): a timer that repeats is inserted again, *)
(* any other deleted, and the timerfd is set for the first entry.  When     *)
(* nothing had expired there is no turn, and the timerfd stays disarmed.    *)
ResetOne ==
  /\ lpc = "reset" /\ at <= Len(expired)
  /\ LET t == expired[at].timer IN
       /\ IF timer[t].interval > 0
            THEN /\ timer' = [timer EXCEPT ![t].expiration = Restart(t)]
                 /\ timers' = timers \union {[when |-> Restart(t), timer |-> t]}
            ELSE /\ timer' = [timer EXCEPT ![t].life = "deleted"]
                 /\ UNCHANGED timers
       /\ timerfd' = IF timers' = {} THEN timerfd
                     ELSE ResetTimerfd(timer'[Earliest(timers').timer].expiration)
  /\ at' = at + 1
  /\ UNCHANGED <<clock, lpc, expired, adding, ran>>

ResetDone ==
  /\ lpc = "reset" /\ at > Len(expired)
  /\ lpc' = "poll" /\ expired' = <<>> /\ at' = 1
  /\ UNCHANGED <<clock, queue, adding, ran>>

(* ~TimerQueue(), with its loop: every Timer in the queue is deleted. *)
DestroyQueue ==
  /\ lpc = "poll"
  /\ timer' = [t \in Timers |-> IF \E e \in timers : e.timer = t
                                THEN [timer[t] EXCEPT !.life = "deleted"] ELSE timer[t]]
  /\ timers' = {} /\ timerfd' = Disarmed /\ lpc' = "gone"
  /\ UNCHANGED <<clock, expired, at, adding, ran>>

LoopStep == \/ HandleRead \/ Run \/ RunAdded \/ RunDone \/ ResetOne \/ ResetDone
            \/ \E t \in Timers : AddFunctor(t)

TimerNext == \/ Tick \/ LoopStep \/ DestroyQueue
             \/ \E t \in Timers : AddTimer(t) \/ RunAdds(t)

TimerSafeSpec == TimerInit /\ [][TimerNext]_timerVars

(* Time passes and the loop is scheduled; nobody has to add a timer. *)
TimerSpec == TimerSafeSpec /\ WF_timerVars(Tick) /\ WF_timerVars(LoopStep)

-----------------------------------------------------------------------------
InHand == IF lpc \in {"poll", "gone"} THEN {}
          ELSE {expired[i].timer : i \in (IF lpc = "reset" THEN at ELSE 1) .. Len(expired)}

(* A live timer is in exactly one place: once in the queue, under its own    *)
(* expiration, or once in the hands of handleRead(); what is in either was   *)
(* not deleted, so run() and reset() never touch a freed Timer, and the      *)
(* destructor of the queue, which deletes what is in it, frees the rest.     *)
TimersAgree ==
  /\ \A e \in timers : timer[e.timer].life = "live" /\ e = EntryOf(e.timer)
  /\ \A t \in InHand : timer[t].life = "live"
  /\ lpc = "gone" => \A t \in Timers : timer[t].life # "live"
  /\ \A t \in Timers : timer[t].life = "live" =>
       Cardinality({e \in timers : e.timer = t}) = (IF t \in InHand THEN 0 ELSE 1)

(* No callback runs before the time its timer was set to; one that does not  *)
(* repeat runs once, and callbacks of one handleRead() run by their times.   *)
RunWhenDue ==
  /\ \A i \in 1 .. Len(ran) : ran[i].when <= ran[i].now /\ ran[i].life = "live"
  /\ \A i, j \in 1 .. Len(ran) :
       i < j /\ ran[i].timer = ran[j].timer => timer[ran[i].timer].interval > 0
  /\ \A i \in 1 .. Len(expired) - 1 : Before(expired[i], expired[i + 1])

TimerDue(t) == timer[t].life = "live" /\ timer[t].expiration <= Now

(* "When a timer expires its callback has to be called": a live timer whose  *)
(* time has come is run, unless the queue is destroyed (or the bound on the  *)
(* callbacks is reached).                                                    *)
DueTimerRuns ==
  \A t \in Timers : TimerDue(t) ~> (\E i \in 1 .. Len(ran) : ran[i].timer = t)
                                   \/ Len(ran) = MaxRuns \/ lpc = "gone"
=============================================================================
