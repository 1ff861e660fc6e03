---------------------------- MODULE ChannelPoller ----------------------------
(***************************************************************************)
(* A Channel as EPollPoller sees it (muduo_core/Channel.h, EPollPoller.cc): *)
(* the events it asks for, the index_ the poller keeps in it, and what the  *)
(* kernel's epoll set holds for its descriptor.                             *)
(*   ch.events   events_, a subset of {"read", "write"}                     *)
(*   ch.index    index_                                                     *)
(*   ch.inEpoll  whether the epoll set holds the descriptor                 *)
(*   ch.mask     the interest registered with it                            *)
(*   ch.errors   the epoll_ctl() calls that failed                          *)
(***************************************************************************)
EXTENDS Naturals

NewChannel == [events |-> {}, index |-> "kNew", inEpoll |-> FALSE, mask |-> {},
               errors |-> {}]

(* epoll_ctl(): ADD fails when the descriptor is registered, MOD and DEL    *)
(* when it is not.  A failed ADD or MOD is LOG_FATAL.                       *)
EpollCtl(ch, op) ==
  CASE op = "ADD" /\ ~ch.inEpoll -> [ch EXCEPT !.inEpoll = TRUE, !.mask = ch.events]
    [] op = "MOD" /\ ch.inEpoll  -> [ch EXCEPT !.mask = ch.events]
    [] op = "DEL" /\ ch.inEpoll  -> [ch EXCEPT !.inEpoll = FALSE, !.mask = {}]
    [] OTHER                     -> [ch EXCEPT !.errors = @ \union {op}]

(* Fault: index_ is not set to kDeleted when the interest becomes empty. *)
UpdateChannelKeepsIndex(ch) ==
  IF ch.index \in {"kNew", "kDeleted"}
    THEN [EpollCtl(ch, "ADD") EXCEPT !.index = "kAdded"]
    ELSE IF ch.events = {}
      THEN EpollCtl(ch, "DEL")
      ELSE EpollCtl(ch, "MOD")

(* updateChannel(): a channel that is not in the epoll set is added, even   *)
(* with no events; one that is there and asks for nothing is deleted.       *)
UpdateChannel(ch) ==
  IF ch.index \in {"kNew", "kDeleted"}
    THEN [EpollCtl(ch, "ADD") EXCEPT !.index = "kAdded"]
    ELSE IF ch.events = {}
      THEN [EpollCtl(ch, "DEL") EXCEPT !.index = "kDeleted"]
      ELSE EpollCtl(ch, "MOD")

(* removeChannel() *)
RemoveChannel(ch) ==
  [(IF ch.index = "kAdded" THEN EpollCtl(ch, "DEL") ELSE ch)
     EXCEPT !.index = "kNew"]

(* enableReading() and its companions: change events_, then update(). *)
SetEvents(ch, evs) == UpdateChannel([ch EXCEPT !.events = evs])

Enable(ch, e)  == SetEvents(ch, ch.events \union {e})
Disable(ch, e) == SetEvents(ch, ch.events \ {e})
DisableAll(ch) == SetEvents(ch, {})

IsWriting(ch) == "write" \in ch.events
=============================================================================
