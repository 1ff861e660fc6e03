------------------------- MODULE TcpConnectionProofs -------------------------
(***************************************************************************)
(* Proofs about TcpConnection, for replies of any length, any number of     *)
(* requests, with and without foreign threads and inference: the poller     *)
(* agrees with the kernel, the stream goes out in order, and the connection *)
(* is destroyed once.                                                       *)
(***************************************************************************)
EXTENDS TcpConnection, SequenceFacts, TLAPS

-----------------------------------------------------------------------------
(* The poller's operations on one channel *)

(* The part of PollerAgrees that every operation on a channel keeps. *)
ChannelOK(ch) == /\ ch.errors = {}
                 /\ ch.index = "kAdded" <=> ch.inEpoll
                 /\ ch.inEpoll => ch.mask = ch.events

(* enableReading(), disableAll() and the others keep the books in order: a  *)
(* channel that asks for something is registered with that interest, one    *)
(* that was registered and asks for nothing is not any more.                *)
LEMMA SetEventsFacts ==
  ASSUME NEW ch \in ChannelType, ChannelOK(ch), NEW evs \in Interests,
         NEW c, c = SetEvents(ch, evs)
  PROVE  /\ c \in ChannelType /\ ChannelOK(c) /\ c.events = evs
         /\ evs # {} => c.inEpoll
         /\ evs = {} /\ ch.inEpoll => ~c.inEpoll
<1> DEFINE d == [ch EXCEPT !.events = evs]
<1>1. /\ d \in ChannelType /\ d.events = evs /\ d.errors = {}
      /\ d.index = ch.index /\ d.inEpoll = ch.inEpoll /\ c = UpdateChannel(d)
  BY DEF ChannelType, SetEvents, ChannelOK
<1> HIDE DEF d
<1>2. CASE d.index # "kAdded"
  <2>1. ~d.inEpoll /\ d.index \in {"kNew", "kDeleted"}
    BY <1>1, <1>2 DEF ChannelOK, ChannelType
  <2>2. c = [d EXCEPT !.inEpoll = TRUE, !.mask = d.events, !.index = "kAdded"]
    BY <1>1, <2>1 DEF UpdateChannel, EpollCtl
  <2> QED
    BY <1>1, <1>2, <2>1, <2>2 DEF ChannelType, ChannelOK
<1>3. CASE d.index = "kAdded" /\ evs = {}
  <2>1. c = [d EXCEPT !.inEpoll = FALSE, !.mask = {}, !.index = "kDeleted"]
    BY <1>1, <1>3 DEF UpdateChannel, EpollCtl, ChannelOK
  <2> QED
    BY <1>1, <1>3, <2>1 DEF ChannelType, ChannelOK, Interests
<1>4. CASE d.index = "kAdded" /\ evs # {}
  <2>1. c = [d EXCEPT !.mask = d.events]
    BY <1>1, <1>4 DEF UpdateChannel, EpollCtl, ChannelOK
  <2> QED
    BY <1>1, <1>4, <2>1 DEF ChannelType, ChannelOK
<1> QED
  BY <1>2, <1>3, <1>4

(* removeChannel() takes the channel out and leaves what it asks for. *)
LEMMA RemoveChannelFacts ==
  ASSUME NEW ch \in ChannelType, ChannelOK(ch), NEW c, c = RemoveChannel(ch)
  PROVE  c \in ChannelType /\ ChannelOK(c) /\ c.events = ch.events /\ ~c.inEpoll
<1>1. CASE ch.index = "kAdded"
  <2>1. c = [ch EXCEPT !.inEpoll = FALSE, !.mask = {}, !.index = "kNew"]
    BY <1>1 DEF RemoveChannel, EpollCtl, ChannelOK, ChannelType
  <2> QED
    BY <1>1, <2>1 DEF ChannelType, ChannelOK, Interests
<1>2. CASE ch.index # "kAdded"
  <2>1. c = [ch EXCEPT !.index = "kNew"]
    BY <1>2 DEF RemoveChannel
  <2> QED
    BY <1>2, <2>1 DEF ChannelType, ChannelOK
<1> QED
  BY <1>1, <1>2

-----------------------------------------------------------------------------
(* The operations of the connection *)

(* A reply is a sequence of ReplyLen units. *)
LEMMA ReplyFacts ==
  ASSUME NEW k \in Nat
  PROVE  Reply(k) \in Seq(Units) /\ Len(Reply(k)) = ReplyLen
BY ConnectionAssumption DEF Reply, Units

(* What sendInLoop() does to the stream and the channel. *)
LEMMA SendFacts ==
  ASSUME TypeOK, ChannelOK(channel), SendInLoop
  PROVE  /\ sends' \in Nat /\ epipe' \in SUBSET {"own", "peer"}
         /\ peer' \in {"open", "fin", "reset", "gone"}
         /\ sent' \in Seq(Units) /\ wire' \in Seq(Units) /\ out' \in Seq(Units)
         /\ channel' \in ChannelType /\ ChannelOK(channel')
         /\ ~wrShut /\ "own" \notin epipe => "own" \notin epipe'
         /\ \/ UNCHANGED <<channel, out, wire, sent>>
            \/ /\ ~(~IsWriting(channel) /\ out = <<>> /\ Broken)
               /\ sent = wire \o out => sent' = wire' \o out'
               /\ \/ /\ out' = <<>> /\ out = <<>> /\ ~IsWriting(channel)
                     /\ UNCHANGED channel
                  \/ /\ out' # <<>> /\ IsWriting(channel) /\ UNCHANGED channel
                  \/ /\ out' # <<>>
                     /\ channel' = Enable(channel, "write")
<1> DEFINE msg == Reply(sends + 1)
           direct == ~IsWriting(channel) /\ out = <<>>
<1>1. /\ msg \in Seq(Units) /\ Len(msg) = ReplyLen /\ sends + 1 \in Nat
      /\ ReplyLen \in Nat \ {0}
  BY ReplyFacts, ConnectionAssumption DEF TypeOK
<1> HIDE DEF msg
<1>2. sends' \in Nat
  BY <1>1 DEF SendInLoop, TypeOK
<1>3. CASE state = "kDisconnected"
  BY <1>2, <1>3 DEF SendInLoop, TypeOK
<1>4. CASE state # "kDisconnected" /\ direct /\ Broken
  <2>1. WriteFails /\ UNCHANGED <<channel, out, wire, sent>>
    BY <1>4 DEF SendInLoop
  <2> QED
    <3>1. /\ epipe' \in SUBSET {"own", "peer"} /\ peer' \in {"open", "fin", "reset", "gone"}
          /\ ~wrShut /\ "own" \notin epipe => "own" \notin epipe'
      <4>1. CASE ~wrShut /\ peer = "reset"
        BY <2>1, <4>1 DEF WriteFails, TypeOK
      <4>2. CASE ~(~wrShut /\ peer = "reset")
        <5>1. epipe' = epipe \union {IF wrShut THEN "own" ELSE "peer"} /\ UNCHANGED peer
          BY <2>1, <4>2 DEF WriteFails
        <5>2. epipe \in SUBSET {"own", "peer"} /\ peer \in {"open", "fin", "reset", "gone"}
          BY DEF TypeOK
        <5>3. ~wrShut => epipe' = epipe \union {"peer"}
          BY <5>1
        <5> QED
          BY <5>1, <5>2, <5>3
      <4> QED
        BY <4>1, <4>2
    <3> QED
      BY <1>2, <2>1, <3>1 DEF TypeOK
<1>5. CASE state # "kDisconnected" /\ ~(direct /\ Broken)
  <2>1. PICK n \in (IF direct THEN 0 .. ReplyLen ELSE {0}) :
          /\ wire' = wire \o SubSeq(msg, 1, n)
          /\ out' = out \o SubSeq(msg, n + 1, ReplyLen)
          /\ channel' = IF n < ReplyLen /\ ~IsWriting(channel)
                          THEN Enable(channel, "write") ELSE channel
    BY <1>5 DEF SendInLoop, msg
  <2>2. sent' = sent \o msg /\ UNCHANGED <<epipe, peer>>
    BY <1>5 DEF SendInLoop, msg
  <2>3. n \in Nat /\ n <= Len(msg)
    BY <1>1
  <2> DEFINE a == SubSeq(msg, 1, n)
             b == SubSeq(msg, n + 1, ReplyLen)
  <2>4. a \in Seq(Units) /\ b \in Seq(Units) /\ a \o b = msg /\ Len(a) = n
    BY <1>1, <2>3, SplitSeq
  <2>5. wire' = wire \o a /\ out' = out \o b /\ sent' = sent \o msg
    BY <2>1, <2>2
  <2> HIDE DEF a, b
  <2>6. out \in Seq(Units) /\ wire \in Seq(Units) /\ sent \in Seq(Units)
    BY DEF TypeOK
  <2>7. wire' \in Seq(Units) /\ out' \in Seq(Units) /\ sent' \in Seq(Units)
    BY <1>1, <2>4, <2>5, <2>6
  <2>8. direct => out' = b
    BY <2>4, <2>5, ConcatEmptySeq
  <2>9. ~direct => a = <<>> /\ b = msg
    <3> SUFFICES ASSUME ~direct PROVE a = <<>> /\ b = msg
      OBVIOUS
    <3>1. n = 0
      OBVIOUS
    <3>2. a = <<>>
      BY <2>4, <3>1, EmptySeq
    <3> QED
      BY <2>4, <3>2, ConcatEmptySeq
  <2>10. sent = wire \o out => sent' = wire' \o out'
    <3> SUFFICES ASSUME sent = wire \o out PROVE sent' = wire' \o out'
      OBVIOUS
    <3>1. CASE direct
      <4>1. sent = wire
        BY <2>6, <3>1, ConcatEmptySeq
      <4>2. (wire \o a) \o b = wire \o (a \o b)
        <5>1. a \in Seq(Units) /\ b \in Seq(Units) /\ wire \in Seq(Units)
          BY <2>4, <2>6
        <5> QED
          BY <5>1, ConcatAssociative
      <4>3. out' = b /\ wire' = wire \o a /\ sent' = wire \o (a \o b)
        BY <2>4, <2>5, <2>8, <3>1, <4>1
      <4> QED
        BY <4>2, <4>3
    <3>2. CASE ~direct
      <4>1. wire' = wire /\ out' = out \o msg
        BY <2>5, <2>6, <2>9, <3>2, ConcatEmptySeq
      <4>2. (wire \o out) \o msg = wire \o (out \o msg)
        BY SMTT(20), <1>1, <2>6, ConcatAssociative
      <4> QED
        BY <2>5, <4>1, <4>2
    <3> QED
      BY <3>1, <3>2
  <2>11. Len(b) = ReplyLen - n
    <3>1. Len(a \o b) = Len(a) + Len(b) /\ Len(b) \in Nat
      BY <2>4, ConcatProperties, LenProperties
    <3> QED
      BY <1>1, <2>3, <2>4, <3>1
  <2>12. n < ReplyLen => b # <<>> /\ out' # <<>>
    <3> SUFFICES ASSUME n < ReplyLen PROVE b # <<>> /\ out' # <<>>
      OBVIOUS
    <3>1. b # <<>>
      BY <1>1, <2>3, <2>11, EmptySeq
    <3> QED
      BY <3>1, <2>4, <2>5, <2>6, ConcatEqualIffEmpty
  <2>13. CASE n < ReplyLen /\ ~IsWriting(channel)
    <3>1. channel' = Enable(channel, "write") /\ out' # <<>>
      BY <2>1, <2>12, <2>13
    <3>2. channel \in ChannelType /\ channel.events \union {"write"} \in Interests
      BY DEF TypeOK, ChannelType, Interests
    <3>3. channel' \in ChannelType /\ ChannelOK(channel')
      BY <3>1, <3>2, SetEventsFacts DEF Enable
    <3> QED
      BY <1>2, <1>5, <2>2, <2>7, <2>10, <3>1, <3>3 DEF TypeOK
  <2>14. CASE n < ReplyLen /\ IsWriting(channel)
    <3>1. channel' = channel /\ out' # <<>>
      BY <2>1, <2>12, <2>14
    <3> QED
      BY <1>2, <1>5, <2>2, <2>7, <2>10, <2>14, <3>1 DEF TypeOK
  <2>15. CASE ~(n < ReplyLen)
    <3>1. n = ReplyLen /\ n # 0
      BY <1>1, <2>3, <2>15
    <3>2. direct /\ channel' = channel
      BY <2>1, <3>1, <2>15
    <3>3. out' = <<>>
      <4>1. Len(b) = 0
        BY <1>1, <2>11, <3>1
      <4> QED
        BY <2>4, <2>8, <3>2, <4>1, EmptySeq
    <3> QED
      BY <1>2, <1>5, <2>2, <2>7, <2>10, <3>2, <3>3 DEF TypeOK
  <2> QED
    BY <2>13, <2>14, <2>15
<1> QED
  BY <1>3, <1>4, <1>5
(* What writeFd() moves from the output buffer to the wire. *)
LEMMA WriteFacts ==
  ASSUME TypeOK, NEW n \in 1 .. Len(out), WriteFd(n)
  PROVE  /\ wire' \in Seq(Units) /\ out' \in Seq(Units)
         /\ wire' \o out' = wire \o out
<1> DEFINE a == SubSeq(out, 1, n)
           b == SubSeq(out, n + 1, Len(out))
<1>1. out \in Seq(Units) /\ wire \in Seq(Units) /\ n \in Nat /\ n <= Len(out)
  BY LenProperties DEF TypeOK
<1>2. a \in Seq(Units) /\ b \in Seq(Units) /\ a \o b = out
  BY <1>1, SplitSeq
<1>3. wire' = wire \o a /\ out' = b
  BY DEF WriteFd
<1> HIDE DEF a, b
<1>4. a \in Seq(Units) /\ b \in Seq(Units) /\ wire \in Seq(Units)
  BY <1>1, <1>2
<1>5. (wire \o a) \o b = wire \o (a \o b)
  BY SMTT(20), <1>4, ConcatAssociative
<1>6. wire \o a \in Seq(Units)
  BY <1>4, ConcatProperties
<1> QED
  BY <1>2, <1>3, <1>5, <1>6

(* What the other operations on the channel ask for. *)
LEMMA InterestFacts ==
  ASSUME TypeOK, NEW e \in {"read", "write"}
  PROVE  /\ channel \in ChannelType
         /\ channel.events \union {e} \in Interests
         /\ channel.events \ {e} \in Interests /\ {} \in Interests
BY DEF TypeOK, ChannelType, Interests

(* handleClose() leaves the channel without interest; one that was          *)
(* registered is taken out of the epoll set.                                *)
LEMMA CloseFacts ==
  ASSUME TypeOK, ChannelOK(channel), HandleClose
  PROVE  /\ channel' \in ChannelType /\ ChannelOK(channel')
         /\ channel'.events = {} /\ (channel.inEpoll => ~channel'.inEpoll)
         /\ calls' \in [up : Nat, down : Nat, destroyed : Nat]
         /\ calls'.down = calls.down + 1 /\ calls'.up = calls.up
         /\ calls'.destroyed = calls.destroyed
         /\ baseQ' \in Seq({"removeConnectionInLoop"})
<1>1. channel' = SetEvents(channel, {}) /\ {} \in Interests /\ channel \in ChannelType
  BY InterestFacts DEF HandleClose, DisableAll
<1>2. /\ calls' = [calls EXCEPT !.down = @ + 1]
      /\ calls \in [up : Nat, down : Nat, destroyed : Nat]
  BY DEF HandleClose, TypeOK
<1>3. /\ calls' \in [up : Nat, down : Nat, destroyed : Nat]
      /\ calls'.down = calls.down + 1 /\ calls'.up = calls.up
      /\ calls'.destroyed = calls.destroyed
  BY <1>2
<1>4. baseQ' \in Seq({"removeConnectionInLoop"})
  BY DEF HandleClose, TypeOK
<1>5. /\ channel' \in ChannelType /\ ChannelOK(channel') /\ channel'.events = {}
      /\ channel.inEpoll => ~channel'.inEpoll
  BY <1>1, SetEventsFacts
<1> QED
  BY <1>3, <1>4, <1>5

(* connectDestroyed() takes the channel out of the poller. *)
LEMMA DestroyFacts ==
  ASSUME TypeOK, ChannelOK(channel), ConnectDestroyed
  PROVE  /\ channel' \in ChannelType /\ ChannelOK(channel') /\ ~channel'.inEpoll
         /\ channel'.events = IF state = "kConnected" THEN {} ELSE channel.events
         /\ calls' \in [up : Nat, down : Nat, destroyed : Nat]
         /\ calls'.down = IF state = "kConnected" THEN calls.down + 1 ELSE calls.down
         /\ calls'.up = calls.up
         /\ calls'.destroyed = calls.destroyed + 1
<1>1. CASE state = "kConnected"
  <2> DEFINE d == SetEvents(channel, {})
  <2>1. d \in ChannelType /\ ChannelOK(d) /\ d.events = {}
    BY InterestFacts, SetEventsFacts
  <2>2. channel' = RemoveChannel(d)
    BY <1>1 DEF ConnectDestroyed, DisableAll
  <2> HIDE DEF d
  <2>3. /\ channel' \in ChannelType /\ ChannelOK(channel') /\ ~channel'.inEpoll
        /\ channel'.events = {}
    BY <2>1, <2>2, RemoveChannelFacts
  <2>4. /\ calls' = [calls EXCEPT !.down = @ + 1, !.destroyed = @ + 1]
        /\ calls \in [up : Nat, down : Nat, destroyed : Nat]
    BY <1>1 DEF ConnectDestroyed, TypeOK
  <2>5. /\ calls' \in [up : Nat, down : Nat, destroyed : Nat]
        /\ calls'.down = calls.down + 1 /\ calls'.up = calls.up
        /\ calls'.destroyed = calls.destroyed + 1
    <3>1. calls' = [up |-> calls.up, down |-> calls.down + 1,
                    destroyed |-> calls.destroyed + 1]
      BY <2>4
    <3>2. calls.up \in Nat /\ calls.down \in Nat /\ calls.destroyed \in Nat
      BY <2>4
    <3> QED
      BY <3>1, <3>2
  <2> QED
    BY <1>1, <2>3, <2>5
<1>2. CASE state # "kConnected"
  <2>1. /\ channel' = RemoveChannel(channel) /\ calls' = [calls EXCEPT !.destroyed = @ + 1]
        /\ calls \in [up : Nat, down : Nat, destroyed : Nat]
    BY <1>2 DEF ConnectDestroyed, TypeOK
  <2>2. /\ channel' \in ChannelType /\ ChannelOK(channel') /\ ~channel'.inEpoll
        /\ channel'.events = channel.events
    BY <2>1, RemoveChannelFacts DEF TypeOK
  <2>3. /\ calls' \in [up : Nat, down : Nat, destroyed : Nat]
        /\ calls'.down = calls.down /\ calls'.up = calls.up
        /\ calls'.destroyed = calls.destroyed + 1
    BY <2>1
  <2> QED
    BY <1>2, <2>2, <2>3
<1> QED
  BY <1>1, <1>2

(* connectEstablished() asks for EPOLLIN. *)
LEMMA EstablishFacts ==
  ASSUME TypeOK, ChannelOK(channel), ConnectEstablished
  PROVE  /\ channel' \in ChannelType /\ ChannelOK(channel') /\ channel'.inEpoll
         /\ channel'.events = channel.events \union {"read"}
         /\ calls' \in [up : Nat, down : Nat, destroyed : Nat]
         /\ calls'.up = calls.up + 1 /\ calls'.down = calls.down
         /\ calls'.destroyed = calls.destroyed
<1> DEFINE evs == channel.events \union {"read"}
<1>1. /\ channel' = SetEvents(channel, evs) /\ evs \in Interests /\ evs # {}
      /\ channel \in ChannelType
  BY InterestFacts DEF ConnectEstablished, Enable
<1>2. /\ calls' = [calls EXCEPT !.up = @ + 1]
      /\ calls \in [up : Nat, down : Nat, destroyed : Nat]
  BY DEF ConnectEstablished, TypeOK
<1>3. /\ calls' \in [up : Nat, down : Nat, destroyed : Nat]
      /\ calls'.up = calls.up + 1 /\ calls'.down = calls.down
      /\ calls'.destroyed = calls.destroyed
  BY <1>2
<1> HIDE DEF evs
<1>4. /\ channel' \in ChannelType /\ ChannelOK(channel') /\ channel'.events = evs
      /\ channel'.inEpoll
  BY <1>1, SetEventsFacts
<1> QED
  BY <1>3, <1>4 DEF evs

(* stopRead() gives EPOLLIN up and nothing else. *)
LEMMA StopReadFacts ==
  ASSUME TypeOK, ChannelOK(channel), StopReadInLoop
  PROVE  /\ channel' \in ChannelType /\ ChannelOK(channel')
         /\ \/ UNCHANGED channel
            \/ /\ channel'.events = channel.events \ {"read"}
               /\ channel'.events # {} => channel'.inEpoll
<1>1. CASE reading
  <2> DEFINE evs == channel.events \ {"read"}
  <2>1. channel' = SetEvents(channel, evs) /\ evs \in Interests /\ channel \in ChannelType
    BY <1>1, InterestFacts DEF StopReadInLoop, Disable
  <2> HIDE DEF evs
  <2>2. /\ channel' \in ChannelType /\ ChannelOK(channel') /\ channel'.events = evs
        /\ evs # {} => channel'.inEpoll
    BY <2>1, SetEventsFacts
  <2> QED
    BY <2>2 DEF evs
<1>2. CASE ~reading
  BY <1>2 DEF StopReadInLoop, TypeOK
<1> QED
  BY <1>1, <1>2 DEF TypeOK

(* handleWrite() writes; it stops asking for EPOLLOUT when it is done. *)
LEMMA HandleWriteFacts ==
  ASSUME TypeOK, ChannelOK(channel), HandleWrite
  PROVE  /\ wire' \in Seq(Units) /\ out' \in Seq(Units) /\ wire' \o out' = wire \o out
         /\ channel' \in ChannelType /\ ChannelOK(channel') /\ wrShut' \in BOOLEAN
         /\ \/ out' # <<>> /\ UNCHANGED <<channel, wrShut>>
            \/ /\ out' = <<>> /\ channel'.events = channel.events \ {"write"}
               /\ channel'.events # {} => channel'.inEpoll
               /\ wrShut' = wrShut \/ state = "kDisconnecting"
<1>1. PICK n \in 1 .. Len(out) : WriteFd(n)
  BY DEF HandleWrite
<1>2. wire' \in Seq(Units) /\ out' \in Seq(Units) /\ wire' \o out' = wire \o out
  BY <1>1, WriteFacts
<1>3. CASE out' # <<>>
  <2>1. UNCHANGED <<channel, wrShut>>
    BY <1>3 DEF HandleWrite
  <2> QED
    BY <1>2, <1>3, <2>1 DEF TypeOK
<1>4. CASE out' = <<>>
  <2> DEFINE evs == channel.events \ {"write"}
  <2>1. channel' = SetEvents(channel, evs) /\ evs \in Interests /\ channel \in ChannelType
    BY <1>4, InterestFacts DEF HandleWrite, Disable
  <2> HIDE DEF evs
  <2>2. /\ channel' \in ChannelType /\ ChannelOK(channel') /\ channel'.events = evs
        /\ evs # {} => channel'.inEpoll
        /\ evs = {} /\ channel.inEpoll => ~channel'.inEpoll
    BY <2>1, SetEventsFacts
  <2>3. wrShut' \in BOOLEAN /\ (wrShut' = wrShut \/ state = "kDisconnecting")
    BY <1>4 DEF HandleWrite, ShutdownInLoop, TypeOK
  <2> QED
    BY <1>2, <1>4, <2>2, <2>3 DEF evs
<1> QED
  BY <1>3, <1>4

(* The functor at the head of the loop's queue runs, one of five. *)
LEMMA FunctorCases ==
  ASSUME TypeOK, RunFunctor
  PROVE  /\ ioQ # <<>> /\ ioQ' = Tail(ioQ) /\ ioQ' \in Seq(Functors)
         /\ UNCHANGED <<reading, infer, foreign, dataVars, serverVars>>
         /\ \/ Head(ioQ) = "connectEstablished" /\ ConnectEstablished
            \/ Head(ioQ) = "connectDestroyed" /\ ConnectDestroyed
            \/ Head(ioQ) = "response" /\ Response
            \/ /\ Head(ioQ) = "sendInLoop"
               /\ SendInLoop /\ UNCHANGED <<state, wrShut, calls>>
            \/ /\ Head(ioQ) = "shutdownInLoop"
               /\ ShutdownInLoop(channel)
               /\ UNCHANGED <<state, channel, calls, sendVars>>
<1>1. ioQ # <<>> /\ ioQ \in Seq(Functors) /\ ioQ' = Tail(ioQ)
  BY DEF RunFunctor, TypeOK
<1>2. Head(ioQ) \in Functors /\ Tail(ioQ) \in Seq(Functors)
  BY <1>1, HeadTailProperties
<1>3. UNCHANGED <<reading, infer, foreign, dataVars, serverVars>>
  BY DEF RunFunctor
<1>4. CASE Head(ioQ) = "connectEstablished"
  BY <1>1, <1>2, <1>3, <1>4 DEF RunFunctor
<1>5. CASE Head(ioQ) = "connectDestroyed"
  BY <1>1, <1>2, <1>3, <1>5 DEF RunFunctor
<1>6. CASE Head(ioQ) = "response"
  BY <1>1, <1>2, <1>3, <1>6 DEF RunFunctor
<1>7. CASE Head(ioQ) = "sendInLoop"
  BY <1>1, <1>2, <1>3, <1>7 DEF RunFunctor
<1>8. CASE Head(ioQ) = "shutdownInLoop"
  BY <1>1, <1>2, <1>3, <1>8 DEF RunFunctor
<1> QED
  BY <1>2, <1>4, <1>5, <1>6, <1>7, <1>8 DEF Functors
-----------------------------------------------------------------------------
(* The types, and the poller's books. *)
BooksInv == TypeOK /\ ChannelOK(channel)

(* Every step keeps them in order. *)
LEMMA BooksStep == BooksInv /\ [Next]_vars => BooksInv'
<1> SUFFICES ASSUME TypeOK, ChannelOK(channel), [Next]_vars PROVE BooksInv'
  BY DEF BooksInv
<1> USE DEF BooksInv, serverVars, dataVars, bufVars, sendVars
<1>1. CASE NewConnection
  BY <1>1 DEF NewConnection, TypeOK, Functors
<1>2. CASE RemoveConnectionInLoop
  <2>1. baseQ' \in Seq({"removeConnectionInLoop"})
    BY <1>2, HeadTailProperties DEF RemoveConnectionInLoop, TypeOK
  <2>2. ioQ' \in Seq(Functors)
    BY <1>2 DEF RemoveConnectionInLoop, TypeOK, Functors
  <2>4. inMap' \in BOOLEAN
    BY <1>2, Zenon DEF RemoveConnectionInLoop
  <2>3. UNCHANGED <<state, reading, channel, wrShut, serverUp, infer, foreign, calls,
                    dataVars, sendVars>>
    BY <1>2 DEF RemoveConnectionInLoop
  <2> QED
    BY <2>1, <2>2, <2>3, <2>4 DEF TypeOK
<1>3. CASE ServerDestroyed
  <2>1. ioQ' \in Seq(Functors)
    BY <1>3 DEF ServerDestroyed, TypeOK, Functors
  <2>3. inMap' \in BOOLEAN /\ serverUp' \in BOOLEAN
    BY <1>3, Zenon DEF ServerDestroyed
  <2>2. UNCHANGED <<state, reading, channel, wrShut, baseQ, infer, foreign, calls,
                    dataVars, sendVars>>
    BY <1>3 DEF ServerDestroyed
  <2> QED
    BY <2>1, <2>2, <2>3 DEF TypeOK
<1>4. CASE RunFunctor
  <2>1. ioQ' \in Seq(Functors) /\ UNCHANGED <<reading, infer, foreign, dataVars, serverVars>>
    BY <1>4, FunctorCases
  <2>2. CASE ConnectEstablished
    BY <2>1, <2>2, EstablishFacts DEF ConnectEstablished, TypeOK
  <2>3. CASE ConnectDestroyed
    <3>1. state' \in {state, "kDisconnected"} /\ UNCHANGED <<wrShut, sendVars>>
      BY <2>3 DEF ConnectDestroyed
    <3> QED
      BY <2>1, <2>3, <3>1, DestroyFacts DEF TypeOK
  <2>4. CASE Response
    <3>1. CASE SendAndShutdown /\ UNCHANGED calls
      <4>1. wrShut' \in BOOLEAN /\ state' = "kDisconnecting" /\ SendInLoop
        BY <3>1 DEF SendAndShutdown, ShutdownInLoop, TypeOK
      <4> QED
        BY <2>1, <3>1, <4>1, SendFacts DEF TypeOK
    <3>2. CASE UNCHANGED <<state, channel, wrShut, calls, sendVars>>
      BY <2>1, <3>2 DEF TypeOK
    <3> QED
      BY <2>4, <3>1, <3>2 DEF Response
  <2>5. CASE SendInLoop /\ UNCHANGED <<state, wrShut, calls>>
    BY <2>1, <2>5, SendFacts DEF TypeOK
  <2>6. CASE ShutdownInLoop(channel) /\ UNCHANGED <<state, channel, calls, sendVars>>
    <3>1. wrShut' \in BOOLEAN
      BY <2>6 DEF ShutdownInLoop, TypeOK
    <3> QED
      BY <2>1, <2>6, <3>1 DEF TypeOK
  <2> QED
    BY <1>4, <2>2, <2>3, <2>4, <2>5, <2>6, FunctorCases
<1>5. CASE HupEvent \/ ReadEof
  <2>1. /\ HandleClose
        /\ UNCHANGED <<reading, wrShut, inMap, serverUp, ioQ, infer, foreign,
                       dataVars, sendVars>>
    BY <1>5 DEF HupEvent, ReadEof
  <2>2. state' = "kDisconnected"
    BY <2>1 DEF HandleClose
  <2> QED
    BY <2>1, <2>2, CloseFacts DEF TypeOK
<1>6. CASE ReadError
  BY ZenonT(40), <1>6 DEF ReadError, HandleError, TypeOK
<1>7. CASE OnMessage
  <2>1. inData' \in BOOLEAN /\ UNCHANGED <<ioQ, requests, foreign, calls, serverVars>>
    BY <1>7 DEF OnMessage
  <2>2. CASE UNCHANGED <<state, channel, reading, wrShut, infer, sendVars>>
    BY <2>1, <2>2 DEF TypeOK
  <2>3. CASE SendInLoop /\ UNCHANGED <<state, reading, wrShut, infer>>
    BY <2>1, <2>3, SendFacts DEF TypeOK
  <2>4. CASE SendAndShutdown /\ UNCHANGED <<reading, infer>>
    <3>1. wrShut' \in BOOLEAN /\ state' = "kDisconnecting" /\ SendInLoop
      BY <2>4 DEF SendAndShutdown, ShutdownInLoop, TypeOK
    <3> QED
      BY <2>1, <2>4, <3>1, SendFacts DEF TypeOK
  <2>5. CASE infer' = "running" /\ StopReadInLoop /\ UNCHANGED <<state, wrShut, sendVars>>
    <3>1. reading' = FALSE
      BY <2>5 DEF StopReadInLoop
    <3> QED
      BY ZenonT(40), <2>1, <2>5, <3>1, StopReadFacts DEF TypeOK
  <2> QED
    BY <1>7, <2>2, <2>3, <2>4, <2>5 DEF OnMessage, ReplyAndClose
<1>8. CASE HandleWrite
  <2>1. UNCHANGED <<state, reading, ioQ, infer, foreign, sent, sends, epipe, peer,
                    calls, serverVars, dataVars>>
    BY <1>8 DEF HandleWrite
  <2> QED
    BY <1>8, <2>1, HandleWriteFacts DEF TypeOK
<1>9. CASE HandleWriteFails
  <2>1. epipe' \in SUBSET {"own", "peer"} /\ peer' \in {"open", "fin", "reset", "gone"}
    BY <1>9 DEF HandleWriteFails, WriteFails, TypeOK
  <2>2. UNCHANGED <<state, reading, channel, out, wire, wrShut, ioQ, infer, foreign,
                    sent, sends, calls, serverVars, dataVars>>
    BY <1>9 DEF HandleWriteFails
  <2> QED
    BY <2>1, <2>2 DEF TypeOK
<1>10. CASE InferComplete
  BY <1>10 DEF InferComplete, TypeOK, Functors
<1>11. CASE ForeignTest
  BY <1>11 DEF ForeignTest, TypeOK
<1>12. CASE ForeignSend
  BY <1>12 DEF ForeignSend, TypeOK, Functors
<1>13. CASE ForeignSetState
  BY <1>13 DEF ForeignSetState, TypeOK
<1>14. CASE ForeignShutdown
  BY <1>14 DEF ForeignShutdown, TypeOK, Functors
<1>15. CASE PeerSends
  BY <1>15 DEF PeerSends, TypeOK
<1>16. CASE PeerCloses
  BY <1>16 DEF PeerCloses, TypeOK
<1>17. CASE PeerResets
  BY <1>17 DEF PeerResets, TypeOK
<1>18. CASE UNCHANGED vars
  BY <1>18 DEF vars, TypeOK
<1> QED
  BY <1>1, <1>2, <1>3, <1>4, <1>5, <1>6, <1>7, <1>8, <1>9, <1>10, <1>11,
     <1>12, <1>13, <1>14, <1>15, <1>16, <1>17, <1>18 DEF Next, IoEvent, Foreign
-----------------------------------------------------------------------------
(* The stream, whoever calls send() and shutdown(): the parts of            *)
(* StreamInOrder and PollerAgrees that do not rest on OnLoop.               *)
FlowInv == /\ sent = wire \o out
           /\ IsWriting(channel) => out # <<>>
           /\ out # <<>> /\ calls.down = 0 => IsWriting(channel)
           /\ wrShut /\ calls.down = 0 => out = <<>>
           /\ channel.events # {} => channel.inEpoll \/ calls.destroyed > 0

flowVars == <<channel, wrShut, calls, out, wire, sent>>

(* Steps that touch neither the buffer nor the channel. *)
LEMMA FlowFrame == FlowInv /\ UNCHANGED flowVars => FlowInv'
BY DEF FlowInv, flowVars, IsWriting

(* send() after a shutdown finds the buffer empty and is refused, so what   *)
(* is buffered is buffered before the end of the stream; a shutdown that    *)
(* follows finds EPOLLOUT asked for whenever something is left.             *)
LEMMA FlowSend ==
  ASSUME BooksInv, FlowInv, SendInLoop, UNCHANGED calls,
         UNCHANGED wrShut \/ ShutdownInLoop(channel')
  PROVE  FlowInv'
<1> USE DEF BooksInv, FlowInv, IsWriting
<1>1. /\ channel \in ChannelType /\ wrShut \in BOOLEAN
      /\ channel.events \union {"write"} \in Interests
  BY InterestFacts DEF TypeOK
<1>2. wrShut' => wrShut \/ ~IsWriting(channel')
  BY DEF ShutdownInLoop
<1>3. CASE UNCHANGED <<channel, out, wire, sent>>
  BY <1>2, <1>3
<1>4. CASE /\ sent' = wire' \o out' /\ out' = <<>> /\ out = <<>>
           /\ ~IsWriting(channel) /\ UNCHANGED channel
  BY <1>4
<1>5. CASE /\ sent' = wire' \o out' /\ out' # <<>>
           /\ IsWriting(channel) /\ UNCHANGED channel
  BY <1>2, <1>5
<1>6. CASE /\ sent' = wire' \o out' /\ out' # <<>>
           /\ ~(~IsWriting(channel) /\ out = <<>> /\ Broken)
           /\ channel' = Enable(channel, "write")
  <2> DEFINE evs == channel.events \union {"write"}
  <2>1. channel' = SetEvents(channel, evs) /\ evs \in Interests /\ evs # {}
    BY <1>1, <1>6 DEF Enable
  <2>2. "write" \in evs
    OBVIOUS
  <2> HIDE DEF evs
  <2>3. channel'.events = evs /\ channel'.inEpoll
    BY <1>1, <2>1, SetEventsFacts
  <2>4. IsWriting(channel')
    BY <2>2, <2>3
  <2>5. ~(wrShut /\ calls.down = 0)
    BY <1>6 DEF Broken
  <2>6. ~(wrShut' /\ calls'.down = 0)
    BY <1>2, <2>4, <2>5
  <2> QED
    BY <1>6, <2>3, <2>4, <2>6
<1> QED
  BY <1>3, <1>4, <1>5, <1>6, SendFacts

(* shutdownInLoop() shuts the write side only when EPOLLOUT is not asked    *)
(* for: before a close, that is when the buffer is empty.                   *)
LEMMA FlowShutdown ==
  ASSUME BooksInv, FlowInv, ShutdownInLoop(channel),
         UNCHANGED <<channel, calls, out, wire, sent>>
  PROVE  FlowInv'
<1>1. wrShut' => wrShut \/ ~IsWriting(channel)
  BY DEF ShutdownInLoop
<1> QED
  BY <1>1 DEF BooksInv, TypeOK, FlowInv, IsWriting

(* handleClose() asks for no events; from then on the connection was down.  *)
LEMMA FlowClose ==
  ASSUME BooksInv, FlowInv, HandleClose, UNCHANGED <<wrShut, out, wire, sent>>
  PROVE  FlowInv'
<1>1. channel'.events = {} /\ calls'.down # 0
  BY CloseFacts DEF BooksInv, TypeOK
<1> QED
  BY <1>1 DEF FlowInv, IsWriting

(* connectDestroyed() clears the events only of a connected connection,     *)
(* which it reports down.                                                   *)
LEMMA FlowDestroy ==
  ASSUME BooksInv, FlowInv, ConnectDestroyed
  PROVE  FlowInv'
<1>1. UNCHANGED <<wrShut, out, wire, sent>>
  BY DEF ConnectDestroyed, sendVars, bufVars
<1>2. calls.down \in Nat /\ calls.destroyed \in Nat
  BY DEF BooksInv, TypeOK
<1>3. calls'.destroyed > 0
  BY <1>2, DestroyFacts DEF BooksInv
<1>4. CASE state = "kConnected"
  <2>1. channel'.events = {} /\ calls'.down # 0
    BY <1>2, <1>4, DestroyFacts DEF BooksInv
  <2> QED
    BY <1>1, <2>1 DEF FlowInv, IsWriting
<1>5. CASE state # "kConnected"
  <2>1. channel'.events = channel.events /\ calls'.down = calls.down
    BY <1>5, DestroyFacts DEF BooksInv
  <2> QED
    BY <1>1, <1>3, <2>1 DEF FlowInv, IsWriting
<1> QED
  BY <1>4, <1>5

(* EPOLLIN comes and goes without touching the rest. *)
LEMMA FlowReading ==
  ASSUME BooksInv, FlowInv, UNCHANGED <<wrShut, out, wire, sent>>,
         \/ ConnectEstablished
         \/ StopReadInLoop /\ UNCHANGED calls
  PROVE  FlowInv'
<1>1. CASE ConnectEstablished
  <2>1. /\ channel'.inEpoll /\ channel'.events = channel.events \union {"read"}
        /\ calls'.down = calls.down
    BY <1>1, EstablishFacts DEF BooksInv
  <2> QED
    BY <2>1 DEF FlowInv, IsWriting
<1>2. CASE StopReadInLoop /\ UNCHANGED calls
  <2>1. \/ UNCHANGED channel
        \/ /\ channel'.events = channel.events \ {"read"}
           /\ channel'.events # {} => channel'.inEpoll
    BY <1>2, StopReadFacts DEF BooksInv
  <2> QED
    BY <1>2, <2>1 DEF FlowInv, IsWriting
<1> QED
  BY <1>1, <1>2

(* handleWrite() keeps EPOLLOUT while something is left, and carries out a  *)
(* pending shutdown when nothing is.                                        *)
LEMMA FlowWrite ==
  ASSUME BooksInv, FlowInv, HandleWrite
  PROVE  FlowInv'
<1>1. UNCHANGED <<sent, calls>> /\ IsWriting(channel)
  BY DEF HandleWrite
<1>2. wire' \o out' = wire \o out
  BY HandleWriteFacts DEF BooksInv
<1>3. CASE out' # <<>> /\ UNCHANGED <<channel, wrShut>>
  BY <1>1, <1>2, <1>3 DEF FlowInv, IsWriting
<1>4. CASE /\ out' = <<>> /\ channel'.events = channel.events \ {"write"}
           /\ channel'.events # {} => channel'.inEpoll
  BY <1>1, <1>2, <1>4 DEF FlowInv, IsWriting
<1> QED
  BY <1>3, <1>4, HandleWriteFacts DEF BooksInv

(* Every step keeps the stream in order. *)
LEMMA FlowStep == BooksInv /\ FlowInv /\ [Next]_vars => FlowInv'
<1> SUFFICES ASSUME BooksInv, FlowInv, [Next]_vars PROVE FlowInv'
  OBVIOUS
<1> USE DEF sendVars, bufVars, flowVars
<1>1. CASE NewConnection \/ RemoveConnectionInLoop \/ ServerDestroyed
  BY <1>1, FlowFrame DEF NewConnection, RemoveConnectionInLoop, ServerDestroyed
<1>2. CASE RunFunctor
  <2>1. CASE ConnectEstablished
    BY <2>1, FlowReading DEF ConnectEstablished
  <2>2. CASE Response
    BY <2>2, FlowFrame, FlowSend DEF Response, SendAndShutdown
  <2>3. CASE SendInLoop /\ UNCHANGED <<state, wrShut, calls>>
    BY <2>3, FlowSend
  <2>4. CASE ShutdownInLoop(channel) /\ UNCHANGED <<state, channel, calls, sendVars>>
    BY <2>4, FlowShutdown
  <2> QED
    BY <1>2, <2>1, <2>2, <2>3, <2>4, FlowDestroy, FunctorCases DEF BooksInv
<1>3. CASE HupEvent \/ ReadEof
  BY <1>3, FlowClose DEF HupEvent, ReadEof
<1>4. CASE ReadError \/ HandleWriteFails
  BY <1>4, FlowFrame DEF ReadError, HandleWriteFails
<1>5. CASE OnMessage
  <2>1. UNCHANGED calls
    BY <1>5 DEF OnMessage
  <2>2. CASE UNCHANGED <<state, channel, reading, wrShut, infer, sendVars>>
    BY <2>1, <2>2, FlowFrame
  <2>3. CASE SendInLoop /\ UNCHANGED <<state, reading, wrShut, infer>>
    BY <2>1, <2>3, FlowSend
  <2>4. CASE SendAndShutdown /\ UNCHANGED <<reading, infer>>
    BY <2>1, <2>4, FlowSend DEF SendAndShutdown
  <2>5. CASE StopReadInLoop /\ UNCHANGED <<state, wrShut, sendVars>>
    BY <2>1, <2>5, FlowReading
  <2> QED
    BY <1>5, <2>2, <2>3, <2>4, <2>5 DEF OnMessage, ReplyAndClose
<1>6. CASE InferComplete \/ ForeignTest \/ Foreign
  BY <1>6, FlowFrame DEF InferComplete, ForeignTest, Foreign, ForeignSend,
     ForeignSetState, ForeignShutdown
<1>7. CASE PeerSends \/ PeerCloses \/ PeerResets
  BY <1>7, FlowFrame DEF PeerSends, PeerCloses, PeerResets
<1>8. CASE UNCHANGED vars
  BY <1>8, FlowFrame DEF vars
<1> QED
  BY <1>1, <1>2, <1>3, <1>4, <1>5, <1>6, <1>7, <1>8, FlowWrite DEF Next, IoEvent
-----------------------------------------------------------------------------
(* The life of a connection that only its loop uses. *)

(* What is left of StreamInOrder and DestroyedForGood. *)
LoopInv == /\ QueueOrder /\ LifeCycle /\ Ownership
           /\ calls.destroyed <= 1
           /\ calls.destroyed > 0 => ~inMap /\ ~channel.inEpoll
           /\ "own" \notin epipe

lifeVars == <<state, channel, wrShut, inMap, serverUp, ioQ, baseQ, epipe, calls>>

(* Steps of the peer and data that is ignored. *)
LEMMA LoopFrame == LoopInv /\ UNCHANGED lifeVars => LoopInv'
BY DEF LoopInv, QueueOrder, LifeCycle, Ownership, lifeVars

(* What a functor at the back of the queue means for the positions. *)
LEMMA QueueAppend ==
  ASSUME BooksInv, NEW f \in Functors, ioQ' = Append(ioQ, f)
  PROVE  /\ Len(ioQ) \in Nat /\ Len(ioQ') = Len(ioQ) + 1
         /\ \A i \in 1 .. Len(ioQ') : \/ i \in 1 .. Len(ioQ) /\ ioQ'[i] = ioQ[i]
                                      \/ i = Len(ioQ) + 1 /\ ioQ'[i] = f
<1>1. ioQ \in Seq(Functors)
  BY DEF BooksInv, TypeOK
<1>2. /\ Len(ioQ) \in Nat /\ Len(ioQ') = Len(ioQ) + 1
      /\ \A i \in 1 .. Len(ioQ) : ioQ'[i] = ioQ[i]
      /\ ioQ'[Len(ioQ) + 1] = f
  BY <1>1, AppendProperties, LenProperties
<1> QED
  BY <1>2

(* ... and one functor less at its head. *)
LEMMA QueueTail ==
  ASSUME BooksInv, ioQ # <<>>, ioQ' = Tail(ioQ)
  PROVE  /\ Len(ioQ) \in Nat /\ Len(ioQ) > 0 /\ Len(ioQ') = Len(ioQ) - 1
         /\ Head(ioQ) = ioQ[1] /\ 1 \in 1 .. Len(ioQ)
         /\ \A i \in 1 .. Len(ioQ') : /\ i + 1 \in 1 .. Len(ioQ) /\ i + 1 # 1
                                      /\ ioQ'[i] = ioQ[i + 1]
<1>1. ioQ \in Seq(Functors)
  BY DEF BooksInv, TypeOK
<1>2. /\ Len(ioQ) \in Nat /\ Len(ioQ) > 0 /\ Len(ioQ') = Len(ioQ) - 1
      /\ \A i \in 1 .. Len(ioQ') : ioQ'[i] = ioQ[i + 1]
  BY <1>1, HeadTailProperties, LenProperties, EmptySeq
<1>3. Head(ioQ) = ioQ[1]
  BY <1>1
<1> QED
  BY <1>2, <1>3

(* A functor queued after connectEstablished keeps the order. *)
LEMMA OrderAppend ==
  ASSUME BooksInv, QueueOrder, NEW f \in {"connectDestroyed", "response"},
         ioQ' = Append(ioQ, f), UNCHANGED state, state # "none"
  PROVE  QueueOrder'
<1>1. /\ Len(ioQ) \in Nat /\ Len(ioQ') = Len(ioQ) + 1
      /\ \A i \in 1 .. Len(ioQ') : \/ i \in 1 .. Len(ioQ) /\ ioQ'[i] = ioQ[i]
                                   \/ i = Len(ioQ) + 1 /\ ioQ'[i] = f
  BY QueueAppend DEF Functors
<1>2. ASSUME state = "kConnecting"
      PROVE  Len(ioQ') > 0 /\ ioQ'[1] = "connectEstablished"
  <2>1. Len(ioQ) > 0 /\ ioQ[1] = "connectEstablished"
    BY <1>2 DEF QueueOrder
  <2> QED
    BY <1>1, <2>1
<1>3. \A i \in 1 .. Len(ioQ') : /\ ioQ'[i] \notin {"sendInLoop", "shutdownInLoop"}
                                /\ ioQ'[i] = "connectEstablished" => i = 1 /\ state = "kConnecting"
  BY <1>1 DEF QueueOrder
<1> QED
  BY <1>2, <1>3 DEF QueueOrder

(* So does running the head of the queue, if connectEstablished, whenever   *)
(* it is queued, moves the connection on.                                   *)
LEMMA OrderTail ==
  ASSUME BooksInv, QueueOrder, ioQ # <<>>, ioQ' = Tail(ioQ),
         state' \notin {"none", "kConnecting"} \/ UNCHANGED state,
         Head(ioQ) = "connectEstablished" => state' # "kConnecting"
  PROVE  QueueOrder' /\ state # "none"
<1>1. /\ Head(ioQ) = ioQ[1] /\ 1 \in 1 .. Len(ioQ)
      /\ \A i \in 1 .. Len(ioQ') : /\ i + 1 \in 1 .. Len(ioQ) /\ i + 1 # 1
                                   /\ ioQ'[i] = ioQ[i + 1]
  BY QueueTail
<1>2. state # "none" /\ state' # "none"
  BY DEF QueueOrder
<1>3. state' # "kConnecting"
  BY <1>1 DEF QueueOrder
<1>4. \A i \in 1 .. Len(ioQ') : /\ ioQ'[i] \notin {"sendInLoop", "shutdownInLoop"}
                                /\ ioQ'[i] # "connectEstablished"
  BY <1>1 DEF QueueOrder
<1> QED
  BY <1>2, <1>3, <1>4 DEF QueueOrder

(* newConnection(): nothing is queued before connectEstablished. *)
LEMMA LoopNew ==
  ASSUME BooksInv, LoopInv, NewConnection
  PROVE  LoopInv'
<1>1. /\ state = "none" /\ serverUp /\ state' = "kConnecting" /\ inMap' = TRUE
      /\ ioQ' = Append(ioQ, "connectEstablished")
      /\ UNCHANGED <<channel, wrShut, serverUp, baseQ, epipe, calls>>
  BY DEF NewConnection, sendVars
<1>2. ioQ = <<>> /\ baseQ = <<>> /\ ~inMap /\ calls.destroyed = 0
  BY <1>1 DEF LoopInv, QueueOrder, LifeCycle, Ownership, BooksInv, TypeOK
<1>3. Len(ioQ') = 1 /\ ioQ'[1] = "connectEstablished"
  BY <1>1, <1>2
<1>4. QueueOrder'
  BY <1>1, <1>3 DEF QueueOrder
<1>5. LifeCycle'
  BY <1>1, <1>2 DEF LoopInv, LifeCycle
<1>6. Ownership'
  BY <1>1, <1>2, <1>3 DEF LoopInv, Ownership
<1> QED
  BY <1>1, <1>2, <1>4, <1>5, <1>6 DEF LoopInv

(* connectDestroyed is queued by whoever takes the connection out of the    *)
(* map; nobody queued it before.                                            *)
LEMMA LoopRemove ==
  ASSUME BooksInv, LoopInv, RemoveConnectionInLoop \/ ServerDestroyed
  PROVE  LoopInv'
<1>1. /\ serverUp /\ inMap' = FALSE
      /\ UNCHANGED <<state, channel, wrShut, epipe, calls>>
  BY DEF RemoveConnectionInLoop, ServerDestroyed, sendVars
<1>2. /\ baseQ \in Seq({"removeConnectionInLoop"})
      /\ inMap \in BOOLEAN /\ serverUp \in BOOLEAN /\ calls.destroyed \in Nat
  BY DEF BooksInv, TypeOK
<1>3. CASE ioQ' = ioQ /\ ~inMap /\ serverUp' = FALSE /\ UNCHANGED baseQ
  BY <1>1, <1>2, <1>3 DEF LoopInv, QueueOrder, LifeCycle, Ownership
<1>4. CASE /\ ioQ' = Append(ioQ, "connectDestroyed") /\ inMap
           /\ \/ serverUp' = FALSE /\ UNCHANGED baseQ
              \/ /\ UNCHANGED serverUp /\ baseQ' = <<>> /\ state = "kDisconnected"
  <2>1. /\ Len(ioQ) \in Nat /\ Len(ioQ') = Len(ioQ) + 1
        /\ \A i \in 1 .. Len(ioQ') : \/ i \in 1 .. Len(ioQ) /\ ioQ'[i] = ioQ[i]
                                     \/ i = Len(ioQ) + 1 /\ ioQ'[i] = "connectDestroyed"
    BY <1>4, QueueAppend DEF Functors
  <2>2. calls.destroyed = 0 /\ \A i \in 1 .. Len(ioQ) : ioQ[i] # "connectDestroyed"
    BY <1>2, <1>4 DEF LoopInv, Ownership
  <2>3. state # "none"
    BY <1>4 DEF LoopInv, LifeCycle
  <2>4. QueueOrder'
    BY <1>1, <1>4, <2>3, OrderAppend DEF LoopInv
  <2>5. LifeCycle'
    BY <1>1, <1>4, <2>3 DEF LoopInv, LifeCycle
  <2>6. \A i \in 1 .. Len(ioQ') : ioQ'[i] = "connectDestroyed" => i = Len(ioQ) + 1
    BY <2>1, <2>2
  <2>7. Ownership'
    BY <1>1, <1>4, <2>2, <2>6 DEF LoopInv, Ownership
  <2> QED
    BY <1>1, <2>2, <2>4, <2>5, <2>7 DEF LoopInv
<1>5. CASE ServerDestroyed
  BY <1>2, <1>3, <1>4, <1>5 DEF ServerDestroyed
<1>6. CASE RemoveConnectionInLoop
  <2>1. baseQ # <<>> /\ baseQ' = Tail(baseQ)
    BY <1>6 DEF RemoveConnectionInLoop
  <2>2. Len(baseQ) = 1 /\ state = "kDisconnected" /\ inMap
    BY <1>1, <2>1 DEF LoopInv, LifeCycle, Ownership
  <2>3. baseQ' = <<>>
    BY <1>2, <2>1, <2>2
  <2> QED
    BY <1>4, <1>6, <2>2, <2>3 DEF RemoveConnectionInLoop
<1> QED
  BY <1>5, <1>6
(* A connected or half-closed connection that sends, stops reading or       *)
(* starts its shutdown keeps its place.                                     *)
LEMMA LoopActive ==
  ASSUME BooksInv, LoopInv, state = "kConnected",
         UNCHANGED <<inMap, serverUp, baseQ, calls>>,
         state' \in {"kConnected", "kDisconnecting"},
         wrShut' => wrShut \/ state' = "kDisconnecting",
         "own" \notin epipe',
         \/ UNCHANGED ioQ
         \/ ioQ # <<>> /\ ioQ' = Tail(ioQ) /\ Head(ioQ) # "connectEstablished"
  PROVE  LoopInv'
<1>1. QueueOrder'
  <2>1. CASE UNCHANGED ioQ
    BY <2>1 DEF LoopInv, QueueOrder
  <2>2. CASE ioQ # <<>> /\ ioQ' = Tail(ioQ)
    BY <2>2, OrderTail DEF LoopInv
  <2> QED
    BY <2>1, <2>2
<1>2. LifeCycle'
  BY DEF LoopInv, LifeCycle
<1>3. calls.destroyed = 0
  BY DEF LoopInv, Ownership, BooksInv, TypeOK
<1>4. Ownership'
  <2>1. CASE UNCHANGED ioQ
    BY <2>1 DEF LoopInv, Ownership
  <2>2. CASE ioQ # <<>> /\ ioQ' = Tail(ioQ)
    <3>1. \A i \in 1 .. Len(ioQ') : i + 1 \in 1 .. Len(ioQ) /\ ioQ'[i] = ioQ[i + 1]
      BY <2>2, QueueTail
    <3>2. \A i, j \in 1 .. Len(ioQ') : i + 1 = j + 1 => i = j
      OBVIOUS
    <3> QED
      BY <3>1, <3>2 DEF LoopInv, Ownership
  <2> QED
    BY <2>1, <2>2
<1> QED
  BY <1>1, <1>2, <1>3, <1>4 DEF LoopInv

(* The loop runs a functor. *)
LEMMA LoopFunctor ==
  ASSUME BooksInv, LoopInv, RunFunctor
  PROVE  LoopInv'
<1>1. /\ ioQ # <<>> /\ ioQ' = Tail(ioQ) /\ UNCHANGED <<inMap, serverUp, baseQ>>
  BY FunctorCases DEF BooksInv, serverVars
<1>2. /\ Head(ioQ) = ioQ[1] /\ 1 \in 1 .. Len(ioQ)
      /\ \A i \in 1 .. Len(ioQ') : /\ i + 1 \in 1 .. Len(ioQ) /\ i + 1 # 1
                                   /\ ioQ'[i] = ioQ[i + 1]
  BY <1>1, QueueTail
<1>3. \A i, j \in 1 .. Len(ioQ') : i + 1 = j + 1 => i = j
  BY QueueTail, <1>1
<1>4. calls.up \in Nat /\ calls.down \in Nat /\ calls.destroyed \in Nat
  BY DEF BooksInv, TypeOK
<1>5. CASE Head(ioQ) = "connectEstablished" /\ ConnectEstablished
  <2>1. /\ state' = "kConnected" /\ UNCHANGED <<wrShut, epipe>>
    BY <1>5 DEF ConnectEstablished, sendVars
  <2>2. state = "kConnecting"
    BY <1>2, <1>5 DEF LoopInv, QueueOrder
  <2>3. calls'.up = calls.up + 1 /\ calls'.down = calls.down /\ calls'.destroyed = calls.destroyed
    BY <1>5, EstablishFacts DEF BooksInv
  <2>4. QueueOrder'
    BY <1>1, <2>1, OrderTail DEF LoopInv
  <2>5. calls.destroyed = 0
    BY <1>4, <2>2 DEF LoopInv, Ownership
  <2>6. LifeCycle'
    BY <1>1, <1>4, <2>1, <2>2, <2>3 DEF LoopInv, LifeCycle
  <2>7. Ownership'
    BY <1>1, <1>2, <1>3, <2>1, <2>2, <2>3, <2>5 DEF LoopInv, Ownership
  <2> QED
    BY <2>1, <2>3, <2>4, <2>5, <2>6, <2>7 DEF LoopInv
<1>6. CASE Head(ioQ) = "connectDestroyed" /\ ConnectDestroyed
  <2>1. /\ UNCHANGED <<wrShut, epipe>>
        /\ state' = IF state = "kConnected" THEN "kDisconnected" ELSE state
    BY <1>6 DEF ConnectDestroyed, sendVars
  <2>2. ~inMap /\ calls.destroyed = 0
    BY <1>2, <1>6 DEF LoopInv, Ownership
  <2>3. state \notin {"none", "kConnecting"}
    BY <1>1, <1>2, <1>6 DEF LoopInv, QueueOrder
  <2>4. state' \in {"kDisconnecting", "kDisconnected"}
    BY <2>1, <2>3 DEF BooksInv, TypeOK
  <2>5. /\ ~channel'.inEpoll
        /\ channel'.events = IF state = "kConnected" THEN {} ELSE channel.events
        /\ calls'.down = IF state = "kConnected" THEN calls.down + 1 ELSE calls.down
        /\ calls'.up = calls.up /\ calls'.destroyed = calls.destroyed + 1
    BY <1>6, DestroyFacts DEF BooksInv
  <2>6. QueueOrder'
    BY <1>1, <2>4, OrderTail DEF LoopInv
  <2>7. LifeCycle'
    BY <1>1, <2>1, <2>2, <2>3, <2>4, <2>5 DEF LoopInv, LifeCycle
  <2>8. \A i \in 1 .. Len(ioQ') : ioQ'[i] # "connectDestroyed"
    BY <1>2, <1>6 DEF LoopInv, Ownership
  <2>9. Ownership'
    <3>1. serverUp' /\ ~inMap' => state' \in {"none", "kDisconnected"} /\ baseQ' = <<>>
      BY <1>1, <2>1 DEF LoopInv, Ownership
    <3> QED
      BY <1>1, <2>2, <2>4, <2>8, <3>1 DEF LoopInv, Ownership
  <2> QED
    BY <1>1, <2>1, <2>2, <2>5, <2>6, <2>7, <2>9 DEF LoopInv
<1>7. CASE Head(ioQ) = "response" /\ Response
  <2>1. CASE UNCHANGED <<state, channel, wrShut, calls, sendVars>>
    <3>1. QueueOrder'
      BY <1>1, <1>7, <2>1, OrderTail DEF LoopInv
    <3>2. LifeCycle'
      BY <1>1, <2>1 DEF LoopInv, LifeCycle
    <3>3. Ownership'
      BY <1>1, <1>2, <1>3, <2>1 DEF LoopInv, Ownership
    <3> QED
      BY <1>1, <2>1, <3>1, <3>2, <3>3 DEF LoopInv, sendVars
  <2>2. CASE state = "kConnected" /\ SendAndShutdown /\ UNCHANGED calls
    <3>1. ~wrShut /\ "own" \notin epipe
      BY <2>2 DEF LoopInv, LifeCycle
    <3>2. "own" \notin epipe' /\ state' = "kDisconnecting"
      BY <2>2, <3>1, SendFacts DEF SendAndShutdown, BooksInv
    <3> QED
      BY <1>1, <1>7, <2>2, <3>2, LoopActive
  <2> QED
    BY <1>7, <2>1, <2>2 DEF Response
<1>8. Head(ioQ) \notin {"sendInLoop", "shutdownInLoop"}
  BY <1>2 DEF LoopInv, QueueOrder
<1> QED
  BY <1>5, <1>6, <1>7, <1>8, FunctorCases DEF BooksInv

(* A registered channel belongs to a connection that was established and    *)
(* not yet disconnected, and that the server, if it is up, has in its map.  *)
LEMMA RegisteredMeans ==
  ASSUME BooksInv, LoopInv, channel.inEpoll
  PROVE  /\ state \in {"kConnected", "kDisconnecting"} /\ baseQ = <<>>
         /\ calls.destroyed = 0 /\ calls.up = 1 /\ calls.down = 0
         /\ serverUp => inMap
<1>1. state \in {"kConnected", "kDisconnecting"}
  BY DEF LoopInv, LifeCycle, BooksInv, TypeOK
<1>2. calls.destroyed = 0
  BY DEF LoopInv, BooksInv, TypeOK
<1>3. inMap \in BOOLEAN
  BY DEF BooksInv, TypeOK
<1> QED
  BY <1>1, <1>2, <1>3 DEF LoopInv, LifeCycle, Ownership

(* handleClose() runs once, and asks for the removal once. *)
LEMMA LoopClose ==
  ASSUME BooksInv, LoopInv, HupEvent \/ ReadEof
  PROVE  LoopInv'
<1>1. /\ channel.inEpoll /\ HandleClose
      /\ UNCHANGED <<wrShut, inMap, serverUp, ioQ, epipe>>
  BY DEF HupEvent, ReadEof, Readable, Registered, sendVars
<1>2. /\ state \in {"kConnected", "kDisconnecting"} /\ baseQ = <<>>
      /\ calls.destroyed = 0 /\ calls.up = 1 /\ calls.down = 0
      /\ serverUp => inMap
  BY <1>1, RegisteredMeans
<1>3. /\ channel'.events = {} /\ ~channel'.inEpoll /\ calls'.down = 1
      /\ calls'.up = 1 /\ calls'.destroyed = 0
  BY <1>1, <1>2, CloseFacts DEF BooksInv
<1>4. /\ state' = "kDisconnected" /\ baseQ' = <<"removeConnectionInLoop">>
  BY <1>1, <1>2 DEF HandleClose
<1>5. QueueOrder'
  BY <1>1, <1>2, <1>4 DEF LoopInv, QueueOrder
<1>6. LifeCycle'
  BY <1>1, <1>3, <1>4 DEF LifeCycle
<1>7. Ownership'
  BY <1>1, <1>2, <1>3, <1>4 DEF LoopInv, Ownership
<1> QED
  BY <1>1, <1>3, <1>5, <1>6, <1>7 DEF LoopInv

(* handleWrite() carries out a shutdown that was asked for. *)
LEMMA LoopWrite ==
  ASSUME BooksInv, LoopInv, HandleWrite
  PROVE  LoopInv'
<1>1. /\ channel.inEpoll
      /\ UNCHANGED <<state, ioQ, epipe, calls, inMap, serverUp, baseQ>>
  BY DEF HandleWrite, Registered, serverVars
<1>2. /\ state \in {"kConnected", "kDisconnecting"} /\ calls.destroyed = 0
  BY <1>1, RegisteredMeans
<1>3. wrShut' => wrShut \/ state = "kDisconnecting"
  BY HandleWriteFacts DEF BooksInv
<1>4. QueueOrder' /\ Ownership'
  BY <1>1 DEF LoopInv, QueueOrder, Ownership
<1>5. LifeCycle'
  BY <1>1, <1>2, <1>3 DEF LoopInv, LifeCycle
<1> QED
  BY <1>1, <1>2, <1>4, <1>5 DEF LoopInv

(* write() can fail after our own end of stream only when it is tried then, *)
(* and EPOLLOUT is not asked for any more.                                  *)
LEMMA LoopWriteFails ==
  ASSUME BooksInv, FlowInv, LoopInv, HandleWriteFails
  PROVE  LoopInv'
<1>1. /\ channel.inEpoll /\ IsWriting(channel) /\ WriteFails
      /\ UNCHANGED <<state, channel, wrShut, ioQ, calls, inMap, serverUp, baseQ>>
  BY DEF HandleWriteFails, Registered, serverVars
<1>2. calls.down = 0
  BY <1>1, RegisteredMeans
<1>3. ~wrShut
  BY <1>1, <1>2 DEF FlowInv
<1>4. "own" \notin epipe'
  BY <1>1, <1>3 DEF WriteFails, LoopInv
<1> QED
  BY <1>1, <1>4 DEF LoopInv, QueueOrder, LifeCycle, Ownership
(* The completion of an inference finds the connection alive, so it was     *)
(* accepted before, or drops the response.                                  *)
LEMMA LoopInfer ==
  ASSUME BooksInv, LoopInv, OnLoop, InferComplete
  PROVE  LoopInv'
<1>1. UNCHANGED <<state, channel, wrShut, inMap, serverUp, baseQ, epipe, calls>>
  BY DEF InferComplete, serverVars, sendVars
<1>2. CASE UNCHANGED ioQ
  BY <1>1, <1>2, LoopFrame DEF lifeVars
<1>3. CASE Alive /\ ioQ' = Append(ioQ, "response")
  <2>1. state # "none"
    BY <1>3 DEF Alive, OnLoop, LoopInv, QueueOrder, LifeCycle
  <2>2. QueueOrder'
    BY <1>1, <1>3, <2>1, OrderAppend DEF LoopInv
  <2>3. LifeCycle'
    BY <1>1 DEF LoopInv, LifeCycle
  <2>4. \A i \in 1 .. Len(ioQ') : \/ i \in 1 .. Len(ioQ) /\ ioQ'[i] = ioQ[i]
                                  \/ ioQ'[i] = "response"
    BY <1>3, QueueAppend DEF Functors
  <2>5. Ownership'
    BY <1>1, <2>4 DEF LoopInv, Ownership
  <2> QED
    BY <1>1, <2>2, <2>3, <2>5 DEF LoopInv
<1> QED
  BY <1>2, <1>3 DEF InferComplete

(* HttpServer::onMessage() acts only on a connected connection. *)
LEMMA LoopMessage ==
  ASSUME BooksInv, LoopInv, OnMessage
  PROVE  LoopInv'
<1>1. UNCHANGED <<ioQ, calls, inMap, serverUp, baseQ>>
  BY DEF OnMessage, serverVars
<1>2. CASE UNCHANGED <<state, channel, reading, wrShut, infer, sendVars>>
  BY <1>1, <1>2, LoopFrame DEF lifeVars, sendVars
<1>3. CASE state = "kConnected" /\ SendInLoop /\ UNCHANGED <<state, wrShut>>
  <2>1. ~wrShut /\ "own" \notin epipe
    BY <1>3 DEF LoopInv, LifeCycle
  <2>2. "own" \notin epipe'
    BY <1>3, <2>1, SendFacts DEF BooksInv
  <2> QED
    BY <1>1, <1>3, <2>2, LoopActive
<1>4. CASE state = "kConnected" /\ SendAndShutdown
  <2>1. ~wrShut /\ "own" \notin epipe
    BY <1>4 DEF LoopInv, LifeCycle
  <2>2. "own" \notin epipe' /\ state' = "kDisconnecting"
    BY <1>4, <2>1, SendFacts DEF SendAndShutdown, BooksInv
  <2> QED
    BY <1>1, <1>4, <2>2, LoopActive
<1>5. CASE state = "kConnected" /\ UNCHANGED <<state, wrShut, sendVars>>
  BY <1>1, <1>5, LoopActive DEF sendVars, LoopInv
<1> QED
  BY <1>2, <1>3, <1>4, <1>5 DEF OnMessage, ReplyAndClose

(* The life of a connection that only its loop uses, step by step. *)
LEMMA LoopStep ==
  BooksInv /\ FlowInv /\ (OnLoop => LoopInv) /\ [Next]_vars => (OnLoop' => LoopInv')
<1> SUFFICES ASSUME BooksInv, FlowInv, OnLoop => LoopInv, [Next]_vars, OnLoop'
             PROVE  LoopInv'
  OBVIOUS
<1>1. CASE ForeignTest \/ Foreign
  BY <1>1 DEF ForeignTest, Foreign, ForeignSend, ForeignSetState, ForeignShutdown,
     OnLoop
<1>2. CASE UNCHANGED foreign
  <2>1. OnLoop /\ LoopInv
    BY <1>2 DEF OnLoop
  <2>2. CASE NewConnection
    BY <2>1, <2>2, LoopNew
  <2>3. CASE RemoveConnectionInLoop \/ ServerDestroyed
    BY <2>1, <2>3, LoopRemove
  <2>4. CASE RunFunctor
    BY <2>1, <2>4, LoopFunctor
  <2>5. CASE IoEvent
    <3>1. CASE ReadError
      BY <2>1, <3>1, LoopFrame DEF ReadError, lifeVars, serverVars
    <3> QED
      BY <2>1, <2>5, <3>1, LoopClose, LoopMessage, LoopWrite, LoopWriteFails DEF IoEvent
  <2>6. CASE InferComplete
    BY <2>1, <2>6, LoopInfer
  <2>7. CASE PeerSends \/ PeerCloses \/ PeerResets
    BY <2>1, <2>7, LoopFrame DEF PeerSends, PeerCloses, PeerResets, lifeVars,
       serverVars, sendVars
  <2>8. CASE UNCHANGED vars
    BY <2>1, <2>8, LoopFrame DEF vars, lifeVars
  <2> QED
    BY <1>1, <2>2, <2>3, <2>4, <2>5, <2>6, <2>7, <2>8 DEF Next
<1>3. UNCHANGED foreign \/ ForeignTest \/ Foreign
  BY FunctorCases DEF Next, vars, NewConnection, RemoveConnectionInLoop,
     ServerDestroyed, RunFunctor, IoEvent, HupEvent, ReadEof, ReadError, OnMessage,
     HandleWrite, HandleWriteFails, InferComplete, PeerSends, PeerCloses, PeerResets
<1> QED
  BY <1>1, <1>2, <1>3

-----------------------------------------------------------------------------
(* The inductive invariant: types and the poller's books, the stream        *)
(* whoever sends, and the life cycle when only the loop does.               *)
ConnectionInv == BooksInv /\ FlowInv /\ (OnLoop => LoopInv)

(* Before newConnection() there is nothing to keep. *)
LEMMA ConnectionInit == Init => ConnectionInv
<1> SUFFICES ASSUME Init PROVE ConnectionInv
  OBVIOUS
<1> USE DEF Init
<1>1. channel \in ChannelType /\ ChannelOK(channel) /\ channel.events = {} /\ ~channel.inEpoll
  BY DEF NewChannel, ChannelType, ChannelOK, Interests
<1>2. /\ reading \in BOOLEAN /\ wrShut \in BOOLEAN /\ inMap \in BOOLEAN
      /\ serverUp \in BOOLEAN /\ inData \in BOOLEAN /\ ~wrShut /\ ~inMap /\ serverUp
  BY Zenon
<1>3. calls.up = 0 /\ calls.down = 0 /\ calls.destroyed = 0
      /\ calls \in [up : Nat, down : Nat, destroyed : Nat]
  OBVIOUS
<1>4. TypeOK
  BY <1>1, <1>2, <1>3, EmptySeq DEF TypeOK
<1>5. FlowInv
  BY <1>1, <1>2, ConcatEmptySeq, EmptySeq DEF FlowInv, IsWriting
<1>6. LoopInv
  BY <1>1, <1>2, <1>3 DEF LoopInv, QueueOrder, LifeCycle, Ownership
<1> QED
  BY <1>1, <1>4, <1>5, <1>6 DEF ConnectionInv, BooksInv

(* ConnectionInv holds in every reachable state. *)
LEMMA ConnectionCorrect == SafeSpec => []ConnectionInv
<1>1. ConnectionInv /\ [Next]_vars => ConnectionInv'
  BY BooksStep, FlowStep, LoopStep DEF ConnectionInv
<1> QED
  BY <1>1, ConnectionInit, PTL DEF SafeSpec

(* Every variable keeps its type. *)
THEOREM TypeCorrect == SafeSpec => []TypeOK
<1>1. ConnectionInv => TypeOK
  BY DEF ConnectionInv, BooksInv
<1> QED
  BY <1>1, ConnectionCorrect, PTL

(* The poller's bookkeeping agrees with the kernel's epoll set whatever the *)
(* loop, the server, the peer, a worker and foreign threads do, and a       *)
(* connection of its loop with buffered output waits for EPOLLOUT.          *)
THEOREM PollerCorrect == SafeSpec => []PollerAgrees
<1>1. ConnectionInv => PollerAgrees
  <2> SUFFICES ASSUME ConnectionInv PROVE PollerAgrees
    OBVIOUS
  <2>1. ChannelOK(channel) /\ FlowInv
    BY DEF ConnectionInv, BooksInv
  <2>2. ASSUME OnLoop, out # <<>>, state # "kDisconnected", ~(calls.destroyed > 0)
        PROVE  "write" \in channel.mask
    <3>1. calls.down = 0
      BY <2>2 DEF ConnectionInv, LoopInv, LifeCycle
    <3>2. "write" \in channel.events
      BY <2>1, <2>2, <3>1 DEF FlowInv, IsWriting
    <3>3. channel.inEpoll
      BY <2>1, <2>2, <3>2 DEF FlowInv
    <3> QED
      BY <2>1, <3>2, <3>3 DEF ChannelOK
  <2> QED
    BY <2>1, <2>2 DEF PollerAgrees, ChannelOK, FlowInv
<1> QED
  BY <1>1, ConnectionCorrect, PTL

(* The peer gets what was sent, in order and once, and the end of the       *)
(* stream after it; the loop never writes after its own end of stream.      *)
THEOREM StreamCorrect == SafeSpec => []StreamInOrder
<1>1. ConnectionInv => StreamInOrder
  BY DEF ConnectionInv, FlowInv, LoopInv, StreamInOrder
<1> QED
  BY <1>1, ConnectionCorrect, PTL

(* A connection that only its loop uses is established once, reported down  *)
(* at most once and destroyed at most once, and then it is in no map and in *)
(* no poller.                                                               *)
THEOREM DestroyedCorrect == SafeSpec => []DestroyedForGood
<1>1. ConnectionInv => DestroyedForGood
  <2> SUFFICES ASSUME ConnectionInv, OnLoop PROVE DestroyedForGood
    BY DEF DestroyedForGood
  <2>1. LoopInv
    BY DEF ConnectionInv
  <2>2. calls.down <= calls.up /\ calls.up <= 1
    BY <2>1 DEF LoopInv, LifeCycle
  <2>3. calls.destroyed = 1 => ~inMap /\ ~channel.inEpoll
    BY <2>1 DEF LoopInv
  <2> QED
    BY <2>1, <2>2, <2>3 DEF LoopInv, DestroyedForGood
<1> QED
  BY <1>1, ConnectionCorrect, PTL
=============================================================================
