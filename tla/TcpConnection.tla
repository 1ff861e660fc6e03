---------------------------- MODULE TcpConnection ----------------------------
(***************************************************************************)
(* The life of one TCP connection of the server: TcpConnection.cc with its  *)
(* Channel, the parts of TcpServer.cc that own it, and what HttpServer and  *)
(* InferenceController do with it.                                          *)
(*                                                                          *)
(* Actors: the base loop (TcpServer), the I/O loop the connection belongs   *)
(* to, an inference worker, a foreign thread that uses the public send()    *)
(* and shutdown(), and the peer with the kernel's TCP.  The two loops are   *)
(* the executors of FunctorExecutor: a queue of functors each.  A handler   *)
(* or a functor is one step of its loop.                                    *)
(***************************************************************************)
EXTENDS Naturals, Sequences, SequencesExt, ChannelPoller

CONSTANTS ReplyLen,     \* units of a reply; write() may take any part of it
          MaxSends,       \* bound: replies sent on the connection
          MaxRequests,    \* bound: times the peer's data makes it readable
          Async,          \* requests may be /v1/infer, answered by a worker
          OffLoop         \* a foreign thread may call send() and shutdown()

ASSUME ConnectionAssumption ==
  /\ ReplyLen \in Nat \ {0} /\ MaxSends \in Nat /\ MaxRequests \in Nat
  /\ Async \in BOOLEAN /\ OffLoop \in BOOLEAN

VARIABLES
  state,      \* state_ ("none": not accepted yet)
  reading,    \* reading_
  channel,    \* channel_ (see ChannelPoller)
  out,        \* outputBuffer_, as a sequence of units
  wire,       \* the units write() has taken
  wrShut,     \* shutdownWrite() was called on the socket
  inMap,      \* the connection is in TcpServer::connections_
  serverUp,   \* the base loop runs and ~TcpServer() has not
  ioQ,        \* functors pending on the connection's loop
  baseQ,      \* functors pending on the base loop
  peer,       \* the peer's side of TCP
  inData,     \* there is data to read
  requests,   \* number of times the peer sent data
  infer,      \* the inference task of the connection
  foreign,    \* where the foreign thread is in its call; "absent": there is none
  sent,       \* history: units handed to sendInLoop() and not refused
  sends,      \* number of replies sent
  epipe,      \* history: whose end of stream made a write() fail with EPIPE
  calls       \* history: connectionCallback_ calls and connectDestroyed() runs

vars == <<state, reading, channel, out, wire, wrShut, inMap, serverUp, ioQ,
          baseQ, peer, inData, requests, infer, foreign, sent, sends,
          epipe, calls>>

serverVars == <<inMap, serverUp, baseQ>>
dataVars   == <<inData, requests>>
bufVars    == <<out, wire, sent, sends>>
sendVars   == <<bufVars, epipe, peer>>

Init == /\ state = "none" /\ reading = TRUE /\ channel = NewChannel
        /\ out = <<>> /\ wire = <<>> /\ wrShut = FALSE
        /\ inMap = FALSE /\ serverUp = TRUE
        /\ ioQ = <<>> /\ baseQ = <<>>
        /\ peer = "open" /\ inData = FALSE /\ requests = 0
        /\ infer = "none"
        /\ foreign \in IF OffLoop THEN {"absent", "idle"} ELSE {"absent"}
        /\ sent = <<>> /\ sends = 0
        /\ epipe = {}
        /\ calls = [up |-> 0, down |-> 0, destroyed |-> 0]

(* The functors that hold a shared_ptr to the connection; shutdownInLoop    *)
(* is bound to a bare this.                                                 *)
Holding == {"connectEstablished", "connectDestroyed", "sendInLoop", "response",
            "removeConnectionInLoop"}

(* Somebody holds a shared_ptr: the connection object exists. *)
Alive == \/ inMap
         \/ \E i \in 1 .. Len(ioQ) : ioQ[i] \in Holding
         \/ \E i \in 1 .. Len(baseQ) : baseQ[i] \in Holding
         \/ foreign \notin {"absent", "idle"}

-----------------------------------------------------------------------------
(* TcpServer, on the base loop *)

(* newConnection(): the object enters connections_ and connectEstablished   *)
(* is handed to its loop.                                                   *)
NewConnection ==
  /\ state = "none" /\ serverUp
  /\ state' = "kConnecting"
  /\ inMap' = TRUE
  /\ ioQ' = Append(ioQ, "connectEstablished")
  /\ UNCHANGED <<reading, channel, wrShut, serverUp, baseQ, infer, foreign,
                 calls, dataVars, sendVars>>

(* Fault: connections_.erase() is forgotten. *)
RemoveForgetsErase ==
  /\ serverUp /\ baseQ # <<>>
  /\ baseQ' = Tail(baseQ)
  /\ ioQ' = Append(ioQ, "connectDestroyed")
  /\ UNCHANGED <<state, reading, channel, wrShut, inMap, serverUp, infer, foreign,
                 calls, dataVars, sendVars>>

(* removeConnectionInLoop() *)
RemoveConnectionInLoop ==
  /\ serverUp /\ baseQ # <<>>
  /\ baseQ' = Tail(baseQ)
  /\ inMap' = FALSE
  /\ ioQ' = Append(ioQ, "connectDestroyed")
  /\ UNCHANGED <<state, reading, channel, wrShut, serverUp, infer, foreign,
                 calls, dataVars, sendVars>>

(* ~TcpServer(), after the base loop has returned: what still waits there   *)
(* never runs.                                                              *)
ServerDestroyed ==
  /\ serverUp
  /\ serverUp' = FALSE
  /\ inMap' = FALSE
  /\ ioQ' = IF inMap THEN Append(ioQ, "connectDestroyed") ELSE ioQ
  /\ UNCHANGED <<state, reading, channel, wrShut, baseQ, infer, foreign,
                 calls, dataVars, sendVars>>

-----------------------------------------------------------------------------
(* Operations of TcpConnection, as they run on the I/O loop *)

(* write() fails: the write side is shut down, or the peer reset the         *)
(* connection.                                                               *)
Broken == wrShut \/ peer \in {"reset", "gone"}

(* How it fails: the first call after a reset fetches ECONNRESET; any other  *)
(* gets EPIPE, and the thread SIGPIPE.                                       *)
WriteFails ==
  IF ~wrShut /\ peer = "reset"
    THEN peer' = "gone" /\ UNCHANGED epipe
    ELSE /\ epipe' = epipe \union {IF wrShut THEN "own" ELSE "peer"}
         /\ UNCHANGED peer

Reply(k) == [i \in 1 .. ReplyLen |-> <<k, i>>]

(* Fault: write() is tried whatever the output buffer holds. *)
SendOvertakes ==
  LET msg == Reply(sends + 1)
  IN /\ sends' = sends + 1
     /\ IF state = "kDisconnected" \/ Broken
          THEN UNCHANGED <<channel, out, wire, sent>>
          ELSE /\ sent' = sent \o msg
               /\ \E n \in 0 .. ReplyLen :
                    /\ wire' = wire \o SubSeq(msg, 1, n)
                    /\ out' = out \o SubSeq(msg, n + 1, ReplyLen)
                    /\ channel' = IF n < ReplyLen /\ ~IsWriting(channel)
                                    THEN Enable(channel, "write") ELSE channel
     /\ UNCHANGED <<epipe, peer>>

(* sendInLoop(): write at once what the kernel takes when nothing is        *)
(* queued, buffer the rest and ask for EPOLLOUT; after a fault nothing is   *)
(* buffered.  channel' and the send variables are set here.                 *)
SendInLoop ==
  LET msg    == Reply(sends + 1)
      direct == ~IsWriting(channel) /\ out = <<>>
  IN /\ sends' = sends + 1
     /\ \/ /\ state = "kDisconnected"
           /\ UNCHANGED <<channel, out, wire, sent, epipe, peer>>
        \/ /\ state # "kDisconnected" /\ direct /\ Broken
           /\ WriteFails
           /\ UNCHANGED <<channel, out, wire, sent>>
        \/ /\ state # "kDisconnected" /\ ~(direct /\ Broken)
           /\ sent' = sent \o msg
           /\ \E n \in (IF direct THEN 0 .. ReplyLen ELSE {0}) :
                /\ wire' = wire \o SubSeq(msg, 1, n)
                /\ out' = out \o SubSeq(msg, n + 1, ReplyLen)
                /\ channel' = IF n < ReplyLen /\ ~IsWriting(channel)
                                THEN Enable(channel, "write") ELSE channel
           /\ UNCHANGED <<epipe, peer>>

(* shutdownInLoop(), given the channel it finds. *)
ShutdownInLoop(ch) == wrShut' = (wrShut \/ ~IsWriting(ch))

(* sendResponseAndClose(), or a reply with "Connection: close": send() and  *)
(* shutdown() on the loop thread of a connected connection.                 *)
SendAndShutdown ==
  /\ SendInLoop
  /\ state' = "kDisconnecting"
  /\ ShutdownInLoop(channel')

(* handleClose(): disconnected, no more events, connectionCallback_, and    *)
(* closeCallback_, which is removeConnection() on the base loop.            *)
HandleClose ==
  /\ state' = "kDisconnected"
  /\ channel' = DisableAll(channel)
  /\ calls' = [calls EXCEPT !.down = @ + 1]
  /\ baseQ' = Append(baseQ, "removeConnectionInLoop")

-----------------------------------------------------------------------------
(* Functors run by the I/O loop *)

ConnectEstablished ==
  /\ state' = "kConnected"
  /\ channel' = Enable(channel, "read")
  /\ calls' = [calls EXCEPT !.up = @ + 1]
  /\ UNCHANGED <<wrShut, sendVars>>

(* Fault: the test of state_ is missing. *)
ConnectDestroyedUntested ==
  /\ state' = "kDisconnected"
  /\ channel' = RemoveChannel(DisableAll(channel))
  /\ calls' = [calls EXCEPT !.down = @ + 1, !.destroyed = @ + 1]
  /\ UNCHANGED <<wrShut, sendVars>>

(* Only a connected connection is disconnected and reported here. *)
ConnectDestroyed ==
  /\ IF state = "kConnected"
       THEN /\ state' = "kDisconnected"
            /\ channel' = RemoveChannel(DisableAll(channel))
            /\ calls' = [calls EXCEPT !.down = @ + 1, !.destroyed = @ + 1]
       ELSE /\ channel' = RemoveChannel(channel)
            /\ calls' = [calls EXCEPT !.destroyed = @ + 1]
            /\ UNCHANGED state
  /\ UNCHANGED <<wrShut, sendVars>>

(* The lambda of handleAsync()'s completion: dropped unless connected. *)
Response ==
  \/ /\ state = "kConnected" /\ SendAndShutdown
     /\ UNCHANGED calls
  \/ /\ state # "kConnected"
     /\ UNCHANGED <<state, channel, wrShut, calls, sendVars>>

RunFunctor ==
  /\ ioQ # <<>>
  /\ ioQ' = Tail(ioQ)
  /\ CASE Head(ioQ) = "connectEstablished" -> ConnectEstablished
       [] Head(ioQ) = "connectDestroyed"   -> ConnectDestroyed
       [] Head(ioQ) = "response"           -> Response
       [] Head(ioQ) = "sendInLoop"         ->
            SendInLoop /\ UNCHANGED <<state, wrShut, calls>>
       [] Head(ioQ) = "shutdownInLoop"     ->
            /\ ShutdownInLoop(channel)
            /\ UNCHANGED <<state, channel, calls, sendVars>>
  /\ UNCHANGED <<reading, infer, foreign, dataVars, serverVars>>

-----------------------------------------------------------------------------
(* Events of the channel.  epoll is level triggered, so the callbacks of    *)
(* one handleEvent() may be taken as successive events; tie_ keeps them     *)
(* from running on a connection nobody holds.                               *)

Registered == Alive /\ channel.inEpoll

Readable == Registered /\ "read" \in channel.mask

Hangup == peer \in {"reset", "gone"} \/ (peer = "fin" /\ wrShut)

(* EPOLLHUP without EPOLLIN: closeCallback_. *)
HupEvent ==
  /\ Registered /\ Hangup /\ "read" \notin channel.mask
  /\ HandleClose
  /\ UNCHANGED <<reading, wrShut, inMap, serverUp, ioQ, infer, foreign,
                 dataVars, sendVars>>

(* handleRead(), n == 0 (a reset whose error was fetched reads as EOF). *)
ReadEof ==
  /\ Readable /\ ~inData /\ peer # "open"
  /\ HandleClose
  /\ UNCHANGED <<reading, wrShut, inMap, serverUp, ioQ, infer, foreign,
                 dataVars, sendVars>>

(* handleError() fetches the pending error, which clears it. *)
HandleError == peer' = "gone"

(* handleRead(), n < 0: the reset came after epoll_wait(). *)
ReadError ==
  /\ Readable /\ peer = "reset"
  /\ HandleError /\ inData' = FALSE
  /\ UNCHANGED <<state, reading, channel, wrShut, ioQ, requests, infer, foreign,
                 calls, epipe, serverVars, bufVars>>

(* stopRead() *)
StopReadInLoop ==
  /\ reading' = FALSE
  /\ channel' = IF reading THEN Disable(channel, "read") ELSE channel

(* What the test server's onMessage() does with any data, and HttpServer    *)
(* with a request it answers with "Connection: close".                      *)
ReplyAndClose ==
  /\ state = "kConnected" /\ sends < MaxSends
  /\ SendAndShutdown
  /\ UNCHANGED <<reading, infer>>

(* handleRead(), n > 0: messageCallback_ = HttpServer::onMessage().  It     *)
(* ignores data of a connection that is not connected; otherwise the        *)
(* request is incomplete, answered and kept alive, answered and closed, or  *)
(* accepted by the scheduler, after which stopRead() is called.             *)
OnMessage ==
  /\ Readable /\ inData
  /\ inData' = FALSE
  /\ \/ UNCHANGED <<state, channel, reading, wrShut, infer, sendVars>>
     \/ /\ state = "kConnected" /\ sends < MaxSends
        /\ SendInLoop
        /\ UNCHANGED <<state, reading, wrShut, infer>>
     \/ ReplyAndClose
     \/ /\ state = "kConnected" /\ Async /\ sends < MaxSends
        /\ infer' = "running"
        /\ StopReadInLoop
        /\ UNCHANGED <<state, wrShut, sendVars>>
  /\ UNCHANGED <<ioQ, requests, foreign, calls, serverVars>>

(* writeFd() and retrieve(): n units of the output buffer go out. *)
WriteFd(n) ==
  /\ wire' = wire \o SubSeq(out, 1, n)
  /\ out' = SubSeq(out, n + 1, Len(out))

(* Fault: a pending shutdown is forgotten when the buffer is empty. *)
HandleWriteForgetsShutdown ==
  /\ Registered /\ "write" \in channel.mask /\ IsWriting(channel)
  /\ ~Broken
  /\ \E n \in 1 .. Len(out) : WriteFd(n)
  /\ channel' = IF out' = <<>> THEN Disable(channel, "write") ELSE channel
  /\ UNCHANGED <<state, reading, wrShut, ioQ, infer, foreign, sent, sends, epipe,
                 peer, calls, serverVars, dataVars>>

(* handleWrite(): part of the buffer goes out; when it is empty, writing    *)
(* is disabled and a pending shutdown is carried out.                       *)
HandleWrite ==
  /\ Registered /\ "write" \in channel.mask /\ IsWriting(channel)
  /\ ~Broken
  /\ \E n \in 1 .. Len(out) : WriteFd(n)
  /\ IF out' = <<>>
       THEN /\ channel' = Disable(channel, "write")
            /\ IF state = "kDisconnecting" THEN ShutdownInLoop(channel')
                                           ELSE UNCHANGED wrShut
       ELSE UNCHANGED <<channel, wrShut>>
  /\ UNCHANGED <<state, reading, ioQ, infer, foreign, sent, sends, epipe, peer,
                 calls, serverVars, dataVars>>

(* ... or write() fails, which is only logged. *)
HandleWriteFails ==
  /\ Registered /\ "write" \in channel.mask /\ IsWriting(channel)
  /\ Broken
  /\ WriteFails
  /\ UNCHANGED <<state, reading, channel, out, wire, wrShut, ioQ, infer, foreign,
                 sent, sends, calls, serverVars, dataVars>>

-----------------------------------------------------------------------------
(* Other threads *)

(* The worker's completion: the weak_ptr is locked and the response handed  *)
(* to the loop, or dropped.                                                 *)
InferComplete ==
  /\ infer = "running"
  /\ infer' = "done"
  /\ ioQ' = IF Alive THEN Append(ioQ, "response") ELSE ioQ
  /\ UNCHANGED <<state, reading, channel, wrShut, foreign, calls,
                 serverVars, dataVars, sendVars>>

(* A foreign thread with a shared_ptr calls send() or shutdown(): the test  *)
(* of state_ ...  Bound: one foreign send() is pending at a time.           *)
ForeignTest ==
  /\ foreign = "idle" /\ Alive /\ state = "kConnected"
  /\ \/ foreign' = "shutdown"
     \/ /\ foreign' = "send"
        /\ sends < MaxSends /\ ~Contains(ioQ, "sendInLoop")
  /\ UNCHANGED <<state, reading, channel, wrShut, ioQ, infer, calls,
                 serverVars, dataVars, sendVars>>

(* ... and what follows it: runInLoop(), for shutdown() after setState().   *)
ForeignSend ==
  /\ foreign = "send"
  /\ foreign' = "idle"
  /\ ioQ' = Append(ioQ, "sendInLoop")
  /\ UNCHANGED <<state, reading, channel, wrShut, infer, calls,
                 serverVars, dataVars, sendVars>>

ForeignSetState ==
  /\ foreign = "shutdown"
  /\ foreign' = "queue"
  /\ state' = "kDisconnecting"
  /\ UNCHANGED <<reading, channel, wrShut, ioQ, infer, calls, serverVars,
                 dataVars, sendVars>>

ForeignShutdown ==
  /\ foreign = "queue"
  /\ foreign' = "idle"
  /\ ioQ' = Append(ioQ, "shutdownInLoop")
  /\ UNCHANGED <<state, reading, channel, wrShut, infer, calls,
                 serverVars, dataVars, sendVars>>

(* The peer and the network *)
PeerSends ==
  /\ state # "none" /\ peer = "open" /\ ~inData /\ requests < MaxRequests
  /\ inData' = TRUE /\ requests' = requests + 1
  /\ UNCHANGED <<state, reading, channel, wrShut, ioQ, infer, foreign, calls,
                 serverVars, sendVars>>

PeerCloses ==
  /\ state # "none" /\ peer = "open"
  /\ peer' = "fin"
  /\ UNCHANGED <<state, reading, channel, wrShut, ioQ, infer, foreign, calls,
                 epipe, serverVars, dataVars, bufVars>>

(* A reset of a connection the peer had closed leaves EPIPE, not ECONNRESET. *)
PeerResets ==
  /\ state # "none" /\ peer \in {"open", "fin"}
  /\ peer' = IF peer = "open" THEN "reset" ELSE "gone"
  /\ UNCHANGED <<state, reading, channel, wrShut, ioQ, infer, foreign, calls,
                 epipe, serverVars, dataVars, bufVars>>

-----------------------------------------------------------------------------
IoEvent == \/ HupEvent \/ ReadEof \/ ReadError \/ OnMessage
           \/ HandleWrite \/ HandleWriteFails

Foreign == ForeignSend \/ ForeignSetState \/ ForeignShutdown

Next == \/ NewConnection \/ RemoveConnectionInLoop \/ ServerDestroyed
        \/ RunFunctor \/ IoEvent \/ InferComplete \/ ForeignTest \/ Foreign
        \/ PeerSends \/ PeerCloses \/ PeerResets

SafeSpec == Init /\ [][Next]_vars

(* Both loops run their functors and handle their events, inference ends,   *)
(* and a peer that sees our end of stream closes its own side.              *)
Fairness == /\ WF_vars(RunFunctor) /\ WF_vars(RemoveConnectionInLoop)
            /\ WF_vars(HupEvent) /\ WF_vars(ReadEof) /\ WF_vars(OnMessage)
            /\ WF_vars(HandleWrite) /\ WF_vars(InferComplete)
            /\ WF_vars(Foreign) /\ WF_vars(wrShut /\ PeerCloses)

Spec == SafeSpec /\ Fairness

-----------------------------------------------------------------------------
(* send() and shutdown() are called on the loop's thread only, which is how *)
(* the HTTP program uses them.                                              *)
OnLoop == foreign = "absent"

Units == Nat \X Nat

Functors == {"connectEstablished", "connectDestroyed", "sendInLoop", "response",
             "shutdownInLoop"}

Interests == SUBSET {"read", "write"}

ChannelType == [events : Interests, index : {"kNew", "kAdded", "kDeleted"},
                inEpoll : BOOLEAN, mask : Interests, errors : SUBSET {"ADD", "MOD", "DEL"}]

(* The variables keep their types; the base loop is asked for nothing but   *)
(* removals.                                                                *)
TypeOK ==
  /\ state \in {"none", "kConnecting", "kConnected", "kDisconnecting", "kDisconnected"}
  /\ reading \in BOOLEAN /\ wrShut \in BOOLEAN
  /\ inMap \in BOOLEAN /\ serverUp \in BOOLEAN /\ inData \in BOOLEAN
  /\ channel \in ChannelType
  /\ out \in Seq(Units) /\ wire \in Seq(Units) /\ sent \in Seq(Units)
  /\ ioQ \in Seq(Functors) /\ baseQ \in Seq({"removeConnectionInLoop"})
  /\ peer \in {"open", "fin", "reset", "gone"}
  /\ requests \in Nat /\ sends \in Nat
  /\ infer \in {"none", "running", "done"}
  /\ foreign \in {"absent", "idle", "send", "shutdown", "queue"}
  /\ epipe \in SUBSET {"own", "peer"}
  /\ calls \in [up : Nat, down : Nat, destroyed : Nat]

(* The poller's bookkeeping never disagrees with the kernel's epoll set, so *)
(* no epoll_ctl() fails, whatever order of reads, writes, closes and        *)
(* stopRead() a connection goes through; a channel that asks for events is  *)
(* registered until connectDestroyed(); and a connection with buffered      *)
(* output that only its loop uses is waiting for EPOLLOUT, or closed.       *)
PollerAgrees ==
  /\ channel.errors = {}
  /\ channel.index = "kAdded" <=> channel.inEpoll
  /\ channel.inEpoll => channel.mask = channel.events
  /\ channel.events # {} => channel.inEpoll \/ calls.destroyed > 0
  /\ OnLoop /\ out # <<>> => \/ "write" \in channel.mask
                             \/ state = "kDisconnected"
                             \/ calls.destroyed > 0

(* What the peer gets is what was sent, in order, nothing twice: direct     *)
(* writes never overtake the output buffer, because EPOLLOUT is asked for   *)
(* only while it holds something, and until a close for as long.  The end   *)
(* of the stream comes last: the write side of a connection that was not    *)
(* closed under it is shut only after everything buffered went out, and on  *)
(* the loop's thread no write() is tried from then on ("shutdown() was      *)
(* called on this connection before, nothing may be sent any more", says    *)
(* the comment in sendInLoop()).                                            *)
StreamInOrder ==
  /\ sent = wire \o out
  /\ IsWriting(channel) => out # <<>>
  /\ out # <<>> /\ calls.down = 0 => IsWriting(channel)
  /\ wrShut /\ calls.down = 0 => out = <<>>
  /\ OnLoop => "own" \notin epipe

(* What its loop has queued for a connection that nobody else uses: the     *)
(* functor that establishes it runs first.                                  *)
QueueOrder ==
  /\ \A i \in 1 .. Len(ioQ) : ioQ[i] \notin {"sendInLoop", "shutdownInLoop"}
  /\ \A i \in 1 .. Len(ioQ) : ioQ[i] = "connectEstablished" => i = 1 /\ state = "kConnecting"
  /\ state = "kConnecting" => Len(ioQ) > 0 /\ ioQ[1] = "connectEstablished"
  /\ state = "none" => ioQ = <<>>

(* How far it has come: it is reported up and down along with its state;    *)
(* once disconnected its channel is out of the poller and its removal has   *)
(* been asked for once.                                                     *)
LifeCycle ==
  /\ state = "none" => ~inMap
  /\ state \in {"none", "kConnecting"} => channel.events = {} /\ ~channel.inEpoll
  /\ calls.up = IF state \in {"none", "kConnecting"} THEN 0 ELSE 1
  /\ calls.down = IF state = "kDisconnected" THEN 1 ELSE 0
  /\ state = "kDisconnected" => channel.events = {} /\ ~channel.inEpoll
  /\ wrShut => state \in {"kDisconnecting", "kDisconnected"}
  /\ baseQ # <<>> => state = "kDisconnected" /\ Len(baseQ) = 1

(* Who destroys it: while the server is up the connection is in its map     *)
(* until the removal it was asked for runs, and connectDestroyed() is       *)
(* queued by whoever takes it out of the map, once.                         *)
Ownership ==
  /\ inMap => serverUp
  /\ serverUp /\ ~inMap => state \in {"none", "kDisconnected"} /\ baseQ = <<>>
  /\ \A i \in 1 .. Len(ioQ) :
       ioQ[i] = "connectDestroyed" => ~inMap /\ calls.destroyed = 0
  /\ \A i, j \in 1 .. Len(ioQ) :
       ioQ[i] = "connectDestroyed" /\ ioQ[j] = "connectDestroyed" => i = j
  /\ calls.destroyed > 0 => state \in {"kDisconnecting", "kDisconnected"}

(* If only the loop uses it, connectDestroyed() runs at most once, from     *)
(* then on the server has forgotten the connection and its channel is in no *)
(* poller; connectionCallback_ reported up once, and down at most once.     *)
DestroyedForGood ==
  OnLoop => /\ calls.destroyed <= 1
            /\ calls.destroyed = 1 => ~inMap /\ ~channel.inEpoll
            /\ calls.down <= calls.up /\ calls.up <= 1
            /\ QueueOrder /\ LifeCycle /\ Ownership

(* A connection whose peer has closed or reset it, and that is read, is     *)
(* destroyed and the object itself freed, nothing keeping a reference,      *)
(* unless a request that was still to be read stops the reading, or the     *)
(* server goes away.                                                        *)
ReadingIsReleased ==
  OnLoop /\ state # "none" /\ peer # "open" /\ reading
    ~> ~serverUp \/ ~reading \/ (calls.destroyed = 1 /\ ~Alive)

(* After the server half-closed a connection and the peer closed, the       *)
(* connection is released, whether it was still reading or not.             *)
HalfClosedIsReleased ==
  wrShut /\ peer # "open" ~> (calls.destroyed = 1 \/ ~serverUp)

(* A connection its loop has shut down gets its end of stream out or is     *)
(* closed.                                                                  *)
ShutdownCompletes ==
  OnLoop /\ state = "kDisconnecting" ~> (wrShut \/ state = "kDisconnected" \/ ~serverUp)
=============================================================================
