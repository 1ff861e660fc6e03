----------------------------- MODULE AsyncLogging -----------------------------
(***************************************************************************)
(* logger/AsyncLogging.cc over FixedBuffer.h, LogFile.cc and FileUtil.cc:   *)
(* threads append records to a front buffer, a writer thread swaps the full *)
(* buffers out, writes them to a file that is rolled by size and by day,    *)
(* and gives two of them back.                                              *)
(*                                                                          *)
(* ~Logger() hands over its whole small buffer, so all records have one     *)
(* size, which is the unit here.  Records are numbered in the order of the  *)
(* append() calls.  Blank is a slot of a buffer no record was written to.   *)
(***************************************************************************)
EXTENDS Naturals, Sequences, SequencesExt, FiniteSetsExt

CONSTANTS BufferSize,    \* kLargeBuffer / kSmallBuffer
          RollSize,      \* rollSize_
          CheckEveryN,   \* checkEveryN_
          FlushInterval, \* flushInterval_ of the LogFile
          Period,        \* kRollPerSeconds_
          MaxRecords,    \* bound: records appended
          MaxIdle,       \* bound: rounds of the writer that find nothing new
          MaxClock       \* bound: the time in seconds

ASSUME LoggingAssumption ==
  /\ BufferSize \in Nat \ {0, 1} /\ RollSize \in Nat
  /\ CheckEveryN \in Nat \ {0} /\ FlushInterval \in Nat /\ Period \in Nat \ {0}
  /\ MaxRecords \in Nat /\ MaxIdle \in Nat /\ MaxClock \in Nat \ {0}

VARIABLES
  count,    \* history: the number of append() calls
  currentBuffer, nextBuffer, buffers,  \* currentBuffer_, nextBuffer_, buffers_
  running,  \* running_
  user,     \* where its owner is: "new", "started", "join" or "stopped"
  wpc,      \* where the writer is in threadFunc(); "none": not started
  new1, new2, toWrite,      \* newBuffer1, newBuffer2, buffersToWrite
  at,       \* the buffer of toWrite that is written next
  idle,     \* the rounds of the writer that found nothing new
  freed,    \* the memory of destroyed buffers
  clock,    \* time(NULL)
  log,      \* the LogFile
  owed      \* history: records present when stop() met a waiting writer

front   == <<currentBuffer, nextBuffer, buffers>>
writer  == <<new1, new2, toWrite, at, idle, freed>>
logVars == <<count, front, running, user, wpc, writer, clock, log, owed>>

-----------------------------------------------------------------------------
(* FixedBuffer *)

Blank == 0

NoBuffer == [data |-> <<>>, cur |-> 0]  \* an empty unique_ptr

BlankData == [i \in 1 .. BufferSize |-> Blank]

ZeroedBuffer == [data |-> BlankData, cur |-> 0]

(* new Buffer without bzero(): its memory is fresh, or that of a buffer     *)
(* that was destroyed.                                                      *)
NewBuffers == [data : freed \union {BlankData}, cur : {0}]

Avail(b) == BufferSize - b.cur

FixedAppend(b, record) ==
  IF Avail(b) > 1
    THEN [data |-> [b.data EXCEPT ![b.cur + 1] = record], cur |-> b.cur + 1]
    ELSE b

Reset(b) == [b EXCEPT !.cur = 0]

(* data() and length(): length() is the size of the array, not cur_, so     *)
(* all of the buffer is written.                                            *)
Contents(b) == b.data

(* The records a buffer has received since its last reset(). *)
Fresh(b) == SubSeq(b.data, 1, b.cur)

-----------------------------------------------------------------------------
(* LogFile and FileUtil.  files: what each file was given, with the second  *)
(* it was opened; flushed: the records that are certainly on disk.          *)

StartOfPeriod(t) == (t \div Period) * Period

File(t) == [opened |-> t, content |-> <<>>]

Written(l) == FlattenSeq([i \in 1 .. Len(l.files) |-> l.files[i].content])

WrittenBytes(l) == Len(Last(l.files).content)

Flush(l) == [l EXCEPT !.flushed = Len(Written(l))]

(* rollFile(): at most one file a second; closing a file flushes it. *)
RollFile(l, now) ==
  IF now > l.lastRoll
    THEN [Flush(l) EXCEPT !.files = Append(@, File(now)), !.lastRoll = now,
                          !.lastFlush = now, !.start = StartOfPeriod(now)]
    ELSE l

NewLogFile(now) ==
  RollFile([files |-> <<>>, flushed |-> 0, n |-> 0, start |-> 0, lastRoll |-> 0,
            lastFlush |-> 0], now)

(* FileUtil::append(): a short write is reported and the rest tried again,  *)
(* until all is written; a file that never takes it would keep the writer   *)
(* here, which the model leaves out.                                        *)
FileAppend(l, data) ==
  [l EXCEPT !.files[Len(l.files)].content = @ \o data]

(* appendInLock(): after the append the file is rolled if it is too large;  *)
(* every checkEveryN_ times it is rolled for a new period or flushed.       *)
AppendInLock(l, data, now) ==
  LET a == FileAppend(l, data)
      c == [a EXCEPT !.n = (a.n + 1) % CheckEveryN]
  IN IF WrittenBytes(a) > RollSize            THEN RollFile(a, now)
     ELSE IF c.n # 0                          THEN c
     ELSE IF StartOfPeriod(now) # c.start     THEN RollFile(c, now)
     ELSE IF now - c.lastFlush > FlushInterval
       THEN Flush([c EXCEPT !.lastFlush = now])
     ELSE c

-----------------------------------------------------------------------------
LogInit == /\ count = 0 /\ owed = 0
           /\ currentBuffer = ZeroedBuffer /\ nextBuffer = ZeroedBuffer /\ buffers = <<>>
           /\ running = FALSE /\ user = "new" /\ wpc = "none"
           /\ new1 = NoBuffer /\ new2 = NoBuffer
           /\ toWrite = <<>> /\ at = 1 /\ idle = 0 /\ freed = {}
           /\ clock = 1
           /\ log = [files |-> <<>>]

Tick == /\ clock < MaxClock
        /\ clock' = clock + 1
        /\ UNCHANGED <<count, front, running, user, wpc, writer, log, owed>>

(* start(): the writer thread exists when it returns. *)
Start ==
  /\ user = "new"
  /\ running' = TRUE /\ user' = "started" /\ wpc' = "begin"
  /\ UNCHANGED <<count, front, writer, clock, log, owed>>

(* stop(): running_ = false, notify_one(), and then join(). *)
Stop ==
  /\ user = "started"
  /\ running' = FALSE /\ user' = "join"
  /\ owed' = IF wpc \in {"lock", "wait"} THEN count ELSE 0
  /\ UNCHANGED <<count, front, wpc, writer, clock, log>>

Join ==
  /\ user = "join" /\ wpc = "exited"
  /\ user' = "stopped"
  /\ UNCHANGED <<count, front, running, wpc, writer, clock, log, owed>>

(* Fault: ">=" where append() has ">". *)
HasRoomOffByOne == Avail(currentBuffer) >= 1

HasRoom == Avail(currentBuffer) > 1

(* append() by any thread, under mutex_: into the current buffer, or into   *)
(* the spare one or a new one, the full one joining buffers_.  notify_one() *)
(* only shortens the writer's wait.                                         *)
AppendRecord ==
  /\ count < MaxRecords
  /\ count' = count + 1
  /\ \/ /\ HasRoom
        /\ currentBuffer' = FixedAppend(currentBuffer, count')
        /\ UNCHANGED <<nextBuffer, buffers>>
     \/ /\ ~HasRoom
        /\ buffers' = Append(buffers, currentBuffer)
        /\ \E b \in IF nextBuffer # NoBuffer THEN {nextBuffer} ELSE NewBuffers :
             currentBuffer' = FixedAppend(b, count')
        /\ nextBuffer' = NoBuffer
  /\ UNCHANGED <<running, user, wpc, writer, clock, log, owed>>

-----------------------------------------------------------------------------
(* threadFunc() *)

Begin ==
  /\ wpc = "begin"
  /\ log' = NewLogFile(clock)
  /\ new1' = ZeroedBuffer /\ new2' = ZeroedBuffer
  /\ wpc' = "check"
  /\ UNCHANGED <<count, front, running, user, toWrite, at, idle, freed,
                 clock, owed>>

(* while (running_), and the last flush and the end of the LogFile. *)
Check ==
  /\ wpc = "check"
  /\ \/ running /\ wpc' = "lock" /\ UNCHANGED log
     \/ ~running /\ wpc' = "exited" /\ log' = Flush(log)
  /\ UNCHANGED <<count, front, running, user, writer, clock, owed>>

(* No full buffer: wait_for() up to three seconds, mutex_ released. *)
Wait ==
  /\ wpc = "lock" /\ buffers = <<>>
  /\ wpc' = "wait"
  /\ UNCHANGED <<count, front, running, user, writer, clock, log, owed>>

(* Nothing was appended since the last swap.  While logging goes on the     *)
(* writer writes the buffers out again all the same, every three seconds.   *)
NothingNew == running /\ buffers = <<>> /\ currentBuffer.cur = 0

SwapBuffers ==
  /\ toWrite' = Append(buffers, currentBuffer) /\ at' = 1
  /\ buffers' = <<>>
  /\ currentBuffer' = new1 /\ new1' = NoBuffer
  /\ nextBuffer' = IF nextBuffer = NoBuffer THEN new2 ELSE nextBuffer
  /\ new2' = IF nextBuffer = NoBuffer THEN NoBuffer ELSE new2
  /\ wpc' = "write"

SwapRest ==
  /\ NothingNew => idle < MaxIdle
  /\ idle' = IF NothingNew THEN idle + 1 ELSE idle
  /\ UNCHANGED <<count, running, user, freed, clock, log, owed>>

(* Fault: wait() without a time-out and woken by full buffers only. *)
SwapWhenFull ==
  /\ wpc \in {"lock", "wait"} /\ buffers # <<>>
  /\ SwapBuffers /\ SwapRest

(* Fault: the spare buffer is handed out whether or not it is needed. *)
SwapBothBuffers ==
  /\ \/ wpc = "lock" /\ buffers # <<>>
     \/ wpc = "wait"
  /\ toWrite' = Append(buffers, currentBuffer) /\ at' = 1
  /\ buffers' = <<>>
  /\ currentBuffer' = new1 /\ new1' = NoBuffer
  /\ nextBuffer' = new2 /\ new2' = NoBuffer
  /\ wpc' = "write"
  /\ SwapRest

(* Fault: a writer that finds running_ false after its wait leaves. *)
SwapUnlessStopped ==
  \/ /\ \/ wpc = "lock" /\ buffers # <<>>
        \/ wpc = "wait"
     /\ running
     /\ SwapBuffers /\ SwapRest
  \/ /\ wpc = "wait" /\ ~running
     /\ wpc' = "exited"
     /\ UNCHANGED <<front, writer>> /\ SwapRest

(* The region after the wait, which a notification, the time-out or nothing *)
(* at all ends: everything in front is taken and replaced.                  *)
Swap ==
  /\ \/ wpc = "lock" /\ buffers # <<>>
     \/ wpc = "wait"
  /\ SwapBuffers /\ SwapRest

WriteBuffer ==
  /\ wpc = "write" /\ at <= Len(toWrite)
  /\ log' = AppendInLock(log, Contents(toWrite[at]), clock)
  /\ at' = at + 1
  /\ UNCHANGED <<count, front, running, user, wpc, new1, new2, toWrite, idle,
                 freed, clock, owed>>

(* resize(2), newBuffer1 and newBuffer2 from the back of what is kept, the  *)
(* rest destroyed, flush().  newBuffer1 is always empty here.               *)
Recycle ==
  LET kept  == SubSeq(toWrite, 1, Min({2, Len(toWrite)}))
      rest  == Front(kept)
      taken == IF new2 = NoBuffer THEN Front(rest) ELSE rest
  IN /\ wpc = "write" /\ at > Len(toWrite)
     /\ new1' = Reset(Last(kept))
     /\ new2' = IF new2 = NoBuffer THEN Reset(Last(rest)) ELSE new2
     /\ freed' = freed \union {toWrite[i].data : i \in 3 .. Len(toWrite)}
                       \union {taken[i].data : i \in 1 .. Len(taken)}
     /\ toWrite' = <<>>
     /\ wpc' = "check"
     /\ log' = Flush(log)
     /\ UNCHANGED <<count, front, running, user, at, idle, clock, owed>>

-----------------------------------------------------------------------------
WriterStep == Begin \/ Check \/ Wait \/ Swap \/ WriteBuffer \/ Recycle

LogNext == Tick \/ Start \/ Stop \/ Join \/ AppendRecord \/ WriterStep

LogSafe == LogInit /\ [][LogNext]_logVars

(* The writer is scheduled, a wait ends after three seconds at the latest,  *)
(* fwrite() writes, and join() returns when the thread has ended.           *)
LogSpec == LogSafe /\ WF_logVars(WriterStep) /\ WF_logVars(Join)

-----------------------------------------------------------------------------
Buffer == [data : [1 .. BufferSize -> 0 .. MaxRecords], cur : 0 .. BufferSize - 1]

AllWritten == IF user = "new" \/ wpc = "begin" THEN <<>> ELSE Written(log)

(* The records of a sequence, each where it occurs first. *)
FirstOccurrences(s) ==
  FoldLeft(LAMBDA seen, r : IF r = Blank \/ Contains(seen, r) THEN seen
                            ELSE Append(seen, r), <<>>, s)

(* The records that wait for the writer, in order. *)
Waiting ==
  LET line == SubSeq(toWrite, at, Len(toWrite)) \o buffers \o <<currentBuffer>>
  IN FlattenSeq([i \in 1 .. Len(line) |-> Fresh(line[i])])

Flushed == IF AllWritten = <<>> THEN <<>> ELSE SubSeq(AllWritten, 1, log.flushed)

(* No record is lost and none overtakes another on its way through the      *)
(* buffers, the swap, the recycling and the rolling of files: what the      *)
(* files hold, read for the first time each, and what waits, are the        *)
(* records appended.                                                        *)
NothingLost ==
  FirstOccurrences(AllWritten) \o Waiting = [i \in 1 .. count |-> i]

(* The front never lacks a current buffer, and the writer can always take   *)
(* back the buffers it gave away: back() is never called on an empty vector *)
(* (an assertion the original has and this code left out).                  *)
BuffersComeBack ==
  /\ currentBuffer \in Buffer /\ {nextBuffer, new1, new2} \subseteq Buffer \union {NoBuffer}
  /\ wpc = "write" => Len(toWrite) >= IF new2 = NoBuffer THEN 2 ELSE 1

(* stop() loses nothing that was appended before it if the writer was       *)
(* waiting, which is how the logging test ends: it is on disk.              *)
KeptAtStop ==
  user = "stopped" => \A r \in 1 .. owed : Contains(Flushed, r)

(* A record reaches the disk, full buffer or not, unless logging stops; and *)
(* stop() returns.                                                          *)
EveryRecordWritten ==
  \A r \in 1 .. MaxRecords :
    r <= count /\ user # "new" ~> user = "stopped" \/ (running /\ Contains(Flushed, r))
=============================================================================
