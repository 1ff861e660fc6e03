----------------------------- MODULE LogFrontEnd ------------------------------
(***************************************************************************)
(* The two ways a record comes about.  logger/Logging.cc over LogStream.cc  *)
(* puts the pieces of one statement into a FixedBuffer and hands the buffer *)
(* to g_output; logger/Logger.cc is one object whose level every thread     *)
(* sets before it prints.                                                   *)
(*                                                                          *)
(* A piece of a record is a text, of which only the length counts, a number *)
(* or a floating-point number.                                              *)
(***************************************************************************)
EXTENDS Integers, Sequences, SequencesExt, FiniteSetsExt

CONSTANTS SmallBuffer,     \* kSmallBuffer
          MaxNumericSize,  \* kMaxNumericSize
          Messages,        \* the sequences of pieces a statement may stream
          Tellers,         \* the threads that use the object of Logger.cc
          MaxTold          \* bound: statements of one thread

VARIABLES
  logLevel,  \* g_logLevel
  stmt,      \* the statement: its level, its pieces, and how many are streamed
  stream,    \* stream_: cur_ and the pieces that are in
  process,   \* "runs", "aborted", or "undefined" after undefined behaviour
  told,      \* history: the records that g_output was given
  level_,    \* logLevel_ of the one Logger
  teller,    \* per thread: the level of its statement, and where it is in it
  printed,   \* history: what went to std::cout, with the thread
  exited     \* after exit(-1)

streamVars == <<logLevel, stmt, stream, process, told>>
tellerVars == <<level_, teller, printed, exited>>
frontVars  == <<streamVars, tellerVars>>

-----------------------------------------------------------------------------
(* Pieces, and the text of a number *)

Text(n)   == [kind |-> "text", length |-> n]
Number(v) == [kind |-> "number", value |-> v]
Real(n)   == [kind |-> "real", length |-> n]   \* n: what "%.12g" needs

(* Division and remainder in C++ round towards zero. *)
Quotient(n)  == IF n < 0 THEN -((-n) \div 10) ELSE n \div 10
Remainder(n) == IF n < 0 THEN -((-n) % 10) ELSE n % 10

(* zero[]: the array digits, from -9 to 9 *)
Zero == [i \in -9 .. 9 |-> IF i < 0 THEN -i ELSE i]

(* The digits, the last one first *)
Digits[n \in Int] ==
  <<Zero[Remainder(n)]>> \o IF Quotient(n) = 0 THEN <<>> ELSE Digits[Quotient(n)]

(* formatInteger() *)
FormatInteger(n) == [negative |-> n < 0, digits |-> Reverse(Digits[n])]

Length(p) ==
  IF p.kind # "number" THEN p.length
  ELSE LET text == FormatInteger(p.value)
       IN Len(text.digits) + IF text.negative THEN 1 ELSE 0

Piece == [kind : {"text", "real"}, length : Nat] \union [kind : {"number"}, value : Int]

(* The small buffer takes the pieces of the constructor, which are 35 bytes; *)
(* the text of a number, with its end, fits into kMaxNumericSize: 20 digits  *)
(* and a sign are enough for 64 bits, and "%.12g" is no longer.              *)
ASSUME FrontEndAssumption ==
  /\ SmallBuffer \in Nat /\ SmallBuffer > 35
  /\ MaxNumericSize \in Nat /\ MaxNumericSize > 3 /\ MaxTold \in Nat
  /\ \A msg \in Messages :
       /\ msg \in Seq(Piece)
       /\ \A i \in 1 .. Len(msg) : msg[i].kind # "text" => Length(msg[i]) < MaxNumericSize
  /\ Tellers # {}

-----------------------------------------------------------------------------
(* LogStream *)

EmptyStream == [cur |-> 0, pieces |-> <<>>]

Room(s) == SmallBuffer - s.cur

(* Fault: ">=" for texts as for numbers. *)
FitsExactly(s, p) ==
  Room(s) >= IF p.kind = "text" THEN Length(p) ELSE MaxNumericSize

Fits(s, p) ==
  IF p.kind = "text" THEN Room(s) > Length(p) ELSE Room(s) >= MaxNumericSize

(* operator<<: a piece is there as a whole or not at all. *)
Stream(s, p) ==
  IF Fits(s, p) THEN [cur |-> s.cur + Length(p), pieces |-> Append(s.pieces, p)] ELSE s

-----------------------------------------------------------------------------
(* Logging *)

Levels == <<"TRACE", "DEBUG", "INFO", "WARN", "ERROR", "FATAL">>

Rank(l) == CHOOSE i \in 1 .. Len(Levels) : Levels[i] = l

(* The macros: only DEBUG and INFO look at the level that was set. *)
Enabled(l) == l \in {"DEBUG", "INFO"} => Rank(logLevel) <= Rank(l)

(* The constructor: the time, 17 bytes of it, the microseconds, the level;  *)
(* the function for LOG_DEBUG.                                              *)
Head0(l) == <<Text(17), Text(7), Text(6)>> \o
              IF l = "DEBUG" THEN <<Text(4), Text(1)>> ELSE <<>>

(* finish(): the file without its directories, the line and the line end *)
Finish == <<Text(3), Text(8), Text(1), Number(117), Text(1)>>

NoStmt == [level |-> "none", pieces |-> <<>>, at |-> 0]

FrontInit ==
  /\ logLevel = "INFO" /\ stmt = NoStmt /\ stream = EmptyStream
  /\ process = "runs" /\ told = <<>>
  /\ level_ = "INFO" /\ printed = <<>> /\ exited = FALSE
  /\ teller = [t \in Tellers |-> [level |-> "INFO", at |-> "idle", done |-> 0]]

SetLogLevel ==
  /\ process = "runs" /\ stmt = NoStmt
  /\ logLevel' \in {"DEBUG", "INFO", "FATAL"}
  /\ UNCHANGED <<stmt, stream, process, told>>

Statement ==
  /\ process = "runs" /\ stmt = NoStmt /\ told = <<>>
  /\ \E l \in {"DEBUG", "INFO", "WARN", "ERROR", "FATAL"}, msg \in Messages :
       /\ Enabled(l)
       /\ stmt' = [level |-> l, pieces |-> Head0(l) \o msg \o Finish, at |-> 1]
  /\ stream' = EmptyStream
  /\ UNCHANGED <<logLevel, process, told>>

(* One operator<<; the one of double returns nothing when it does not fit,  *)
(* and what the next one is called on is anything.                          *)
Put ==
  /\ process = "runs" /\ stmt.at \in 1 .. Len(stmt.pieces)
  /\ LET p == stmt.pieces[stmt.at]
     IN /\ stream' = Stream(stream, p)
        /\ stmt' = [stmt EXCEPT !.at = @ + 1]
        /\ process' \in IF p.kind = "real" /\ ~Fits(stream, p)
                          THEN {"runs", "undefined"} ELSE {"runs"}
  /\ UNCHANGED <<logLevel, told>>

(* ~Logger(): the whole buffer goes to g_output; FATAL flushes and aborts.  *)
DeleteLogger ==
  /\ process = "runs" /\ stmt # NoStmt /\ stmt.at = Len(stmt.pieces) + 1
  /\ told' = Append(told, [stmt |-> stmt, stream |-> stream])
  /\ process' = IF stmt.level = "FATAL" THEN "aborted" ELSE "runs"
  /\ stmt' = NoStmt /\ stream' = EmptyStream
  /\ UNCHANGED logLevel

StreamNext == SetLogLevel \/ Statement \/ Put \/ DeleteLogger

-----------------------------------------------------------------------------
(* Logger.cc: the macro sets the level of the one object, and log() reads   *)
(* it; nothing holds the two together.                                      *)

Tell(t) ==
  /\ ~exited /\ teller[t].at = "idle" /\ teller[t].done < MaxTold
  /\ \E l \in {"INFO", "ERROR", "FATAL"} :
       /\ level_' = l
       /\ teller' = [teller EXCEPT ![t].level = l,
                       ![t].at = IF l = "INFO" THEN "idle" ELSE "set",
                       ![t].done = @ + 1]
  /\ UNCHANGED <<printed, exited>>

(* log(): the label, and then the time and the message, of two threads in   *)
(* any order.                                                               *)
Label(t) ==
  /\ ~exited /\ teller[t].at = "set"
  /\ printed' = Append(printed, <<t, level_>>)
  /\ teller' = [teller EXCEPT ![t].at = "labelled"]
  /\ UNCHANGED <<level_, exited>>

(* The message; LOG_FATAL exits. *)
Message(t) ==
  /\ ~exited /\ teller[t].at = "labelled"
  /\ printed' = Append(printed, <<t, "message">>)
  /\ teller' = [teller EXCEPT ![t].at = "idle"]
  /\ exited' = (teller[t].level = "FATAL")
  /\ UNCHANGED level_

TellerNext == \E t \in Tellers : Tell(t) \/ Label(t) \/ Message(t)

(* The two share no state. *)
FrontNext == \/ StreamNext /\ UNCHANGED tellerVars
             \/ TellerNext /\ UNCHANGED streamVars

FrontSpec == FrontInit /\ [][FrontNext]_frontVars

-----------------------------------------------------------------------------
(* The reference *)

(* The number a text stands for. *)
NextDigit(v, d) == 10 * v + d
ReadBack(text) ==
  (IF text.negative THEN -1 ELSE 1) * FoldLeft(NextDigit, 0, text.digits)

NextPiece(n, p) == n + Length(p)
Total(pieces)   == FoldLeft(NextPiece, 0, pieces)

(* What the buffer gets is never more than it holds, the end of a number's   *)
(* text included; a statement that leaves room for a number is in its record *)
(* completely, line end included, and a longer one never loses its time and  *)
(* level; and every number, the smallest one too, reads as itself.  The level *)
(* that Logger.cc prints may be another thread's, but is always that of some *)
(* thread's latest statement.                                                *)
RecordWhole ==
  /\ stream.cur < SmallBuffer
  /\ \E t \in Tellers : level_ = teller[t].level
  /\ \A i \in 1 .. Len(told) :
       LET r == told[i]
       IN /\ Total(r.stmt.pieces) + MaxNumericSize <= SmallBuffer =>
               r.stream.pieces = r.stmt.pieces
          /\ IsPrefix(Head0(r.stmt.level), r.stream.pieces)
          /\ \A j \in 1 .. Len(r.stream.pieces) :
               r.stream.pieces[j].kind = "number" =>
                 ReadBack(FormatInteger(r.stream.pieces[j].value)) = r.stream.pieces[j].value
=============================================================================
