------------------------------ MODULE HttpServer ------------------------------
(***************************************************************************)
(* http/HttpContext.cc, HttpRequest.h, HttpServer.cc, HttpResponse.cc and   *)
(* the routes of http/main.cc: requests of one connection are parsed out of *)
(* the input buffer, whatever fragments they arrive in, and answered in     *)
(* order until one of them closes the connection or goes to the inference   *)
(* scheduler.                                                               *)
(*                                                                          *)
(* The stream is a sequence of units: "cr" and "lf", which the parser looks *)
(* for, a unit for each kind of request line, header and boundary, and "x"  *)
(* for any other text.  A unit counts as one byte of the limits.  The       *)
(* client writes a script of messages; everything between two readFd()      *)
(* calls is one loop iteration of parseRequest() or onMessage() per step.   *)
(***************************************************************************)
EXTENDS Naturals, Sequences, SequencesExt, FiniteSetsExt

CONSTANTS MaxHeaderBytes,  \* kMaxHeaderBytes
          MaxBodyBytes,    \* kMaxBodyBytes
          MaxFragment,     \* bound: units of one readFd()
          Scripts          \* the sequences of messages a client may send

(* Lines of three words, as processRequestLine() splits them. *)
Words(method, path, version) == [method |-> method, path |-> path, version |-> version]

RequestLines ==
  [get |-> Words("GET", "/", "HTTP/1.1"),        \* with a query or without
   get10 |-> Words("GET", "/", "HTTP/1.0"),
   icon |-> Words("GET", "/favicon.ico", "HTTP/1.1"),
   health |-> Words("GET", "/healthz", "HTTP/1.1"),
   postHealth |-> Words("POST", "/healthz", "HTTP/1.1"),
   upload |-> Words("POST", "/upload", "HTTP/1.1"),
   infer |-> Words("POST", "/v1/infer", "HTTP/1.1"),
   unknown |-> Words("HEAD", "/unknown", "HTTP/1.1"),
   patch |-> Words("PATCH", "/", "HTTP/1.1"), http2 |-> Words("GET", "/", "HTTP/2.0")]

(* setMethod() and the version: what a line must have. *)
Methods  == {"GET", "POST", "HEAD", "PUT", "DELETE"}
Versions == {"HTTP/1.1", "HTTP/1.0"}

(* Headers: the name in lower case and the value without blanks around it. *)
Header(name, value) == [name |-> name, value |-> value]

Headers ==
  [close |-> Header("connection", "close"), keepAlive |-> Header("connection", "Keep-Alive"),
   len0 |-> Header("content-length", "0"), len1 |-> Header("content-length", "1"),
   len2 |-> Header("content-length", "2"), len12 |-> Header("content-length", "12"),
   len23 |-> Header("content-length", "23"), len24 |-> Header("content-length", "24"),
   lenX |-> Header("content-length", "1x"), negative |-> Header("content-length", "-1"),
   multipart |-> Header("content-type", "multipart/form-data; boundary=b"),
   unbounded |-> Header("content-type", "multipart/form-data"),
   other |-> Header("accept", "*/*")]

(* strtoull() to the end of the value.  It takes a sign: "-1" is 2^64 - 1,   *)
(* for which the first length above the limit stands.                       *)
Numbers ==
  [v \in {"0", "1", "2", "12", "23", "24", "-1"} |->
     CASE v = "0" -> 0 [] v = "1" -> 1 [] v = "2" -> 2
       [] v = "12" -> 12 [] v = "23" -> 23 [] v = "24" -> 24
       [] v = "-1" -> MaxBodyBytes + 1]

(* Content-Disposition headers of a part: whether they say form-data, and   *)
(* their parameters in order.                                               *)
Disposition(form, parameters) == [form |-> form, parameters |-> parameters]

Dispositions ==
  [file |-> Disposition(TRUE, <<<<"name", "image">>, <<"filename", "f">>>>),
   fileFirst |-> Disposition(TRUE, <<<<"filename", "f">>, <<"name", "image">>>>),
   field |-> Disposition(TRUE, <<<<"name", "model">>>>),
   nameless |-> Disposition(TRUE, <<>>), attached |-> Disposition(FALSE, <<>>)]

PartHeaders == DOMAIN Dispositions \union {"type"}

(* The units a stream is made of. *)
Unit == {"cr", "lf", "x", "mark", "end"} \union DOMAIN RequestLines
          \union DOMAIN Headers \union PartHeaders

(* A message as the client builds it: its lines, its body and, for the       *)
(* reference, the parts the body was built from.                             *)
Part == [field : STRING, file : STRING, content : Seq(Unit)]

Message == [line : Seq(Unit), headers : Seq(Seq(Unit)), body : Seq(Unit),
            parts : Seq(Part), wellFormed : BOOLEAN]

ASSUME HttpAssumption ==
  /\ MaxHeaderBytes \in Nat /\ MaxBodyBytes \in Nat /\ MaxFragment \in Nat \ {0}
  /\ Scripts \subseteq Seq(Message)

Crlf == <<"cr", "lf">>

VARIABLES
  script,         \* the messages the client sends
  fed,            \* how many units of them have been read
  buf,            \* inputBuffer_
  pc,             \* "wait": in epoll; "parse": in the loop of onMessage()
  pstate,         \* state_ of the HttpContext
  headerBytes,    \* headerBytes_
  contentLength,  \* contentLength_
  request,        \* request_
  conn,           \* "connected", "closing" (after shutdown()), or "stopped"
                  \*   (after stopRead())
  page,           \* what read_file_to_string() makes of the page; <<>>: nothing
  served          \* history: the answers, with the request each one is for

context  == <<pstate, headerBytes, contentLength, request>>
httpVars == <<script, fed, buf, pc, context, conn, page, served>>

NoRequest == [line |-> Words("", "", ""), headers |-> <<>>, body |-> <<>>,
              form |-> <<>>, files |-> <<>>]

(* What the client writes for a message. *)
Lines(m) == <<m.line>> \o m.headers \o <<<<>>>>
Encode(m) ==
  FlattenSeq([i \in 1 .. Len(Lines(m)) |-> Lines(m)[i] \o Crlf]) \o m.body

Stream == FlattenSeq([i \in 1 .. Len(script) |-> Encode(script[i])])

(* read_file_to_string(): nothing if open(), fstat() or mmap() fails. *)
ReadFileToString == {<<>>, <<"page">>}

HttpInit ==
  /\ script \in Scripts /\ page \in ReadFileToString
  /\ fed = 0 /\ buf = <<>> /\ pc = "wait"
  /\ pstate = "kExpectRequestLine"
  /\ headerBytes = 0 /\ contentLength = 0 /\ request = NoRequest
  /\ conn = "connected" /\ served = <<>>

-----------------------------------------------------------------------------
(* handleRead(): the next fragment is in the buffer and onMessage() runs;   *)
(* it returns at once when the connection is not connected.                 *)
Feed ==
  /\ pc = "wait" /\ conn # "stopped"
  /\ \E n \in 1 .. Min({MaxFragment, Len(Stream) - fed}) :
       /\ buf' = buf \o SubSeq(Stream, fed + 1, fed + n)
       /\ fed' = fed + n
  /\ pc' = IF conn = "connected" THEN "parse" ELSE "wait"
  /\ UNCHANGED <<script, context, conn, page, served>>

Refusal(status) == [status |-> status, path |-> "", close |-> TRUE, reply |-> <<>>,
                    form |-> <<>>, files |-> <<>>]

(* A 400 or 413 reply and shutdown(). *)
Refuse(status) ==
  /\ served' = Append(served, Refusal(status))
  /\ conn' = "closing"
  /\ pc' = "wait"

-----------------------------------------------------------------------------
(* parseRequest(), the request line and the headers *)

InHeader == pc = "parse" /\ pstate \in {"kExpectRequestLine", "kExpectHeaders"}

(* findCRLF(): where the first line ends, if it does. *)
LineEnds == {i \in 1 .. Len(buf) - 1 : SubSeq(buf, i, i + 1) = Crlf}

Line == SubSeq(buf, 1, Min(LineEnds) - 1)

LineBytes == Len(Line) + 2

Consume(n) == buf' = SubSeq(buf, n + 1, Len(buf))

(* Fault: the length of an unfinished line is not looked at. *)
LineMissingUnbounded ==
  /\ InHeader /\ LineEnds = {}
  /\ pc' = "wait"
  /\ UNCHANGED <<script, fed, buf, context, conn, page, served>>

(* No CRLF yet: kIncomplete, or already more than a header may have. *)
LineMissing ==
  /\ InHeader /\ LineEnds = {}
  /\ \/ /\ headerBytes + Len(buf) > MaxHeaderBytes
        /\ Refuse("413")
     \/ /\ headerBytes + Len(buf) <= MaxHeaderBytes
        /\ pc' = "wait"
        /\ UNCHANGED <<conn, served>>
  /\ UNCHANGED <<script, fed, buf, context, page>>

TooLong == headerBytes + LineBytes > MaxHeaderBytes

LineTooLong ==
  /\ InHeader /\ LineEnds # {}
  /\ TooLong
  /\ headerBytes' = headerBytes + LineBytes
  /\ Refuse("413")
  /\ UNCHANGED <<script, fed, buf, pstate, contentLength, request, page>>

(* A line within the limit is counted before it is looked at. *)
LineRead == /\ InHeader /\ LineEnds # {}
            /\ ~TooLong
            /\ headerBytes' = headerBytes + LineBytes

(* processRequestLine() *)
GoodRequestLine(line) ==
  \E u \in DOMAIN RequestLines :
    line = <<u>> /\ RequestLines[u].method \in Methods /\ RequestLines[u].version \in Versions

RequestLine ==
  /\ LineRead /\ pstate = "kExpectRequestLine"
  /\ GoodRequestLine(Line)
  /\ request' = [request EXCEPT !.line = RequestLines[Line[1]]]
  /\ pstate' = "kExpectHeaders"
  /\ Consume(LineBytes)
  /\ UNCHANGED <<script, fed, pc, contentLength, conn, page, served>>

(* A line is a header if it has a colon, which every unit of Headers has. *)
HasColon(line) == line # <<>> /\ line[1] \in DOMAIN Headers

(* Assignments to elements of an unordered_map: f over what is in g. *)
Over(f, g) == [x \in DOMAIN f \union DOMAIN g |-> IF x \in DOMAIN f THEN f[x] ELSE g[x]]

AddHeader(headers, h) == Over([name \in {h.name} |-> h.value], headers)

(* addHeader(): a later header of the same name replaces the earlier one. *)
HeaderLine ==
  /\ LineRead /\ pstate = "kExpectHeaders"
  /\ HasColon(Line)
  /\ request' = [request EXCEPT !.headers = AddHeader(@, Headers[Line[1]])]
  /\ Consume(LineBytes)
  /\ UNCHANGED <<script, fed, pc, pstate, contentLength, conn, page, served>>

Absent == ""

GetHeader(req, name) == IF name \in DOMAIN req.headers THEN req.headers[name] ELSE Absent

ContentLength == GetHeader(request, "content-length")

(* The empty line: prepareBody() and the limit of the body. *)
EndOfHeaders ==
  /\ LineRead /\ pstate = "kExpectHeaders"
  /\ Line = <<>>
  /\ ContentLength \in DOMAIN Numbers \union {Absent}
  /\ contentLength' = IF ContentLength = Absent THEN 0 ELSE Numbers[ContentLength]
  /\ \/ /\ contentLength' > MaxBodyBytes
        /\ Refuse("413")
        /\ UNCHANGED <<buf, pstate>>
     \/ /\ contentLength' <= MaxBodyBytes
        /\ pstate' = "kExpectBody"
        /\ Consume(LineBytes)
        /\ UNCHANGED <<pc, conn, served>>
  /\ UNCHANGED <<script, fed, request, page>>

(* kBadRequest: a request line or a header that is none, or a length that   *)
(* is not a number.                                                         *)
BadLine ==
  /\ LineRead
  /\ \/ pstate = "kExpectRequestLine" /\ ~GoodRequestLine(Line)
     \/ pstate = "kExpectHeaders" /\ ~HasColon(Line) /\ Line # <<>>
     \/ /\ pstate = "kExpectHeaders" /\ Line = <<>>
        /\ ContentLength \notin DOMAIN Numbers \union {Absent}
  /\ Refuse("400")
  /\ UNCHANGED <<script, fed, buf, pstate, contentLength, request, page>>

-----------------------------------------------------------------------------
(* parseMultipartBody().  In the body "mark" is the boundary and "end" the  *)
(* boundary with "--" behind it.                                            *)

(* string::compare() *)
At(s, i, p) == i + Len(p) - 1 <= Len(s) /\ SubSeq(s, i, i + Len(p) - 1) = p

(* string::find(): where the first of the patterns is at or after `from`;   *)
(* 0: nowhere.                                                              *)
Find(s, patterns, from) ==
  LET at == {i \in from .. Len(s) : \E p \in patterns : At(s, i, p)}
  IN IF at = {} THEN 0 ELSE Min(at)

(* parameterValue() looks for "name=", which is also the end of "filename=". *)
Matches == [name |-> {"name", "filename"}, filename |-> {"filename"}]

ParameterValue(parameters, name) ==
  LET found == {i \in 1 .. Len(parameters) : parameters[i][1] \in Matches[name]}
  IN IF found = {} THEN "" ELSE parameters[Min(found)][2]

(* Where the lines of s[from .. to - 1] start. *)
LineStarts(s, from, to) ==
  {i \in from .. to - 1 : i = from \/ At(s, i - 2, Crlf)}

(* The headers of a part: every line has a colon, the last disposition      *)
(* counts, it says form-data and names the field.                           *)
DispositionOf(s, from, to) ==
  LET found == {i \in LineStarts(s, from, to) : s[i] \in DOMAIN Dispositions}
  IN IF found = {} THEN Disposition(FALSE, <<>>) ELSE Dispositions[s[Max(found)]]

GoodPart(s, from, to) ==
  /\ \A i \in LineStarts(s, from, to) : s[i] \in PartHeaders
  /\ DispositionOf(s, from, to).form
  /\ ParameterValue(DispositionOf(s, from, to).parameters, "name") # ""

BadBody == [good |-> FALSE, form |-> <<>>, files |-> <<>>]

(* addBodyForm() or addFile(), in front of what the later parts add; a      *)
(* later field of the same name replaces an earlier one.                    *)
AddPart(parameters, content, rest) ==
  LET field == ParameterValue(parameters, "name")
      file  == ParameterValue(parameters, "filename")
  IN IF file = ""
       THEN [rest EXCEPT !.form = Over(@, [f \in {field} |-> content])]
       ELSE [rest EXCEPT !.files =
               <<[field |-> field, file |-> file, content |-> content]>> \o @]

(* The loop of parseMultipartBody() from the cursor on. *)
Multipart(s) ==
  LET from[cursor \in 1 .. Len(s) + 1] ==
        LET marker    == Find(s, {<<"mark">>, <<"end">>}, cursor)
            headerEnd == Find(s, {Crlf \o Crlf}, marker + 3)
            next      == Find(s, {Crlf \o <<"mark">>, Crlf \o <<"end">>}, headerEnd + 4)
        IN CASE marker = 0 -> BadBody
             [] marker # 0 /\ s[marker] = "end" ->
                  [good |-> TRUE, form |-> <<>>, files |-> <<>>]
             [] OTHER ->
                  IF \/ ~At(s, marker + 1, Crlf)
                     \/ headerEnd = 0 \/ next = 0
                     \/ ~GoodPart(s, marker + 3, headerEnd)
                     \/ ~from[next + 2].good
                    THEN BadBody
                    ELSE AddPart(DispositionOf(s, marker + 3, headerEnd).parameters,
                                 SubSeq(s, headerEnd + 4, next - 1), from[next + 2])
  IN from[1]

ParseBody(s, contentType) ==
  CASE contentType = Headers.multipart.value -> Multipart(s)
    [] contentType = Headers.unbounded.value -> BadBody
    [] OTHER -> [good |-> TRUE, form |-> <<>>, files |-> <<>>]

-----------------------------------------------------------------------------
(* The body, and onRequest() *)

BodyMissing ==
  /\ pc = "parse" /\ pstate = "kExpectBody" /\ Len(buf) < contentLength
  /\ pc' = "wait"
  /\ UNCHANGED <<script, fed, buf, context, conn, page, served>>

(* The body is taken out of the buffer and a multipart one is parsed. *)
Body ==
  /\ pc = "parse" /\ pstate = "kExpectBody" /\ Len(buf) >= contentLength
  /\ LET body   == SubSeq(buf, 1, contentLength)
         parsed == ParseBody(body, GetHeader(request, "content-type"))
     IN /\ request' = [request EXCEPT !.body = body, !.form = Over(parsed.form, @),
                                      !.files = @ \o parsed.files]
        /\ \/ /\ parsed.good
              /\ pstate' = "kGotAll"
              /\ UNCHANGED <<pc, conn, served>>
           \/ /\ ~parsed.good
              /\ Refuse("400")
              /\ UNCHANGED pstate
  /\ Consume(contentLength)
  /\ UNCHANGED <<script, fed, headerBytes, contentLength, page>>

(* onRequest() of main.cc: the status, the body, and whether the handler    *)
(* closes the connection.  The page is empty when its file cannot be read.  *)
Response(status, reply, close) == [status |-> status, reply |-> reply, close |-> close]

OnRequest(line, files) ==
  CASE line.path = "/"            -> Response("200", page, FALSE)
    [] line.path = "/favicon.ico" -> Response("200", <<"icon">>, FALSE)
    [] line.path = "/healthz"     ->
         IF line.method = "GET" THEN Response("200", <<"report">>, FALSE)
                                ELSE Response("405", <<"error">>, FALSE)
    [] line.path = "/upload"      ->
         IF files = <<>> THEN Response("400", <<>>, TRUE)
                         ELSE Response("200", files[1].content, FALSE)
    [] OTHER                      -> Response("404", <<>>, TRUE)

(* "Connection: close", or HTTP/1.0 without "Keep-Alive". *)
Closes(version, connection) ==
  \/ connection = "close"
  \/ version = "HTTP/1.0" /\ connection # "Keep-Alive"

(* Fault: swap() leaves the files of the request where they are. *)
ResetKeepsFiles ==
  /\ pstate' = "kExpectRequestLine"
  /\ headerBytes' = 0 /\ contentLength' = 0
  /\ request' = [NoRequest EXCEPT !.files = request.files]

(* HttpContext::reset() *)
Reset ==
  /\ pstate' = "kExpectRequestLine"
  /\ headerBytes' = 0 /\ contentLength' = 0
  /\ request' = NoRequest

Served(line, form, files, response, close) ==
  [status |-> response.status, path |-> line.path, close |-> close,
   reply |-> response.reply, form |-> form,
   files |-> [i \in 1 .. Len(files) |-> <<files[i].file, files[i].content>>]]

(* handleAsync() takes the request: accepted, and reading stops, or refused *)
(* and the connection is closed.                                            *)
ServeInfer ==
  /\ pc = "parse" /\ pstate = "kGotAll" /\ request.line.path = "/v1/infer"
  /\ served' = Append(served, Served(request.line, request.form, request.files,
                                     Response("infer", <<>>, TRUE), TRUE))
  /\ conn' \in {"stopped", "closing"}
  /\ Reset
  /\ pc' = "wait"
  /\ UNCHANGED <<script, fed, buf, page>>

(* httpCallback_ answers; the loop goes on with what is left in the buffer. *)
Serve ==
  /\ pc = "parse" /\ pstate = "kGotAll" /\ request.line.path # "/v1/infer"
  /\ LET response == OnRequest(request.line, request.files)
         close    == response.close
                       \/ Closes(request.line.version, GetHeader(request, "connection"))
     IN /\ served' = Append(served, Served(request.line, request.form, request.files,
                                           response, close))
        /\ conn' = IF close THEN "closing" ELSE conn
        /\ pc' = IF close \/ buf = <<>> THEN "wait" ELSE "parse"
  /\ Reset
  /\ UNCHANGED <<script, fed, buf, page>>

HttpNext ==
  \/ Feed \/ LineMissing \/ LineTooLong \/ RequestLine \/ HeaderLine
  \/ EndOfHeaders \/ BadLine \/ BodyMissing \/ Body \/ ServeInfer \/ Serve

HttpSpec == HttpInit /\ [][HttpNext]_httpVars

-----------------------------------------------------------------------------
(* The reference: what each message of the script deserves, read off the     *)
(* message and not off the stream.  A message with a multipart body knows    *)
(* the parts it was built from.                                              *)

(* The size of the header up to its i-th line. *)
HeaderSize(m, i) == Len(FlattenSeq(SubSeq(Lines(m), 1, i))) + 2 * i

WrongLine(m, i) ==
  \/ i = 1 /\ ~GoodRequestLine(m.line)
  \/ i \in 2 .. Len(m.headers) + 1 /\ ~HasColon(m.headers[i - 1])

Offending(m) == {i \in 1 .. Len(Lines(m)) : HeaderSize(m, i) > MaxHeaderBytes
                                            \/ WrongLine(m, i)}

(* The value of the last of the first k headers with this name. *)
LastValue(m, name, k) ==
  LET at == {i \in 1 .. k : Headers[m.headers[i][1]].name = name}
  IN IF at = {} THEN Absent ELSE Headers[m.headers[Max(at)][1]].value

(* What a header says: the last of its name. *)
Value(m, name) == LastValue(m, name, Len(m.headers))

BadLength(m) == Value(m, "content-length") = Headers.lenX.value

DeservedClose(m) ==
  \/ Value(m, "connection") = "close"
  \/ m.line = <<"get10">> /\ Value(m, "connection") # "Keep-Alive"

FilesOf(m) == SelectSeq(m.parts, LAMBDA p : p.file # "")

DeservedForm(m) ==
  LET fields == SelectSeq(m.parts, LAMBDA p : p.file = "")
  IN [f \in {fields[i].field : i \in 1 .. Len(fields)} |->
        fields[Max({i \in 1 .. Len(fields) : fields[i].field = f})].content]

(* The answer to a message that is not refused. *)
Answer(m) ==
  LET line     == RequestLines[m.line[1]]
      response == IF line.path = "/v1/infer" THEN Response("infer", <<>>, TRUE)
                                             ELSE OnRequest(line, FilesOf(m))
  IN Served(line, DeservedForm(m), FilesOf(m), response, response.close \/ DeservedClose(m))

Deserved(m) ==
  CASE Offending(m) # {} ->
         IF HeaderSize(m, Min(Offending(m))) > MaxHeaderBytes
           THEN Refusal("413") ELSE Refusal("400")
    [] Offending(m) = {} /\ BadLength(m) -> Refusal("400")
    [] Offending(m) = {} /\ ~BadLength(m) /\ Len(m.body) > MaxBodyBytes ->
         Refusal("413")
    [] Offending(m) = {} /\ Len(m.body) <= MaxBodyBytes /\ ~m.wellFormed -> Refusal("400")
    [] OTHER -> Answer(m)

HasCrlf(line) == \E i \in 1 .. Len(line) - 1 : line[i] = "cr" /\ line[i + 1] = "lf"

(* What parseMultipartBody() makes of the body is what the message was built *)
(* from; a file may have another field name.                                 *)
Agrees(m, parsed) ==
  /\ parsed.form = DeservedForm(m)
  /\ {parsed.files, FilesOf(m)} \subseteq Seq(Part) /\ Len(parsed.files) = Len(FilesOf(m))
  /\ \A i \in 1 .. Len(FilesOf(m)) :
       /\ parsed.files[i].file = FilesOf(m)[i].file
       /\ parsed.files[i].content = FilesOf(m)[i].content

(* The message knows what it was built from: whether its body can be parsed, *)
(* and into what.                                                            *)
ReadsBack(m) ==
  LET parsed == ParseBody(m.body, Value(m, "content-type"))
  IN m.wellFormed = parsed.good /\ (m.wellFormed => Agrees(m, parsed))

(* What a message says of itself is true: its lines are lines, and its      *)
(* length is that of its body.                                               *)
Truthful(m) ==
  /\ \A i \in 1 .. Len(Lines(m)) : ~HasCrlf(Lines(m)[i])
  /\ \A i \in 1 .. Len(m.headers) : m.headers[i] # <<>>
  /\ Offending(m) = {} =>
       LET length == Value(m, "content-length")
       IN /\ length = Absent => m.body = <<>>
          /\ length \in DOMAIN Numbers => Len(m.body) = Numbers[length]
          /\ ReadsBack(m)

ASSUME ClientAssumption == \A s \in Scripts : \A i \in 1 .. Len(s) : Truthful(s[i])

(* The answers a client that reads them all gets: up to the first one after  *)
(* which the connection is closed.                                           *)
Expected ==
  LET all  == [i \in 1 .. Len(script) |-> Deserved(script[i])]
      ends == {i \in 1 .. Len(script) : all[i].close}
  IN IF ends = {} THEN all ELSE SubSeq(all, 1, Min(ends))

-----------------------------------------------------------------------------
(* Framing: however the stream is cut, the requests handed to the handlers,  *)
(* with their fields and files, and the refusals are those the client's      *)
(* messages deserve, in their order, and none that has arrived completely is *)
(* left unanswered while the server waits.  A body full of line ends is never *)
(* taken for a header, no request is blamed for the size of the one before,  *)
(* and none is answered with a file of the one before.                       *)
AnsweredInOrder ==
  /\ IsPrefix(served, Expected)
  /\ pc = "wait" /\ fed = Len(Stream) => served = Expected

(* What waits in the buffer of a connected client stays within the limits of *)
(* one header or one body.                                                   *)
InputBounded ==
  pc = "wait" /\ conn = "connected" =>
    \/ headerBytes + Len(buf) <= MaxHeaderBytes
    \/ pstate = "kExpectBody" /\ Len(buf) < MaxBodyBytes
=============================================================================
