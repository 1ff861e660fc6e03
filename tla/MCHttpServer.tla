---------------------------- MODULE MCHttpServer -----------------------------
(* Messages that meet every branch of the parser, in scripts of at most two  *)
(* or three: bodies made of line ends, exact and exceeded limits, a repeated *)
(* Content-Length or Connection, multipart bodies of one and two parts,      *)
(* whole and broken, requests behind one that closes the connection.         *)
EXTENDS HttpServer

Msg(line, headers, body) ==
  [line |-> line, headers |-> headers, body |-> body, parts |-> <<>>, wellFormed |-> TRUE]

Get == <<"get">>

Plain    == Msg(Get, <<>>, <<>>)
Icon     == Msg(<<"icon">>, <<>>, <<>>)
Health   == Msg(<<"health">>, <<>>, <<>>)
LineEndsBody == Msg(Get, <<<<"len2">>>>, <<"cr", "lf">>)
Full     == Msg(<<"postHealth">>, <<<<"other">>, <<"len1">>>>, <<"x">>)
Twice    == Msg(Get, <<<<"len0">>, <<"len1">>>>, <<"cr">>)
Kept     == Msg(<<"get10">>, <<<<"keepAlive">>>>, <<>>)
Old      == Msg(<<"get10">>, <<>>, <<>>)
Closing  == Msg(Get, <<<<"close">>>>, <<>>)
Reopened == Msg(Get, <<<<"close">>, <<"keepAlive">>>>, <<>>)
Mended   == Msg(Get, <<<<"lenX">>, <<"len1">>>>, <<"x">>)
Unknown  == Msg(<<"unknown">>, <<>>, <<>>)
NoFile   == Msg(<<"upload">>, <<>>, <<>>)
NoLine   == Msg(<<"x">>, <<>>, <<>>)
Patch    == Msg(<<"patch">>, <<>>, <<>>)
Http2    == Msg(<<"http2">>, <<>>, <<>>)
NoColon  == Msg(Get, <<<<"x">>>>, <<>>)
NoNumber == Msg(Get, <<<<"lenX">>>>, <<>>)
LongLine == Msg(Get, <<<<"other", "x", "x", "x", "x", "x", "x", "x", "x", "x", "x">>>>, <<>>)
LongHead == Msg(Get, <<<<"other">>, <<"other">>, <<"other">>, <<"other">>>>, <<>>)
BigBody  == Msg(Get, <<<<"len24">>>>, <<"get", "cr", "lf", "cr", "lf">> \o [i \in 1 .. 19 |-> "x"])
Negative == [BigBody EXCEPT !.headers = <<<<"negative">>>>]

(* Multipart bodies *)
PartHead(d) == <<"mark">> \o Crlf \o <<d>> \o Crlf \o Crlf
Form(line, length, body, parts) ==
  [line |-> line, headers |-> <<<<"multipart">>, <<length>>>>, body |-> body, parts |-> parts,
   wellFormed |-> TRUE]
Broken(length, body) == [Form(<<"upload">>, length, body, <<>>) EXCEPT !.wellFormed = FALSE]

File(c)  == [field |-> "image", file |-> "f", content |-> c]
Field(c) == [field |-> "model", file |-> "", content |-> c]

Upload   == Form(<<"upload">>, "len12", PartHead("file") \o <<"x">> \o Crlf \o <<"end">>, <<File(<<"x">>)>>)
FileLast == Form(<<"upload">>, "len12", PartHead("fileFirst") \o <<"cr">> \o Crlf \o <<"end">>,
                 <<File(<<"cr">>)>>)
OnlyField == Form(<<"upload">>, "len12", PartHead("field") \o <<"x">> \o Crlf \o <<"end">>,
                  <<Field(<<"x">>)>>)
Infer    == Form(<<"infer">>, "len23",
                 PartHead("field") \o <<"x">> \o Crlf \o PartHead("file") \o <<"lf">> \o Crlf \o <<"end">>,
                 <<Field(<<"x">>), File(<<"lf">>)>>)
Fields   == Form(<<"upload">>, "len23",
                 PartHead("field") \o <<"x", "lf">> \o Crlf \o PartHead("field") \o Crlf \o <<"end">>,
                 <<Field(<<"x", "lf">>), Field(<<>>)>>)
NoEnd     == Broken("len12", PartHead("file") \o <<"x", "x", "cr", "x">>)
NoHeader  == Broken("len2", <<"mark", "x">>)
NoMark    == Broken("len1", <<"x">>)
Nameless  == Broken("len12", PartHead("nameless") \o <<"x">> \o Crlf \o <<"end">>)
Attached  == Broken("len12", PartHead("attached") \o <<"x">> \o Crlf \o <<"end">>)
NoPart    == Broken("len12", PartHead("type") \o <<"x">> \o Crlf \o <<"end">>)
Odd       == Broken("len12", PartHead("x") \o <<"x">> \o Crlf \o <<"end">>)
Unbounded == [Broken("len1", <<"x">>) EXCEPT !.headers = <<<<"unbounded">>, <<"len1">>>>]

Good == {Plain, LineEndsBody, Full, Twice, Kept, Upload}

Messages == Good \union
  {Icon, Health, Old, Closing, Reopened, Mended, Unknown, NoFile, NoLine, Patch, Http2, NoColon, NoNumber,
   LongLine, LongHead, BigBody, Negative, FileLast, OnlyField, Infer, Fields, NoEnd, NoHeader,
   NoMark, Nameless, Attached, NoPart, Odd, Unbounded}

MCScripts == {<<a, b>> : a \in Good, b \in Messages}
               \union {<<a, b>> : a \in Messages, b \in {Plain}}
               \union {<<LineEndsBody, a, b>> : a \in {Twice, Upload}, b \in Messages}
=============================================================================
