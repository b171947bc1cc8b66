----------------------------- MODULE HttpMessages -----------------------------
(***************************************************************************)
(* The messages of a connection as their sender means them, independent of *)
(* http_parser.cpp: how a message is put on the wire, and the callbacks    *)
(* http_parser.h:244-258 promises for it when nothing goes wrong.          *)
(*                                                                         *)
(* The wire is a sequence of tokens.  A start line, a header name with its *)
(* colon and a word of a header value are one token each; CR, LF, spaces,  *)
(* commas, digits and body bytes are one byte each.                        *)
(*                                                                         *)
(* A message is a record:                                                  *)
(*   blanks    line ends before it, which a request may have               *)
(*   line      its start line                                              *)
(*   eol       how the lines of its header end: CR LF, or LF alone         *)
(*   fields    the header fields: a name, the value's tokens, and what is  *)
(*             left of them without folds and leading blanks               *)
(*   framing   how the end of the body is found                            *)
(*   body      the lengths of the chunks, or of the body (one element)     *)
(*   trailers  the fields that follow the last chunk                       *)
(*   skip      does the application know that no body follows the headers  *)
(*             (a response to HEAD)?  on_headers_complete then returns 1   *)
(*   after     what follows it: another message ("next"), nothing because  *)
(*             the connection closes ("close"), another protocol           *)
(*             ("upgrade"), or nothing because it is malformed: the errno  *)
(***************************************************************************)
EXTENDS Naturals, SequencesExt

Digits == <<"0", "1", "2", "3", "4", "5", "6", "7", "8", "9", "a", "b", "c", "d", "e", "f">>

\* The value of a digit token: unhex[], and ch - '0' for the decimal digits.
Digit == [c \in ToSet(Digits) |-> CHOOSE n \in 0 .. 15 : Digits[n + 1] = c]

Bytes(n) == [i \in 1 .. n |-> "byte"]
HexSize(n) == IF n < 16 THEN <<Digits[n + 1]>> ELSE <<Digits[(n \div 16) + 1], Digits[(n % 16) + 1]>>

\* Concat(F, s): F of each element of s, in order.
Concat(F(_), s) == FlattenSeq([i \in DOMAIN s |-> F(s[i])])

FieldWire(field, eol) == <<field[1], " ">> \o field[2] \o eol
ChunkWire(n) == HexSize(n) \o <<";", "CR", "LF">> \o Bytes(n) \o <<"CR", "LF">>

\* The bytes of a message, as the sender puts them on the wire.
Wire(m) ==
  LET fieldWire(field) == FieldWire(field, m.eol) IN
  m.blanks \o <<m.line>> \o Concat(fieldWire, m.fields) \o m.eol \o
  CASE m.framing = "none" -> <<>>
    [] m.framing \in {"length", "eof"} -> Bytes(m.body[1])
    [] m.framing = "chunked" ->
         Concat(ChunkWire, m.body) \o <<"0", "CR", "LF">>
           \o Concat(fieldWire, m.trailers) \o m.eol

FieldCalls(field) == <<"field">> \o field[3]
ChunkCalls(n) == <<"chunk">> \o Bytes(n) \o <<"chunk end">>

\* The callbacks of a message.  A data callback stands as the data it hands over,
\* one element per token, however many calls that takes (http_parser.h:80-82).
Calls(m) ==
  <<"begin">> \o Concat(FieldCalls, m.fields) \o <<"headers">>
  \o (CASE m.framing = "none" -> <<>>
        [] m.framing \in {"length", "eof"} -> Bytes(m.body[1])
        [] m.framing = "chunked" ->
             Concat(ChunkCalls, m.body) \o <<"chunk">>
               \o Concat(FieldCalls, m.trailers) \o <<"chunk end">>)
  \o <<"complete">>

IsBad(m) == m.after \notin {"next", "close", "upgrade"}

\* How many messages of a connection a receiver gets to see: up to the first that
\* is not followed by another one.
Seen(ms) ==
  CHOOSE n \in 0 .. Len(ms) :
    /\ \A i \in 1 .. n - 1 : ms[i].after = "next"
    /\ n = Len(ms) \/ (n > 0 /\ ms[n].after # "next")
===============================================================================
