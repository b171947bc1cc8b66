----------------------------- MODULE MCHttpParser -----------------------------
(* The messages TLC sends through HttpParser, alone and one after another. *)
EXTENDS HttpParser

CRLF == <<"CR", "LF">>

Message(line, fields, framing, body, after) ==
  [blanks |-> <<>>, line |-> line, eol |-> CRLF, fields |-> fields, framing |-> framing, body |-> body,
   trailers |-> <<>>, skip |-> FALSE, after |-> after]

Field(name, value) == <<name, value, value>>
Length(digits) == Field("content-length", digits)
Chunked == Field("transfer-encoding", <<"chunked">>)
Other == Field("x-other", <<"word">>)

\* Requests that another message may follow.
Get == Message("GET 1.1", <<>>, "none", <<>>, "next")
Keep == Message("GET 1.0", <<Field("connection", <<"word", ",", "keep-alive">>)>>, "none", <<>>, "next")
Fold ==   \* "close" is continued on another line: another word
  Message("GET 1.1", << <<"connection", <<"close", "CR", "LF", " ", "word">>, <<"close", " ", "word">> >>,
                        <<"x-other", <<"CR", "LF", " ", "word">>, <<"word">> >> >>,
          "none", <<>>, "next")
Post == Message("GET 1.1", <<Field("x-other", <<>>), Length(<<"0", "3", " ">>)>>, "length", <<3>>, "next")
Zero ==
  [Message("GET 1.1", <<Other, Length(<<"0">>)>>, "none", <<>>, "next")
     EXCEPT !.eol = <<"LF">>, !.blanks = <<"CR", "LF", "LF">>]
Chunks == [Message("GET 1.1", <<Chunked>>, "chunked", <<1, 2>>, "next") EXCEPT !.trailers = <<Other>>]
LongChunk == [Message("GET 1.1", <<Chunked>>, "chunked", <<17>>, "next") EXCEPT !.eol = <<"LF">>]

\* Requests that are the last ones.
Close == Message("GET 1.1", <<Field("connection", <<"close", ",", "word">>)>>, "none", <<>>, "close")
Old == Message("GET 1.0", <<Length(<<"1">>)>>, "length", <<1>>, "close")
ClosedByTrailer ==
  [Message("GET 1.1", <<Chunked>>, "chunked", <<>>, "close")
     EXCEPT !.trailers = <<Field("connection", <<"close">>)>>]
Connect == Message("CONNECT 1.1", <<>>, "none", <<>>, "upgrade")
Upgrade ==
  Message("GET 1.1", <<Field("upgrade", <<"word">>), Field("connection", <<"upgrade">>)>>, "none", <<>>, "upgrade")
UpgradeLater == [Upgrade EXCEPT !.fields = @ \o <<Length(<<"2">>)>>, !.framing = "length", !.body = <<2>>]

\* Malformed ones: lengths that do not fit in MaxU = 255, a header that is too
\* large, a body the connection ends in.
BadLength == Message("GET 1.1", <<Length(<<"2", "6", "0">>)>>, "length", <<4>>, "INVALID_CONTENT_LENGTH")
BadDigit == Message("GET 1.1", <<Length(<<"2", "word">>)>>, "none", <<>>, "INVALID_CONTENT_LENGTH")
BadChunk == Message("GET 1.1", <<Chunked>>, "chunked", <<240>>, "INVALID_CONTENT_LENGTH")
Large == Message("GET 1.1", [i \in 1 .. 11 |-> Other], "none", <<>>, "HEADER_OVERFLOW")
Truncated == Message("GET 1.1", <<Length(<<"2">>)>>, "none", <<>>, "INVALID_EOF_STATE")

\* Responses.
Ok == Message("200 1.1", <<Length(<<"2">>)>>, "length", <<2>>, "next")
OkHead == [Message("200 1.1", <<Length(<<"2">>)>>, "none", <<>>, "next") EXCEPT !.skip = TRUE]
OkHeadNoLength == [Message("200 1.1", <<Other>>, "none", <<>>, "next") EXCEPT !.skip = TRUE]
NoContent == Message("204 1.1", <<>>, "none", <<>>, "next")
OkUntilEof == Message("200 1.1", <<>>, "eof", <<2>>, "close")

Persistent == {Get, Keep, Fold, Post, Zero, Chunks, LongChunk}
Final == {Close, Old, ClosedByTrailer, Connect, Upgrade, UpgradeLater}

RequestConnections ==
  {<<m, n>> : m \in Persistent \cup Final, n \in {Post, Chunks}}
    \cup {<<m, n>> : m \in {Get, Chunks}, n \in Persistent \cup Final}
    \cup {<<m>> : m \in {BadLength, BadDigit, BadChunk, Truncated}}
    \cup {<<Large>>, <<Chunks, Large>>}
ResponseConnections ==
  {<<m, n>> : m \in {Ok, OkHead, OkHeadNoLength, NoContent}, n \in {Ok, OkHead, OkUntilEof}}

\* A header of more than 50 tokens, most of them in values.
LongConnections ==
  {<<Message("GET 1.1", [i \in 1 .. 5 |-> Field("x-other", [j \in 1 .. 8 |-> "word"])], "none", <<>>,
             "HEADER_OVERFLOW")>>}

\* A request that leaves HTTP, and what its sender says next.
UpgradeConnections == {<<m, Post>> : m \in {Connect, Upgrade, UpgradeLater}}

AllConnections == RequestConnections \cup ResponseConnections
===============================================================================
