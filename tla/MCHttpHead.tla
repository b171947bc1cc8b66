------------------------------ MODULE MCHttpHead ------------------------------
(* The headers TLC sends through HttpHead.  A text is written as a string; Chars *)
(* takes it apart.                                                               *)
EXTENDS HttpHead

Chars(string) == [i \in 1 .. Len(string) |-> SubSeq(string, i, i)]

CRLF == <<CR, LF>>
V(major, minor) == <<Chars(major), Chars(minor)>>

RequestLine(method, url, version) ==
  [kind |-> "request", method |-> method, url |-> Chars(url), version |-> version]
StatusLine(version, status, reason) ==
  [kind |-> "response", version |-> version, status |-> Chars(status), reason |-> Chars(reason)]
Field(name, value) == [name |-> Chars(name), value |-> Chars(value)]

Header(line, fields) ==
  [type |-> IF line.kind = "request" THEN "REQUEST" ELSE "RESPONSE", blanks |-> <<>>, line |-> line,
   fields |-> fields, eol |-> CRLF, errno |-> "OK"]

Get(fields) == Header(RequestLine(method_strings.GET, "/", V("1", "1")), fields)
Ok(reason, fields) == Header(StatusLine(V("1", "1"), "200", reason), fields)

-----------------------------------------------------------------------------
(* Start lines *)

AnyType(h) == {[h EXCEPT !.type = t] : t \in {h.type, "BOTH"}}

Methods ==
  UNION {AnyType(Header(RequestLine(method_strings[m], IF m = "CONNECT" THEN "a:1" ELSE "/", V("1", "1")), <<>>)) :
           m \in DOMAIN method_strings}

Targets ==
  {Header(RequestLine(method_strings.GET, url, version), <<>>) :
     url \in {"/a?1#a", "a://a@1:1/?", "/##a?"}, version \in {V("1", "1"), <<>>}}
  \cup {Header(RequestLine(method_strings.CONNECT, url, V("1", "0")), <<>>) : url \in {"[1:1]:1", "a?#"}}

BadTargets ==
  {[Header(RequestLine(method_strings[m], url, V("1", "1")), <<>>) EXCEPT !.errno = "INVALID_URL"] :
     m \in {"GET", "PUT"}, url \in {"1", "a:a", "a:/a", "a", "a://a@@"}}
  \cup {[Header(RequestLine(method_strings.CONNECT, url, V("1", "1")), <<>>) EXCEPT !.errno = "INVALID_URL"] :
          url \in {"#", "a@@"}}

Versions == {V("1", "1"), V("9", "0"), V("0", "9"), V("12", "345"), V("999", "999")}
BadVersions == {V("1000", "1"), V("1", "1000"), V("a", "1"), V("1", "a"), V("1a", "1"), V("1", "1a")}

VersionHeads ==
  {Header(StatusLine(v, "200", "OK"), <<>>) : v \in Versions}
  \cup {Header(RequestLine(method_strings.PUT, "/", v), <<>>) : v \in Versions \ {V("0", "9")}}
  \cup {[Header(StatusLine(v, "200", "OK"), <<>>) EXCEPT !.errno = "INVALID_VERSION"] : v \in BadVersions}
  \cup {[Header(RequestLine(method_strings.PUT, "/", v), <<>>) EXCEPT !.errno = "INVALID_VERSION"] :
          v \in BadVersions \cup {V("0", "9")}}

StatusHeads ==
  {Header(StatusLine(V("1", "1"), status, reason), <<>>) : status \in {"0", "204"}, reason \in {"", "No a"}}
  \cup {[Header(StatusLine(V("1", "1"), status, ""), <<>>) EXCEPT !.errno = "INVALID_STATUS"] :
          status \in {"1000", "a", "2a"}}

\* Blank lines first, lines that end in LF alone, and letters that start nothing.
OtherHeads ==
  UNION {AnyType([h EXCEPT !.blanks = <<CR, LF, LF>>, !.eol = <<LF>>]) :
           h \in {Get(<<>>), Get(<<Field("a", " 1")>>)}}
  \cup {[Ok("OK", <<>>) EXCEPT !.type = t, !.blanks = <<LF>>, !.eol = <<LF>>] : t \in {"RESPONSE", "BOTH"}}
  \cup {[Ok("", <<>>) EXCEPT !.type = "REQUEST", !.errno = "INVALID_METHOD"]}
  \cup {[Get(<<>>) EXCEPT !.line.method = Chars(word), !.errno = "INVALID_METHOD"] :
          word \in {"", "1GET", "XGET", "GE", "GETS", "PXT", "PUTS", "CONNECTED", "UNLIST"}}
  \cup {[Get(<<>>) EXCEPT !.type = t, !.line.method = Chars("HXAD"), !.errno = "INVALID_CONSTANT"] : t \in {"BOTH"}}
  \cup {[Get(<<>>) EXCEPT !.type = "RESPONSE", !.errno = "INVALID_CONSTANT"]}

-----------------------------------------------------------------------------
(* Fields *)

\* Each name in other cases, and with a letter changed, removed or added.
Near(text) ==
  {text, [text EXCEPT ![1] = Uppers[CHOOSE i \in 1 .. 26 : Lowers[i] = text[1]]]}
  \cup {[text EXCEPT ![i] = "q"] : i \in DOMAIN text}
  \cup {SubSeq(text, 1, n) : n \in 1 .. Len(text) - 1}
  \cup {Append(text, "s")}

Known ==
  { <<CONNECTION, "close">>, <<PROXY_CONNECTION, "close">>, <<CONTENT_LENGTH, "x">>,
    <<TRANSFER_ENCODING, "chunked">>, <<UPGRADE, "x">> }

NameHeads ==
  UNION {{Get(<<[name |-> name, value |-> Chars(known[2])]>>) : name \in Near(known[1])} : known \in Known}

\* The words of a list, near misses among them, in every order, with and without blanks.
\* Left out: a word that is cut short by a comma ("clos,"), after which the parser takes
\* the next word for the rest of it, and empty elements, which end the list (README).
Words == {"close", "keep-alive", "Upgrade", "closed", "kk", "close x", "1"}
Lists ==
  {v \o s \o w : v \in Words, w \in Words \cup {"clos"}, s \in {",", " , "}}
    \cup {"x," \o v \o ", 1" : v \in Words} \cup Words \cup {"x,\r\n close", "Close ", "upgrade, ", ""}

ListHeads == {Get(<<Field("Connection", " " \o list)>>) : list \in Lists}

ChunkedHeads ==
  {Get(<<Field("Transfer-Encoding", value)>>) :
     value \in {"Chunked ", "chunke", "chunkedx", "x", "chunked, x", "chunked x", "", " \r\n chunked"}}

OtherFields ==
  { Get(<<Field("Connection", "x, close")>>),
    Get(<<Field("content-length", " 1 ")>>),
    Get(<<Field("Upgrade", "a\r\n 1"), Field("connection", "upgrade")>>),
    [Get(<<Field("transfer-encoding", "chunked")>>) EXCEPT !.eol = <<LF>>],
    Get(<<Field("a", ""), Field("proxy-connection", "\r\n keep-alive")>>) }

BadFields ==
  {[Get(<<Field(name, "x")>>) EXCEPT !.errno = "INVALID_HEADER_TOKEN"] : name \in {"", " a", "a ", "a,"}}
  \cup {[Get(<<Field("a", value)>>) EXCEPT !.errno = "STRICT"] : value \in {"\rx", "x\rx"}}

AllHeads ==
  Methods \cup Targets \cup BadTargets \cup VersionHeads \cup StatusHeads \cup OtherHeads
    \cup NameHeads \cup ListHeads \cup ChunkedHeads \cup OtherFields \cup BadFields

\* Every method with one letter changed.
Misspelled ==
  UNION {{Header(RequestLine([method_strings[m] EXCEPT ![i] = "X"], "/", V("1", "1")), <<>>) :
            i \in DOMAIN method_strings[m]} : m \in DOMAIN method_strings}
===============================================================================
