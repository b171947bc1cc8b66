------------------------------- MODULE HttpHead -------------------------------
(***************************************************************************)
(* The header of a message letter by letter, from its start line to its    *)
(* empty line: StartLine and HeaderFields composed, with the headers that  *)
(* a peer may send and what a reader should make of them.                  *)
(*                                                                         *)
(* A header is a record:                                                   *)
(*   type    what the application created the parser for                   *)
(*   blanks  CR and LF before the start line                               *)
(*   line    the start line: of a request the letters of the method, the   *)
(*           target and the version (empty in HTTP/0.9); of a response the *)
(*           version, the digits of the status code and the reason         *)
(*   fields  names and values; a value may be folded                       *)
(*   eol     CR LF, or LF alone                                            *)
(*   errno   what is wrong with it, or "OK"; a content-length that is not  *)
(*           a number shows in the fields                                  *)
(***************************************************************************)
EXTENDS StartLine, HeaderFields, SequencesExt

HTTP == <<"H", "T", "T", "P", "/">>

Version(v) == v[1] \o <<".">> \o v[2]

LineText(l) ==
  IF l.kind = "request"
  THEN l.method \o <<" ">> \o l.url \o (IF l.version = <<>> THEN <<>> ELSE <<" ">> \o HTTP \o Version(l.version))
  ELSE HTTP \o Version(l.version) \o <<" ">> \o l.status
         \o (IF l.reason = <<>> THEN <<>> ELSE <<" ">> \o l.reason)

\* What F makes of each field of h, in order.
EachField(h, F(_)) == FlattenSeq([i \in DOMAIN h.fields |-> F(h.fields[i])])

Text(h) ==
  LET field(f) == f.name \o <<":">> \o f.value \o h.eol
  IN h.blanks \o LineText(h.line) \o h.eol \o EachField(h, field) \o h.eol

\* http_parser_init
Init ==
  /\ head \in Heads
  /\ wire = Text(head)
  /\ parser = [state |-> CASE head.type = "REQUEST" -> "s_start_req"
                           [] head.type = "RESPONSE" -> "s_start_res"
                           [] head.type = "BOTH" -> "s_start_req_or_res",
               type |-> head.type, method |-> "DELETE", index |-> 0, header_state |-> "h_general",
               http_major |-> 0, http_minor |-> 0, status_code |-> 0, flags |-> {}, errno |-> "OK"]
  /\ exec = [p |-> 0, limit |-> 0, running |-> FALSE, mark |-> 0, what |-> "url"]
  /\ calls = <<>>

Next ==
  \/ StartLineRound \/ HeaderRound \/ EndOfBuffer \/ Unpause
  \/ \E n \in 1 .. Len(wire) : Execute(n)

Spec == Init /\ [][Next]_vars

-----------------------------------------------------------------------------
(* What a reader should make of a header *)

Lower(text) == [i \in DOMAIN text |-> LOWER(text[i])]

\* The number that decimal digits spell.
Number(digits) ==
  LET shift(v, d) == v * 10 + Digit(d)
  IN FoldLeft(shift, 0, digits)

\* A value as it is reported: without what precedes its first letter and without the
\* line ends inside it.
Reported(value) ==
  LET skipped == {0} \cup {n \in DOMAIN value : \A i \in 1 .. n : value[i] \in {" ", CR, LF}}
      first == CHOOSE n \in skipped : \A m \in skipped : m <= n
      letter(ch) == ch \notin {CR, LF}
  IN SelectSeq(SubSeq(value, first + 1, Len(value)), letter)

\* Is word an element of the list that value holds?  Elements stand between commas,
\* with blanks around them.
HasWord(value, word) ==
  \E i \in 1 .. Len(value) + 1 - Len(word) :
    LET j == i + Len(word)
    IN /\ Lower(SubSeq(value, i, j - 1)) = word
       /\ \E n \in 0 .. i - 1 : (n = 0 \/ value[n] = ",") /\ \A k \in n + 1 .. i - 1 : value[k] = " "
       /\ \E n \in j .. Len(value) + 1 :
            (n = Len(value) + 1 \/ value[n] = ",") /\ \A k \in j .. n - 1 : value[k] = " "

Named(h, names) == {i \in DOMAIN h.fields : Lower(h.fields[i].name) \in names}

HasValue(h, names, P(_)) == \E i \in Named(h, names) : P(Reported(h.fields[i].value))

\* The flags that the fields of a header call for.
Flags(h) ==
  LET keepAlive(v) == HasWord(v, KEEP_ALIVE)
      close(v) == HasWord(v, CLOSE)
      upgrade(v) == HasWord(v, UPGRADE)
      chunked(v) == HasWord(v, CHUNKED) /\ \A i \in DOMAIN v : v[i] # ","
      present(v) == v # <<>>
      connection == {CONNECTION, PROXY_CONNECTION}
      If(flag, condition) == IF condition THEN {flag} ELSE {}
  IN If("CONNECTION_KEEP_ALIVE", HasValue(h, connection, keepAlive))
       \cup If("CONNECTION_CLOSE", HasValue(h, connection, close))
       \cup If("CONNECTION_UPGRADE", HasValue(h, connection, upgrade))
       \cup If("CHUNKED", HasValue(h, {TRANSFER_ENCODING}, chunked))
       \cup If("UPGRADE", HasValue(h, {UPGRADE}, present))

Errno(h) ==
  LET bad(v) == v # <<>> /\ ~(\A i \in DOMAIN v : IS_NUM(v[i]) \/ (i > 1 /\ v[i] = " "))
  IN IF h.errno = "OK" /\ HasValue(h, {CONTENT_LENGTH}, bad) THEN "INVALID_CONTENT_LENGTH" ELSE h.errno

\* The callbacks for a header.  A response gets on_message_begin for every CR and LF
\* before its status line too (769).
Callbacks(h) ==
  LET data(what, text) == [i \in DOMAIN text |-> <<what, text[i]>>]
      field(f) == data("field", f.name) \o data("value", Reported(f.value))
  IN (IF h.type = "RESPONSE" THEN [i \in 1 .. Len(h.blanks) + 1 |-> <<"begin">>] ELSE << <<"begin">> >>)
       \o (IF h.line.kind = "request" THEN data("url", h.line.url) ELSE data("status", h.line.reason))
       \o EachField(h, field)

-----------------------------------------------------------------------------
(* Properties *)

Finished ==
  ~exec.running /\ parser.errno # "PAUSED" /\ (parser.errno # "OK" \/ exec.p = Len(wire))

\* Every method, version, status code and target is read as it was sent, whichever other
\* methods share its first letters, however the letters are cut into buffers and wherever
\* callbacks pause: the matcher's guess and index, the numbers read so far and the marks
\* carry over.  What is malformed stops the parser with the errno for it
\* (http_parser.cpp:672-1288).
LineRead ==
  /\ Finished => parser.errno = Errno(head)
  /\ Finished /\ parser.errno = "OK" =>
       LET l == head.line
       IN /\ parser.state = "s_headers_done" /\ calls = Callbacks(head)
          /\ parser.type = IF l.kind = "request" THEN "REQUEST" ELSE "RESPONSE"
          /\ IF l.version = <<>> THEN parser.http_major = 0 /\ parser.http_minor = 9
             ELSE parser.http_major = Number(l.version[1]) /\ parser.http_minor = Number(l.version[2])
          /\ IF l.kind = "request" THEN method_strings[parser.method] = l.method
             ELSE parser.status_code = Number(l.status)


\* No matcher reads past the NUL that ends its word (997, 1391-1451, 1622-1687): index
\* survives buffers, and words of different lengths take each other's place.
IndexInBounds ==
  /\ parser.state = "s_req_method" => parser.index <= Len(method_strings[parser.method])
  /\ parser.state \in {"s_header_field", "s_header_value"} /\ parser.header_state \in DOMAIN Matcher =>
       parser.index + 1 < Len(Matcher[parser.header_state].word)

\* http_parser.h:88 lists the "Request Methods", http_parser.h:182 has an error for an
\* "invalid HTTP method": a request is taken for one of a method when it spells it.
MethodSpelled ==
  parser.state = "s_req_spaces_before_url" => method_strings[parser.method] = head.line.method
===============================================================================
