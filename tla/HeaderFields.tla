----------------------------- MODULE HeaderFields -----------------------------
(***************************************************************************)
(* Header names and values in http_parser_execute                          *)
(* (utils/http_parser.cpp:1290-1803): which names and which words of a     *)
(* value the parser knows, and the flags they set.  Blanks inside a value  *)
(* are spaces; a tab behaves as a space before a value and between the     *)
(* words of a Connection header, and as a letter after a word.             *)
(***************************************************************************)
EXTENDS HttpLetters

CONNECTION == <<"c", "o", "n", "n", "e", "c", "t", "i", "o", "n">>
PROXY_CONNECTION == <<"p", "r", "o", "x", "y", "-">> \o CONNECTION
CONTENT_LENGTH == <<"c", "o", "n", "t", "e", "n", "t", "-", "l", "e", "n", "g", "t", "h">>
TRANSFER_ENCODING ==
  <<"t", "r", "a", "n", "s", "f", "e", "r", "-", "e", "n", "c", "o", "d", "i", "n", "g">>
UPGRADE == <<"u", "p", "g", "r", "a", "d", "e">>
CHUNKED == <<"c", "h", "u", "n", "k", "e", "d">>
KEEP_ALIVE == <<"k", "e", "e", "p", "-", "a", "l", "i", "v", "e">>
CLOSE == <<"c", "l", "o", "s", "e">>

\* The letters of a token, STRICT_TOKEN; TOKEN is the same (HTTP_PARSER_STRICT).
TOKEN(ch) == IS_ALPHA(ch) \/ IS_NUM(ch) \/ ch = "-"

-----------------------------------------------------------------------------
(* Matching a word letter by letter *)

Matching(word, found, otherwise) == [word |-> word, found |-> found, otherwise |-> otherwise]

\* The states that match a word from parser->index on: the state when the word is
\* complete, and the one when a letter differs.
Matcher ==
  [h_matching_connection |-> Matching(CONNECTION, "h_connection", "h_general"),
   h_matching_proxy_connection |-> Matching(PROXY_CONNECTION, "h_connection", "h_general"),
   h_matching_content_length |-> Matching(CONTENT_LENGTH, "h_content_length", "h_general"),
   h_matching_transfer_encoding |-> Matching(TRANSFER_ENCODING, "h_transfer_encoding", "h_general"),
   h_matching_upgrade |-> Matching(UPGRADE, "h_upgrade", "h_general"),
   h_matching_transfer_encoding_chunked |->
     Matching(CHUNKED, "h_transfer_encoding_chunked", "h_general"),
   h_matching_connection_keep_alive |->
     Matching(KEEP_ALIVE, "h_connection_keep_alive", "h_matching_connection_token"),
   h_matching_connection_close |->
     Matching(CLOSE, "h_connection_close", "h_matching_connection_token"),
   h_matching_connection_upgrade |->
     Matching(UPGRADE, "h_connection_upgrade", "h_matching_connection_token")]


\* The next letter c of a word.
Match(q, c) ==
  LET m == Matcher[q.header_state]
      i == q.index + 1
  IN [q EXCEPT !.index = i,
               !.header_state = IF c # CharAt(m.word, i) THEN m.otherwise
                                ELSE IF i = Len(m.word) - 1 THEN m.found ELSE @]

-----------------------------------------------------------------------------
(* Names *)

\* What the first letter of a name may be the start of.
NameStart(c) ==
  CASE c = "c" -> "h_C"
    [] c = "p" -> "h_matching_proxy_connection"
    [] c = "t" -> "h_matching_transfer_encoding"
    [] c = "u" -> "h_matching_upgrade"
    [] OTHER -> "h_general"

\* "con" is shared by two names.
Shared ==
  [h_C |-> [o |-> "h_CO"], h_CO |-> [n |-> "h_CON"],
   h_CON |-> [n |-> "h_matching_connection", t |-> "h_matching_content_length"]]

\* One letter of the loop of s_header_field.
NameLetter(q, ch) ==
  LET h == q.header_state
      c == LOWER(ch)
  IN CASE h \in DOMAIN Shared ->
            [q EXCEPT !.index = @ + 1,
                      !.header_state = IF c \in DOMAIN Shared[h] THEN Shared[h][c] ELSE "h_general"]
       [] h \in DOMAIN Matcher -> Match(q, c)
       [] OTHER -> [q EXCEPT !.header_state = "h_general"]

HeaderFieldStart ==
  /\ At({"s_header_field_start"})
  /\ CASE Byte = CR -> Take(Go(parser, "s_headers_almost_done"))
       [] Byte = LF -> Reexecute(Go(parser, "s_headers_almost_done"))
       [] TOKEN(Byte) ->
            TakeMarked([parser EXCEPT !.state = "s_header_field", !.index = 0,
                                      !.header_state = NameStart(LOWER(Byte))],
                       "field")
       [] OTHER -> Fail(parser, "INVALID_HEADER_TOKEN")

HeaderField ==
  /\ At({"s_header_field"})
  /\ CASE TOKEN(Byte) -> Take(NameLetter(parser, Byte))
       [] Byte = ":" -> Report(Go(parser, "s_header_value_discard_ws"))
       [] OTHER -> Fail(parser, "INVALID_HEADER_TOKEN")

-----------------------------------------------------------------------------
(* Values *)

\* What the first letter of a word of a Connection header may be the start of.
WordStart(c) ==
  CASE c = "k" -> "h_matching_connection_keep_alive"
    [] c = "c" -> "h_matching_connection_close"
    [] c = "u" -> "h_matching_connection_upgrade"
    [] OTHER -> "h_matching_connection_token"

\* s_header_value_start
StartValue ==
  LET h == parser.header_state
      c == LOWER(Byte)
      q == [parser EXCEPT !.state = "s_header_value", !.index = 0]
  IN CASE h = "h_upgrade" ->
            TakeMarked([q EXCEPT !.flags = @ \cup {"UPGRADE"}, !.header_state = "h_general"], "value")
       [] h = "h_transfer_encoding" ->
            TakeMarked([q EXCEPT !.header_state = IF c = "c" THEN "h_matching_transfer_encoding_chunked"
                                                  ELSE "h_general"],
                       "value")
       [] h = "h_content_length" /\ ~IS_NUM(Byte) -> Fail(q, "INVALID_CONTENT_LENGTH")
       [] h = "h_connection" -> TakeMarked([q EXCEPT !.header_state = WordStart(c)], "value")
       [] h = "h_matching_connection_token_start" \/ (h = "h_content_length" /\ IS_NUM(Byte)) ->
            TakeMarked(q, "value")
       [] OTHER -> TakeMarked([q EXCEPT !.header_state = "h_general"], "value")

HeaderValueDiscardWs ==
  /\ At({"s_header_value_discard_ws"})
  /\ CASE Byte = " " -> Take(parser)
       [] Byte = CR -> Take(Go(parser, "s_header_value_discard_ws_almost_done"))
       [] Byte = LF -> Take(Go(parser, "s_header_value_discard_lws"))
       [] OTHER -> StartValue

HeaderValueStart == At({"s_header_value_start"}) /\ StartValue

\* The flags that a word which is complete sets.
WordFlag ==
  [h_connection_keep_alive |-> {"CONNECTION_KEEP_ALIVE"}, h_connection_close |-> {"CONNECTION_CLOSE"},
   h_connection_upgrade |-> {"CONNECTION_UPGRADE"}, h_transfer_encoding_chunked |-> {"CHUNKED"}]

\* The flags with those of the word that ends here.
WithFlag(q) ==
  [q EXCEPT !.flags = IF q.header_state \in DOMAIN WordFlag THEN @ \cup WordFlag[q.header_state] ELSE @]

\* Mutation: the index of the last word stays.
NextWordIndexed(q) == [q EXCEPT !.header_state = "h_matching_connection_token_start"]

\* A comma starts a new word.
NextWord(q) == [q EXCEPT !.header_state = "h_matching_connection_token_start", !.index = 0]

\* One letter of the loop of s_header_value.
ValueLetter(q, ch) ==
  LET h == q.header_state
      c == LOWER(ch)
  IN CASE h = "h_content_length" -> q
       [] h = "h_matching_connection_token_start" ->
            [q EXCEPT !.header_state = IF c = " " THEN h ELSE IF TOKEN(c) THEN WordStart(c) ELSE "h_general"]
       [] h \in DOMAIN Matcher -> Match(q, c)
       [] h = "h_matching_connection_token" -> IF ch = "," THEN NextWord(q) ELSE q
       [] h = "h_transfer_encoding_chunked" ->
            IF ch = " " THEN q ELSE [q EXCEPT !.header_state = "h_general"]
       [] h \in {"h_connection_keep_alive", "h_connection_close", "h_connection_upgrade"} ->
            (CASE ch = "," -> NextWord(WithFlag(q))
               [] ch = " " -> q
               [] OTHER -> [q EXCEPT !.header_state = "h_matching_connection_token"])
       [] OTHER -> [q EXCEPT !.header_state = "h_general"]

HeaderValue ==
  /\ At({"s_header_value"})
  /\ CASE Byte = CR -> Report(Go(parser, "s_header_almost_done"))
       [] Byte = LF -> ReportAgain(Go(parser, "s_header_almost_done"))
       [] parser.header_state = "h_content_length" /\ ~IS_NUM(Byte) /\ Byte \notin {CR, LF, " "} ->
            Fail(parser, "INVALID_CONTENT_LENGTH")
       [] OTHER -> Take(ValueLetter(parser, Byte))

\* STRICT_CHECK(ch != LF)
ExpectLf ==
  [s \in {"s_header_almost_done", "s_header_value_discard_ws_almost_done", "s_headers_almost_done"} |->
     CASE s = "s_header_almost_done" -> "s_header_value_lws"
       [] s = "s_header_value_discard_ws_almost_done" -> "s_header_value_discard_lws"
       [] s = "s_headers_almost_done" -> "s_headers_done"]

\* The end of a line; that of the header is where HttpParser goes on.
AlmostDone ==
  /\ At(DOMAIN ExpectLf)
  /\ IF Byte = LF THEN Take(Go(parser, ExpectLf[parser.state])) ELSE Fail(parser, "STRICT")

\* A blank continues the value on this line.
HeaderValueLws ==
  /\ At({"s_header_value_lws"})
  /\ Reexecute(IF Byte = " " THEN Go(parser, "s_header_value_start")
               ELSE Go(WithFlag(parser), "s_header_field_start"))

\* The value is empty: its callback gets no letters.
DiscardLws ==
  /\ At({"s_header_value_discard_lws"})
  /\ IF Byte = " " THEN Take(Go(parser, "s_header_value_discard_ws"))
     ELSE Called(Go(WithFlag(parser), "s_header_field_start"), exec) /\ UNCHANGED <<head, wire, calls>>

HeaderRound ==
  \/ HeaderFieldStart \/ HeaderField \/ HeaderValueDiscardWs \/ HeaderValueStart \/ HeaderValue
  \/ AlmostDone \/ HeaderValueLws \/ DiscardLws
===============================================================================
