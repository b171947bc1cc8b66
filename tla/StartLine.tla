------------------------------- MODULE StartLine -------------------------------
(***************************************************************************)
(* The start line of a message in http_parser_execute                      *)
(* (utils/http_parser.cpp:694-1288): the method matcher, the target of a   *)
(* request through parse_url_char, the HTTP version, and the status line   *)
(* of a response.                                                          *)
(***************************************************************************)
EXTENDS HttpLetters, UrlChar

\* method_strings
method_strings ==
  [DELETE |-> <<"D", "E", "L", "E", "T", "E">>, GET |-> <<"G", "E", "T">>,
   HEAD |-> <<"H", "E", "A", "D">>, POST |-> <<"P", "O", "S", "T">>, PUT |-> <<"P", "U", "T">>,
   CONNECT |-> <<"C", "O", "N", "N", "E", "C", "T">>,
   OPTIONS |-> <<"O", "P", "T", "I", "O", "N", "S">>, TRACE |-> <<"T", "R", "A", "C", "E">>,
   COPY |-> <<"C", "O", "P", "Y">>, LOCK |-> <<"L", "O", "C", "K">>,
   MKCOL |-> <<"M", "K", "C", "O", "L">>, MOVE |-> <<"M", "O", "V", "E">>,
   PROPFIND |-> <<"P", "R", "O", "P", "F", "I", "N", "D">>,
   PROPPATCH |-> <<"P", "R", "O", "P", "P", "A", "T", "C", "H">>,
   SEARCH |-> <<"S", "E", "A", "R", "C", "H">>, UNLOCK |-> <<"U", "N", "L", "O", "C", "K">>,
   BIND |-> <<"B", "I", "N", "D">>, REBIND |-> <<"R", "E", "B", "I", "N", "D">>,
   UNBIND |-> <<"U", "N", "B", "I", "N", "D">>, ACL |-> <<"A", "C", "L">>,
   REPORT |-> <<"R", "E", "P", "O", "R", "T">>,
   MKACTIVITY |-> <<"M", "K", "A", "C", "T", "I", "V", "I", "T", "Y">>,
   CHECKOUT |-> <<"C", "H", "E", "C", "K", "O", "U", "T">>,
   MERGE |-> <<"M", "E", "R", "G", "E">>,
   MSEARCH |-> <<"M", "-", "S", "E", "A", "R", "C", "H">>,
   NOTIFY |-> <<"N", "O", "T", "I", "F", "Y">>,
   SUBSCRIBE |-> <<"S", "U", "B", "S", "C", "R", "I", "B", "E">>,
   UNSUBSCRIBE |-> <<"U", "N", "S", "U", "B", "S", "C", "R", "I", "B", "E">>,
   PATCH |-> <<"P", "A", "T", "C", "H">>, PURGE |-> <<"P", "U", "R", "G", "E">>,
   MKCALENDAR |-> <<"M", "K", "C", "A", "L", "E", "N", "D", "A", "R">>,
   LINK |-> <<"L", "I", "N", "K">>, UNLINK |-> <<"U", "N", "L", "I", "N", "K">>]

-----------------------------------------------------------------------------
(* Where a message starts *)

StartReqOrRes ==
  /\ At({"s_start_req_or_res"})
  /\ CASE Byte \in {CR, LF} -> Take(parser)
       [] Byte = "H" -> Notify([parser EXCEPT !.state = "s_res_or_resp_H", !.flags = {}], "begin")
       [] OTHER -> Reexecute([parser EXCEPT !.state = "s_start_req", !.type = "REQUEST", !.flags = {}])

ResOrRespH ==
  /\ At({"s_res_or_resp_H"})
  /\ CASE Byte = "T" -> Take([parser EXCEPT !.state = "s_res_HT", !.type = "RESPONSE"])
       [] Byte = "E" -> Take([parser EXCEPT !.state = "s_req_method", !.type = "REQUEST",
                                            !.method = "HEAD", !.index = 2])
       [] OTHER -> Fail(parser, "INVALID_CONSTANT")

\* CR and LF break out of the inner switch only: they too call on_message_begin.
StartRes ==
  /\ At({"s_start_res"})
  /\ LET q == [parser EXCEPT !.flags = {}]
     IN CASE Byte = "H" -> Notify(Go(q, "s_res_H"), "begin")
          [] Byte \in {CR, LF} -> Notify(q, "begin")
          [] OTHER -> Fail(q, "INVALID_CONSTANT")

\* The letters of "HTTP/" that have a state of their own, and the next state.
Constants ==
  [s \in {"s_res_H", "s_res_HT", "s_res_HTT", "s_res_HTTP",
          "s_req_http_H", "s_req_http_HT", "s_req_http_HTT", "s_req_http_HTTP"} |->
     CASE s = "s_res_H" -> <<"T", "s_res_HT">>
       [] s = "s_res_HT" -> <<"T", "s_res_HTT">>
       [] s = "s_res_HTT" -> <<"P", "s_res_HTTP">>
       [] s = "s_res_HTTP" -> <<"/", "s_res_first_http_major">>
       [] s = "s_req_http_H" -> <<"T", "s_req_http_HT">>
       [] s = "s_req_http_HT" -> <<"T", "s_req_http_HTT">>
       [] s = "s_req_http_HTT" -> <<"P", "s_req_http_HTTP">>
       [] s = "s_req_http_HTTP" -> <<"/", "s_req_first_http_major">>]

HttpConstant ==
  /\ At(DOMAIN Constants)
  /\ IF Byte = Constants[parser.state][1] THEN Take(Go(parser, Constants[parser.state][2]))
     ELSE Fail(parser, "STRICT")

-----------------------------------------------------------------------------
(* Numbers: the version, and the status code *)

\* The first digit of a number of the start line, and the state that follows.
FirstDigit(q, field, s, e) ==
  IF IS_NUM(Byte) THEN Take([Go(q, s) EXCEPT ![field] = Digit(Byte)]) ELSE Fail(q, e)

\* Another digit: no number is larger than 999.
NextDigit(q, field, e) ==
  LET v == q[field] * 10 + Digit(Byte)
  IN IF ~IS_NUM(Byte) THEN Fail(q, e)
     ELSE IF v > 999 THEN Fail([q EXCEPT ![field] = v], e)
     ELSE Take([q EXCEPT ![field] = v])

FirstMajor ==
  \/ /\ At({"s_res_first_http_major"})
     /\ FirstDigit(parser, "http_major", "s_res_http_major", "INVALID_VERSION")
  \/ /\ At({"s_req_first_http_major"})
     /\ IF Byte = "0" THEN Fail(parser, "INVALID_VERSION")
        ELSE FirstDigit(parser, "http_major", "s_req_http_major", "INVALID_VERSION")

Major ==
  /\ At({"s_res_http_major", "s_req_http_major"})
  /\ IF Byte = "."
     THEN Take(Go(parser, IF parser.state = "s_res_http_major" THEN "s_res_first_http_minor"
                          ELSE "s_req_first_http_minor"))
     ELSE NextDigit(parser, "http_major", "INVALID_VERSION")

FirstMinor ==
  \/ /\ At({"s_res_first_http_minor"})
     /\ FirstDigit(parser, "http_minor", "s_res_http_minor", "INVALID_VERSION")
  \/ /\ At({"s_req_first_http_minor"})
     /\ FirstDigit(parser, "http_minor", "s_req_http_minor", "INVALID_VERSION")

ResMinor ==
  /\ At({"s_res_http_minor"})
  /\ IF Byte = " " THEN Take(Go(parser, "s_res_first_status_code"))
     ELSE NextDigit(parser, "http_minor", "INVALID_VERSION")

ReqMinor ==
  /\ At({"s_req_http_minor"})
  /\ CASE Byte = CR -> Take(Go(parser, "s_req_line_almost_done"))
       [] Byte = LF -> Take(Go(parser, "s_header_field_start"))
       [] OTHER -> NextDigit(parser, "http_minor", "INVALID_VERSION")

FirstStatusCode ==
  /\ At({"s_res_first_status_code"})
  /\ IF Byte = " " THEN Take(parser)
     ELSE FirstDigit(parser, "status_code", "s_res_status_code", "INVALID_STATUS")

StatusCode ==
  /\ At({"s_res_status_code"})
  /\ CASE Byte = " " -> Take(Go(parser, "s_res_status_start"))
       [] Byte = CR -> Take(Go(parser, "s_res_line_almost_done"))
       [] Byte = LF -> Take(Go(parser, "s_header_field_start"))
       [] OTHER -> NextDigit(parser, "status_code", "INVALID_STATUS")

-----------------------------------------------------------------------------
(* The rest of a status line *)

StatusStart ==
  /\ At({"s_res_status_start"})
  /\ CASE Byte = CR -> Take(Go(parser, "s_res_line_almost_done"))
       [] Byte = LF -> Take(Go(parser, "s_header_field_start"))
       [] OTHER -> TakeMarked([Go(parser, "s_res_status") EXCEPT !.index = 0], "status")

Status ==
  /\ At({"s_res_status"})
  /\ CASE Byte = CR -> Report(Go(parser, "s_res_line_almost_done"))
       [] Byte = LF -> Report(Go(parser, "s_header_field_start"))
       [] OTHER -> Take(parser)

LineAlmostDone ==
  /\ At({"s_res_line_almost_done", "s_req_line_almost_done"})
  /\ IF Byte = LF THEN Take(Go(parser, "s_header_field_start"))
     ELSE Fail(parser, IF parser.state = "s_res_line_almost_done" THEN "STRICT" ELSE "LF_EXPECTED")

-----------------------------------------------------------------------------
(* The method *)

\* The method a first letter stands for until another letter tells.
FirstGuess ==
  [A |-> "ACL", B |-> "BIND", C |-> "CONNECT", D |-> "DELETE", G |-> "GET", H |-> "HEAD",
   L |-> "LOCK", M |-> "MKCOL", N |-> "NOTIFY", O |-> "OPTIONS", P |-> "POST",
   R |-> "REPORT", S |-> "SUBSCRIBE", T |-> "TRACE", U |-> "UNLOCK"]

StartReq ==
  /\ At({"s_start_req"})
  /\ LET q == [parser EXCEPT !.flags = {}]
     IN CASE Byte \in {CR, LF} -> Take(parser)
          [] Byte \in DOMAIN FirstGuess ->
               Notify([Go(q, "s_req_method") EXCEPT !.method = FirstGuess[Byte], !.index = 1], "begin")
          [] OTHER -> Fail(q, "INVALID_METHOD")

\* The guesses that a letter at an index changes, and what they become.
Revisions ==
  { <<"CONNECT", 1, "H", "CHECKOUT">>, <<"CONNECT", 2, "P", "COPY">>,
    <<"MKCOL", 1, "O", "MOVE">>, <<"MKCOL", 1, "E", "MERGE">>, <<"MKCOL", 1, "-", "MSEARCH">>,
    <<"MKCOL", 2, "A", "MKACTIVITY">>, <<"MKCOL", 3, "A", "MKCALENDAR">>,
    <<"SUBSCRIBE", 1, "E", "SEARCH">>, <<"REPORT", 2, "B", "REBIND">>,
    <<"POST", 1, "R", "PROPFIND">>, <<"POST", 1, "U", "PUT">>, <<"POST", 1, "A", "PATCH">>,
    <<"LOCK", 1, "I", "LINK">>, <<"PUT", 2, "R", "PURGE">>,
    <<"UNLOCK", 2, "S", "UNSUBSCRIBE">>, <<"UNLOCK", 2, "B", "UNBIND">>,
    <<"PROPFIND", 4, "P", "PROPPATCH">>, <<"UNLOCK", 3, "I", "UNLINK">> }

\* The guesses whose branch has an error for a letter at index 1 that it does not know.
Checked == {"CONNECT", "MKCOL", "SUBSCRIBE", "REPORT", "POST", "LOCK"}

\* At index 1 the other guesses fall out of the chain of ifs: any letter will do.
ReqMethod ==
  /\ At({"s_req_method"})
  /\ LET q == parser
         next == [q EXCEPT !.index = @ + 1]
         expected == CharAt(method_strings[q.method], q.index)
         revised == {r \in Revisions : r[1] = q.method /\ r[2] = q.index /\ r[3] = Byte}
         fellOut == q.index = 1 /\ q.method \notin Checked
     IN CASE Byte = NUL -> Fail(q, "INVALID_METHOD")
          [] Byte = " " /\ expected = NUL -> Take(Go(next, "s_req_spaces_before_url"))
          [] Byte \notin {NUL, expected} /\ revised # {} ->
               Take([next EXCEPT !.method = (CHOOSE r \in revised : TRUE)[4]])
          [] Byte # NUL /\ (Byte = expected \/ (revised = {} /\ fellOut)) -> Take(next)
          [] OTHER -> Fail(q, "INVALID_METHOD")

-----------------------------------------------------------------------------
(* The target and the version of a request *)

\* UPDATE_STATE(parse_url_char(...)), from state s
NextUrlChar(s, accepted(_)) ==
  LET next == parse_url_char(s, Byte)
  IN IF next = "s_dead" THEN Fail(Go(parser, next), "INVALID_URL") ELSE accepted(Go(parser, next))

SpacesBeforeUrl ==
  /\ At({"s_req_spaces_before_url"})
  /\ LET marked(q) == TakeMarked(q, "url")
     IN IF Byte = " " THEN Take(parser)
        ELSE NextUrlChar(IF parser.method = "CONNECT" THEN "s_req_server_start" ELSE parser.state, marked)

\* "No whitespace allowed here"
UrlPrefix ==
  /\ At({"s_req_schema", "s_req_schema_slash", "s_req_schema_slash_slash", "s_req_server_start"})
  /\ IF Byte \in {" ", CR, LF} THEN Fail(parser, "INVALID_URL") ELSE NextUrlChar(parser.state, Take)

\* A line without a version is one of HTTP/0.9.
Url ==
  /\ At({"s_req_server", "s_req_server_with_at", "s_req_path", "s_req_query_string_start",
         "s_req_query_string", "s_req_fragment_start", "s_req_fragment"})
  /\ LET old == [parser EXCEPT !.http_major = 0, !.http_minor = 9]
     IN CASE Byte = " " -> Report(Go(parser, "s_req_http_start"))
          [] Byte = CR -> Report(Go(old, "s_req_line_almost_done"))
          [] Byte = LF -> Report(Go(old, "s_header_field_start"))
          [] OTHER -> NextUrlChar(parser.state, Take)

HttpStart ==
  /\ At({"s_req_http_start"})
  /\ CASE Byte = "H" -> Take(Go(parser, "s_req_http_H"))
       [] Byte = " " -> Take(parser)
       [] OTHER -> Fail(parser, "INVALID_CONSTANT")

\* One action of the start line.
StartLineRound ==
  \/ StartReqOrRes \/ ResOrRespH \/ StartRes \/ HttpConstant
  \/ FirstMajor \/ Major \/ FirstMinor \/ ResMinor \/ ReqMinor
  \/ FirstStatusCode \/ StatusCode \/ StatusStart \/ Status \/ LineAlmostDone
  \/ StartReq \/ ReqMethod \/ SpacesBeforeUrl \/ UrlPrefix \/ Url \/ HttpStart
===============================================================================
