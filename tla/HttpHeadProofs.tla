---------------------------- MODULE HttpHeadProofs ----------------------------
(***************************************************************************)
(* Proofs about HttpHead: whatever letters a peer sends, in buffers of any *)
(* length and with any pauses,                                             *)
(*   - the matchers stay within their words (MatchInv);                    *)
(*   - a header name is known if and only if it is spelled, and no flag is *)
(*     set that the text does not call for (SpellInv, which relates the    *)
(*     state of the parser to the letters behind it);                      *)
(*   - the numbers of a start line stay within their 16 bits (NumberInv);  *)
(*   - every letter of a target, a reason, a name or a value is told once, *)
(*     in order, as what it is part of (TellInv: the mark covers what is   *)
(*     read and not told);                                                 *)
(*   - a method that is spelled is read, whichever methods its letters are *)
(*     mistaken for on the way, and one that is read is spelled, but for   *)
(*     second letters that are not looked at (MethodInv).                  *)
(***************************************************************************)
EXTENDS HttpHead, SequenceTheorems, TLAPS

Fields == {"state", "type", "method", "index", "header_state",
           "http_major", "http_minor", "status_code", "flags", "errno"}

\* The fields of struct http_parser, of which the matchers use one as a number.
Shaped(q) == q = [f \in Fields |-> q[f]] /\ q.index \in Nat

\* Where the method matcher is in the method it has guessed.
InMethod(q) ==
  q.state = "s_req_method" =>
    q.method \in DOMAIN method_strings /\ q.index <= Len(method_strings[q.method])

\* Where the matcher of a name is: "c", "co" and "con" have a state of their own.
InName(q) ==
  q.state = "s_header_field" =>
    /\ q.header_state = "h_C" => q.index = 0
    /\ q.header_state = "h_CO" => q.index = 1
    /\ q.header_state = "h_CON" => q.index = 2

\* Where the matcher of a value is: a word of a list starts at index 0.
InValue(q) ==
  q.state = "s_header_value" /\ q.header_state = "h_matching_connection_token_start" => q.index = 0

InWord(q) ==
  q.state \in {"s_header_field", "s_header_value"} /\ q.header_state \in DOMAIN Matcher =>
    q.index + 1 < Len(Matcher[q.header_state].word)

Good(q) == Shaped(q) /\ InMethod(q) /\ InName(q) /\ InValue(q) /\ InWord(q)

MatchInv == Good(parser)

\* The rounds of the switch go where no matcher runs, but for these.
Elsewhere(s) == s \notin {"s_req_method", "s_header_field", "s_header_value"}

-----------------------------------------------------------------------------
\* An error code is of no account to the matchers.
LEMMA GoodErrno ==
  ASSUME NEW STATE q, Good(q), NEW e
  PROVE  Good([q EXCEPT !.errno = e])
BY DEF Good, Shaped, Fields, InMethod, InName, InValue, InWord

\* A parser that goes elsewhere is out of every matcher.
LEMMA GoodElsewhere ==
  ASSUME NEW STATE q, Shaped(q), Elsewhere(q.state)
  PROVE  Good(q)
BY DEF Good, InMethod, InName, InValue, InWord, Elsewhere

\* A round ends in one of a few ways, all of which leave the parser as q.
LEMMA RoundEnds ==
  ASSUME NEW STATE q, Good(q)
  PROVE  /\ Take(q) => Good(parser')
         /\ \A what : TakeMarked(q, what) => Good(parser')
         /\ Reexecute(q) => Good(parser')
         /\ \A e : Fail(q, e) => Good(parser')
         /\ \A x : Called(q, x) => Good(parser')
         /\ \A event : Notify(q, event) => Good(parser')
         /\ \A x : Deliver(q, x) => Good(parser')
         /\ Report(q) => Good(parser')
         /\ ReportAgain(q) => Good(parser')
<1>1. \A e : Good([q EXCEPT !.errno = e])
  BY GoodErrno
<1>2. \A x : Called(q, x) => Good(parser')
  BY <1>1 DEF Called
<1>3. \A x : Deliver(q, x) => Good(parser')
  BY <1>2 DEF Deliver
<1> QED
  BY <1>1, <1>2, <1>3 DEF Take, TakeMarked, Reexecute, Fail, Notify, Report, ReportAgain

\* The methods are no shorter than the index a guess is revised at.
LEMMA MethodLengths ==
  /\ \A m \in DOMAIN method_strings : Len(method_strings[m]) \in 3 .. 11
  /\ \A r \in Revisions : r[4] \in DOMAIN method_strings /\ r[2] + 1 <= Len(method_strings[r[4]])
  /\ \A c \in DOMAIN FirstGuess : FirstGuess[c] \in DOMAIN method_strings
  /\ "HEAD" \in DOMAIN method_strings
<1>1. DOMAIN method_strings =
        {"DELETE", "GET", "HEAD", "POST", "PUT", "CONNECT", "OPTIONS", "TRACE", "COPY", "LOCK",
         "MKCOL", "MOVE", "PROPFIND", "PROPPATCH", "SEARCH", "UNLOCK", "BIND", "REBIND", "UNBIND",
         "ACL", "REPORT", "MKACTIVITY", "CHECKOUT", "MERGE", "MSEARCH", "NOTIFY", "SUBSCRIBE",
         "UNSUBSCRIBE", "PATCH", "PURGE", "MKCALENDAR", "LINK", "UNLINK"}
  BY DEF method_strings
<1>2. /\ Len(method_strings["DELETE"]) \in 3 .. 11 /\ Len(method_strings["GET"]) \in 3 .. 11
      /\ Len(method_strings["HEAD"]) \in 3 .. 11 /\ Len(method_strings["POST"]) \in 3 .. 11
      /\ Len(method_strings["PUT"]) \in 3 .. 11 /\ Len(method_strings["CONNECT"]) \in 3 .. 11
      /\ Len(method_strings["OPTIONS"]) \in 3 .. 11 /\ Len(method_strings["TRACE"]) \in 3 .. 11
      /\ Len(method_strings["COPY"]) \in 3 .. 11 /\ Len(method_strings["LOCK"]) \in 3 .. 11
      /\ Len(method_strings["MKCOL"]) \in 3 .. 11 /\ Len(method_strings["MOVE"]) \in 3 .. 11
      /\ Len(method_strings["PROPFIND"]) \in 3 .. 11 /\ Len(method_strings["PROPPATCH"]) \in 3 .. 11
      /\ Len(method_strings["SEARCH"]) \in 3 .. 11 /\ Len(method_strings["UNLOCK"]) \in 3 .. 11
      /\ Len(method_strings["BIND"]) \in 3 .. 11 /\ Len(method_strings["REBIND"]) \in 3 .. 11
      /\ Len(method_strings["UNBIND"]) \in 3 .. 11 /\ Len(method_strings["ACL"]) \in 3 .. 11
      /\ Len(method_strings["REPORT"]) \in 3 .. 11 /\ Len(method_strings["MKACTIVITY"]) \in 3 .. 11
      /\ Len(method_strings["CHECKOUT"]) \in 3 .. 11 /\ Len(method_strings["MERGE"]) \in 3 .. 11
      /\ Len(method_strings["MSEARCH"]) \in 3 .. 11 /\ Len(method_strings["NOTIFY"]) \in 3 .. 11
      /\ Len(method_strings["SUBSCRIBE"]) \in 3 .. 11 /\ Len(method_strings["UNSUBSCRIBE"]) \in 3 .. 11
      /\ Len(method_strings["PATCH"]) \in 3 .. 11 /\ Len(method_strings["PURGE"]) \in 3 .. 11
      /\ Len(method_strings["MKCALENDAR"]) \in 3 .. 11 /\ Len(method_strings["LINK"]) \in 3 .. 11
      /\ Len(method_strings["UNLINK"]) \in 3 .. 11
  BY DEF method_strings
<1>3. \A m \in DOMAIN method_strings : Len(method_strings[m]) \in 3 .. 11
  BY <1>1, <1>2
<1>4. /\ Len(method_strings["MKCALENDAR"]) \in 6 .. 11
      /\ Len(method_strings["PROPPATCH"]) \in 6 .. 11
      /\ Len(method_strings["UNLINK"]) \in 6 .. 11
  BY DEF method_strings
<1>5. \A m \in {"MKCALENDAR", "PROPPATCH", "UNLINK"} : Len(method_strings[m]) \in 6 .. 11
  BY <1>1, <1>4
<1>6. \A r \in Revisions : r[4] \in DOMAIN method_strings /\ r[2] \in {1, 2, 3, 4}
  BY <1>1 DEF Revisions
<1>7. \A r \in Revisions : r[2] > 2 => r[4] \in {"MKCALENDAR", "PROPPATCH", "UNLINK"}
  BY DEF Revisions
<1>8. ASSUME NEW r \in Revisions
      PROVE  r[2] + 1 <= Len(method_strings[r[4]])
  <2>1. CASE r[2] > 2
    <3>1. Len(method_strings[r[4]]) \in 6 .. 11
      BY <1>5, <1>7, <2>1
    <3>2. \A i \in {1, 2, 3, 4} : \A n \in 6 .. 11 : i + 1 <= n
      OBVIOUS
    <3> QED  BY <3>1, <3>2, <1>6, Zenon
  <2>2. CASE ~(r[2] > 2)
    <3>1. Len(method_strings[r[4]]) \in 3 .. 11
      BY <1>3, <1>6
    <3>2. r[2] \in {1, 2}
      BY <1>6, <2>2
    <3>3. \A i \in {1, 2} : \A n \in 3 .. 11 : i + 1 <= n
      OBVIOUS
    <3> QED  BY <3>1, <3>2, <3>3, Zenon
  <2> QED  BY <2>1, <2>2
<1>9. \A c \in DOMAIN FirstGuess : FirstGuess[c] \in DOMAIN method_strings
  BY <1>1 DEF FirstGuess
<1> QED  BY <1>1, <1>3, <1>6, <1>8, <1>9

\* The words have at least five letters, those that begin with "con" at least ten; what
\* follows a word is no matcher, nor a state with an index of its own.
LEMMA WordLengths ==
  /\ DOMAIN Matcher =
       {"h_matching_connection", "h_matching_proxy_connection", "h_matching_content_length",
        "h_matching_transfer_encoding", "h_matching_upgrade", "h_matching_transfer_encoding_chunked",
        "h_matching_connection_keep_alive", "h_matching_connection_close",
        "h_matching_connection_upgrade"}
  /\ \A h \in DOMAIN Matcher :
       /\ Len(Matcher[h].word) \in 5 .. 17
       /\ Matcher[h].found \notin DOMAIN Matcher /\ Matcher[h].otherwise \notin DOMAIN Matcher
       /\ Matcher[h].found \notin {"h_C", "h_CO", "h_CON", "h_matching_connection_token_start"}
       /\ Matcher[h].otherwise \notin {"h_C", "h_CO", "h_CON", "h_matching_connection_token_start"}
  /\ \A h \in {"h_matching_connection", "h_matching_content_length"} : Len(Matcher[h].word) \in 10 .. 17
<1>1. DOMAIN Matcher =
       {"h_matching_connection", "h_matching_proxy_connection", "h_matching_content_length",
        "h_matching_transfer_encoding", "h_matching_upgrade", "h_matching_transfer_encoding_chunked",
        "h_matching_connection_keep_alive", "h_matching_connection_close",
        "h_matching_connection_upgrade"}
  BY DEF Matcher
<1>2. /\ Len(CONNECTION) \in 10 .. 17 /\ Len(CONTENT_LENGTH) \in 10 .. 17
  BY DEF CONNECTION, CONTENT_LENGTH
<1>3. /\ Len(CONNECTION) \in 5 .. 17 /\ Len(CONTENT_LENGTH) \in 5 .. 17
      /\ Len(TRANSFER_ENCODING) \in 5 .. 17 /\ Len(PROXY_CONNECTION) \in 5 .. 17
      /\ Len(UPGRADE) \in 5 .. 17 /\ Len(CHUNKED) \in 5 .. 17
      /\ Len(KEEP_ALIVE) \in 5 .. 17 /\ Len(CLOSE) \in 5 .. 17
  BY DEF CONNECTION, PROXY_CONNECTION, CONTENT_LENGTH, TRANSFER_ENCODING, UPGRADE, CHUNKED, KEEP_ALIVE, CLOSE
<1>4. /\ \A w, f, o : Matching(w, f, o).word = w
      /\ \A w, f, o : Matching(w, f, o).found = f
      /\ \A w, f, o : Matching(w, f, o).otherwise = o
  BY DEF Matching
<1>5. /\ Matcher["h_matching_connection"] = Matching(CONNECTION, "h_connection", "h_general")
      /\ Matcher["h_matching_proxy_connection"] = Matching(PROXY_CONNECTION, "h_connection", "h_general")
      /\ Matcher["h_matching_content_length"] = Matching(CONTENT_LENGTH, "h_content_length", "h_general")
      /\ Matcher["h_matching_transfer_encoding"] =
           Matching(TRANSFER_ENCODING, "h_transfer_encoding", "h_general")
      /\ Matcher["h_matching_upgrade"] = Matching(UPGRADE, "h_upgrade", "h_general")
      /\ Matcher["h_matching_transfer_encoding_chunked"] =
           Matching(CHUNKED, "h_transfer_encoding_chunked", "h_general")
      /\ Matcher["h_matching_connection_keep_alive"] =
           Matching(KEEP_ALIVE, "h_connection_keep_alive", "h_matching_connection_token")
      /\ Matcher["h_matching_connection_close"] =
           Matching(CLOSE, "h_connection_close", "h_matching_connection_token")
      /\ Matcher["h_matching_connection_upgrade"] =
           Matching(UPGRADE, "h_connection_upgrade", "h_matching_connection_token")
  BY DEF Matcher
<1>6. \A h \in DOMAIN Matcher : Len(Matcher[h].word) \in 5 .. 17
  BY <1>1, <1>2, <1>3, <1>4, <1>5
<1>7. \A h \in DOMAIN Matcher :
       /\ Matcher[h].found \in {"h_connection", "h_content_length", "h_transfer_encoding", "h_upgrade",
            "h_transfer_encoding_chunked", "h_connection_keep_alive", "h_connection_close",
            "h_connection_upgrade"}
       /\ Matcher[h].otherwise \in {"h_general", "h_matching_connection_token"}
  BY <1>1, <1>4, <1>5
<1>8. \A h \in {"h_matching_connection", "h_matching_content_length"} : Len(Matcher[h].word) \in 10 .. 17
  BY <1>1, <1>2, <1>4, <1>5
<1> QED  BY <1>1, <1>6, <1>7, <1>8

-----------------------------------------------------------------------------
(* The start line *)

\* A letter that is the next of a word is not the NUL that ends it.
LEMMA NextLetter ==
  ASSUME NEW word, NEW i \in Nat, Len(word) \in Nat, i <= Len(word), CharAt(word, i) # NUL
  PROVE  i + 1 <= Len(word)
BY DEF CharAt

\* What a parser is that goes elsewhere with other numbers.
LEMMA GoElsewhere ==
  ASSUME NEW STATE q, Shaped(q), NEW s, Elsewhere(s)
  PROVE  Good(Go(q, s))
<1>1. Shaped(Go(q, s)) /\ Go(q, s).state = s
  BY DEF Shaped, Fields, Go
<1> QED  BY <1>1, GoodElsewhere

\* The method matcher starts with one letter of the method it guesses.
LEMMA StartReqStep ==
  ASSUME Good(parser), StartReq
  PROVE  Good(parser')
<1> DEFINE q == [parser EXCEPT !.flags = {}]
           g == [Go(q, "s_req_method") EXCEPT !.method = FirstGuess[Byte], !.index = 1]
<1>1. Good(q)
  BY DEF Good, Shaped, Fields, InMethod, InName, InValue, InWord
<1>2. CASE Byte \in DOMAIN FirstGuess
  <2>1. FirstGuess[Byte] \in DOMAIN method_strings
    BY <1>2, MethodLengths
  <2>2. \A n \in 3 .. 11 : 1 <= n
    OBVIOUS
  <2>3. 1 <= Len(method_strings[FirstGuess[Byte]])
    BY <2>1, <2>2, MethodLengths, Zenon
  <2>4. /\ Shaped(g) /\ g.state = "s_req_method" /\ g.method = FirstGuess[Byte] /\ g.index = 1
    BY DEF Good, Shaped, Fields, Go
  <2>5. Good(g)
    BY <2>1, <2>3, <2>4 DEF Good, InMethod, InName, InValue, InWord
  <2> QED  BY <1>1, <2>5, <1>2, RoundEnds DEF StartReq
<1>3. CASE Byte \notin DOMAIN FirstGuess
  BY <1>1, <1>3, RoundEnds DEF StartReq
<1> QED  BY <1>2, <1>3

\* A letter of the method: the index stays within the guess, old or new.
LEMMA ReqMethodStep ==
  ASSUME Good(parser), ReqMethod
  PROVE  Good(parser')
<1> DEFINE word == method_strings[parser.method]
           next == [parser EXCEPT !.index = @ + 1]
           expected == CharAt(word, parser.index)
           revised == {r \in Revisions : r[1] = parser.method /\ r[2] = parser.index /\ r[3] = Byte}
           pick == CHOOSE r \in revised : TRUE
           other == [next EXCEPT !.method = pick[4]]
<1>1. /\ parser.state = "s_req_method" /\ parser.method \in DOMAIN method_strings
      /\ parser.index \in Nat /\ parser.index <= Len(word) /\ Shaped(parser)
  BY DEF ReqMethod, At, Good, Shaped, InMethod
<1>2. Len(word) \in 3 .. 11
  BY <1>1, MethodLengths
<1>3. /\ Shaped(next) /\ next.state = "s_req_method" /\ next.method = parser.method
      /\ next.index = parser.index + 1
  BY <1>1 DEF Shaped, Fields
<1>4. next.index <= Len(word) => Good(next)
  BY <1>1, <1>3 DEF Good, InMethod, InName, InValue, InWord
<1>5. CASE Fail(parser, "INVALID_METHOD")
  BY <1>5, RoundEnds
<1>6. CASE Take(Go(next, "s_req_spaces_before_url"))
  <2>1. Good(Go(next, "s_req_spaces_before_url"))
    BY <1>3, GoElsewhere DEF Elsewhere
  <2> QED  BY <2>1, <1>6, RoundEnds
<1>7. CASE revised # {} /\ Take(other)
  <2>1. pick \in revised
    BY <1>7
  <2>2. pick \in Revisions /\ pick[2] = parser.index
    BY <2>1
  <2> HIDE DEF pick
  <2>3. /\ Shaped(other) /\ other.state = "s_req_method" /\ other.method = pick[4]
        /\ other.index = pick[2] + 1
    BY <1>3, <2>2 DEF Shaped, Fields
  <2>4. pick[4] \in DOMAIN method_strings /\ pick[2] + 1 <= Len(method_strings[pick[4]])
    BY <2>2, MethodLengths
  <2>5. Good(other)
    BY <2>3, <2>4 DEF Good, InMethod, InName, InValue, InWord
  <2> QED  BY <2>5, <1>7, RoundEnds
<1>8. CASE expected # NUL /\ Take(next)
  <2>1. parser.index + 1 <= Len(word)
    BY <1>1, <1>2, <1>8, NextLetter
  <2> QED  BY <2>1, <1>3, <1>4, <1>8, RoundEnds
<1>9. CASE parser.index = 1 /\ Take(next)
  <2>1. \A n \in 3 .. 11 : 1 + 1 <= n
    OBVIOUS
  <2>2. 1 + 1 <= Len(word)
    BY <2>1, <1>2, Zenon
  <2> QED  BY <2>2, <1>3, <1>4, <1>9, RoundEnds
<1> QED
  BY <1>5, <1>6, <1>7, <1>8, <1>9 DEF ReqMethod

\* A response, or a request for HEAD of which two letters are read.
LEMMA ResOrRespHStep ==
  ASSUME Good(parser), ResOrRespH
  PROVE  Good(parser')
<1> DEFINE p == [parser EXCEPT !.state = "s_res_HT", !.type = "RESPONSE"]
           q == [parser EXCEPT !.state = "s_req_method", !.type = "REQUEST", !.method = "HEAD", !.index = 2]
<1>1. Good(p)
  <2>1. Shaped(p) /\ p.state = "s_res_HT"
    BY DEF Good, Shaped, Fields
  <2> QED  BY <2>1, GoodElsewhere DEF Elsewhere
<1>2. Good(q)
  <2>1. Shaped(q) /\ q.state = "s_req_method" /\ q.method = "HEAD" /\ q.index = 2
    BY DEF Good, Shaped, Fields
  <2>2. \A n \in 3 .. 11 : 2 <= n
    OBVIOUS
  <2>3. 2 <= Len(method_strings["HEAD"])
    BY <2>2, MethodLengths, Zenon
  <2>4. InMethod(q)
    BY <2>1, <2>3, MethodLengths DEF InMethod
  <2> QED  BY <2>1, <2>4 DEF Good, InName, InValue, InWord
<1> QED  BY <1>1, <1>2, RoundEnds DEF ResOrRespH

\* Numbers are of no account to the matchers.
LEMMA GoodNumber ==
  ASSUME NEW STATE q, Good(q), NEW field \in {"http_major", "http_minor", "status_code"}, NEW STATE v
  PROVE  Good([q EXCEPT ![field] = v])
BY DEF Good, Shaped, Fields, InMethod, InName, InValue, InWord

\* The first digit of a number.
LEMMA FirstDigitStep ==
  ASSUME Good(parser), NEW field \in {"http_major", "http_minor", "status_code"},
         NEW s, Elsewhere(s), NEW e, FirstDigit(parser, field, s, e)
  PROVE  Good(parser')
<1>1. Good(Go(parser, s))
  BY GoElsewhere DEF Good
<1>2. Good([Go(parser, s) EXCEPT ![field] = Digit(Byte)])
  BY <1>1, GoodNumber
<1> QED  BY <1>2, RoundEnds DEF FirstDigit

\* Another digit.
LEMMA NextDigitStep ==
  ASSUME Good(parser), NEW field \in {"http_major", "http_minor", "status_code"},
         NEW e, NextDigit(parser, field, e)
  PROVE  Good(parser')
<1>1. Good([parser EXCEPT ![field] = parser[field] * 10 + Digit(Byte)])
  BY GoodNumber
<1> QED  BY <1>1, RoundEnds DEF NextDigit

\* The letters of a target lead out of every matcher.
LEMMA UrlElsewhere ==
  ASSUME NEW s, NEW ch, Elsewhere(s)
  PROVE  Elsewhere(parse_url_char(s, ch))
BY DEF Elsewhere, parse_url_char, IS_URL_CHAR, IS_USERINFO_CHAR

\* The versions, the status code and the constants of the start line.
LEMMA NumberSteps ==
  ASSUME Good(parser),
         HttpConstant \/ FirstMajor \/ Major \/ FirstMinor \/ ResMinor \/ ReqMinor
           \/ FirstStatusCode \/ StatusCode
  PROVE  Good(parser')
<1>1. \A s : Elsewhere(s) => Good(Go(parser, s))
  BY GoElsewhere DEF Good
<1>2. CASE HttpConstant
  <2>1. \A s \in DOMAIN Constants : Elsewhere(Constants[s][2])
    BY DEF Constants, Elsewhere
  <2>2. Good(Go(parser, Constants[parser.state][2]))
    BY <1>1, <1>2, <2>1 DEF HttpConstant, At
  <2> QED  BY <1>2, <2>2, RoundEnds DEF HttpConstant
<1>3. CASE FirstMajor
  <2>1. Elsewhere("s_res_http_major") /\ Elsewhere("s_req_http_major")
    BY DEF Elsewhere
  <2> QED  BY <1>3, <2>1, FirstDigitStep, RoundEnds DEF FirstMajor
<1>4. CASE Major
  <2>1. Good(Go(parser, "s_res_first_http_minor")) /\ Good(Go(parser, "s_req_first_http_minor"))
    BY <1>1 DEF Elsewhere
  <2> QED  BY <1>4, <2>1, NextDigitStep, RoundEnds DEF Major
<1>5. CASE FirstMinor
  <2>1. Elsewhere("s_res_http_minor") /\ Elsewhere("s_req_http_minor")
    BY DEF Elsewhere
  <2> QED  BY <1>5, <2>1, FirstDigitStep DEF FirstMinor
<1>6. CASE ResMinor
  <2>1. Good(Go(parser, "s_res_first_status_code"))
    BY <1>1 DEF Elsewhere
  <2> QED  BY <1>6, <2>1, NextDigitStep, RoundEnds DEF ResMinor
<1>7. CASE ReqMinor
  <2>1. Good(Go(parser, "s_req_line_almost_done")) /\ Good(Go(parser, "s_header_field_start"))
    BY <1>1 DEF Elsewhere
  <2> QED  BY <1>7, <2>1, NextDigitStep, RoundEnds DEF ReqMinor
<1>8. CASE FirstStatusCode
  <2>1. Elsewhere("s_res_status_code")
    BY DEF Elsewhere
  <2> QED  BY <1>8, <2>1, FirstDigitStep, RoundEnds DEF FirstStatusCode
<1>9. CASE StatusCode
  <2>1. /\ Good(Go(parser, "s_res_status_start")) /\ Good(Go(parser, "s_res_line_almost_done"))
        /\ Good(Go(parser, "s_header_field_start"))
    BY <1>1 DEF Elsewhere
  <2> QED  BY <1>9, <2>1, NextDigitStep, RoundEnds DEF StatusCode
<1> QED  BY <1>2, <1>3, <1>4, <1>5, <1>6, <1>7, <1>8, <1>9

\* Where a message starts, and the rest of a status line.
LEMMA StatusSteps ==
  ASSUME Good(parser), StartReqOrRes \/ StartRes \/ StatusStart \/ Status \/ LineAlmostDone
  PROVE  Good(parser')
<1>1. \A s : Elsewhere(s) => Good(Go(parser, s))
  BY GoElsewhere DEF Good
<1>2. CASE StartReqOrRes
  <2> DEFINE h == [parser EXCEPT !.state = "s_res_or_resp_H", !.flags = {}]
             r == [parser EXCEPT !.state = "s_start_req", !.type = "REQUEST", !.flags = {}]
  <2>1. Shaped(h) /\ h.state = "s_res_or_resp_H" /\ Shaped(r) /\ r.state = "s_start_req"
    BY DEF Good, Shaped, Fields
  <2>2. Good(h) /\ Good(r)
    BY <2>1, GoodElsewhere DEF Elsewhere
  <2> QED  BY <1>2, <2>2, RoundEnds DEF StartReqOrRes
<1>3. CASE StartRes
  <2> DEFINE q == [parser EXCEPT !.flags = {}]
  <2>1. Good(q)
    BY DEF Good, Shaped, Fields, InMethod, InName, InValue, InWord
  <2>2. Good(Go(q, "s_res_H"))
    BY <2>1, GoElsewhere DEF Good, Elsewhere
  <2> QED  BY <1>3, <2>1, <2>2, RoundEnds DEF StartRes
<1>4. CASE StatusStart
  <2> DEFINE q == [Go(parser, "s_res_status") EXCEPT !.index = 0]
  <2>1. /\ Good(Go(parser, "s_res_line_almost_done")) /\ Good(Go(parser, "s_header_field_start"))
    BY <1>1 DEF Elsewhere
  <2>2. Shaped(q) /\ q.state = "s_res_status"
    BY DEF Good, Shaped, Fields, Go
  <2>3. Good(q)
    BY <2>2, GoodElsewhere DEF Elsewhere
  <2> QED  BY <1>4, <2>1, <2>3, RoundEnds DEF StatusStart
<1>5. CASE Status
  <2>1. /\ Good(Go(parser, "s_res_line_almost_done")) /\ Good(Go(parser, "s_header_field_start"))
    BY <1>1 DEF Elsewhere
  <2> QED  BY <1>5, <2>1, RoundEnds DEF Status
<1>6. CASE LineAlmostDone
  <2>1. Good(Go(parser, "s_header_field_start"))
    BY <1>1 DEF Elsewhere
  <2> QED  BY <1>6, <2>1, RoundEnds DEF LineAlmostDone
<1> QED  BY <1>2, <1>3, <1>4, <1>5, <1>6

\* The target of a request, and the blanks around it.
LEMMA TargetSteps ==
  ASSUME Good(parser), SpacesBeforeUrl \/ UrlPrefix \/ Url \/ HttpStart
  PROVE  Good(parser')
<1>1. \A s : Elsewhere(s) => Good(Go(parser, s))
  BY GoElsewhere DEF Good
<1>2. \A s, ch : Elsewhere(s) => Good(Go(parser, parse_url_char(s, ch)))
  BY <1>1, UrlElsewhere
<1>3. CASE SpacesBeforeUrl
  <2>1. Elsewhere("s_req_server_start") /\ Elsewhere(parser.state)
    BY <1>3 DEF SpacesBeforeUrl, At, Elsewhere
  <2>2. /\ Good(Go(parser, parse_url_char("s_req_server_start", Byte)))
        /\ Good(Go(parser, parse_url_char(parser.state, Byte)))
    BY <1>2, <2>1
  <2> QED  BY <1>3, <2>2, RoundEnds DEF SpacesBeforeUrl, NextUrlChar
<1>4. CASE UrlPrefix
  <2>1. Elsewhere(parser.state)
    BY <1>4 DEF UrlPrefix, At, Elsewhere
  <2>2. Good(Go(parser, parse_url_char(parser.state, Byte)))
    BY <1>2, <2>1
  <2> QED  BY <1>4, <2>2, RoundEnds DEF UrlPrefix, NextUrlChar
<1>5. CASE Url
  <2> DEFINE old == [parser EXCEPT !.http_major = 0, !.http_minor = 9]
  <2>1. Elsewhere(parser.state)
    BY <1>5 DEF Url, At, Elsewhere
  <2>2. Good(Go(parser, parse_url_char(parser.state, Byte)))
    BY <1>2, <2>1
  <2>3. Shaped(old)
    BY DEF Good, Shaped, Fields
  <2>4. /\ Good(Go(parser, "s_req_http_start"))
        /\ Good(Go(old, "s_req_line_almost_done")) /\ Good(Go(old, "s_header_field_start"))
    BY <1>1, <2>3, GoElsewhere DEF Elsewhere
  <2> QED  BY <1>5, <2>2, <2>4, RoundEnds DEF Url, NextUrlChar
<1>6. CASE HttpStart
  <2>1. Good(Go(parser, "s_req_http_H"))
    BY <1>1 DEF Elsewhere
  <2> QED  BY <1>6, <2>1, RoundEnds DEF HttpStart
<1> QED  BY <1>3, <1>4, <1>5, <1>6

-----------------------------------------------------------------------------
(* Names and values *)

\* The next letter of a word: the index stays before the last letter, or the matcher is
\* left.
LEMMA MatchStep ==
  ASSUME NEW STATE q, Good(q), q.state \in {"s_header_field", "s_header_value"},
         q.header_state \in DOMAIN Matcher, NEW STATE c
  PROVE  Good(Match(q, c))
<1> DEFINE m == Matcher[q.header_state]
           i == q.index + 1
           r == Match(q, c)
<1>1. /\ Len(m.word) \in 5 .. 17 /\ m.found \notin DOMAIN Matcher /\ m.otherwise \notin DOMAIN Matcher
      /\ m.found \notin {"h_C", "h_CO", "h_CON", "h_matching_connection_token_start"}
      /\ m.otherwise \notin {"h_C", "h_CO", "h_CON", "h_matching_connection_token_start"}
  BY WordLengths
<1>2. q.index \in Nat /\ i < Len(m.word)
  BY DEF Good, Shaped, InWord
<1>3. q.header_state \notin {"h_C", "h_CO", "h_CON", "h_matching_connection_token_start"}
  BY WordLengths
<1>4. /\ Shaped(r) /\ r.state = q.state /\ r.index = i
      /\ r.header_state = IF c # CharAt(m.word, i) THEN m.otherwise
                          ELSE IF i = Len(m.word) - 1 THEN m.found ELSE q.header_state
  <2> DEFINE s == IF c # CharAt(m.word, i) THEN m.otherwise
                  ELSE IF i = Len(m.word) - 1 THEN m.found ELSE q.header_state
             t == [q EXCEPT !.index = i, !.header_state = s]
  <2>1. r = t
    BY DEF Match
  <2>2. Shaped(q) /\ i \in Nat
    BY <1>2 DEF Good
  <2> HIDE DEF s, i
  <2>3. Shaped(t) /\ t.state = q.state /\ t.index = i /\ t.header_state = s
    BY <2>2 DEF Shaped, Fields
  <2> QED  BY <2>1, <2>3 DEF s, i
<1>5. InMethod(r) /\ InName(r) /\ InValue(r)
  BY <1>1, <1>3, <1>4 DEF InMethod, InName, InValue
<1>6. InWord(r)
  <2>1. CASE r.header_state = q.header_state
    <3>1. i # Len(m.word) - 1
      BY <1>1, <1>4, <2>1
    <3>2. \A k \in Nat, n \in 5 .. 17 : k + 1 < n /\ k + 1 # n - 1 => (k + 1) + 1 < n
      OBVIOUS
    <3>3. i + 1 < Len(m.word)
      BY <3>1, <3>2, <1>1, <1>2
    <3> QED  BY <3>3, <2>1, <1>4 DEF InWord
  <2>2. CASE r.header_state # q.header_state
    <3>1. r.header_state \notin DOMAIN Matcher
      BY <2>2, <1>1, <1>4
    <3> QED  BY <3>1 DEF InWord
  <2> QED  BY <2>1, <2>2
<1> QED  BY <1>4, <1>5, <1>6 DEF Good

\* A parser at the start of a word, wherever it matches.
LEMMA GoodAtStart ==
  ASSUME NEW STATE q, Shaped(q), q.state \in {"s_header_field", "s_header_value"}, q.index = 0,
         q.state = "s_header_field" => q.header_state \notin {"h_CO", "h_CON"}
  PROVE  Good(q)
<1>1. \A h \in DOMAIN Matcher : Len(Matcher[h].word) \in 5 .. 17
  BY WordLengths
<1>2. \A n \in 5 .. 17 : 0 + 1 < n
  OBVIOUS
<1>3. q.header_state \in DOMAIN Matcher => 0 + 1 < Len(Matcher[q.header_state].word)
  BY <1>1, <1>2, Zenon
<1> QED  BY <1>3 DEF Good, InMethod, InName, InValue, InWord

\* A parser that matches no word.
LEMMA GoodIdle ==
  ASSUME NEW STATE q, Shaped(q), q.state \in {"s_header_field", "s_header_value"},
         q.header_state \notin DOMAIN Matcher,
         q.header_state \notin {"h_C", "h_CO", "h_CON", "h_matching_connection_token_start"}
  PROVE  Good(q)
BY DEF Good, InMethod, InName, InValue, InWord

\* A letter of a name.
LEMMA NameLetterStep ==
  ASSUME Good(parser), parser.state = "s_header_field", NEW STATE ch
  PROVE  Good(NameLetter(parser, ch))
<1> DEFINE h == parser.header_state
           c == LOWER(ch)
           r == NameLetter(parser, ch)
<1>1. CASE h \in DOMAIN Shared
  <2> DEFINE s == IF c \in DOMAIN Shared[h] THEN Shared[h][c] ELSE "h_general"
             j == parser.index + 1
             t == [parser EXCEPT !.index = j, !.header_state = s]
  <2>1. r = t
    <3>1. h \notin DOMAIN Matcher
      BY <1>1, WordLengths DEF Shared
    <3> QED  BY <1>1, <3>1, Zenon DEF NameLetter
  <2>2. /\ Shaped(t) /\ t.state = "s_header_field" /\ t.index = j /\ t.header_state = s
    <3>1. Shaped(parser) /\ j \in Nat
      BY DEF Good, Shaped
    <3> HIDE DEF s, j
    <3> QED  BY <3>1 DEF Shaped, Fields
  <2>3. CASE h = "h_C"
    <3>1. s \in {"h_CO", "h_general"} /\ parser.index = 0
      BY <2>3 DEF Shared, Good, InName
    <3>2. s \notin DOMAIN Matcher
      BY <3>1, WordLengths
    <3>3. s # "h_C" /\ s # "h_CON" /\ t.index = 1
      BY <3>1, <2>2
    <3> QED  BY <2>1, <2>2, <3>2, <3>3 DEF Good, InMethod, InName, InValue, InWord
  <2>4. CASE h = "h_CO"
    <3>1. s \in {"h_CON", "h_general"} /\ parser.index = 1
      BY <2>4 DEF Shared, Good, InName
    <3>2. s \notin DOMAIN Matcher
      BY <3>1, WordLengths
    <3>3. s # "h_C" /\ s # "h_CO" /\ t.index = 2
      BY <3>1, <2>2
    <3> QED  BY <2>1, <2>2, <3>2, <3>3 DEF Good, InMethod, InName, InValue, InWord
  <2>5. CASE h = "h_CON"
    <3>1. s \in {"h_matching_connection", "h_matching_content_length", "h_general"} /\ parser.index = 2
      BY <2>5 DEF Shared, Good, InName
    <3>2. s # "h_general" => Len(Matcher[s].word) \in 10 .. 17
      BY <3>1, WordLengths
    <3>3. \A n \in 10 .. 17 : 3 + 1 < n
      OBVIOUS
    <3>4. s # "h_general" => 3 + 1 < Len(Matcher[s].word)
      BY <3>2, <3>3, Zenon
    <3>5. "h_general" \notin DOMAIN Matcher
      BY WordLengths
    <3>6. s \notin {"h_C", "h_CO", "h_CON"} /\ t.index = 3
      BY <3>1, <2>2
    <3> QED  BY <2>1, <2>2, <3>4, <3>5, <3>6 DEF Good, InMethod, InName, InValue, InWord
  <2> QED  BY <1>1, <2>3, <2>4, <2>5 DEF Shared
<1>2. CASE h \notin DOMAIN Shared /\ h \in DOMAIN Matcher
  BY <1>2, MatchStep DEF NameLetter
<1>3. CASE h \notin DOMAIN Shared /\ h \notin DOMAIN Matcher
  <2> DEFINE t == [parser EXCEPT !.header_state = "h_general"]
  <2>1. r = t
    BY <1>3 DEF NameLetter
  <2>2. Shaped(t) /\ t.state = "s_header_field" /\ t.header_state = "h_general"
    BY DEF Good, Shaped, Fields
  <2>3. "h_general" \notin DOMAIN Matcher
    BY WordLengths
  <2> QED  BY <2>1, <2>2, <2>3, GoodIdle
<1> QED  BY <1>1, <1>2, <1>3

\* A letter of a value.
LEMMA ValueLetterStep ==
  ASSUME Good(parser), parser.state = "s_header_value", NEW STATE ch
  PROVE  Good(ValueLetter(parser, ch))
<1> DEFINE h == parser.header_state
           c == LOWER(ch)
           r == ValueLetter(parser, ch)
           general == [parser EXCEPT !.header_state = "h_general"]
           token == [parser EXCEPT !.header_state = "h_matching_connection_token"]
<1>1. Good(general) /\ Good(token)
  <2>1. /\ Shaped(general) /\ general.state = "s_header_value" /\ general.header_state = "h_general"
        /\ Shaped(token) /\ token.state = "s_header_value"
        /\ token.header_state = "h_matching_connection_token"
    BY DEF Good, Shaped, Fields
  <2>2. "h_general" \notin DOMAIN Matcher /\ "h_matching_connection_token" \notin DOMAIN Matcher
    BY WordLengths
  <2> QED  BY <2>1, <2>2, GoodIdle
<1>2. ASSUME NEW STATE q, Shaped(q), q.state = "s_header_value"
      PROVE  Good(NextWord(q))
  <2>1. Shaped(NextWord(q)) /\ NextWord(q).state = "s_header_value" /\ NextWord(q).index = 0
    BY <1>2 DEF Shaped, Fields, NextWord
  <2> QED  BY <2>1, GoodAtStart
<1>3. Good(NextWord(parser)) /\ Good(NextWord(WithFlag(parser)))
  <2>1. Shaped(WithFlag(parser)) /\ WithFlag(parser).state = "s_header_value"
    BY DEF Good, Shaped, Fields, WithFlag
  <2> QED  BY <1>2, <2>1 DEF Good
<1>4. CASE h = "h_matching_connection_token_start"
  <2> DEFINE s == IF c = " " THEN h ELSE IF TOKEN(c) THEN WordStart(c) ELSE "h_general"
             t == [parser EXCEPT !.header_state = s]
  <2>1. r = t
    <3>1. h \notin DOMAIN Matcher
      BY <1>4, WordLengths
    <3> QED  BY <1>4, <3>1, Zenon DEF ValueLetter
  <2> HIDE DEF s
  <2>2. parser.index = 0
    BY <1>4 DEF Good, InValue
  <2>3. Shaped(t) /\ t.state = "s_header_value" /\ t.index = 0
    BY <2>2 DEF Good, Shaped, Fields
  <2> QED  BY <2>1, <2>3, GoodAtStart
<1>5. CASE h \in DOMAIN Matcher
  <2>1. h \notin {"h_content_length", "h_matching_connection_token_start", "h_matching_connection_token",
                  "h_transfer_encoding_chunked", "h_connection_keep_alive", "h_connection_close",
                  "h_connection_upgrade"}
    BY <1>5, WordLengths
  <2>2. r = Match(parser, c)
    BY <1>5, <2>1, Zenon DEF ValueLetter
  <2> QED  BY <1>5, <2>2, MatchStep
<1> QED
  BY <1>1, <1>3, <1>4, <1>5 DEF ValueLetter

\* The first letter of a value.
LEMMA StartValueStep ==
  ASSUME Good(parser), StartValue
  PROVE  Good(parser')
<1> DEFINE q == [parser EXCEPT !.state = "s_header_value", !.index = 0]
<1>1. Shaped(q) /\ q.state = "s_header_value" /\ q.index = 0
  BY DEF Good, Shaped, Fields
<1>2. Good(q)
  BY <1>1, GoodAtStart
<1>3. Good([q EXCEPT !.flags = @ \cup {"UPGRADE"}, !.header_state = "h_general"])
  <2> DEFINE t == [q EXCEPT !.flags = @ \cup {"UPGRADE"}, !.header_state = "h_general"]
  <2>1. Shaped(t) /\ t.state = "s_header_value" /\ t.index = 0
    BY <1>1 DEF Shaped, Fields
  <2> QED  BY <2>1, GoodAtStart
<1>4. ASSUME NEW STATE s
      PROVE  Good([q EXCEPT !.header_state = s])
  <2> DEFINE t == [q EXCEPT !.header_state = s]
  <2>1. Shaped(t) /\ t.state = "s_header_value" /\ t.index = 0
    BY <1>1 DEF Shaped, Fields
  <2> QED  BY <2>1, GoodAtStart
<1>5. /\ Good([q EXCEPT !.header_state = IF LOWER(Byte) = "c" THEN "h_matching_transfer_encoding_chunked"
                                         ELSE "h_general"])
      /\ Good([q EXCEPT !.header_state = WordStart(LOWER(Byte))])
      /\ Good([q EXCEPT !.header_state = "h_general"])
  BY <1>4
<1> QED  BY <1>2, <1>3, <1>5, RoundEnds DEF StartValue

\* The rounds of header names, values and their line ends.
LEMMA HeaderSteps ==
  ASSUME Good(parser), HeaderRound
  PROVE  Good(parser')
<1>1. \A s : Elsewhere(s) => Good(Go(parser, s))
  BY GoElsewhere DEF Good
<1>2. CASE HeaderFieldStart
  <2> DEFINE q == [parser EXCEPT !.state = "s_header_field", !.index = 0,
                                 !.header_state = NameStart(LOWER(Byte))]
  <2>1. Good(Go(parser, "s_headers_almost_done"))
    BY <1>1 DEF Elsewhere
  <2>2. /\ Shaped(q) /\ q.state = "s_header_field" /\ q.index = 0
        /\ q.header_state = NameStart(LOWER(Byte))
    BY DEF Good, Shaped, Fields
  <2>3. NameStart(LOWER(Byte)) \notin {"h_CO", "h_CON"}
    BY DEF NameStart
  <2>4. Good(q)
    BY <2>2, <2>3, GoodAtStart
  <2> QED  BY <1>2, <2>1, <2>4, RoundEnds DEF HeaderFieldStart
<1>3. CASE HeaderField
  <2>1. Good(Go(parser, "s_header_value_discard_ws"))
    BY <1>1 DEF Elsewhere
  <2>2. Good(NameLetter(parser, Byte))
    BY <1>3, NameLetterStep DEF HeaderField, At
  <2> QED  BY <1>3, <2>1, <2>2, RoundEnds DEF HeaderField
<1>4. CASE HeaderValueDiscardWs
  <2>1. /\ Good(Go(parser, "s_header_value_discard_ws_almost_done"))
        /\ Good(Go(parser, "s_header_value_discard_lws"))
    BY <1>1 DEF Elsewhere
  <2> QED  BY <1>4, <2>1, StartValueStep, RoundEnds DEF HeaderValueDiscardWs
<1>5. CASE HeaderValueStart
  BY <1>5, StartValueStep DEF HeaderValueStart
<1>6. CASE HeaderValue
  <2>1. Good(Go(parser, "s_header_almost_done"))
    BY <1>1 DEF Elsewhere
  <2>2. Good(ValueLetter(parser, Byte))
    BY <1>6, ValueLetterStep DEF HeaderValue, At
  <2> QED  BY <1>6, <2>1, <2>2, RoundEnds DEF HeaderValue
<1>7. CASE AlmostDone
  <2>1. \A s \in DOMAIN ExpectLf : Elsewhere(ExpectLf[s])
    BY DEF ExpectLf, Elsewhere
  <2>2. Good(Go(parser, ExpectLf[parser.state]))
    BY <1>1, <1>7, <2>1 DEF AlmostDone, At
  <2> QED  BY <1>7, <2>2, RoundEnds DEF AlmostDone
<1>8. Good(Go(WithFlag(parser), "s_header_field_start"))
  <2>1. Shaped(WithFlag(parser))
    BY DEF Good, Shaped, Fields, WithFlag
  <2> QED  BY <2>1, GoElsewhere DEF Elsewhere
<1>9. CASE HeaderValueLws
  <2>1. Good(Go(parser, "s_header_value_start"))
    BY <1>1 DEF Elsewhere
  <2> QED  BY <1>8, <1>9, <2>1, RoundEnds DEF HeaderValueLws
<1>10. CASE DiscardLws
  <2>1. Good(Go(parser, "s_header_value_discard_ws"))
    BY <1>1 DEF Elsewhere
  <2> QED  BY <1>8, <1>10, <2>1, RoundEnds DEF DiscardLws
<1> QED  BY <1>2, <1>3, <1>4, <1>5, <1>6, <1>7, <1>9, <1>10 DEF HeaderRound

-----------------------------------------------------------------------------
\* The matchers' invariant: index, and what is matched, fit each other in every state of
\* every header (http_parser.cpp:989-1090, 1315-1480, 1536-1720).
THEOREM MatchersInvariant == Spec => []MatchInv
<1>1. Init => MatchInv
  <2> SUFFICES ASSUME Init PROVE Good(parser)
    BY DEF MatchInv
  <2>1. head.type \in {"REQUEST", "RESPONSE", "BOTH"}
    BY HeadsAssumption DEF Init
  <2>2. Shaped(parser) /\ parser.state \in {"s_start_req", "s_start_res", "s_start_req_or_res"}
    BY <2>1 DEF Init, Shaped, Fields
  <2> QED  BY <2>2, GoodElsewhere DEF Elsewhere
<1>2. MatchInv /\ [Next]_vars => MatchInv'
  <2> SUFFICES ASSUME Good(parser), [Next]_vars PROVE Good(parser')
    BY DEF MatchInv
  <2>1. CASE StartLineRound
    BY <2>1, StartReqStep, ReqMethodStep, ResOrRespHStep, NumberSteps, StatusSteps, TargetSteps
    DEF StartLineRound
  <2>2. CASE HeaderRound
    BY <2>2, HeaderSteps
  <2>3. CASE EndOfBuffer
    BY <2>3, RoundEnds DEF EndOfBuffer
  <2>4. CASE Unpause
    BY <2>4, GoodErrno DEF Unpause
  <2>5. CASE \E n \in 1 .. Len(wire) : Execute(n)
    BY <2>5 DEF Execute
  <2>6. CASE UNCHANGED vars
    BY <2>6 DEF vars
  <2> QED  BY <2>1, <2>2, <2>3, <2>4, <2>5, <2>6 DEF Next
<1> QED  BY <1>1, <1>2, PTL DEF Spec

\* No matcher reads past the NUL that ends its word, whatever a peer sends, in however
\* many buffers and with whatever pauses (http_parser.cpp:997, 1391-1451, 1622-1687).
THEOREM MatchersStayInside == Spec => []IndexInBounds
<1>1. MatchInv => IndexInBounds
  BY DEF MatchInv, Good, InMethod, InWord, IndexInBounds
<1> QED  BY <1>1, MatchersInvariant, PTL

-----------------------------------------------------------------------------
(* What is spelled where *)

\* The letters after the first i spell the first k letters of word, in any case.
Spells(w, i, word, k) == k <= Len(word) /\ \A l \in 1 .. k : LOWER(w[i + l]) = word[l]

\* The names that mean something, by the state they are remembered as.
NamesOf ==
  [h_connection |-> {CONNECTION, PROXY_CONNECTION}, h_content_length |-> {CONTENT_LENGTH},
   h_transfer_encoding |-> {TRANSFER_ENCODING}, h_upgrade |-> {UPGRADE}]

\* A name ends with a colon, and starts a line; it is remembered as the connection's, the
\* length's, the encoding's or the upgrade's if and only if it is spelled as such, in any
\* mix of cases, in however many buffers (http_parser.cpp:1290-1467).
NamesKnown ==
  [][parser.state = "s_header_field" /\ parser'.state # "s_header_field" =>
       /\ Byte = ":"
       /\ \E n \in 1 .. exec.p - 1 :
            /\ wire[n] = LF /\ \A i \in n + 1 .. exec.p : TOKEN(wire[i])
            /\ \A h \in DOMAIN NamesOf :
                 parser'.header_state = h <=>
                   \E name \in NamesOf[h] :
                     exec.p = n + Len(name) /\ Spells(wire, n, name, Len(name))]_vars

\* The matchers of names, and the word each matches.
NameMatchers == {"h_matching_connection", "h_matching_proxy_connection", "h_matching_content_length",
                 "h_matching_transfer_encoding", "h_matching_upgrade"}
Word(m) == Matcher[m].word
Size(m) == Len(Word(m))

\* The two names that share "con".
Twins == {"h_matching_connection", "h_matching_content_length"}

\* The state after the first k letters of the word of m.
After(m, k) ==
  IF k = Size(m) THEN Matcher[m].found
  ELSE IF m \in Twins /\ k <= 3 THEN <<"h_C", "h_CO", "h_CON">>[k] ELSE m

\* The k letters after the first n of w were read as state h says, with index i.
ReadAs(w, n, k, h, i) ==
  /\ \A m \in NameMatchers : Spells(w, n, Word(m), k) => h = After(m, k)
  /\ h # "h_general" =>
       \E m \in NameMatchers :
         Spells(w, n, Word(m), k) /\ h = After(m, k) /\ (k < Size(m) => i = k - 1)

\* The letters that tell the names apart.
LEMMA NameLetters ==
  /\ Word("h_matching_connection")[1] = "c" /\ Word("h_matching_content_length")[1] = "c"
  /\ Word("h_matching_proxy_connection")[1] = "p" /\ Word("h_matching_transfer_encoding")[1] = "t"
  /\ Word("h_matching_upgrade")[1] = "u"
  /\ \A m \in Twins : Word(m)[2] = "o" /\ Word(m)[3] = "n"
  /\ Word("h_matching_connection")[4] = "n" /\ Word("h_matching_content_length")[4] = "t"
<1>1. /\ Word("h_matching_connection") = CONNECTION /\ Word("h_matching_content_length") = CONTENT_LENGTH
      /\ Word("h_matching_proxy_connection") = PROXY_CONNECTION
      /\ Word("h_matching_transfer_encoding") = TRANSFER_ENCODING
      /\ Word("h_matching_upgrade") = UPGRADE
  BY DEF Word, Matcher, Matching
<1>2. CONNECTION[1] = "c" /\ CONNECTION[2] = "o" /\ CONNECTION[3] = "n" /\ CONNECTION[4] = "n"
  BY DEF CONNECTION
<1>3. /\ CONTENT_LENGTH[1] = "c" /\ CONTENT_LENGTH[2] = "o" /\ CONTENT_LENGTH[3] = "n"
      /\ CONTENT_LENGTH[4] = "t"
  BY DEF CONTENT_LENGTH
<1>4. TRANSFER_ENCODING[1] = "t" /\ UPGRADE[1] = "u"
  BY DEF TRANSFER_ENCODING, UPGRADE
<1>5. PROXY_CONNECTION[1] = "p"
  BY DEF PROXY_CONNECTION, CONNECTION
<1> QED  BY <1>1, <1>2, <1>3, <1>4, <1>5 DEF Twins

\* The states that a name is matched in.
LEMMA NameMatcherFacts ==
  /\ NameMatchers \subseteq DOMAIN Matcher
  /\ \A m \in NameMatchers :
       /\ Size(m) \in 7 .. 17 /\ Matcher[m].otherwise = "h_general"
       /\ Matcher[m].found \in DOMAIN NamesOf
       /\ Word(m) \in NamesOf[Matcher[m].found]
  /\ DOMAIN NamesOf = {"h_connection", "h_content_length", "h_transfer_encoding", "h_upgrade"}
  /\ \A h \in DOMAIN NamesOf : \A name \in NamesOf[h] :
       \E m \in NameMatchers : Word(m) = name /\ Matcher[m].found = h
<1>1. /\ Len(CONNECTION) \in 7 .. 17 /\ Len(CONTENT_LENGTH) \in 7 .. 17 /\ Len(TRANSFER_ENCODING) \in 7 .. 17
      /\ Len(PROXY_CONNECTION) \in 7 .. 17 /\ Len(UPGRADE) \in 7 .. 17
  BY DEF CONNECTION, PROXY_CONNECTION, CONTENT_LENGTH, TRANSFER_ENCODING, UPGRADE
<1>2. /\ Matcher["h_matching_connection"] = Matching(CONNECTION, "h_connection", "h_general")
      /\ Matcher["h_matching_proxy_connection"] = Matching(PROXY_CONNECTION, "h_connection", "h_general")
      /\ Matcher["h_matching_content_length"] = Matching(CONTENT_LENGTH, "h_content_length", "h_general")
      /\ Matcher["h_matching_transfer_encoding"] =
           Matching(TRANSFER_ENCODING, "h_transfer_encoding", "h_general")
      /\ Matcher["h_matching_upgrade"] = Matching(UPGRADE, "h_upgrade", "h_general")
  BY DEF Matcher
<1>3. /\ \A w, f, o : Matching(w, f, o).word = w /\ Matching(w, f, o).found = f
      /\ \A w, f, o : Matching(w, f, o).otherwise = o
  BY DEF Matching
<1>4. /\ DOMAIN NamesOf = {"h_connection", "h_content_length", "h_transfer_encoding", "h_upgrade"}
      /\ NamesOf["h_connection"] = {CONNECTION, PROXY_CONNECTION}
      /\ NamesOf["h_content_length"] = {CONTENT_LENGTH}
      /\ NamesOf["h_transfer_encoding"] = {TRANSFER_ENCODING} /\ NamesOf["h_upgrade"] = {UPGRADE}
  BY DEF NamesOf
<1>5. NameMatchers \subseteq DOMAIN Matcher
  BY WordLengths DEF NameMatchers
<1>6. /\ Word("h_matching_connection") = CONNECTION /\ Word("h_matching_content_length") = CONTENT_LENGTH
      /\ Word("h_matching_proxy_connection") = PROXY_CONNECTION
      /\ Word("h_matching_transfer_encoding") = TRANSFER_ENCODING
      /\ Word("h_matching_upgrade") = UPGRADE
  BY <1>2, <1>3 DEF Word
<1>7. /\ Matcher["h_matching_connection"].found = "h_connection"
      /\ Matcher["h_matching_proxy_connection"].found = "h_connection"
      /\ Matcher["h_matching_content_length"].found = "h_content_length"
      /\ Matcher["h_matching_transfer_encoding"].found = "h_transfer_encoding"
      /\ Matcher["h_matching_upgrade"].found = "h_upgrade"
  BY <1>2, <1>3
<1>8. \A m \in NameMatchers : Matcher[m].otherwise = "h_general"
  BY <1>2, <1>3 DEF NameMatchers
<1>9. \A m \in NameMatchers :
       /\ Size(m) \in 7 .. 17
       /\ Matcher[m].found \in DOMAIN NamesOf
       /\ Word(m) \in NamesOf[Matcher[m].found]
  BY <1>1, <1>4, <1>6, <1>7 DEF NameMatchers, Size
<1>10. \A h \in DOMAIN NamesOf : \A name \in NamesOf[h] :
        \E m \in NameMatchers : Word(m) = name /\ Matcher[m].found = h
  <2> SUFFICES ASSUME NEW h \in DOMAIN NamesOf, NEW name \in NamesOf[h]
               PROVE  \E m \in NameMatchers : Word(m) = name /\ Matcher[m].found = h
    OBVIOUS
  <2>1. CASE h = "h_connection"
    <3>1. name = CONNECTION \/ name = PROXY_CONNECTION
      BY <2>1, <1>4
    <3> QED  BY <2>1, <3>1, <1>6, <1>7, Zenon DEF NameMatchers
  <2>2. CASE h = "h_content_length"
    BY <2>2, <1>4, <1>6, <1>7 DEF NameMatchers
  <2>3. CASE h = "h_transfer_encoding"
    BY <2>3, <1>4, <1>6, <1>7 DEF NameMatchers
  <2>4. CASE h = "h_upgrade"
    BY <2>4, <1>4, <1>6, <1>7 DEF NameMatchers
  <2> QED  BY <2>1, <2>2, <2>3, <2>4, <1>4
<1> QED  BY <1>4, <1>5, <1>8, <1>9, <1>10

\* One letter more.
OneMore(w, i, word, k) ==
  Spells(w, i, word, k + 1) <=>
    Spells(w, i, word, k) /\ k + 1 <= Len(word) /\ LOWER(w[i + (k + 1)]) = word[k + 1]

\* One more letter spelled is one more letter that agrees.
LEMMA SpellsNext ==
  ASSUME NEW w, NEW i \in Nat, NEW word, Len(word) \in Nat, NEW k \in Nat
  PROVE  OneMore(w, i, word, k)
<1>1. 1 .. k + 1 = 1 .. k \cup {k + 1}
  OBVIOUS
<1>2. (\A l \in 1 .. k + 1 : LOWER(w[i + l]) = word[l]) <=>
        (\A l \in 1 .. k : LOWER(w[i + l]) = word[l]) /\ LOWER(w[i + (k + 1)]) = word[k + 1]
  BY <1>1, Zenon
<1>3. k + 1 <= Len(word) => k <= Len(word)
  OBVIOUS
<1> QED  BY <1>2, <1>3, Zenon DEF Spells, OneMore

\* The same for the word of a name's matcher.
NameOneMore(w, n, m, k) ==
  /\ Spells(w, n, Word(m), k) => k <= Size(m)
  /\ Spells(w, n, Word(m), k + 1) <=>
       Spells(w, n, Word(m), k) /\ k + 1 <= Size(m) /\ LOWER(w[n + (k + 1)]) = Word(m)[k + 1]

\* The words of the matchers, by their size.
LEMMA NameSpells ==
  ASSUME NEW w, NEW n, NEW m, NEW k
  PROVE  Spells(w, n, Word(m), k) <=> k <= Size(m) /\ \A l \in 1 .. k : LOWER(w[n + l]) = Word(m)[l]
BY Zenon DEF Spells, Size

\* One more letter of the word of a name's matcher.
LEMMA NameSpellsNext ==
  ASSUME NEW w, NEW n \in Nat, NEW m \in NameMatchers, NEW k \in Nat
  PROVE  NameOneMore(w, n, m, k)
<1>1. Size(m) \in Nat /\ Len(Word(m)) = Size(m)
  BY NameMatcherFacts DEF Size
<1>2. OneMore(w, n, Word(m), k)
  BY <1>1, SpellsNext
<1> QED  BY <1>1, <1>2, Zenon DEF OneMore, NameOneMore, Spells

\* Letters that spell two names at a time spell "con", or less.
LEMMA NamesDiffer ==
  ASSUME NEW w, NEW n \in Nat, NEW k \in Nat \ {0}, NEW m \in NameMatchers, NEW o \in NameMatchers,
         Spells(w, n, Word(m), k), Spells(w, n, Word(o), k)
  PROVE  m = o \/ (m \in Twins /\ o \in Twins /\ k <= 3)
<1>1. LOWER(w[n + 1]) = Word(m)[1] /\ LOWER(w[n + 1]) = Word(o)[1]
  BY DEF Spells
<1>2. m = o \/ (m \in Twins /\ o \in Twins)
  BY <1>1, NameLetters DEF NameMatchers, Twins
<1>3. k > 3 => LOWER(w[n + 4]) = Word(m)[4] /\ LOWER(w[n + 4]) = Word(o)[4]
  BY DEF Spells
<1> QED  BY <1>2, <1>3, NameLetters DEF Twins

\* The states a name goes through.
LEMMA AfterAll ==
  ASSUME NEW m \in NameMatchers
  PROVE  After(m, Size(m)) = Matcher[m].found
BY DEF After

\* The first letters that two names share leave the states they share.
LEMMA AfterTwin ==
  ASSUME NEW m \in Twins
  PROVE  After(m, 1) = "h_C" /\ After(m, 2) = "h_CO" /\ After(m, 3) = "h_CON"
<1>1. Size(m) \in 7 .. 17
  BY NameMatcherFacts DEF Twins, NameMatchers
<1> QED  BY <1>1 DEF After

\* Every other proper part of a word leaves its matcher.
LEMMA AfterSome ==
  ASSUME NEW m \in NameMatchers, NEW k \in Nat, k # Size(m), m \in Twins => k > 3
  PROVE  After(m, k) = m
BY DEF After

\* A word that is begun is never a general header.
LEMMA AfterMeans ==
  ASSUME NEW m \in NameMatchers, NEW k \in Nat \ {0}
  PROVE  After(m, k) # "h_general"
<1>1. Matcher[m].found # "h_general" /\ m # "h_general"
  BY NameMatcherFacts DEF NameMatchers
<1>2. CASE k = Size(m)
  BY <1>1, <1>2, AfterAll
<1>3. CASE k # Size(m) /\ m \in Twins /\ k <= 3
  BY <1>3, AfterTwin
<1>4. CASE k # Size(m) /\ ~(m \in Twins /\ k <= 3)
  BY <1>1, <1>4, AfterSome
<1> QED  BY <1>2, <1>3, <1>4

\* A letter that ends what was spelled: the name means nothing.
LEMMA ReadAsNothing ==
  ASSUME NEW w, NEW n, NEW k, NEW i, \A m \in NameMatchers : ~Spells(w, n, Word(m), k)
  PROVE  ReadAs(w, n, k, "h_general", i)
BY DEF ReadAs

\* The letter after a name that was read as state q.header_state.
LEMMA LetterReads ==
  ASSUME NEW w, NEW n \in Nat, NEW k \in Nat \ {0}, NEW STATE q,
         Shaped(q), ReadAs(w, n, k, q.header_state, q.index)
  PROVE  LET r == NameLetter(q, w[n + (k + 1)])
         IN ReadAs(w, n, k + 1, r.header_state, r.index)
<1> DEFINE ch == w[n + (k + 1)]
           c == LOWER(ch)
           h == q.header_state
           r == NameLetter(q, ch)
<1>1. \A m \in NameMatchers :
        Spells(w, n, Word(m), k + 1) <=>
          Spells(w, n, Word(m), k) /\ k + 1 <= Size(m) /\ c = Word(m)[k + 1]
  <2> TAKE m \in NameMatchers
  <2>1. NameOneMore(w, n, m, k)
    BY NameSpellsNext
  <2> QED  BY <2>1, Zenon DEF NameOneMore
<1>2. "h_general" \notin DOMAIN Shared /\ "h_general" \notin DOMAIN Matcher
  BY WordLengths DEF Shared
<1>3. h \notin DOMAIN Shared /\ h \notin DOMAIN Matcher => r.header_state = "h_general"
  <2>1. [q EXCEPT !.header_state = "h_general"].header_state = "h_general"
    BY DEF Shaped, Fields
  <2> QED  BY <2>1, Zenon DEF NameLetter
<1>4. CASE h = "h_general"
  <2>1. \A m \in NameMatchers : ~Spells(w, n, Word(m), k)
    <3> SUFFICES ASSUME NEW m \in NameMatchers, Spells(w, n, Word(m), k) PROVE FALSE
      OBVIOUS
    <3>1. After(m, k) = "h_general"
      BY <1>4 DEF ReadAs
    <3> QED  BY <3>1, AfterMeans
  <2> QED  BY <2>1, <1>1, <1>2, <1>3, <1>4, ReadAsNothing
<1>5. CASE h # "h_general"
  <2>1. PICK m \in NameMatchers :
          Spells(w, n, Word(m), k) /\ h = After(m, k) /\ (k < Size(m) => q.index = k - 1)
    BY <1>5 DEF ReadAs
  <2>2. Size(m) \in 7 .. 17 /\ k <= Size(m)
    <3>1. NameOneMore(w, n, m, k)
      BY NameSpellsNext
    <3> QED  BY <2>1, <3>1, NameMatcherFacts DEF NameOneMore
  <2>8. k \in Nat /\ (k = 1 \/ k = 2 \/ k = 3 \/ k > 3)
    OBVIOUS
  \* Another name is no longer possible, but for the twin.
  <2>3. ASSUME NEW o \in NameMatchers, Spells(w, n, Word(o), k + 1)
        PROVE  o = m \/ (o \in Twins /\ m \in Twins /\ k <= 3)
    <3>1. Spells(w, n, Word(o), k)
      BY <1>1, <2>3
    <3> QED  BY <3>1, <2>1, NamesDiffer
  <2>4. CASE k = Size(m)
    <3>1. h \notin DOMAIN Shared /\ h \notin DOMAIN Matcher
      BY <2>1, <2>4, AfterAll, NameMatcherFacts, WordLengths DEF Shared
    <3>2. \A o \in NameMatchers : ~Spells(w, n, Word(o), k + 1)
      <4> SUFFICES ASSUME NEW o \in NameMatchers, Spells(w, n, Word(o), k + 1) PROVE FALSE
        OBVIOUS
      <4>1. o = m
        BY <2>2, <2>3, <2>4
      <4> QED  BY <4>1, <1>1, <2>2, <2>4
    <3> QED  BY <3>1, <3>2, <1>3, ReadAsNothing
  <2>5. CASE k < Size(m) /\ m \in Twins /\ k <= 3
    <3> DEFINE s == IF c \in DOMAIN Shared[h] THEN Shared[h][c] ELSE "h_general"
               j == q.index + 1
               t == [q EXCEPT !.index = j, !.header_state = s]
    <3>1. h \in DOMAIN Shared
      BY <2>1, <2>5, <2>8, AfterTwin DEF Shared
    <3>2. r = t
      <4>1. h \notin DOMAIN Matcher
        BY <3>1, WordLengths DEF Shared
      <4> QED  BY <3>1, <4>1, Zenon DEF NameLetter
    <3>3. q.index = k - 1 /\ j = k
      BY <2>1, <2>5
    <3>4. r.header_state = s /\ r.index = k
      <4> HIDE DEF s, j
      <4> QED  BY <3>2, <3>3 DEF Shaped, Fields
    <3>5. \A o \in NameMatchers : Spells(w, n, Word(o), k + 1) => o \in Twins
      BY <2>3, <2>5
    <3>6. \A o \in Twins : o \in NameMatchers /\ Spells(w, n, Word(o), k) /\ k + 1 <= Size(o)
      <4> SUFFICES ASSUME NEW o \in Twins
                   PROVE  o \in NameMatchers /\ Spells(w, n, Word(o), k) /\ k + 1 <= Size(o)
        OBVIOUS
      <4>1. o \in NameMatchers
        BY DEF Twins, NameMatchers
      <4>2. Size(o) \in 7 .. 17
        BY <4>1, NameMatcherFacts
      <4>3. \A l \in 1 .. 3 : Word(o)[l] = Word(m)[l]
        BY <2>5, NameLetters DEF Twins
      <4>4. k <= Size(o) /\ \A l \in 1 .. k : LOWER(w[n + l]) = Word(m)[l]
        BY <2>1, <2>5, <4>2, NameSpells
      <4>5. \A l \in 1 .. k : LOWER(w[n + l]) = Word(o)[l]
        BY <2>5, <4>3, <4>4
      <4>6. Spells(w, n, Word(o), k)
        BY <4>4, <4>5, NameSpells
      <4> QED  BY <4>1, <4>2, <4>6, <2>5
    <3>7. CASE k = 1
      <4>1. s = IF c = "o" THEN "h_CO" ELSE "h_general"
        BY <2>1, <2>5, <3>7, AfterTwin DEF Shared
      <4>2. \A o \in Twins : Word(o)[2] = "o" /\ After(o, 2) = "h_CO"
        BY NameLetters, AfterTwin
      <4>3. \A o \in NameMatchers : Spells(w, n, Word(o), 2) => o \in Twins /\ c = "o"
        BY <1>1, <3>5, <3>7, <4>2
      <4>4. c = "o" => Spells(w, n, Word(m), 2)
        BY <1>1, <2>5, <3>6, <3>7, <4>2
      <4> QED  BY <2>5, <3>4, <3>7, <4>1, <4>2, <4>3, <4>4 DEF ReadAs
    <3>8. CASE k = 2
      <4>1. s = IF c = "n" THEN "h_CON" ELSE "h_general"
        BY <2>1, <2>5, <3>8, AfterTwin DEF Shared
      <4>2. \A o \in Twins : Word(o)[3] = "n" /\ After(o, 3) = "h_CON"
        BY NameLetters, AfterTwin
      <4>3. \A o \in NameMatchers : Spells(w, n, Word(o), 3) => o \in Twins /\ c = "n"
        BY <1>1, <3>5, <3>8, <4>2
      <4>4. c = "n" => Spells(w, n, Word(m), 3)
        BY <1>1, <2>5, <3>6, <3>8, <4>2
      <4> QED  BY <2>5, <3>4, <3>8, <4>1, <4>2, <4>3, <4>4 DEF ReadAs
    <3>9. CASE k = 3
      <4>1. s = IF c = "n" THEN "h_matching_connection"
                ELSE IF c = "t" THEN "h_matching_content_length" ELSE "h_general"
        BY <2>1, <2>5, <3>9, AfterTwin DEF Shared
      <4>2. \A o \in Twins : After(o, 4) = o
        <5> TAKE o \in Twins
        <5>1. o \in NameMatchers /\ Size(o) \in 7 .. 17
          BY <3>6, NameMatcherFacts
        <5> QED  BY <5>1, AfterSome
      <4>3. \A o \in NameMatchers : Spells(w, n, Word(o), 4) <=> o \in Twins /\ c = Word(o)[4]
        BY <1>1, <3>5, <3>6, <3>9
      <4> QED  BY <3>4, <3>9, <4>1, <4>2, <4>3, NameLetters DEF ReadAs, Twins, NameMatchers
    <3> QED  BY <2>2, <2>5, <3>7, <3>8, <3>9
  <2>6. CASE k < Size(m) /\ ~(m \in Twins /\ k <= 3)
    <3>1. h = m
      BY <2>1, <2>2, <2>6, <2>8, AfterSome
    <3>2. h \in DOMAIN Matcher /\ h \notin DOMAIN Shared
      BY <3>1, NameMatcherFacts, WordLengths DEF Shared
    <3> DEFINE s == IF c # CharAt(Word(m), k) THEN "h_general"
                    ELSE IF k = Size(m) - 1 THEN Matcher[m].found ELSE m
               t == [q EXCEPT !.index = k, !.header_state = s]
    <3>3. q.index + 1 = k
      BY <2>1, <2>6
    <3>4. r = t
      <4>1. r = Match(q, c)
        BY <3>2, Zenon DEF NameLetter
      <4>2. Matcher[m].otherwise = "h_general"
        BY NameMatcherFacts
      <4>3. Match(q, c) = [q EXCEPT !.index = k,
                                    !.header_state = IF c # CharAt(Matcher[m].word, k) THEN Matcher[m].otherwise
                                                     ELSE IF k = Len(Matcher[m].word) - 1 THEN Matcher[m].found
                                                     ELSE q.header_state]
        BY <3>1, <3>3, Zenon DEF Match
      <4> QED  BY <4>1, <4>2, <4>3, <3>1, Zenon DEF Word, Size
    <3>5. r.header_state = s /\ r.index = k
      <4> HIDE DEF s
      <4> QED  BY <3>4 DEF Shaped, Fields
    <3>6. CharAt(Word(m), k) = Word(m)[k + 1]
      BY <2>6 DEF CharAt, Size
    <3>7. \A o \in NameMatchers : Spells(w, n, Word(o), k + 1) => o = m /\ c = Word(m)[k + 1]
      BY <1>1, <2>3, <2>6
    <3>8. CASE c = Word(m)[k + 1]
      <4>1. Spells(w, n, Word(m), k + 1)
        BY <1>1, <2>1, <2>2, <2>6, <3>8
      <4>2. k + 1 \in 1 .. Size(m) /\ (m \in Twins => k + 1 > 3)
        BY <2>2, <2>6
      <4>3. s = After(m, k + 1)
        <5>1. CASE k = Size(m) - 1
          <6>1. k + 1 = Size(m)
            BY <5>1, <2>2
          <6>2. After(m, k + 1) = Matcher[m].found
            BY <6>1, AfterAll
          <6> QED  BY <6>2, <5>1, <3>6, <3>8
        <5>2. CASE k # Size(m) - 1
          <6>1. k + 1 < Size(m)
            BY <5>2, <2>2, <2>6
          <6>2. After(m, k + 1) = m
            BY <6>1, <4>2, AfterSome
          <6> QED  BY <6>2, <5>2, <3>6, <3>8
        <5> QED  BY <5>1, <5>2
      <4> HIDE DEF s
      <4>4. k = (k + 1) - 1
        BY <2>2
      <4> QED  BY <3>5, <3>7, <4>1, <4>3, <4>4 DEF ReadAs
    <3>9. CASE c # Word(m)[k + 1]
      BY <3>5, <3>6, <3>7, <3>9, ReadAsNothing
    <3> QED  BY <3>8, <3>9
  <2>7. k = Size(m) \/ k < Size(m)
    BY <2>2
  <2> QED  BY <2>4, <2>5, <2>6, <2>7
<1> QED  BY <1>4, <1>5

\* The first letter of a name.
LEMMA FirstReads ==
  ASSUME NEW w, NEW n \in Nat
  PROVE  ReadAs(w, n, 1, NameStart(LOWER(w[n + 1])), 0)
<1> DEFINE c == LOWER(w[n + 1])
<1>1. \A m \in NameMatchers : Spells(w, n, Word(m), 1) <=> c = Word(m)[1]
  <2> TAKE m \in NameMatchers
  <2>1. Size(m) \in 7 .. 17
    BY NameMatcherFacts
  <2>2. 1 <= Size(m) /\ 1 .. 1 = {1}
    BY <2>1
  <2> QED  BY <2>2, NameSpells
<1>2. \A m \in NameMatchers : After(m, 1) = IF m \in Twins THEN "h_C" ELSE m
  <2> TAKE m \in NameMatchers
  <2>1. Size(m) \in 7 .. 17
    BY NameMatcherFacts
  <2> QED  BY <2>1, AfterSome, AfterTwin
<1>3. NameStart(c) = CASE c = "c" -> "h_C" [] c = "p" -> "h_matching_proxy_connection"
                       [] c = "t" -> "h_matching_transfer_encoding" [] c = "u" -> "h_matching_upgrade"
                       [] OTHER -> "h_general"
  BY DEF NameStart
<1> HIDE DEF c
<1>4. /\ c = "c" => NameStart(c) = "h_C"
      /\ c = "p" => NameStart(c) = "h_matching_proxy_connection"
      /\ c = "t" => NameStart(c) = "h_matching_transfer_encoding"
      /\ c = "u" => NameStart(c) = "h_matching_upgrade"
      /\ c \notin {"c", "p", "t", "u"} => NameStart(c) = "h_general"
  BY <1>3
<1>5. \A m \in NameMatchers : c = Word(m)[1] => NameStart(c) = After(m, 1)
  BY <1>2, <1>4, NameLetters DEF NameMatchers, Twins
<1>6. c \in {"c", "p", "t", "u"} => \E m \in NameMatchers : c = Word(m)[1]
  BY NameLetters DEF NameMatchers
<1>7. NameStart(c) # "h_general" => \E m \in NameMatchers : c = Word(m)[1] /\ NameStart(c) = After(m, 1)
  BY <1>4, <1>5, <1>6
<1>8. 0 = 1 - 1
  OBVIOUS
<1> QED  BY <1>1, <1>5, <1>7, <1>8, Zenon DEF ReadAs, c

-----------------------------------------------------------------------------
(* Where the parser is in a field *)

\* The blank.
SP == " "

\* What a parser skips before a value.
Skipped == {SP, CR, LF}

\* Nothing else from i to j.
Blank(w, i, j) == \A k \in i + 1 .. j : w[k] \in Skipped

\* A field with one of these names, and its colon at c, goes on to p: a line that ended
\* was continued.
InField(w, names, c, p) ==
  /\ \E name \in names :
       /\ w[c] = ":" /\ c > Len(name) + 1 /\ w[c - 1 - Len(name)] = LF
       /\ Spells(w, c - 1 - Len(name), name, Len(name))
  /\ \A i \in c + 1 .. p - 1 : w[i] = LF => w[i + 1] = SP

\* An element of the list starts after s: at the colon, or at a comma.
Starts(w, c, s) == s = c \/ w[s] = ","

\* An element from s to p is the first k letters of word; it is all of word, with blanks.
Partly(w, s, word, k, p) == \E v \in s .. p : p = v + k /\ Blank(w, s, v) /\ Spells(w, v, word, k)
Wholly(w, s, word, p) ==
  \E v \in s .. p : \E e \in v .. p :
    Blank(w, s, v) /\ e = v + Len(word) /\ Spells(w, v, word, Len(word)) /\ Blank(w, e, p)

\* The flags that words set, and the words.
FlagWords ==
  [CONNECTION_KEEP_ALIVE |-> KEEP_ALIVE, CONNECTION_CLOSE |-> CLOSE, CONNECTION_UPGRADE |-> UPGRADE]

Connections == {CONNECTION, PROXY_CONNECTION}

\* What was read so far calls for the flag f: a field of that name with a value; a field
\* that says "chunked" and nothing else; an element of a list.
CalledFor(f) ==
  \E c \in 1 .. exec.p :
    \/ /\ f = "UPGRADE" /\ InField(wire, {UPGRADE}, c, exec.p + 1)
       /\ Blank(wire, c, exec.p) /\ Byte \notin Skipped
    \/ /\ f = "CHUNKED" /\ InField(wire, {TRANSFER_ENCODING}, c, exec.p)
       /\ Wholly(wire, c, CHUNKED, exec.p) /\ wire[exec.p] = LF /\ Byte # SP
    \/ /\ f \in DOMAIN FlagWords /\ InField(wire, Connections, c, exec.p)
       /\ \E s \in c .. exec.p : Starts(wire, c, s) /\ Wholly(wire, s, FlagWords[f], exec.p)
       /\ Byte = "," \/ (wire[exec.p] = LF /\ Byte # SP)

\* No flag is set that the text does not call for, however it is cut: not by a name or a
\* word that is only begun, or goes on, or stands in another field, nor by what the
\* index or the state of an earlier field has left (http_parser.cpp:1469-1801).
FlagsSpelled == [][\A f \in parser'.flags \ parser.flags : CalledFor(f)]_vars

\* The last letter that was read, where a line ends and inside one.
LineEnds(w, q, p) ==
  /\ q.state \in {"s_header_field_start", "s_header_value_lws", "s_header_value_discard_lws"} =>
       p > 0 /\ w[p] = LF
  /\ q.state \in {"s_header_value_discard_ws", "s_header_value_discard_ws_almost_done"} =>
       p > 0 /\ w[p] # LF
  /\ q.state \in {"s_header_value", "s_header_almost_done"} /\ q.header_state # "h_content_length" =>
       p > 0 /\ w[p] # LF
  /\ q.state = "s_header_value_start" => p > 0 /\ w[p + 1] = SP

\* A name begins after a line end.
NameRead(w, q, p) ==
  q.state = "s_header_field" =>
    \E n \in 1 .. p - 1 :
      /\ w[n] = LF /\ \A i \in n + 1 .. p : TOKEN(w[i])
      /\ ReadAs(w, n, p - n, q.header_state, q.index)

DiscardStates == {"s_header_value_discard_ws", "s_header_value_discard_ws_almost_done",
                  "s_header_value_discard_lws"}
ValueStates == {"s_header_value", "s_header_almost_done", "s_header_value_lws", "s_header_value_start"}

\* What a name may have left in header_state.
NameLeaves == DOMAIN NamesOf \cup NameMatchers \cup {"h_general", "h_C", "h_CO", "h_CON"}

\* Before the value, the name is remembered.
BeforeValue(w, q, p) ==
  q.state \in DiscardStates =>
    /\ q.header_state \in NameLeaves
    /\ q.header_state \in DOMAIN NamesOf =>
         \E c \in 1 .. p : InField(w, NamesOf[q.header_state], c, p) /\ Blank(w, c, p)

\* The matchers of the words of a list, and the states when they are complete.
ListMatchers == {"h_matching_connection_keep_alive", "h_matching_connection_close",
                 "h_matching_connection_upgrade"}
ListWords == [h_connection_keep_alive |-> KEEP_ALIVE, h_connection_close |-> CLOSE,
              h_connection_upgrade |-> UPGRADE]
ListStates == DOMAIN ListWords \cup ListMatchers
                \cup {"h_matching_connection_token", "h_matching_connection_token_start"}
ChunkedMatcher == "h_matching_transfer_encoding_chunked"
ChunkedStates == {ChunkedMatcher, "h_transfer_encoding_chunked"}

\* Inside the value of a Connection header: where its last element starts, and what was
\* read of it.
InList(w, q, p) ==
  \E c \in 1 .. p :
    /\ InField(w, Connections, c, p)
    /\ q.header_state # "h_matching_connection_token" =>
         \E s \in c .. p :
           /\ Starts(w, c, s)
           /\ q.header_state = "h_matching_connection_token_start" => Blank(w, s, p)
           /\ q.header_state \in ListMatchers /\ q.state = "s_header_value" =>
                Partly(w, s, Word(q.header_state), q.index + 1, p)
           /\ q.header_state \in DOMAIN ListWords => Wholly(w, s, ListWords[q.header_state], p)

\* Inside the value of a Transfer-Encoding header.
InEncoding(w, q, p) ==
  \E c \in 1 .. p :
    /\ InField(w, {TRANSFER_ENCODING}, c, p)
    /\ q.header_state = ChunkedMatcher /\ q.state = "s_header_value" =>
         Partly(w, c, CHUNKED, q.index + 1, p)
    /\ q.header_state = "h_transfer_encoding_chunked" => Wholly(w, c, CHUNKED, p)

InsideValue(w, q, p) ==
  q.state \in ValueStates =>
    /\ q.header_state \in ListStates \cup ChunkedStates \cup {"h_general", "h_content_length"}
    /\ q.header_state \in ListStates => InList(w, q, p)
    /\ q.header_state \in ChunkedStates => InEncoding(w, q, p)

Spelled(w, q, p) ==
  LineEnds(w, q, p) /\ NameRead(w, q, p) /\ BeforeValue(w, q, p) /\ InsideValue(w, q, p)

\* The locals of a call, of which the position counts.
Locals == {"p", "limit", "running", "mark", "what"}
LocalsShaped(x) == x = [f \in Locals |-> x[f]] /\ x.p \in Nat

SpellInv == LocalsShaped(exec) /\ Spelled(wire, parser, exec.p)

HeaderStates ==
  DiscardStates \cup ValueStates \cup {"s_header_field_start", "s_header_field"}

-----------------------------------------------------------------------------
(* How a round ends *)

\* The error code is of no account to the header fields.
LEMMA SpelledErrno ==
  ASSUME NEW w, NEW STATE q, NEW p, NEW e, Shaped(q), Spelled(w, q, p)
  PROVE  Spelled(w, [q EXCEPT !.errno = e], p)
<1> DEFINE r == [q EXCEPT !.errno = e]
<1>1. r.state = q.state /\ r.header_state = q.header_state /\ r.index = q.index
  BY DEF Shaped, Fields
<1> HIDE DEF r
<1>2. LineEnds(w, r, p) /\ NameRead(w, r, p)
  BY <1>1, Zenon DEF Spelled, LineEnds, NameRead
<1>3. BeforeValue(w, r, p) /\ InsideValue(w, r, p)
  BY <1>1, Zenon DEF Spelled, BeforeValue, InsideValue, InList, InEncoding
<1> QED  BY <1>2, <1>3 DEF r, Spelled

\* Outside the header fields nothing is asked.
LEMMA SpelledElsewhere ==
  ASSUME NEW w, NEW STATE q, NEW p, q.state \notin HeaderStates
  PROVE  Spelled(w, q, p)
BY DEF Spelled, LineEnds, NameRead, BeforeValue, InsideValue, HeaderStates, DiscardStates, ValueStates

\* Where a field starts, a line has ended.
LEMMA SpelledAtStart ==
  ASSUME NEW w, NEW STATE q, NEW p \in Nat, p > 0, w[p] = LF, q.state = "s_header_field_start"
  PROVE  Spelled(w, q, p)
BY DEF Spelled, LineEnds, NameRead, BeforeValue, InsideValue, DiscardStates, ValueStates

\* The round leaves the parser as q, and the invariant true.
SpellStep(q) == SpellInv' /\ parser'.flags = q.flags

\* Whatever the callback does, the parser is q and the position that of x.
LEMMA SpelledCalled ==
  ASSUME NEW STATE q, NEW STATE x, Shaped(q), LocalsShaped(x), Spelled(wire, q, x.p),
         Called(q, x), wire' = wire
  PROVE  SpellStep(q)
<1>1. CASE parser' = q /\ exec' = x
  BY <1>1 DEF SpellInv, SpellStep
<1>2. CASE parser' = [q EXCEPT !.errno = "PAUSED"] /\ exec' = Returned(x)
  <2>1. LocalsShaped(Returned(x)) /\ Returned(x).p = x.p
    BY DEF LocalsShaped, Locals, Returned
  <2>2. Spelled(wire, [q EXCEPT !.errno = "PAUSED"], x.p)
    BY SpelledErrno
  <2>3. [q EXCEPT !.errno = "PAUSED"].flags = q.flags
    BY DEF Shaped, Fields
  <2> QED  BY <1>2, <2>1, <2>2, <2>3 DEF SpellInv, SpellStep
<1> QED  BY <1>1, <1>2 DEF Called

\* The locals after a byte that is consumed.
LEMMA Advanced ==
  ASSUME LocalsShaped(exec), NEW m, NEW what
  PROVE  /\ LET x == [exec EXCEPT !.p = @ + 1] IN LocalsShaped(x) /\ x.p = exec.p + 1
         /\ LET x == [exec EXCEPT !.p = @ + 1, !.mark = m] IN LocalsShaped(x) /\ x.p = exec.p + 1
         /\ LET x == [exec EXCEPT !.p = @ + 1, !.mark = IF @ = 0 THEN exec.p + 1 ELSE @, !.what = what]
            IN LocalsShaped(x) /\ x.p = exec.p + 1
<1> DEFINE j == exec.p + 1
           k == IF exec.mark = 0 THEN j ELSE exec.mark
           x == [exec EXCEPT !.p = j]
           y == [exec EXCEPT !.p = j, !.mark = m]
           z == [exec EXCEPT !.p = j, !.mark = k, !.what = what]
<1>1. j \in Nat
  BY DEF LocalsShaped
<1>2. LocalsShaped(x) /\ x.p = j
  <2> HIDE DEF j
  <2> QED  BY <1>1 DEF LocalsShaped, Locals
<1>3. LocalsShaped(y) /\ y.p = j
  <2> HIDE DEF j
  <2> QED  BY <1>1 DEF LocalsShaped, Locals
<1>4. LocalsShaped(z) /\ z.p = j
  <2> HIDE DEF j, k
  <2> QED  BY <1>1 DEF LocalsShaped, Locals
<1>5. /\ x = [exec EXCEPT !.p = @ + 1] /\ y = [exec EXCEPT !.p = @ + 1, !.mark = m]
      /\ z = [exec EXCEPT !.p = @ + 1, !.mark = IF @ = 0 THEN exec.p + 1 ELSE @, !.what = what]
  OBVIOUS
<1> HIDE DEF x, y, z
<1> QED  BY <1>2, <1>3, <1>4, <1>5

\* A round that consumes the byte, and one that does not.
LEMMA SpelledOn ==
  ASSUME NEW STATE q, Shaped(q), LocalsShaped(exec), Spelled(wire, q, exec.p + 1)
  PROVE  /\ Take(q) => SpellStep(q)
         /\ \A what : TakeMarked(q, what) => SpellStep(q)
         /\ Report(q) => SpellStep(q)
         /\ \A event : Notify(q, event) => SpellStep(q)
<1> DEFINE x == [exec EXCEPT !.p = @ + 1]
           y == [exec EXCEPT !.p = @ + 1, !.mark = 0]
<1>1. LocalsShaped(x) /\ x.p = exec.p + 1 /\ LocalsShaped(y) /\ y.p = exec.p + 1
  BY Advanced
<1> HIDE DEF x, y
<1>2. ASSUME Take(q) PROVE SpellStep(q)
  BY <1>1, <1>2 DEF Take, SpellInv, SpellStep, x
<1>3. ASSUME NEW what, TakeMarked(q, what) PROVE SpellStep(q)
  <2> DEFINE z == [exec EXCEPT !.p = @ + 1, !.mark = IF @ = 0 THEN exec.p + 1 ELSE @, !.what = what]
  <2>1. LocalsShaped(z) /\ z.p = exec.p + 1
    BY Advanced
  <2> HIDE DEF z
  <2> QED  BY <1>3, <2>1 DEF TakeMarked, SpellInv, SpellStep, z
<1>4. ASSUME Report(q) PROVE SpellStep(q)
  BY <1>1, <1>4, SpelledCalled DEF Report, Deliver, SpellInv, SpellStep, y
<1>5. ASSUME NEW event, Notify(q, event) PROVE SpellStep(q)
  BY <1>1, <1>5, SpelledCalled DEF Notify, x
<1> QED  BY <1>2, <1>3, <1>4, <1>5

\* How a round that does not advance, or fails, ends.
LEMMA SpelledAgain ==
  ASSUME NEW STATE q, Shaped(q), LocalsShaped(exec), Spelled(wire, q, exec.p)
  PROVE  /\ Reexecute(q) => SpellStep(q)
         /\ ReportAgain(q) => SpellStep(q)
         /\ \A e : Fail(q, e) => SpellStep(q)
<1> DEFINE y == [exec EXCEPT !.mark = 0]
<1>1. LocalsShaped(y) /\ y.p = exec.p /\ LocalsShaped(Returned(exec)) /\ Returned(exec).p = exec.p
  BY DEF LocalsShaped, Locals, Returned
<1> HIDE DEF y
<1>2. ASSUME Reexecute(q) PROVE SpellStep(q)
  BY <1>2 DEF Reexecute, SpellInv, SpellStep
<1>3. ASSUME ReportAgain(q) PROVE SpellStep(q)
  BY <1>1, <1>3, SpelledCalled DEF ReportAgain, Deliver, SpellInv, SpellStep, y
<1>4. ASSUME NEW e, Fail(q, e) PROVE SpellStep(q)
  <2>1. [q EXCEPT !.errno = e].flags = q.flags
    BY DEF Shaped, Fields
  <2> QED  BY <1>1, <1>4, <2>1, SpelledErrno DEF Fail, SpellInv, SpellStep
<1> QED  BY <1>2, <1>3, <1>4

\* A parser that is not in the header fields, and has no new flags.
Away(q) == Shaped(q) /\ q.state \notin HeaderStates /\ q.flags \subseteq parser.flags

\* Every end of a round keeps the invariant outside the header fields.
LEMMA AwayEnds ==
  ASSUME NEW STATE q, Away(q), LocalsShaped(exec),
         \/ Take(q) \/ Report(q) \/ Reexecute(q) \/ ReportAgain(q)
         \/ \E what : TakeMarked(q, what)
         \/ \E event : Notify(q, event)
         \/ \E e : Fail(q, e)
  PROVE  SpellInv' /\ parser'.flags \subseteq parser.flags
<1>1. Spelled(wire, q, exec.p) /\ Spelled(wire, q, exec.p + 1)
  BY SpelledElsewhere DEF Away
<1>2. SpellStep(q)
  BY <1>1, SpelledOn, SpelledAgain DEF Away
<1> QED  BY <1>2 DEF SpellStep, Away

\* A parser at the start of a field, after a line end.
LEMMA LandedEnds ==
  ASSUME NEW STATE q, Shaped(q), q.state = "s_header_field_start", q.flags = parser.flags,
         LocalsShaped(exec), Byte = LF, Take(q) \/ Report(q)
  PROVE  SpellInv' /\ parser'.flags \subseteq parser.flags
<1>1. Spelled(wire, q, exec.p + 1)
  BY SpelledAtStart DEF LocalsShaped, Byte
<1>2. SpellStep(q)
  BY <1>1, SpelledOn
<1> QED  BY <1>2 DEF SpellStep

\* The same parser in another state.
LEMMA GoIs ==
  ASSUME NEW STATE q, Shaped(q), NEW s
  PROVE  /\ Shaped(Go(q, s)) /\ Go(q, s).state = s /\ Go(q, s).header_state = q.header_state
         /\ Go(q, s).index = q.index /\ Go(q, s).flags = q.flags
BY DEF Shaped, Fields, Go

\* What every round of the start line leaves: the invariant, and no new flag.
Kept == SpellInv' /\ parser'.flags \subseteq parser.flags

\* The same, one conjunct for each end of a round.
LEMMA AwayKept ==
  ASSUME NEW STATE q, Away(q), LocalsShaped(exec)
  PROVE  /\ Take(q) => Kept
         /\ Report(q) => Kept
         /\ Reexecute(q) => Kept
         /\ ReportAgain(q) => Kept
         /\ \A what : TakeMarked(q, what) => Kept
         /\ \A event : Notify(q, event) => Kept
         /\ \A e : Fail(q, e) => Kept
BY AwayEnds DEF Kept

\* Other states, and other numbers, that are away.
LEMMA StaysAway ==
  ASSUME NEW STATE q, Shaped(q), q.flags \subseteq parser.flags
  PROVE  /\ \A s : s \notin HeaderStates => Away(Go(q, s))
         /\ \A field \in {"http_major", "http_minor", "status_code"} : \A v :
              Away(q) => Away([q EXCEPT ![field] = v])
BY DEF Away, Shaped, Fields, Go

\* The letters of a URL do not lead into a header field.
LEMMA UrlAway ==
  ASSUME NEW s, NEW ch, s \notin HeaderStates
  PROVE  parse_url_char(s, ch) \notin HeaderStates
BY DEF HeaderStates, DiscardStates, ValueStates, parse_url_char, IS_URL_CHAR, IS_USERINFO_CHAR

\* Nor do the digits of a version or a status.
LEMMA DigitsKept ==
  ASSUME Away(parser), LocalsShaped(exec), NEW field \in {"http_major", "http_minor", "status_code"}
  PROVE  /\ \A s, e : s \notin HeaderStates /\ FirstDigit(parser, field, s, e) => Kept
         /\ \A e : NextDigit(parser, field, e) => Kept
<1>1. Shaped(parser) /\ parser.flags \subseteq parser.flags
  BY DEF Away
<1>2. ASSUME NEW s, NEW e, s \notin HeaderStates, FirstDigit(parser, field, s, e) PROVE Kept
  <2>1. Away(Go(parser, s)) /\ Shaped(Go(parser, s)) /\ Go(parser, s).flags = parser.flags
    BY <1>1, <1>2, StaysAway, GoIs
  <2>2. Away([Go(parser, s) EXCEPT ![field] = Digit(Byte)])
    BY <2>1, StaysAway
  <2> QED  BY <2>2, <1>2, AwayKept DEF FirstDigit
<1>3. ASSUME NEW e, NextDigit(parser, field, e) PROVE Kept
  <2>1. Away([parser EXCEPT ![field] = parser[field] * 10 + Digit(Byte)])
    BY <1>1, StaysAway
  <2> QED  BY <2>1, <1>3, AwayKept DEF NextDigit
<1> QED  BY <1>2, <1>3

\* The states of the start line.
LEMMA AwayStates ==
  /\ \A s \in {"s_res_H", "s_res_HT", "s_start_req", "s_res_or_resp_H", "s_req_method", "s_res_status",
               "s_res_http_major", "s_req_http_major", "s_res_http_minor", "s_req_http_minor",
               "s_res_first_http_minor", "s_req_first_http_minor", "s_res_first_status_code",
               "s_res_status_code", "s_res_status_start", "s_res_line_almost_done",
               "s_req_line_almost_done", "s_req_spaces_before_url", "s_req_server_start",
               "s_req_http_start", "s_req_http_H"} : s \notin HeaderStates
  /\ \A s \in DOMAIN Constants : Constants[s][2] \notin HeaderStates
BY DEF HeaderStates, DiscardStates, ValueStates, Constants

\* The rounds of the start line are not in the header fields.
LEMMA StartLineAway ==
  ASSUME StartLineRound
  PROVE  parser.state \notin HeaderStates
BY DEF StartLineRound, StartReqOrRes, ResOrRespH, StartRes, HttpConstant, Constants, FirstMajor,
       Major, FirstMinor, ResMinor, ReqMinor, FirstStatusCode, StatusCode, StatusStart, Status,
       LineAlmostDone, StartReq, ReqMethod, SpacesBeforeUrl, UrlPrefix, Url, HttpStart, At,
       HeaderStates, DiscardStates, ValueStates

\* Outside the header fields the invariant asks nothing, and where the first of them
\* starts a line has ended.
LEMMA StartLineKept ==
  ASSUME Shaped(parser), LocalsShaped(exec), StartLineRound
  PROVE  Kept
<1> DEFINE reset == [parser EXCEPT !.flags = {}]
<1>1. Away(parser)
  BY StartLineAway DEF Away
<1>2. \A s : s \notin HeaderStates => Away(Go(parser, s))
  BY StaysAway
<1>3. /\ Shaped(reset) /\ reset.flags \subseteq parser.flags /\ reset.state = parser.state
  BY DEF Shaped, Fields
<1>4. Away(reset) /\ \A s : s \notin HeaderStates => Away(Go(reset, s))
  BY <1>1, <1>3, StaysAway DEF Away
<1>5. ASSUME NEW STATE q, Shaped(q), q.flags = parser.flags, Byte = LF
      PROVE  /\ Take(Go(q, "s_header_field_start")) => Kept
             /\ Report(Go(q, "s_header_field_start")) => Kept
  BY <1>5, GoIs, LandedEnds DEF Kept
<1>6. CASE StartReqOrRes
  <2> DEFINE h == [parser EXCEPT !.state = "s_res_or_resp_H", !.flags = {}]
             r == [parser EXCEPT !.state = "s_start_req", !.type = "REQUEST", !.flags = {}]
  <2>1. /\ Shaped(h) /\ h.state = "s_res_or_resp_H" /\ h.flags \subseteq parser.flags
        /\ Shaped(r) /\ r.state = "s_start_req" /\ r.flags \subseteq parser.flags
    BY DEF Shaped, Fields
  <2>2. Away(h) /\ Away(r)
    BY <2>1, AwayStates DEF Away
  <2> QED  BY <1>1, <1>6, <2>2, AwayKept DEF StartReqOrRes
<1>7. CASE ResOrRespH
  <2> DEFINE p == [parser EXCEPT !.state = "s_res_HT", !.type = "RESPONSE"]
             q == [parser EXCEPT !.state = "s_req_method", !.type = "REQUEST", !.method = "HEAD", !.index = 2]
  <2>1. /\ Shaped(p) /\ p.state = "s_res_HT" /\ p.flags \subseteq parser.flags
        /\ Shaped(q) /\ q.state = "s_req_method" /\ q.flags \subseteq parser.flags
    BY DEF Shaped, Fields
  <2>2. Away(p) /\ Away(q)
    BY <2>1, AwayStates DEF Away
  <2> QED  BY <1>1, <1>7, <2>2, AwayKept DEF ResOrRespH
<1>8. CASE StartRes
  <2>1. Away(Go(reset, "s_res_H"))
    BY <1>4, AwayStates
  <2> QED  BY <1>4, <1>8, <2>1, AwayKept DEF StartRes
<1>9. CASE HttpConstant
  <2>1. Away(Go(parser, Constants[parser.state][2]))
    BY <1>2, <1>9, AwayStates DEF HttpConstant, At
  <2> QED  BY <1>1, <1>9, <2>1, AwayKept DEF HttpConstant
<1>10. CASE FirstMajor \/ FirstMinor \/ FirstStatusCode
  BY <1>1, <1>10, DigitsKept, AwayKept, AwayStates DEF FirstMajor, FirstMinor, FirstStatusCode
<1>11. CASE Major \/ ResMinor
  <2>1. /\ Away(Go(parser, "s_res_first_http_minor")) /\ Away(Go(parser, "s_req_first_http_minor"))
        /\ Away(Go(parser, "s_res_first_status_code"))
    BY <1>2, AwayStates
  <2> QED  BY <1>1, <1>11, <2>1, DigitsKept, AwayKept DEF Major, ResMinor
<1>12. CASE ReqMinor \/ StatusCode
  <2>1. /\ Away(Go(parser, "s_req_line_almost_done")) /\ Away(Go(parser, "s_res_status_start"))
        /\ Away(Go(parser, "s_res_line_almost_done"))
    BY <1>2, AwayStates
  <2> QED  BY <1>1, <1>5, <1>12, <2>1, DigitsKept, AwayKept DEF ReqMinor, StatusCode
<1>13. CASE StatusStart \/ Status \/ LineAlmostDone
  <2> DEFINE q == [Go(parser, "s_res_status") EXCEPT !.index = 0]
  <2>1. Shaped(q) /\ q.state = "s_res_status" /\ q.flags = parser.flags
    BY DEF Shaped, Fields, Go
  <2>2. Away(q) /\ Away(Go(parser, "s_res_line_almost_done"))
    BY <1>2, <2>1, AwayStates DEF Away
  <2> QED  BY <1>1, <1>5, <1>13, <2>2, AwayKept DEF StatusStart, Status, LineAlmostDone
<1>14. CASE StartReq
  <2> DEFINE g == [Go(reset, "s_req_method") EXCEPT !.method = FirstGuess[Byte], !.index = 1]
  <2>1. Shaped(g) /\ g.state = "s_req_method" /\ g.flags = {}
    BY DEF Shaped, Fields, Go
  <2>2. Away(g)
    BY <2>1, AwayStates DEF Away
  <2> QED  BY <1>1, <1>4, <1>14, <2>2, AwayKept DEF StartReq
<1>15. CASE ReqMethod
  <2> DEFINE j == parser.index + 1
             next == [parser EXCEPT !.index = j]
  <2>1. Away(next)
    <3>1. j \in Nat
      BY DEF Shaped
    <3> HIDE DEF j
    <3> QED  BY <1>1, <3>1 DEF Away, Shaped, Fields
  <2>2. Away(Go(next, "s_req_spaces_before_url")) /\ \A m : Away([next EXCEPT !.method = m])
    <3>1. \A m : Away([next EXCEPT !.method = m])
      <4> HIDE DEF next
      <4> QED  BY <2>1 DEF Away, Shaped, Fields
    <3> QED  BY <2>1, <3>1, StaysAway, AwayStates DEF Away
  <2>3. next = [parser EXCEPT !.index = @ + 1]
    OBVIOUS
  <2> HIDE DEF next
  <2> QED  BY <1>1, <1>15, <2>1, <2>2, <2>3, AwayKept DEF ReqMethod
<1>16. CASE SpacesBeforeUrl \/ UrlPrefix
  <2>1. /\ Away(Go(parser, parse_url_char("s_req_server_start", Byte)))
        /\ Away(Go(parser, parse_url_char(parser.state, Byte)))
    BY <1>1, <1>2, AwayStates, UrlAway DEF Away
  <2> QED  BY <1>1, <1>16, <2>1, AwayKept DEF SpacesBeforeUrl, UrlPrefix, NextUrlChar
<1>17. CASE Url
  <2> DEFINE old == [parser EXCEPT !.http_major = 0, !.http_minor = 9]
  <2>1. Shaped(old) /\ old.flags = parser.flags
    BY DEF Shaped, Fields
  <2>2. /\ Away(Go(parser, "s_req_http_start")) /\ Away(Go(old, "s_req_line_almost_done"))
        /\ Away(Go(parser, parse_url_char(parser.state, Byte)))
    BY <1>1, <1>2, <2>1, AwayStates, StaysAway, UrlAway DEF Away
  <2>3. Byte = LF => (Report(Go(old, "s_header_field_start")) => Kept)
    BY <1>5, <2>1
  <2> QED  BY <1>1, <1>17, <2>2, <2>3, AwayKept DEF Url, NextUrlChar
<1>18. CASE HttpStart
  <2>1. Away(Go(parser, "s_req_http_H"))
    BY <1>2, AwayStates
  <2> QED  BY <1>1, <1>18, <2>1, AwayKept DEF HttpStart
<1> QED
  BY <1>6, <1>7, <1>8, <1>9, <1>10, <1>11, <1>12, <1>13, <1>14, <1>15, <1>16, <1>17, <1>18
  DEF StartLineRound

-----------------------------------------------------------------------------
(* One letter more *)

\* A blank goes on with what is blank, and a field with whatever does not end its line.
LEMMA BlankOn ==
  ASSUME NEW w, NEW i \in Nat, NEW p \in Nat, i <= p, Blank(w, i, p), w[p + 1] \in Skipped
  PROVE  Blank(w, i, p + 1)
BY DEF Blank

\* Nothing at all is blank.
LEMMA BlankNone ==
  ASSUME NEW w, NEW p \in Nat
  PROVE  Blank(w, p, p)
BY DEF Blank

\* A field goes on, unless a line ends that is not continued.
LEMMA InFieldOn ==
  ASSUME NEW w, NEW names, NEW p \in Nat, NEW c \in 1 .. p, InField(w, names, c, p),
         w[p] = LF => w[p + 1] = SP
  PROVE  InField(w, names, c, p + 1)
<1>1. \A i \in c + 1 .. p - 1 : w[i] = LF => w[i + 1] = SP
  BY Zenon DEF InField
<1>2. \A i \in c + 1 .. (p + 1) - 1 : w[i] = LF => w[i + 1] = SP
  <2> TAKE i \in c + 1 .. (p + 1) - 1
  <2>1. i \in c + 1 .. p - 1 \/ i = p
    OBVIOUS
  <2> QED  BY <2>1, <1>1
<1> QED  BY <1>2, Zenon DEF InField

\* A word that is complete, and its blanks.
LEMMA WhollyOn ==
  ASSUME NEW w, NEW s \in Nat, NEW word, NEW p \in Nat, Wholly(w, s, word, p), w[p + 1] \in Skipped
  PROVE  Wholly(w, s, word, p + 1)
<1>1. PICK v \in s .. p : \E e \in v .. p :
        Blank(w, s, v) /\ e = v + Len(word) /\ Spells(w, v, word, Len(word)) /\ Blank(w, e, p)
  BY Zenon DEF Wholly
<1>2. PICK e \in v .. p :
        Blank(w, s, v) /\ e = v + Len(word) /\ Spells(w, v, word, Len(word)) /\ Blank(w, e, p)
  BY <1>1, Zenon
<1>3. v \in s .. p + 1 /\ e \in v .. p + 1 /\ e \in Nat /\ e <= p
  OBVIOUS
<1>4. Blank(w, e, p + 1)
  BY <1>2, <1>3, BlankOn
<1> QED  BY <1>2, <1>3, <1>4, Zenon DEF Wholly

\* The first letter of a word, its next one, and its last.
LEMMA PartlyFirst ==
  ASSUME NEW w, NEW p \in Nat, NEW s \in 0 .. p, NEW word, Len(word) \in Nat, 1 <= Len(word), Blank(w, s, p),
         LOWER(w[p + 1]) = word[1]
  PROVE  Partly(w, s, word, 1, p + 1)
<1>1. Spells(w, p, word, 1)
  <2>1. \A l \in 1 .. 1 : LOWER(w[p + l]) = word[l]
    <3> TAKE l \in 1 .. 1
    <3>1. l = 1
      OBVIOUS
    <3> QED  BY <3>1
  <2> QED  BY <2>1, Zenon DEF Spells
<1>2. p \in s .. p + 1
  OBVIOUS
<1> QED  BY <1>1, <1>2, Zenon DEF Partly

\* One more letter of an element's word.
LEMMA PartlyNext ==
  ASSUME NEW w, NEW p \in Nat, NEW s \in Nat, NEW word, Len(word) \in Nat, NEW k \in Nat, k + 1 <= Len(word),
         Partly(w, s, word, k, p), LOWER(w[p + 1]) = word[k + 1]
  PROVE  Partly(w, s, word, k + 1, p + 1)
<1>1. PICK v \in s .. p : p = v + k /\ Blank(w, s, v) /\ Spells(w, v, word, k)
  BY Zenon DEF Partly
<1>2. v \in Nat /\ v \in s .. p + 1 /\ p + 1 = v + (k + 1)
  BY <1>1
<1>3. OneMore(w, v, word, k)
  BY <1>2, SpellsNext
<1>4. LOWER(w[v + (k + 1)]) = word[k + 1]
  BY <1>2
<1>5. Spells(w, v, word, k + 1)
  BY <1>1, <1>3, <1>4, Zenon DEF OneMore
<1> QED  BY <1>1, <1>2, <1>5, Zenon DEF Partly

\* An element that spells the last letter of its word is wholly that word.
LEMMA PartlyAll ==
  ASSUME NEW w, NEW p \in Nat, NEW s \in Nat, NEW word, Len(word) \in Nat,
         Partly(w, s, word, Len(word), p)
  PROVE  Wholly(w, s, word, p)
<1>1. PICK v \in s .. p : p = v + Len(word) /\ Blank(w, s, v) /\ Spells(w, v, word, Len(word))
  BY Zenon DEF Partly
<1>2. p \in v .. p
  BY <1>1
<1>3. Blank(w, p, p)
  BY BlankNone
<1> QED  BY <1>1, <1>2, <1>3, Zenon DEF Wholly

\* Of the letters, blanks have one form.
LEMMA LowerBlank ==
  ASSUME NEW ch, LOWER(ch) = SP
  PROVE  ch = SP
<1>1. CASE ch \in Letters(Uppers)
  <2>1. PICK i \in DOMAIN Uppers : Uppers[i] = ch
    BY <1>1 DEF Letters
  <2> DEFINE k == CHOOSE l \in DOMAIN Uppers : Uppers[l] = ch
  <2>2. k \in DOMAIN Uppers
    BY <2>1
  <2>3. \A l \in DOMAIN Uppers : Lowers[l] # SP
    <3>1. \A l \in DOMAIN Uppers :
            Lowers[l] \in {"a", "b", "c", "d", "e", "f", "g", "h", "i", "j", "k", "l", "m",
                          "n", "o", "p", "q", "r", "s", "t", "u", "v", "w", "x", "y", "z"}
      BY DEF Uppers, Lowers
    <3>2. SP \notin {"a", "b", "c", "d", "e", "f", "g", "h", "i", "j", "k", "l", "m",
                    "n", "o", "p", "q", "r", "s", "t", "u", "v", "w", "x", "y", "z"}
      BY Zenon DEF SP
    <3> QED  BY <3>1, <3>2, Zenon
  <2>4. LOWER(ch) = Lowers[k]
    BY <1>1 DEF LOWER
  <2> QED  BY <2>2, <2>3, <2>4
<1>2. CASE ch \notin Letters(Uppers)
  BY <1>2 DEF LOWER
<1> QED  BY <1>1, <1>2

-----------------------------------------------------------------------------
(* Inside a value *)

\* The states of a value, and what their words stand for.
LEMMA ValueFacts ==
  /\ DOMAIN ListWords = {"h_connection_keep_alive", "h_connection_close", "h_connection_upgrade"}
  /\ DOMAIN WordFlag = DOMAIN ListWords \cup {"h_transfer_encoding_chunked"}
  /\ ListMatchers \cup {ChunkedMatcher} \subseteq DOMAIN Matcher
  /\ \A h \in DOMAIN Matcher : h \in NameMatchers \/ h \in ListMatchers \/ h = ChunkedMatcher
  /\ \A m \in ListMatchers :
       /\ Matcher[m].found \in DOMAIN ListWords /\ ListWords[Matcher[m].found] = Word(m)
       /\ Matcher[m].otherwise = "h_matching_connection_token"
  /\ /\ Matcher[ChunkedMatcher].found = "h_transfer_encoding_chunked"
     /\ Word(ChunkedMatcher) = CHUNKED /\ Matcher[ChunkedMatcher].otherwise = "h_general"
<1>1. DOMAIN ListWords = {"h_connection_keep_alive", "h_connection_close", "h_connection_upgrade"}
  BY DEF ListWords
<1>2. DOMAIN WordFlag = DOMAIN ListWords \cup {"h_transfer_encoding_chunked"}
  BY <1>1 DEF WordFlag
<1>3. /\ ListMatchers \cup {ChunkedMatcher} \subseteq DOMAIN Matcher
      /\ \A h \in DOMAIN Matcher : h \in NameMatchers \/ h \in ListMatchers \/ h = ChunkedMatcher
  BY WordLengths DEF ListMatchers, ChunkedMatcher, NameMatchers
<1>4. /\ Matcher["h_matching_transfer_encoding_chunked"]
           = Matching(CHUNKED, "h_transfer_encoding_chunked", "h_general")
      /\ Matcher["h_matching_connection_keep_alive"]
           = Matching(KEEP_ALIVE, "h_connection_keep_alive", "h_matching_connection_token")
      /\ Matcher["h_matching_connection_close"]
           = Matching(CLOSE, "h_connection_close", "h_matching_connection_token")
      /\ Matcher["h_matching_connection_upgrade"]
           = Matching(UPGRADE, "h_connection_upgrade", "h_matching_connection_token")
  BY DEF Matcher
<1>5. /\ ListWords["h_connection_keep_alive"] = KEEP_ALIVE /\ ListWords["h_connection_close"] = CLOSE
      /\ ListWords["h_connection_upgrade"] = UPGRADE
  BY DEF ListWords
<1>6. /\ \A w, f, o : Matching(w, f, o).word = w /\ Matching(w, f, o).found = f
      /\ \A w, f, o : Matching(w, f, o).otherwise = o
  BY DEF Matching
<1>7. \A m \in ListMatchers :
       /\ Matcher[m].found \in DOMAIN ListWords /\ ListWords[Matcher[m].found] = Word(m)
       /\ Matcher[m].otherwise = "h_matching_connection_token"
  BY <1>1, <1>4, <1>5, <1>6 DEF ListMatchers, Word
<1>8. /\ Matcher[ChunkedMatcher].found = "h_transfer_encoding_chunked"
      /\ Word(ChunkedMatcher) = CHUNKED /\ Matcher[ChunkedMatcher].otherwise = "h_general"
  BY <1>4, <1>6 DEF ChunkedMatcher, Word
<1> QED  BY <1>1, <1>2, <1>3, <1>7, <1>8

\* The first letters of the words.
LEMMA WordStarts ==
  /\ CHUNKED[1] = "c"
  /\ \A c : WordStart(c) \in ListMatchers \cup {"h_matching_connection_token"}
  /\ \A c : WordStart(c) \in ListMatchers => Word(WordStart(c))[1] = c
<1>1. /\ KEEP_ALIVE[1] = "k" /\ CLOSE[1] = "c" /\ UPGRADE[1] = "u" /\ CHUNKED[1] = "c"
  BY DEF KEEP_ALIVE, CLOSE, UPGRADE, CHUNKED
<1>2. /\ Word("h_matching_connection_keep_alive") = KEEP_ALIVE
      /\ Word("h_matching_connection_close") = CLOSE /\ Word("h_matching_connection_upgrade") = UPGRADE
  BY DEF Word, Matcher, Matching
<1>3. ASSUME NEW c
      PROVE  /\ c = "k" => WordStart(c) = "h_matching_connection_keep_alive"
             /\ c = "c" => WordStart(c) = "h_matching_connection_close"
             /\ c = "u" => WordStart(c) = "h_matching_connection_upgrade"
             /\ c \notin {"k", "c", "u"} => WordStart(c) = "h_matching_connection_token"
  BY DEF WordStart
<1> QED  BY <1>1, <1>2, <1>3 DEF ListMatchers

\* The flags of the words.
LEMMA WordFlags ==
  /\ \A h \in DOMAIN ListWords : \A f \in WordFlag[h] :
       f \in DOMAIN FlagWords /\ FlagWords[f] = ListWords[h]
  /\ WordFlag["h_transfer_encoding_chunked"] = {"CHUNKED"}
<1>1. \A f \in WordFlag["h_connection_keep_alive"] :
        f \in DOMAIN FlagWords /\ FlagWords[f] = ListWords["h_connection_keep_alive"]
  BY DEF WordFlag, FlagWords, ListWords
<1>2. \A f \in WordFlag["h_connection_close"] :
        f \in DOMAIN FlagWords /\ FlagWords[f] = ListWords["h_connection_close"]
  BY DEF WordFlag, FlagWords, ListWords
<1>3. \A f \in WordFlag["h_connection_upgrade"] :
        f \in DOMAIN FlagWords /\ FlagWords[f] = ListWords["h_connection_upgrade"]
  BY DEF WordFlag, FlagWords, ListWords
<1>4. WordFlag["h_transfer_encoding_chunked"] = {"CHUNKED"}
  BY DEF WordFlag
<1> QED  BY <1>1, <1>2, <1>3, <1>4, ValueFacts

\* A letter that is skipped, or is none of a word: the list goes on.
LEMMA ListOn ==
  ASSUME NEW w, NEW STATE q, NEW STATE r, NEW p \in Nat, InList(w, q, p),
         r.header_state = q.header_state, w[p] = LF => w[p + 1] = SP,
         w[p + 1] \in Skipped \/ r.header_state = "h_matching_connection_token",
         r.state = "s_header_value" => r.header_state \notin ListMatchers
  PROVE  InList(w, r, p + 1)
<1>1. PICK c \in 1 .. p :
        /\ InField(w, Connections, c, p)
        /\ q.header_state # "h_matching_connection_token" =>
             \E s \in c .. p :
               /\ Starts(w, c, s)
               /\ q.header_state = "h_matching_connection_token_start" => Blank(w, s, p)
               /\ q.header_state \in ListMatchers /\ q.state = "s_header_value" =>
                    Partly(w, s, Word(q.header_state), q.index + 1, p)
               /\ q.header_state \in DOMAIN ListWords => Wholly(w, s, ListWords[q.header_state], p)
  BY Zenon DEF InList
<1>2. c \in 1 .. p + 1 /\ InField(w, Connections, c, p + 1)
  BY <1>1, InFieldOn
<1>3. CASE r.header_state = "h_matching_connection_token"
  BY <1>2, <1>3, Zenon DEF InList
<1>4. CASE r.header_state # "h_matching_connection_token"
  <2>1. PICK s \in c .. p :
          /\ Starts(w, c, s)
          /\ q.header_state = "h_matching_connection_token_start" => Blank(w, s, p)
          /\ q.header_state \in DOMAIN ListWords => Wholly(w, s, ListWords[q.header_state], p)
    BY <1>1, <1>4
  <2>2. s \in Nat /\ s <= p /\ s \in c .. p + 1 /\ w[p + 1] \in Skipped
    BY <1>4
  <2>3. r.header_state = "h_matching_connection_token_start" => Blank(w, s, p + 1)
    BY <2>1, <2>2, BlankOn
  <2>4. r.header_state \in DOMAIN ListWords => Wholly(w, s, ListWords[r.header_state], p + 1)
    BY <2>1, <2>2, WhollyOn
  <2> QED  BY <1>2, <2>1, <2>2, <2>3, <2>4, Zenon DEF InList
<1> QED  BY <1>3, <1>4

\* The same for the encoding.
LEMMA EncodingOn ==
  ASSUME NEW w, NEW STATE q, NEW STATE r, NEW p \in Nat, InEncoding(w, q, p),
         r.header_state = q.header_state, w[p] = LF => w[p + 1] = SP, w[p + 1] \in Skipped,
         r.state = "s_header_value" => r.header_state # ChunkedMatcher
  PROVE  InEncoding(w, r, p + 1)
<1>1. PICK c \in 1 .. p :
        /\ InField(w, {TRANSFER_ENCODING}, c, p)
        /\ q.header_state = "h_transfer_encoding_chunked" => Wholly(w, c, CHUNKED, p)
  BY Zenon DEF InEncoding
<1>2. c \in 1 .. p + 1 /\ c \in Nat /\ InField(w, {TRANSFER_ENCODING}, c, p + 1)
  BY <1>1, InFieldOn
<1>3. r.header_state = "h_transfer_encoding_chunked" => Wholly(w, c, CHUNKED, p + 1)
  BY <1>1, <1>2, WhollyOn
<1> QED  BY <1>2, <1>3, Zenon DEF InEncoding

\* A value goes on with a letter that is skipped.
LEMMA InsideOn ==
  ASSUME NEW w, NEW STATE q, NEW STATE r, NEW p \in Nat, InsideValue(w, q, p), q.state \in ValueStates,
         r.header_state = q.header_state, w[p + 1] \in Skipped,
         w[p] = LF => w[p + 1] = SP \/ r.header_state = "h_content_length",
         r.state = "s_header_value" => r.header_state \notin ListMatchers \cup {ChunkedMatcher}
  PROVE  InsideValue(w, r, p + 1)
<1>1. "h_content_length" \notin ListStates \cup ChunkedStates
  BY ValueFacts DEF ListStates, ListMatchers, ChunkedStates, ChunkedMatcher
<1>2. r.header_state \in ListStates => InList(w, r, p + 1)
  BY <1>1, ListOn DEF InsideValue
<1>3. r.header_state \in ChunkedStates => InEncoding(w, r, p + 1)
  BY <1>1, EncodingOn DEF InsideValue
<1> QED  BY <1>2, <1>3 DEF InsideValue

\* Where a word is no longer matched, its index is of no account.
LEMMA InsideStays ==
  ASSUME NEW w, NEW STATE q, NEW STATE r, NEW p, InsideValue(w, q, p), q.state \in ValueStates,
         r.header_state = q.header_state, r.state # "s_header_value"
  PROVE  InsideValue(w, r, p)
<1>1. r.header_state \in ListStates => InList(w, r, p)
  <2> HAVE r.header_state \in ListStates
  <2>1. InList(w, q, p)
    BY DEF InsideValue
  <2> QED  BY <2>1, Zenon DEF InList
<1>2. r.header_state \in ChunkedStates => InEncoding(w, r, p)
  <2> HAVE r.header_state \in ChunkedStates
  <2>1. InEncoding(w, q, p)
    BY DEF InsideValue
  <2> QED  BY <2>1, Zenon DEF InEncoding
<1> QED  BY <1>1, <1>2 DEF InsideValue

\* A value that means nothing.
LEMMA InsideNothing ==
  ASSUME NEW w, NEW STATE r, NEW p, r.header_state \in {"h_general", "h_content_length"}
  PROVE  InsideValue(w, r, p)
BY ValueFacts DEF InsideValue, ListStates, ListMatchers, ChunkedStates, ChunkedMatcher

\* Inside the line of a value, its state is all there is to say.
LEMMA SpelledInside ==
  ASSUME NEW w, NEW STATE r, NEW p \in Nat, r.state \in {"s_header_value", "s_header_almost_done"},
         r.header_state # "h_content_length" => p > 0 /\ w[p] # LF, InsideValue(w, r, p)
  PROVE  Spelled(w, r, p)
BY DEF Spelled, LineEnds, NameRead, BeforeValue, DiscardStates

\* A letter of a list, wherever it leads.
LEMMA ListLands ==
  ASSUME NEW w, NEW STATE r, NEW p \in Nat, NEW c \in 1 .. p, InField(w, Connections, c, p),
         \/ r.header_state = "h_matching_connection_token"
         \/ \E s \in c .. p :
              /\ Starts(w, c, s)
              /\ \/ r.header_state = "h_matching_connection_token_start" /\ Blank(w, s, p)
                 \/ r.header_state \in ListMatchers /\ Partly(w, s, Word(r.header_state), r.index + 1, p)
                 \/ r.header_state \in DOMAIN ListWords /\ Wholly(w, s, ListWords[r.header_state], p)
  PROVE  InsideValue(w, r, p)
<1> DEFINE h == r.header_state
<1>1. /\ h \in ListStates /\ h \notin ChunkedStates
      /\ h = "h_matching_connection_token" => h \notin ListMatchers /\ h \notin DOMAIN ListWords
      /\ h = "h_matching_connection_token_start" => h \notin ListMatchers /\ h \notin DOMAIN ListWords
      /\ h \in ListMatchers => h \notin DOMAIN ListWords
  BY ValueFacts DEF ListStates, ListMatchers, ChunkedStates, ChunkedMatcher
<1>2. InList(w, r, p)
  <2>1. CASE h = "h_matching_connection_token"
    BY <2>1, Zenon DEF InList
  <2>2. CASE h # "h_matching_connection_token"
    <3>1. PICK s \in c .. p :
            /\ Starts(w, c, s)
            /\ \/ h = "h_matching_connection_token_start" /\ Blank(w, s, p)
               \/ h \in ListMatchers /\ Partly(w, s, Word(h), r.index + 1, p)
               \/ h \in DOMAIN ListWords /\ Wholly(w, s, ListWords[h], p)
      BY <2>2, Zenon
    <3> QED  BY <1>1, <3>1, Zenon DEF InList
  <2> QED  BY <2>1, <2>2
<1> QED  BY <1>1, <1>2 DEF InsideValue

\* A letter of an encoding.
LEMMA EncodingLands ==
  ASSUME NEW w, NEW STATE r, NEW p \in Nat, NEW c \in 1 .. p, InField(w, {TRANSFER_ENCODING}, c, p),
         \/ r.header_state = ChunkedMatcher /\ Partly(w, c, CHUNKED, r.index + 1, p)
         \/ r.header_state = "h_transfer_encoding_chunked" /\ Wholly(w, c, CHUNKED, p)
  PROVE  InsideValue(w, r, p)
<1>1. ChunkedMatcher # "h_transfer_encoding_chunked"
  BY DEF ChunkedMatcher
<1>2. InEncoding(w, r, p)
  BY <1>1, Zenon DEF InEncoding
<1>3. r.header_state \in ChunkedStates /\ r.header_state \notin ListStates
  BY ValueFacts DEF ListStates, ListMatchers, ChunkedStates, ChunkedMatcher
<1> QED  BY <1>2, <1>3 DEF InsideValue

\* What the matcher of state h makes of the letter after a part of its word.
MatchRead(w, s, q, h, p) ==
  LET r == Match(q, LOWER(w[p + 1]))
  IN /\ Shaped(r) /\ r.state = q.state /\ r.flags = q.flags
     /\ \/ r.header_state = Matcher[h].otherwise
        \/ r.header_state = Matcher[h].found /\ Wholly(w, s, Word(h), p + 1)
        \/ r.header_state = h /\ Partly(w, s, Word(h), r.index + 1, p + 1)

\* A matcher that has read part of its word reads one letter more.
LEMMA MatchReads ==
  ASSUME NEW w, NEW p \in Nat, NEW s \in Nat, NEW STATE q, Shaped(q), NEW h, q.header_state = h,
         Size(h) \in Nat, q.index + 1 < Size(h), Partly(w, s, Word(h), q.index + 1, p)
  PROVE  MatchRead(w, s, q, h, p)
<1> DEFINE c == LOWER(w[p + 1])
           i == q.index + 1
           t == IF c # CharAt(Word(h), i) THEN Matcher[h].otherwise
                ELSE IF i = Size(h) - 1 THEN Matcher[h].found ELSE h
           r == [q EXCEPT !.index = i, !.header_state = t]
<1>1. i \in Nat /\ Size(h) \in Nat /\ i < Size(h) /\ Len(Word(h)) = Size(h)
  BY DEF Shaped, Size
<1>2. Match(q, c) = r
  BY Zenon DEF Match, Word, Size
<1>3. Shaped(r) /\ r.state = q.state /\ r.flags = q.flags /\ r.index = i /\ r.header_state = t
  <2> HIDE DEF i, t
  <2> QED  BY <1>1 DEF Shaped, Fields
<1>4. CharAt(Word(h), i) = Word(h)[i + 1]
  <2>1. i # Size(h)
    <3> HIDE DEF i
    <3> QED  BY <1>1
  <2> QED  BY <1>1, <2>1, Zenon DEF CharAt
<1>5. c = Word(h)[i + 1] => Partly(w, s, Word(h), i + 1, p + 1)
  <2> HAVE c = Word(h)[i + 1]
  <2> DEFINE word == Word(h)
             n == Size(h)
  <2>1. i + 1 <= n /\ n \in Nat /\ i \in Nat
    <3> HIDE DEF i, n
    <3> QED  BY <1>1 DEF n
  <2>2. Len(word) = n
    BY <1>1
  <2>3. Partly(w, s, word, i, p) /\ c = word[i + 1]
    OBVIOUS
  <2> HIDE DEF i, word, n, c
  <2>4. Partly(w, s, word, i + 1, p + 1)
    BY <2>1, <2>2, <2>3, PartlyNext DEF c
  <2> QED  BY <2>4 DEF word
<1>6. c = Word(h)[i + 1] /\ i = Size(h) - 1 => Wholly(w, s, Word(h), p + 1)
  <2> HAVE c = Word(h)[i + 1] /\ i = Size(h) - 1
  <2> DEFINE word == Word(h)
             n == Size(h)
  <2>1. i + 1 = n /\ n \in Nat
    <3> HIDE DEF i, n
    <3> QED  BY <1>1 DEF n
  <2>2. Partly(w, s, word, n, p + 1) /\ Len(word) = n
    BY <1>1, <1>5, <2>1
  <2> HIDE DEF i, word, n, c
  <2>3. Wholly(w, s, word, p + 1)
    BY <2>1, <2>2, PartlyAll
  <2> QED  BY <2>3 DEF word
<1>7. c # Word(h)[i + 1] => t = Matcher[h].otherwise
  BY <1>4
<1>8. c = Word(h)[i + 1] => (t = Matcher[h].found /\ i = Size(h) - 1) \/ t = h
  BY <1>4
<1> HIDE DEF t, i, c
<1>9. \/ r.header_state = Matcher[h].otherwise
      \/ r.header_state = Matcher[h].found /\ Wholly(w, s, Word(h), p + 1)
      \/ r.header_state = h /\ Partly(w, s, Word(h), r.index + 1, p + 1)
  BY <1>3, <1>5, <1>6, <1>7, <1>8, Zenon
<1> QED  BY <1>2, <1>3, <1>9, Zenon DEF c, MatchRead

\* The parser in another state of its value, and with the flag of a word.
LEMMA InState ==
  ASSUME NEW STATE q, Shaped(q), NEW s
  PROVE  LET r == [q EXCEPT !.header_state = s]
         IN /\ Shaped(r) /\ r.state = q.state /\ r.header_state = s
            /\ r.index = q.index /\ r.flags = q.flags
BY DEF Shaped, Fields

\* What NextWord leaves.
LEMMA NextWordIs ==
  ASSUME NEW STATE q, Shaped(q)
  PROVE  /\ Shaped(NextWord(q)) /\ NextWord(q).state = q.state /\ NextWord(q).index = 0
         /\ NextWord(q).header_state = "h_matching_connection_token_start"
         /\ NextWord(q).flags = q.flags
BY DEF Shaped, Fields, NextWord

\* What WithFlag leaves: the only new flags are those of its word.
LEMMA WithFlagIs ==
  ASSUME NEW STATE q, Shaped(q)
  PROVE  /\ Shaped(WithFlag(q)) /\ WithFlag(q).state = q.state
         /\ WithFlag(q).header_state = q.header_state /\ WithFlag(q).index = q.index
         /\ \A f \in WithFlag(q).flags \ q.flags :
              q.header_state \in DOMAIN WordFlag /\ f \in WordFlag[q.header_state]
BY DEF Shaped, Fields, WithFlag

\* Where a parser is in its list, with the colon and the element.
LEMMA ListIs ==
  ASSUME NEW w, NEW STATE q, NEW p \in Nat, InsideValue(w, q, p), q.state \in ValueStates,
         q.header_state \in ListStates
  PROVE  \E c \in 1 .. p :
           /\ InField(w, Connections, c, p)
           /\ q.header_state # "h_matching_connection_token" =>
                \E s \in c .. p :
                  /\ Starts(w, c, s)
                  /\ q.header_state = "h_matching_connection_token_start" => Blank(w, s, p)
                  /\ q.header_state \in ListMatchers /\ q.state = "s_header_value" =>
                       Partly(w, s, Word(q.header_state), q.index + 1, p)
                  /\ q.header_state \in DOMAIN ListWords => Wholly(w, s, ListWords[q.header_state], p)
<1>1. InList(w, q, p)
  BY DEF InsideValue
<1> QED  BY <1>1, Zenon DEF InList

\* Where a parser is in a transfer encoding, with the colon.
LEMMA EncodingIs ==
  ASSUME NEW w, NEW STATE q, NEW p \in Nat, InsideValue(w, q, p), q.state \in ValueStates,
         q.header_state \in ChunkedStates
  PROVE  \E c \in 1 .. p :
           /\ InField(w, {TRANSFER_ENCODING}, c, p)
           /\ q.header_state = ChunkedMatcher /\ q.state = "s_header_value" =>
                Partly(w, c, CHUNKED, q.index + 1, p)
           /\ q.header_state = "h_transfer_encoding_chunked" => Wholly(w, c, CHUNKED, p)
<1>1. InEncoding(w, q, p)
  BY DEF InsideValue
<1> QED  BY <1>1, Zenon DEF InEncoding

\* The states that a letter of a value tells apart.
LEMMA ValueCases ==
  ASSUME NEW w, NEW STATE q, NEW p \in Nat, InsideValue(w, q, p), q.state \in ValueStates
  PROVE  LET h == q.header_state
         IN \/ h \in {"h_general", "h_content_length"}
            \/ /\ h \in ListStates
               /\ \/ h \in {"h_matching_connection_token", "h_matching_connection_token_start"}
                  \/ h \in ListMatchers \/ h \in DOMAIN ListWords
            \/ h \in ChunkedStates /\ (h = ChunkedMatcher \/ h = "h_transfer_encoding_chunked")
BY DEF InsideValue, ListStates, ChunkedStates

\* What a letter makes of a value, by the state it is in.
LEMMA LetterIs ==
  ASSUME NEW STATE q, NEW ch
  PROVE  LET h == q.header_state
             c == LOWER(ch)
             r == ValueLetter(q, ch)
             to(s) == [q EXCEPT !.header_state = s]
         IN /\ h = "h_content_length" => r = q
            /\ h = "h_general" => r = to("h_general")
            /\ h = "h_matching_connection_token_start" =>
                 \/ ch = SP /\ r = to("h_matching_connection_token_start")
                 \/ r = to(WordStart(c)) \/ r = to("h_general")
            /\ h \in ListMatchers \cup {ChunkedMatcher} => r = Match(q, c)
            /\ h = "h_matching_connection_token" => r = q \/ (ch = "," /\ r = NextWord(q))
            /\ h = "h_transfer_encoding_chunked" => (ch = SP /\ r = q) \/ r = to("h_general")
            /\ h \in DOMAIN ListWords =>
                 \/ ch = "," /\ r = NextWord(WithFlag(q))
                 \/ ch = SP /\ r = q
                 \/ r = to("h_matching_connection_token")
<1> DEFINE h == q.header_state
           c == LOWER(ch)
           r == ValueLetter(q, ch)
           to(s) == [q EXCEPT !.header_state = s]
<1>1. /\ "h_content_length" \notin DOMAIN Matcher /\ "h_general" \notin DOMAIN Matcher
      /\ "h_matching_connection_token_start" \notin DOMAIN Matcher
      /\ "h_matching_connection_token" \notin DOMAIN Matcher
      /\ "h_transfer_encoding_chunked" \notin DOMAIN Matcher
      /\ \A l \in DOMAIN ListWords : l \notin DOMAIN Matcher
  BY WordLengths, ValueFacts
<1>2. /\ \A m \in ListMatchers \cup {ChunkedMatcher} :
           m \notin {"h_content_length", "h_matching_connection_token_start"} /\ m \in DOMAIN Matcher
  BY ValueFacts DEF ListMatchers, ChunkedMatcher
<1>3. h = "h_content_length" => r = q
  BY <1>1, Zenon DEF ValueLetter
<1>4. h = "h_general" => r = to("h_general")
  BY <1>1, Zenon DEF ValueLetter
<1>5. ASSUME h = "h_matching_connection_token_start"
      PROVE  \/ ch = SP /\ r = to("h_matching_connection_token_start")
             \/ r = to(WordStart(c)) \/ r = to("h_general")
  <2>1. r = to(IF c = " " THEN h ELSE IF TOKEN(c) THEN WordStart(c) ELSE "h_general")
    BY <1>1, <1>5, Zenon DEF ValueLetter
  <2>2. c = " " => ch = SP
    BY LowerBlank, Zenon DEF SP
  <2> QED  BY <1>5, <2>1, <2>2, Zenon
<1>6. ASSUME h \in ListMatchers \cup {ChunkedMatcher}
      PROVE  r = Match(q, c)
  <2>1. /\ h \in DOMAIN Matcher
        /\ h \notin {"h_content_length", "h_matching_connection_token_start", "h_matching_connection_token",
                     "h_transfer_encoding_chunked", "h_connection_keep_alive", "h_connection_close",
                     "h_connection_upgrade"}
    BY <1>1, <1>2, <1>6, ValueFacts
  <2> QED  BY <2>1, Zenon DEF ValueLetter
<1>7. h = "h_matching_connection_token" => r = q \/ (ch = "," /\ r = NextWord(q))
  BY <1>1, Zenon DEF ValueLetter
<1>8. h = "h_transfer_encoding_chunked" => (ch = SP /\ r = q) \/ r = to("h_general")
  BY <1>1, Zenon DEF ValueLetter, SP
<1>9. ASSUME h \in DOMAIN ListWords
      PROVE  \/ ch = "," /\ r = NextWord(WithFlag(q))
             \/ ch = SP /\ r = q
             \/ r = to("h_matching_connection_token")
  <2>1. /\ h \in {"h_connection_keep_alive", "h_connection_close", "h_connection_upgrade"}
        /\ h \notin {"h_content_length", "h_matching_connection_token_start",
                     "h_matching_connection_token", "h_transfer_encoding_chunked"}
        /\ h \notin DOMAIN Matcher
    BY <1>1, <1>9, ValueFacts
  <2>2. r = CASE ch = "," -> NextWord(WithFlag(q))
              [] ch = " " -> q
              [] OTHER -> to("h_matching_connection_token")
    BY <2>1, Zenon DEF ValueLetter
  <2> QED  BY <2>2, Zenon DEF SP
<1> QED  BY <1>3, <1>4, <1>5, <1>6, <1>7, <1>8, <1>9, Zenon

\* A letter of a value keeps what is known of it, and sets no flag but that of an element
\* that it ends.
LEMMA ValueLetterSpelled ==
  ASSUME Good(parser), parser.state = "s_header_value", exec.p \in Nat,
         Spelled(wire, parser, exec.p), Byte \notin {CR, LF}
  PROVE  LET r == ValueLetter(parser, Byte)
         IN /\ Shaped(r) /\ Spelled(wire, r, exec.p + 1)
            /\ \A f \in r.flags \ parser.flags : CalledFor(f)
<1> DEFINE h == parser.header_state
           p == exec.p
           w == wire
           ch == Byte
           r == ValueLetter(parser, ch)
           to(s) == [parser EXCEPT !.header_state = s]
           Holds(x) == /\ Shaped(x) /\ Spelled(w, x, p + 1)
                       /\ \A f \in x.flags \ parser.flags : CalledFor(f)
<1>1. /\ Shaped(parser) /\ p \in Nat /\ w[p + 1] = ch /\ ch # LF /\ ch # CR /\ InsideValue(w, parser, p)
      /\ parser.state \in ValueStates
  BY DEF Good, Spelled, Byte, ValueStates
<1>2. h # "h_content_length" => p > 0 /\ w[p] # LF
  BY DEF Spelled, LineEnds
<1>3. ASSUME NEW STATE x, Shaped(x), x.state = "s_header_value", InsideValue(w, x, p + 1),
             \A f \in x.flags \ parser.flags : CalledFor(f)
      PROVE  Holds(x)
  <2>1. p + 1 \in Nat /\ p + 1 > 0 /\ w[p + 1] # LF
    BY <1>1
  <2>2. Spelled(w, x, p + 1)
    <3> HIDE DEF p, w, ch
    <3> QED  BY <1>3, <2>1, SpelledInside
  <2> QED  BY <1>3, <2>2
<1>4. \A s : /\ Shaped(to(s)) /\ to(s).state = "s_header_value" /\ to(s).header_state = s
             /\ to(s).index = parser.index /\ to(s).flags = parser.flags
  BY <1>1, InState
<1>5. Holds(to("h_general"))
  <2> DEFINE x == to("h_general")
  <2>1. Shaped(x) /\ x.state = "s_header_value" /\ x.header_state = "h_general" /\ x.flags = parser.flags
    BY <1>4
  <2> HIDE DEF x
  <2>2. InsideValue(w, x, p + 1)
    BY <2>1, InsideNothing
  <2>3. Holds(x)
    BY <1>3, <2>1, <2>2
  <2> QED  BY <2>3 DEF x
<1>6. CASE h \in {"h_general", "h_content_length"}
  <2>1. h = "h_content_length" => Holds(parser)
    BY <1>1, <1>3, InsideNothing
  <2> QED  BY <1>5, <1>6, <2>1, LetterIs
<1>7. CASE h \in ListStates
  <2>1. PICK c \in 1 .. p :
          /\ InField(w, Connections, c, p)
          /\ h # "h_matching_connection_token" =>
               \E s \in c .. p :
                 /\ Starts(w, c, s)
                 /\ h = "h_matching_connection_token_start" => Blank(w, s, p)
                 /\ h \in ListMatchers => Partly(w, s, Word(h), parser.index + 1, p)
                 /\ h \in DOMAIN ListWords => Wholly(w, s, ListWords[h], p)
    BY <1>1, <1>7, ListIs
  <2>2. /\ h # "h_content_length" /\ h \notin ChunkedStates
        /\ h = "h_matching_connection_token" => h \notin ListMatchers /\ h \notin DOMAIN ListWords
        /\ h \in ListMatchers => h \notin DOMAIN ListWords
    BY <1>7, ValueFacts DEF ListStates, ListMatchers, ChunkedStates, ChunkedMatcher
  <2>3. c \in 1 .. p + 1 /\ p + 1 \in Nat /\ InField(w, Connections, c, p + 1)
    BY <1>1, <1>2, <2>1, <2>2, InFieldOn
  <2>4. ASSUME NEW STATE x, x.header_state = "h_matching_connection_token" PROVE InsideValue(w, x, p + 1)
    BY <2>3, <2>4, ListLands
  <2>5. ASSUME NEW STATE x, NEW s \in c .. p + 1, Starts(w, c, s),
               \/ x.header_state = "h_matching_connection_token_start" /\ Blank(w, s, p + 1)
               \/ x.header_state \in ListMatchers /\ Partly(w, s, Word(x.header_state), x.index + 1, p + 1)
               \/ x.header_state \in DOMAIN ListWords /\ Wholly(w, s, ListWords[x.header_state], p + 1)
        PROVE  InsideValue(w, x, p + 1)
    <3> HIDE DEF p, w
    <3> QED  BY <2>3, <2>5, ListLands
  <2>6. Holds(to("h_matching_connection_token"))
    BY <1>3, <1>4, <2>4
  <2>7. ch = "," => p + 1 \in c .. p + 1 /\ Starts(w, c, p + 1) /\ Blank(w, p + 1, p + 1)
    <3>1. p + 1 \in c .. p + 1 /\ Blank(w, p + 1, p + 1)
      BY <2>3, BlankNone
    <3> HIDE DEF p, w, ch
    <3> QED  BY <1>1, <3>1 DEF Starts
  <2>8. CASE h = "h_matching_connection_token"
    <3>1. Holds(parser)
      BY <1>1, <1>3, <2>4, <2>8
    <3>2. ch = "," => Holds(NextWord(parser))
      BY <1>1, <1>3, <2>5, <2>7, NextWordIs
    <3> QED  BY <2>8, <3>1, <3>2, LetterIs
  <2>9. CASE h # "h_matching_connection_token"
    <3>1. PICK s \in c .. p :
            /\ Starts(w, c, s)
            /\ h = "h_matching_connection_token_start" => Blank(w, s, p)
            /\ h \in ListMatchers => Partly(w, s, Word(h), parser.index + 1, p)
            /\ h \in DOMAIN ListWords => Wholly(w, s, ListWords[h], p)
      BY <2>1, <2>9
    <3>2. s \in Nat /\ s <= p /\ s \in c .. p + 1 /\ s \in 0 .. p
      OBVIOUS
    <3>3. ch = SP => ch \in Skipped
      BY DEF Skipped
    <3>4. CASE h = "h_matching_connection_token_start"
      <4>1. parser.index = 0
        BY <3>4 DEF Good, InValue
      <4>2. ch = SP => Holds(to(h))
        <5>1. ch = SP => Blank(w, s, p + 1)
          BY <1>1, <3>1, <3>2, <3>3, <3>4, BlankOn
        <5> QED  BY <1>3, <1>4, <2>5, <3>1, <3>2, <3>4, <5>1
      <4>3. Holds(to(WordStart(LOWER(ch))))
        <5> DEFINE m == WordStart(LOWER(ch))
        <5>1. m \in ListMatchers => Word(m)[1] = LOWER(ch) /\ Size(m) \in 5 .. 17
          BY WordStarts, WordLengths, ValueFacts DEF Size, Word
        <5>2. m \in ListMatchers => Partly(w, s, Word(m), 1, p + 1)
          <6> DEFINE word == Word(m)
          <6>1. m \in ListMatchers => Len(word) \in Nat /\ 1 <= Len(word) /\ word[1] = LOWER(ch)
            BY <5>1 DEF Size
          <6>2. p \in Nat /\ s \in 0 .. p /\ Blank(w, s, p) /\ LOWER(ch) = LOWER(w[p + 1])
            BY <1>1, <3>1, <3>2, <3>4
          <6> HIDE DEF m, p, w, ch, word
          <6>3. m \in ListMatchers => Partly(w, s, word, 1, p + 1)
            BY <6>1, <6>2, PartlyFirst
          <6> QED  BY <6>3 DEF word
        <5>3. m \in ListMatchers => Partly(w, s, Word(m), to(m).index + 1, p + 1)
          BY <1>4, <4>1, <5>2
        <5>4. m \in ListMatchers => InsideValue(w, to(m), p + 1)
          BY <1>4, <2>5, <3>1, <3>2, <5>3
        <5>5. m \notin ListMatchers => m = "h_matching_connection_token"
          BY WordStarts
        <5> QED  BY <1>3, <1>4, <2>6, <5>4, <5>5
      <4>4. \/ ch = SP /\ r = to(h)
            \/ r = to(WordStart(LOWER(ch))) \/ r = to("h_general")
        BY <3>4, LetterIs, Zenon
      <4> QED  BY <1>5, <4>2, <4>3, <4>4, Zenon
    <3>5. CASE h \in ListMatchers
      <4> DEFINE x == Match(parser, LOWER(ch))
      <4>1. /\ Matcher[h].otherwise = "h_matching_connection_token"
            /\ Matcher[h].found \in DOMAIN ListWords /\ ListWords[Matcher[h].found] = Word(h)
            /\ Size(h) \in 5 .. 17 /\ h \in DOMAIN Matcher
        BY <3>5, ValueFacts, WordLengths DEF Size, Word
      <4>2. parser.index + 1 < Size(h)
        BY <4>1 DEF Good, InWord, Size, Word
      <4>3. /\ Shaped(x) /\ x.state = "s_header_value" /\ x.flags = parser.flags
            /\ \/ x.header_state = "h_matching_connection_token"
               \/ x.header_state = Matcher[h].found /\ Wholly(w, s, Word(h), p + 1)
               \/ x.header_state = h /\ Partly(w, s, Word(h), x.index + 1, p + 1)
        <5>1. Size(h) \in Nat /\ Partly(w, s, Word(h), parser.index + 1, p) /\ parser.header_state = h
          BY <3>1, <3>5, <4>1
        <5> HIDE DEF h, p, w, ch
        <5>2. MatchRead(w, s, parser, h, p)
          BY <1>1, <3>2, <4>2, <5>1, MatchReads
        <5> QED  BY <1>1, <4>1, <5>2 DEF MatchRead
      <4> HIDE DEF x
      <4>4. InsideValue(w, x, p + 1)
        BY <2>4, <2>5, <3>1, <3>2, <3>5, <4>1, <4>3
      <4>5. Holds(x)
        BY <1>3, <4>3, <4>4
      <4> QED  BY <3>5, <4>5, LetterIs DEF x
    <3>6. CASE h \in DOMAIN ListWords
      <4>1. ch = "," => Holds(NextWord(WithFlag(parser)))
        <5> SUFFICES ASSUME ch = "," PROVE Holds(NextWord(WithFlag(parser)))
          OBVIOUS
        <5> DEFINE x == NextWord(WithFlag(parser))
        <5>1. /\ Shaped(x) /\ x.state = "s_header_value"
              /\ x.header_state = "h_matching_connection_token_start"
              /\ \A f \in x.flags \ parser.flags : f \in WordFlag[h]
          BY <1>1, NextWordIs, WithFlagIs
        <5> HIDE DEF x
        <5>2. \A f \in x.flags \ parser.flags : f \in DOMAIN FlagWords /\ Wholly(w, s, FlagWords[f], p)
          BY <3>1, <3>6, <5>1, WordFlags
        <5>3. \A f \in x.flags \ parser.flags : CalledFor(f)
          BY <2>1, <3>1, <5>2, Zenon DEF CalledFor
        <5>4. InsideValue(w, x, p + 1)
          BY <2>5, <2>7, <5>1
        <5> QED  BY <1>3, <5>1, <5>3, <5>4 DEF x
      <4>2. ch = SP => Holds(parser)
        <5>1. ch = SP => Wholly(w, s, ListWords[h], p + 1)
          BY <1>1, <3>1, <3>2, <3>3, <3>6, WhollyOn
        <5> QED  BY <1>1, <1>3, <2>5, <3>1, <3>2, <3>6, <5>1
      <4> QED  BY <2>6, <3>6, <4>1, <4>2, LetterIs
    <3>7. h = "h_matching_connection_token_start" \/ h \in ListMatchers \/ h \in DOMAIN ListWords
      BY <1>7, <2>9 DEF ListStates
    <3> QED  BY <3>4, <3>5, <3>6, <3>7
  <2> QED  BY <2>8, <2>9
<1>8. CASE h \in ChunkedStates
  <2>1. PICK c \in 1 .. p :
          /\ InField(w, {TRANSFER_ENCODING}, c, p)
          /\ h = ChunkedMatcher => Partly(w, c, CHUNKED, parser.index + 1, p)
          /\ h = "h_transfer_encoding_chunked" => Wholly(w, c, CHUNKED, p)
    BY <1>1, <1>8, EncodingIs
  <2>2. h # "h_content_length"
    BY <1>8 DEF ChunkedStates, ChunkedMatcher
  <2>3. c \in 1 .. p + 1 /\ c \in Nat /\ p + 1 \in Nat /\ InField(w, {TRANSFER_ENCODING}, c, p + 1)
    BY <1>1, <1>2, <2>1, <2>2, InFieldOn
  <2>4. ASSUME NEW STATE x,
               \/ x.header_state = ChunkedMatcher /\ Partly(w, c, CHUNKED, x.index + 1, p + 1)
               \/ x.header_state = "h_transfer_encoding_chunked" /\ Wholly(w, c, CHUNKED, p + 1)
        PROVE  InsideValue(w, x, p + 1)
    <3> HIDE DEF p, w
    <3> QED  BY <2>3, <2>4, EncodingLands
  <2>5. CASE h = ChunkedMatcher
    <3> DEFINE x == Match(parser, LOWER(ch))
    <3>1. /\ Matcher[h].otherwise = "h_general" /\ Matcher[h].found = "h_transfer_encoding_chunked"
          /\ Word(h) = CHUNKED /\ Size(h) \in 5 .. 17 /\ h \in DOMAIN Matcher
      BY <2>5, ValueFacts, WordLengths DEF Size, Word
    <3>2. parser.index + 1 < Size(h)
      BY <3>1 DEF Good, InWord, Size, Word
    <3>3. /\ Shaped(x) /\ x.state = "s_header_value" /\ x.flags = parser.flags
          /\ \/ x.header_state = "h_general"
             \/ x.header_state = "h_transfer_encoding_chunked" /\ Wholly(w, c, CHUNKED, p + 1)
             \/ x.header_state = h /\ Partly(w, c, CHUNKED, x.index + 1, p + 1)
      <4>1. Size(h) \in Nat /\ Partly(w, c, Word(h), parser.index + 1, p) /\ parser.header_state = h
        BY <2>1, <2>5, <3>1
      <4> HIDE DEF h, p, w, ch
      <4>2. MatchRead(w, c, parser, h, p)
        BY <1>1, <2>3, <3>2, <4>1, MatchReads
      <4> QED  BY <1>1, <3>1, <4>2 DEF MatchRead
    <3> HIDE DEF x
    <3>4. InsideValue(w, x, p + 1)
      BY <2>4, <2>5, <3>3, InsideNothing
    <3>5. Holds(x)
      BY <1>3, <3>3, <3>4
    <3> QED  BY <2>5, <3>5, LetterIs DEF x
  <2>6. CASE h = "h_transfer_encoding_chunked"
    <3>1. ch = SP => Wholly(w, c, CHUNKED, p + 1)
      <4>1. ch = SP => ch \in Skipped
        BY DEF Skipped
      <4> QED  BY <1>1, <2>1, <2>3, <2>6, <4>1, WhollyOn
    <3>2. ch = SP => Holds(parser)
      BY <1>1, <1>3, <2>4, <2>6, <3>1
    <3> QED  BY <1>5, <2>6, <3>2, LetterIs
  <2> QED  BY <1>8, <2>5, <2>6 DEF ChunkedStates
<1>9. h \in {"h_general", "h_content_length"} \/ h \in ListStates \/ h \in ChunkedStates
  BY <1>1 DEF InsideValue
<1> QED  BY <1>6, <1>7, <1>8, <1>9

-----------------------------------------------------------------------------
(* The rounds of the header fields *)

\* What every round leaves: the invariant, and no flag that is not called for.
Owed(q) == \A f \in q.flags \ parser.flags : CalledFor(f)
Evident == SpellInv' /\ Owed(parser')

\* The ends of a round that advances.
LEMMA EvidentOn ==
  ASSUME NEW STATE q, Shaped(q), Owed(q), LocalsShaped(exec), Spelled(wire, q, exec.p + 1)
  PROVE  /\ Take(q) => Evident
         /\ \A what : TakeMarked(q, what) => Evident
         /\ Report(q) => Evident
<1>1. SpellStep(q) => Evident
  BY DEF SpellStep, Owed, Evident
<1> QED  BY <1>1, SpelledOn

\* The ends of a round that does not.
LEMMA EvidentAgain ==
  ASSUME NEW STATE q, Shaped(q), Owed(q), LocalsShaped(exec), Spelled(wire, q, exec.p)
  PROVE  /\ Reexecute(q) => Evident
         /\ ReportAgain(q) => Evident
         /\ \A e : Fail(q, e) => Evident
         /\ Called(q, exec) /\ UNCHANGED wire => Evident
<1>1. SpellStep(q) => Evident
  BY DEF SpellStep, Owed, Evident
<1>2. Called(q, exec) /\ UNCHANGED wire => SpellStep(q)
  BY SpelledCalled
<1> QED  BY <1>1, <1>2, SpelledAgain

\* A parser with no new flag owes nothing.
LEMMA OwedNothing ==
  ASSUME NEW STATE q, q.flags = parser.flags
  PROVE  Owed(q)
BY DEF Owed

\* Away from the header fields.
LEMMA AwayEvident ==
  ASSUME Shaped(parser), LocalsShaped(exec)
  PROVE  \A s : s \notin HeaderStates => /\ Take(Go(parser, s)) => Evident
                                         /\ Reexecute(Go(parser, s)) => Evident
<1> SUFFICES ASSUME NEW s, s \notin HeaderStates
             PROVE  /\ Take(Go(parser, s)) => Evident
                    /\ Reexecute(Go(parser, s)) => Evident
  OBVIOUS
<1>1. Shaped(Go(parser, s)) /\ Go(parser, s).state = s /\ Go(parser, s).flags = parser.flags
  BY GoIs
<1>2. Spelled(wire, Go(parser, s), exec.p) /\ Spelled(wire, Go(parser, s), exec.p + 1)
  BY <1>1, SpelledElsewhere
<1> QED  BY <1>1, <1>2, OwedNothing, EvidentOn, EvidentAgain

\* A name that was read is the one it is remembered as.
NameIs(w, n, p, h) ==
  \A g \in DOMAIN NamesOf :
    h = g <=> \E name \in NamesOf[g] : p = n + Len(name) /\ Spells(w, n, name, Len(name))

\* What a name may leave, and that it means something only when it is complete.
LEMMA AfterIn ==
  ASSUME NEW m \in NameMatchers, NEW k \in Nat \ {0}
  PROVE  /\ After(m, k) \in NameLeaves
         /\ After(m, k) \in DOMAIN NamesOf => k = Size(m)
<1>1. CASE k = Size(m)
  BY <1>1, AfterAll, NameMatcherFacts DEF NameLeaves
<1>2. CASE k # Size(m) /\ m \in Twins /\ k <= 3
  <2>1. After(m, k) \in {"h_C", "h_CO", "h_CON"}
    BY <1>2, AfterTwin
  <2> QED  BY <2>1, NameMatcherFacts DEF NameLeaves
<1>3. CASE k # Size(m) /\ ~(m \in Twins /\ k <= 3)
  <2>1. After(m, k) = m
    BY <1>3, AfterSome
  <2> QED  BY <2>1, NameMatcherFacts DEF NameLeaves, NameMatchers
<1> QED  BY <1>1, <1>2, <1>3

\* At its colon a name is known if and only if it is spelled.
LEMMA NameKnown ==
  ASSUME NEW w, NEW p \in Nat, NEW n \in 1 .. p - 1, NEW h, NEW i, ReadAs(w, n, p - n, h, i)
  PROVE  h \in NameLeaves /\ NameIs(w, n, p, h)
<1> DEFINE k == p - n
<1>1. k \in Nat \ {0} /\ p = n + k /\ n \in Nat
  OBVIOUS
<1>2. ReadAs(w, n, k, h, i)
  OBVIOUS
<1> HIDE DEF k
<1>3. ASSUME h # "h_general"
      PROVE  \E m \in NameMatchers : Spells(w, n, Word(m), k) /\ h = After(m, k)
  BY <1>2, <1>3 DEF ReadAs
<1>4. h \in NameLeaves
  BY <1>1, <1>3, AfterIn DEF NameLeaves
<1>5. ASSUME NEW g \in DOMAIN NamesOf, h = g
      PROVE  \E name \in NamesOf[g] : p = n + Len(name) /\ Spells(w, n, name, Len(name))
  <2>1. h # "h_general"
    BY <1>5, NameMatcherFacts
  <2>2. PICK m \in NameMatchers : Spells(w, n, Word(m), k) /\ h = After(m, k)
    BY <1>3, <2>1
  <2>3. k = Size(m) /\ k = Len(Word(m))
    BY <1>1, <1>5, <2>2, AfterIn DEF Size
  <2>4. Word(m) \in NamesOf[g]
    <3>1. Matcher[m].found = g
      BY <1>5, <2>2, <2>3, AfterAll
    <3>2. Word(m) \in NamesOf[Matcher[m].found]
      BY NameMatcherFacts
    <3> QED  BY <3>1, <3>2
  <2> QED  BY <1>1, <2>2, <2>3, <2>4, Zenon
<1>6. ASSUME NEW g \in DOMAIN NamesOf, NEW name \in NamesOf[g],
             p = n + Len(name), Spells(w, n, name, Len(name))
      PROVE  h = g
  <2>1. PICK m \in NameMatchers : Word(m) = name /\ Matcher[m].found = g
    BY NameMatcherFacts
  <2>2. Size(m) = Len(name) /\ Size(m) \in Nat
    BY <2>1, NameMatcherFacts DEF Size
  <2>3. k = Size(m)
    <3> DEFINE l == Len(name)
               y == Size(m)
    <3>1. p = n + l /\ y = l /\ y \in Nat
      BY <1>6, <2>2
    <3> HIDE DEF l, y
    <3> QED  BY <1>1, <3>1 DEF y
  <2>4. Spells(w, n, Word(m), k)
    BY <1>6, <2>1, <2>2, <2>3
  <2>5. h = After(m, k)
    BY <1>2, <2>4 DEF ReadAs
  <2> QED  BY <2>1, <2>3, <2>5, AfterAll
<1> QED  BY <1>4, <1>5, <1>6 DEF NameIs

\* The first letter of a name, or the end of the header.
LEMMA FieldStartEvident ==
  ASSUME Good(parser), SpellInv, HeaderFieldStart
  PROVE  Evident
<1> DEFINE q == [parser EXCEPT !.state = "s_header_field", !.index = 0,
                               !.header_state = NameStart(LOWER(Byte))]
           p == exec.p
           w == wire
<1>1. /\ Shaped(parser) /\ LocalsShaped(exec) /\ p \in Nat /\ Byte = w[p + 1]
      /\ parser.state = "s_header_field_start" /\ Spelled(w, parser, p)
  BY DEF Good, SpellInv, LocalsShaped, HeaderFieldStart, At, Byte
<1>2. p > 0 /\ w[p] = LF
  BY <1>1 DEF Spelled, LineEnds
<1>3. "s_headers_almost_done" \notin HeaderStates
  BY DEF HeaderStates, DiscardStates, ValueStates
<1>4. CASE TOKEN(Byte) /\ TakeMarked(q, "field")
  <2>1. /\ Shaped(q) /\ q.state = "s_header_field" /\ q.index = 0
        /\ q.header_state = NameStart(LOWER(Byte)) /\ q.flags = parser.flags
    BY <1>1 DEF Shaped, Fields
  <2> HIDE DEF q
  <2>2. ReadAs(w, p, 1, q.header_state, q.index)
    BY <1>1, <2>1, FirstReads
  <2>3. NameRead(w, q, p + 1)
    <3>1. p \in 1 .. (p + 1) - 1 /\ (p + 1) - p = 1
      BY <1>1, <1>2
    <3>2. \A i \in p + 1 .. p + 1 : TOKEN(w[i])
      BY <1>1, <1>4
    <3> HIDE DEF p, w
    <3>3. ReadAs(w, p, (p + 1) - p, q.header_state, q.index)
      BY <2>2, <3>1
    <3> QED  BY <1>2, <3>1, <3>2, <3>3, Zenon DEF NameRead
  <2>4. Spelled(w, q, p + 1)
    BY <2>1, <2>3 DEF Spelled, LineEnds, BeforeValue, InsideValue, DiscardStates, ValueStates
  <2> QED  BY <1>1, <1>4, <2>1, <2>4, OwedNothing, EvidentOn
<1>5. CASE Fail(parser, "INVALID_HEADER_TOKEN")
  BY <1>1, <1>5, OwedNothing, EvidentAgain
<1>6. CASE Take(Go(parser, "s_headers_almost_done")) \/ Reexecute(Go(parser, "s_headers_almost_done"))
  BY <1>1, <1>3, <1>6, AwayEvident
<1> QED  BY <1>4, <1>5, <1>6 DEF HeaderFieldStart

\* A letter of a name leaves the parser in the name.
LEMMA NameLetterIs ==
  ASSUME NEW STATE q, Shaped(q), NEW ch
  PROVE  LET r == NameLetter(q, ch)
         IN Shaped(r) /\ r.state = q.state /\ r.flags = q.flags
<1> DEFINE h == q.header_state
           c == LOWER(ch)
           r == NameLetter(q, ch)
           j == q.index + 1
           Is(x) == Shaped(x) /\ x.state = q.state /\ x.flags = q.flags
<1>1. j \in Nat
  BY DEF Shaped
<1>2. \A s : Is([q EXCEPT !.index = j, !.header_state = s]) /\ Is([q EXCEPT !.header_state = s])
  <2> HIDE DEF j
  <2> QED  BY <1>1 DEF Shaped, Fields
<1>3. h \in DOMAIN Shared => h \notin DOMAIN Matcher
  BY WordLengths DEF Shared
<1>4. \/ r = [q EXCEPT !.index = j,
                      !.header_state = IF c \in DOMAIN Shared[h] THEN Shared[h][c] ELSE "h_general"]
      \/ r = Match(q, c) \/ r = [q EXCEPT !.header_state = "h_general"]
  BY <1>3, Zenon DEF NameLetter
<1>5. Is(Match(q, c))
  <2>1. PICK s : Match(q, c) = [q EXCEPT !.index = j, !.header_state = s]
    BY Zenon DEF Match
  <2>2. Is([q EXCEPT !.index = j, !.header_state = s])
    BY <1>2
  <2> HIDE DEF Is, j
  <2> QED  BY <2>1, <2>2, Zenon
<1> HIDE DEF Is
<1>6. Is(r)
  BY <1>2, <1>4, <1>5, Zenon
<1> QED  BY <1>6 DEF Is

\* A letter of a name, and its colon.
LEMMA FieldEvident ==
  ASSUME Good(parser), SpellInv, HeaderField
  PROVE  Evident
<1> DEFINE p == exec.p
           w == wire
<1>1. /\ Shaped(parser) /\ LocalsShaped(exec) /\ p \in Nat /\ Byte = w[p + 1]
      /\ parser.state = "s_header_field" /\ Spelled(w, parser, p)
  BY DEF Good, SpellInv, LocalsShaped, HeaderField, At, Byte
<1>2. PICK n \in 1 .. p - 1 :
        /\ w[n] = LF /\ \A i \in n + 1 .. p : TOKEN(w[i])
        /\ ReadAs(w, n, p - n, parser.header_state, parser.index)
  BY <1>1, Zenon DEF Spelled, NameRead
<1>3. CASE TOKEN(Byte) /\ Take(NameLetter(parser, Byte))
  <2> DEFINE r == NameLetter(parser, Byte)
             k == p - n
  <2>1. /\ Shaped(r) /\ r.state = "s_header_field" /\ r.flags = parser.flags
    BY <1>1, NameLetterIs
  <2>2. k \in Nat \ {0} /\ p = n + k /\ p + 1 = n + (k + 1) /\ n \in Nat /\ n \in 1 .. (p + 1) - 1
        /\ (p + 1) - n = k + 1
    BY <1>1
  <2> HIDE DEF k, r
  <2>3. ReadAs(w, n, k + 1, r.header_state, r.index)
    <3>1. ReadAs(w, n, k, parser.header_state, parser.index)
      BY <1>2 DEF k
    <3>2. r = NameLetter(parser, w[n + (k + 1)])
      BY <1>1, <2>2 DEF r
    <3> QED  BY <1>1, <2>2, <3>1, <3>2, LetterReads
  <2>4. \A i \in n + 1 .. p + 1 : TOKEN(w[i])
    <3> TAKE i \in n + 1 .. p + 1
    <3>1. i \in n + 1 .. p \/ i = p + 1
      BY <1>1
    <3> QED  BY <1>1, <1>2, <1>3, <3>1
  <2>5. NameRead(w, r, p + 1)
    <3> HIDE DEF p, w
    <3>1. ReadAs(w, n, (p + 1) - n, r.header_state, r.index)
      BY <2>2, <2>3
    <3> QED  BY <1>2, <2>2, <2>4, <3>1, Zenon DEF NameRead
  <2>6. Spelled(w, r, p + 1)
    BY <2>1, <2>5 DEF Spelled, LineEnds, BeforeValue, InsideValue, DiscardStates, ValueStates
  <2> QED  BY <1>1, <1>3, <2>1, <2>6, OwedNothing, EvidentOn DEF r
<1>4. CASE Byte = ":" /\ Report(Go(parser, "s_header_value_discard_ws"))
  <2> DEFINE q == Go(parser, "s_header_value_discard_ws")
             c == p + 1
             h == parser.header_state
  <2>1. /\ Shaped(q) /\ q.state = "s_header_value_discard_ws" /\ q.flags = parser.flags
        /\ q.header_state = h
    BY <1>1 DEF Shaped, Fields, Go
  <2> HIDE DEF q
  <2>2. h \in NameLeaves /\ NameIs(w, n, p, h)
    BY <1>1, <1>2, NameKnown
  <2>3. ASSUME h \in DOMAIN NamesOf
        PROVE  InField(w, NamesOf[h], c, c) /\ Blank(w, c, c)
    <3>1. PICK name \in NamesOf[h] : p = n + Len(name) /\ Spells(w, n, name, Len(name))
      BY <2>2, <2>3 DEF NameIs
    <3> DEFINE l == Len(name)
    <3>2. l \in Nat
      <4>1. PICK m \in NameMatchers : Word(m) = name
        BY <2>3, NameMatcherFacts
      <4> QED  BY <4>1, NameMatcherFacts DEF Size
    <3>3. p = n + l /\ Spells(w, n, name, l)
      BY <3>1
    <3>4. c > l + 1 /\ c - 1 - l = n
      <4> HIDE DEF l
      <4> QED  BY <1>1, <3>2, <3>3
    <3>5. \A i \in c + 1 .. c - 1 : w[i] = LF => w[i + 1] = SP
      BY <1>1
    <3>6. w[c] = ":"
      BY <1>1, <1>4
    <3>7. InField(w, NamesOf[h], c, c)
      <4> HIDE DEF p, w, c
      <4> QED  BY <1>2, <3>3, <3>4, <3>5, <3>6, Zenon DEF InField, l
    <3>8. Blank(w, c, c)
      BY <1>1, BlankNone
    <3> QED  BY <3>7, <3>8
  <2>4. c \in 1 .. c /\ c > 0 /\ w[c] # LF
    <3>1. ":" # LF
      BY DEF LF
    <3> QED  BY <1>1, <1>4, <3>1
  <2> HIDE DEF c, p, w, h
  <2>5. BeforeValue(w, q, c)
    BY <2>1, <2>2, <2>3, <2>4, Zenon DEF BeforeValue
  <2>6. Spelled(w, q, c)
    BY <2>1, <2>4, <2>5 DEF Spelled, LineEnds, NameRead, InsideValue, ValueStates
  <2> QED  BY <1>1, <1>4, <2>1, <2>6, OwedNothing, EvidentOn DEF q, c, p, w
<1>5. CASE Fail(parser, "INVALID_HEADER_TOKEN")
  BY <1>1, <1>5, OwedNothing, EvidentAgain
<1> QED  BY <1>3, <1>4, <1>5 DEF HeaderField

\* What the first letter of a value may lead to.
LEMMA StartIs ==
  ASSUME StartValue
  PROVE  LET h == parser.header_state
             q == [parser EXCEPT !.state = "s_header_value", !.index = 0]
             to(s) == [q EXCEPT !.header_state = s]
         IN \/ /\ h = "h_upgrade"
               /\ TakeMarked([q EXCEPT !.flags = @ \cup {"UPGRADE"}, !.header_state = "h_general"], "value")
            \/ /\ h = "h_transfer_encoding" /\ LOWER(Byte) = "c"
               /\ TakeMarked(to("h_matching_transfer_encoding_chunked"), "value")
            \/ h = "h_content_length" /\ Fail(q, "INVALID_CONTENT_LENGTH")
            \/ h = "h_connection" /\ TakeMarked(to(WordStart(LOWER(Byte))), "value")
            \/ h \in {"h_matching_connection_token_start", "h_content_length"} /\ TakeMarked(q, "value")
            \/ TakeMarked(to("h_general"), "value")
BY Zenon DEF StartValue

\* The first letter of a value: the name before it is known, and nothing but blanks
\* follows its colon; or it is a blank that continues the value of the last line.
LEMMA StartValueEvident ==
  ASSUME Good(parser), SpellInv, StartValue,
         \/ parser.state = "s_header_value_discard_ws" /\ Byte \notin Skipped
         \/ parser.state = "s_header_value_start"
  PROVE  Evident
<1> DEFINE h == parser.header_state
           p == exec.p
           w == wire
           c1 == LOWER(Byte)
           q == [parser EXCEPT !.state = "s_header_value", !.index = 0]
           u == [q EXCEPT !.flags = @ \cup {"UPGRADE"}, !.header_state = "h_general"]
           to(s) == [q EXCEPT !.header_state = s]
<1>1. /\ Shaped(parser) /\ LocalsShaped(exec) /\ p \in Nat /\ Byte = w[p + 1] /\ Spelled(w, parser, p)
  BY DEF Good, SpellInv, LocalsShaped, Byte
<1>2. /\ Shaped(q) /\ q.state = "s_header_value" /\ q.index = 0 /\ q.header_state = h
      /\ q.flags = parser.flags
  BY <1>1 DEF Shaped, Fields
<1>3. /\ Shaped(u) /\ u.state = "s_header_value" /\ u.header_state = "h_general"
      /\ u.flags = parser.flags \cup {"UPGRADE"}
  BY <1>1 DEF Shaped, Fields
<1>4. \A s : /\ Shaped(to(s)) /\ to(s).state = "s_header_value" /\ to(s).header_state = s
             /\ to(s).index = 0 /\ to(s).flags = parser.flags
  <2> HIDE DEF q
  <2> QED  BY <1>2, InState
<1>5. Byte # LF /\ p > 0
  <2>1. SP # LF
    BY Zenon DEF SP, LF
  <2> QED  BY <1>1, <2>1 DEF Skipped, Spelled, LineEnds
<1>6. p + 1 \in Nat /\ p + 1 > 0
  BY <1>1
<1> HIDE DEF q, u, to, w, p
<1>7. ASSUME NEW STATE x, Shaped(x), x.state = "s_header_value", InsideValue(w, x, p + 1), Owed(x),
             TakeMarked(x, "value")
      PROVE  Evident
  <2>1. Spelled(w, x, p + 1)
    BY <1>1, <1>5, <1>6, <1>7, SpelledInside
  <2> QED  BY <1>1, <1>7, <2>1, EvidentOn DEF w, p
<1>8. CASE TakeMarked(to("h_general"), "value")
  <2> DEFINE x == to("h_general")
  <2>1. Shaped(x) /\ x.state = "s_header_value" /\ x.header_state = "h_general" /\ x.flags = parser.flags
    BY <1>4
  <2> HIDE DEF x
  <2>2. InsideValue(w, x, p + 1)
    BY <2>1, InsideNothing
  <2> QED  BY <1>7, <1>8, <2>1, <2>2, OwedNothing DEF x
<1>9. CASE h = "h_content_length" /\ Fail(q, "INVALID_CONTENT_LENGTH")
  <2>1. InsideValue(w, q, p)
    BY <1>2, <1>9, InsideNothing
  <2>2. Spelled(w, q, p)
    BY <1>1, <1>2, <1>9, <2>1, SpelledInside
  <2> QED  BY <1>1, <1>2, <1>9, <2>2, OwedNothing, EvidentAgain DEF w, p
<1>10. CASE h = "h_content_length" /\ TakeMarked(q, "value")
  <2>1. InsideValue(w, q, p + 1)
    BY <1>2, <1>10, InsideNothing
  <2> QED  BY <1>2, <1>7, <1>10, <2>1, OwedNothing
<1>11. CASE parser.state = "s_header_value_discard_ws" /\ Byte \notin Skipped
  <2>1. h \in NameLeaves /\ w[p] # LF
    BY <1>1, <1>11 DEF Spelled, LineEnds, BeforeValue, DiscardStates
  <2>2. ASSUME h \in DOMAIN NamesOf
        PROVE  \E c \in 1 .. p : /\ InField(w, NamesOf[h], c, p + 1) /\ Blank(w, c, p)
                                 /\ c \in Nat /\ c \in 1 .. p + 1 /\ c \in 0 .. p
    <3>1. PICK c \in 1 .. p : InField(w, NamesOf[h], c, p) /\ Blank(w, c, p)
      BY <1>1, <1>11, <2>2, Zenon DEF Spelled, BeforeValue, DiscardStates
    <3>2. InField(w, NamesOf[h], c, p + 1)
      BY <1>1, <2>1, <3>1, InFieldOn
    <3> QED  BY <1>1, <3>1, <3>2
  <2>3. CASE h = "h_upgrade" /\ TakeMarked(u, "value")
    <3>1. PICK c \in 1 .. p : InField(w, NamesOf[h], c, p + 1) /\ Blank(w, c, p)
      BY <2>2, <2>3, NameMatcherFacts
    <3>2. NamesOf[h] = {UPGRADE}
      BY <2>3 DEF NamesOf
    <3>3. CalledFor("UPGRADE")
      BY <1>11, <3>1, <3>2, Zenon DEF CalledFor, w, p
    <3>4. Owed(u)
      BY <1>3, <3>3 DEF Owed
    <3>5. InsideValue(w, u, p + 1)
      BY <1>3, InsideNothing
    <3> QED  BY <1>3, <1>7, <2>3, <3>4, <3>5
  <2>4. CASE h = "h_transfer_encoding" /\ c1 = "c" /\ TakeMarked(to(ChunkedMatcher), "value")
    <3>1. PICK c \in 1 .. p : /\ InField(w, NamesOf[h], c, p + 1) /\ Blank(w, c, p)
                              /\ c \in Nat /\ c \in 1 .. p + 1 /\ c \in 0 .. p
      BY <2>2, <2>4, NameMatcherFacts
    <3>2. NamesOf[h] = {TRANSFER_ENCODING}
      BY <2>4 DEF NamesOf
    <3> DEFINE x == to(ChunkedMatcher)
    <3>3. /\ Shaped(x) /\ x.state = "s_header_value" /\ x.header_state = ChunkedMatcher
          /\ x.index = 0 /\ x.flags = parser.flags
      BY <1>4
    <3>4. Len(CHUNKED) = 7 /\ CHUNKED[1] = "c"
      BY DEF CHUNKED
    <3> HIDE DEF x
    <3>5. Partly(w, c, CHUNKED, 1, p + 1)
      BY <1>1, <2>4, <3>1, <3>4, PartlyFirst
    <3>6. Partly(w, c, CHUNKED, x.index + 1, p + 1)
      BY <3>3, <3>5
    <3>7. InsideValue(w, x, p + 1)
      BY <1>6, <3>1, <3>2, <3>3, <3>6, EncodingLands
    <3> QED  BY <1>7, <2>4, <3>3, <3>7, OwedNothing DEF x
  <2>5. CASE h = "h_connection" /\ TakeMarked(to(WordStart(c1)), "value")
    <3>1. PICK c \in 1 .. p : /\ InField(w, NamesOf[h], c, p + 1) /\ Blank(w, c, p)
                              /\ c \in Nat /\ c \in 1 .. p + 1 /\ c \in 0 .. p
      BY <2>2, <2>5, NameMatcherFacts
    <3>2. NamesOf[h] = Connections
      BY <2>5 DEF NamesOf, Connections
    <3> DEFINE m == WordStart(c1)
               x == to(m)
    <3>3. /\ Shaped(x) /\ x.state = "s_header_value" /\ x.header_state = m
          /\ x.index = 0 /\ x.flags = parser.flags
      BY <1>4
    <3>4. m \in ListMatchers \/ m = "h_matching_connection_token"
      BY WordStarts
    <3>5. m \in ListMatchers => Word(m)[1] = c1 /\ Size(m) \in 5 .. 17
      BY WordStarts, WordLengths, ValueFacts DEF Size, Word
    <3> HIDE DEF x, m
    <3>6. m \in ListMatchers => Partly(w, c, Word(m), x.index + 1, p + 1)
      <4>1. m \in ListMatchers => Partly(w, c, Word(m), 1, p + 1)
        BY <1>1, <3>1, <3>5, PartlyFirst DEF Size
      <4> QED  BY <3>3, <4>1
    <3>7. Starts(w, c, c) /\ c \in c .. p + 1
      BY <1>1, <3>1 DEF Starts
    <3>8. InsideValue(w, x, p + 1)
      BY <1>6, <3>1, <3>2, <3>3, <3>4, <3>6, <3>7, ListLands
    <3> QED  BY <1>7, <2>5, <3>3, <3>8, OwedNothing DEF x, m
  <2>6. h # "h_matching_connection_token_start"
    BY <2>1, NameMatcherFacts DEF NameLeaves, NameMatchers
  <2> QED  BY <1>8, <1>9, <1>10, <2>3, <2>4, <2>5, <2>6, StartIs DEF q, u, to, ChunkedMatcher
<1>12. CASE parser.state = "s_header_value_start"
  <2>1. /\ InsideValue(w, parser, p) /\ parser.state \in ValueStates /\ w[p + 1] = SP
        /\ h \notin {"h_upgrade", "h_transfer_encoding", "h_connection"}
    BY <1>1, <1>12, ValueFacts
    DEF Spelled, LineEnds, InsideValue, ValueStates, ListStates, ListMatchers, ChunkedStates, ChunkedMatcher
  <2>2. CASE h = "h_matching_connection_token_start" /\ TakeMarked(q, "value")
    <3>1. w[p + 1] \in Skipped
      BY <2>1 DEF Skipped
    <3>2. h \notin ListMatchers \cup {ChunkedMatcher}
      BY <2>2 DEF ListMatchers, ChunkedMatcher
    <3>3. InsideValue(w, q, p + 1)
      BY <1>1, <1>2, <2>1, <3>1, <3>2, InsideOn
    <3> QED  BY <1>2, <1>7, <2>2, <3>3, OwedNothing
  <2> QED  BY <1>8, <1>9, <1>10, <2>1, <2>2, StartIs DEF q, u, to
<1> QED  BY <1>11, <1>12

\* Before the value, a blank or a line end that is continued.
LEMMA BeforeOn ==
  ASSUME NEW w, NEW STATE q, NEW STATE r, NEW p \in Nat, BeforeValue(w, q, p), q.state \in DiscardStates,
         r.header_state = q.header_state, w[p + 1] \in Skipped, w[p] = LF => w[p + 1] = SP
  PROVE  BeforeValue(w, r, p + 1)
<1> DEFINE h == q.header_state
<1>1. h \in NameLeaves
  BY DEF BeforeValue
<1>2. ASSUME h \in DOMAIN NamesOf
      PROVE  \E c \in 1 .. p + 1 : InField(w, NamesOf[h], c, p + 1) /\ Blank(w, c, p + 1)
  <2>1. PICK c \in 1 .. p : InField(w, NamesOf[h], c, p) /\ Blank(w, c, p)
    BY <1>2, Zenon DEF BeforeValue
  <2>2. c \in Nat /\ c <= p /\ c \in 1 .. p + 1
    OBVIOUS
  <2>3. Blank(w, c, p + 1)
    BY <2>1, <2>2, BlankOn
  <2>4. InField(w, NamesOf[h], c, p + 1)
    BY <2>1, InFieldOn
  <2> QED  BY <2>2, <2>3, <2>4
<1> QED  BY <1>1, <1>2, Zenon DEF BeforeValue

\* Before the value.
LEMMA DiscardWsEvident ==
  ASSUME Good(parser), SpellInv, HeaderValueDiscardWs
  PROVE  Evident
<1> DEFINE p == exec.p
           w == wire
<1>1. /\ Shaped(parser) /\ LocalsShaped(exec) /\ p \in Nat /\ Byte = w[p + 1] /\ Spelled(w, parser, p)
      /\ parser.state = "s_header_value_discard_ws" /\ parser.state \in DiscardStates
  BY DEF Good, SpellInv, LocalsShaped, Byte, HeaderValueDiscardWs, At, DiscardStates
<1>2. p + 1 > 0 /\ w[p] # LF /\ BeforeValue(w, parser, p)
  BY <1>1 DEF Spelled, LineEnds
<1>3. SP # LF /\ CR # LF
  BY Zenon DEF SP, CR, LF
<1>4. ASSUME NEW STATE r, Shaped(r), r.header_state = parser.header_state, r.flags = parser.flags,
             Byte \in Skipped,
             \/ r.state = "s_header_value_discard_ws" /\ Byte # LF
             \/ r.state = "s_header_value_discard_ws_almost_done" /\ Byte # LF
             \/ r.state = "s_header_value_discard_lws" /\ Byte = LF,
             Take(r)
      PROVE  Evident
  <2>1. BeforeValue(w, r, p + 1)
    BY <1>1, <1>2, <1>4, BeforeOn
  <2>2. Spelled(w, r, p + 1)
    BY <1>1, <1>2, <1>4, <2>1 DEF Spelled, LineEnds, NameRead, InsideValue, ValueStates
  <2> QED  BY <1>1, <1>4, <2>2, OwedNothing, EvidentOn
<1>5. CASE Byte = SP /\ Take(parser)
  BY <1>1, <1>3, <1>4, <1>5 DEF Skipped
<1>6. CASE Byte = CR /\ Take(Go(parser, "s_header_value_discard_ws_almost_done"))
  BY <1>1, <1>3, <1>4, <1>6, GoIs DEF Skipped
<1>7. CASE Byte = LF /\ Take(Go(parser, "s_header_value_discard_lws"))
  BY <1>1, <1>4, <1>7, GoIs DEF Skipped
<1>8. CASE Byte \notin Skipped /\ StartValue
  BY <1>1, <1>8, StartValueEvident
<1>9. \/ Byte = SP /\ Take(parser)
      \/ Byte = CR /\ Take(Go(parser, "s_header_value_discard_ws_almost_done"))
      \/ Byte = LF /\ Take(Go(parser, "s_header_value_discard_lws"))
      \/ Byte \notin Skipped /\ StartValue
  BY Zenon DEF HeaderValueDiscardWs, Skipped, SP
<1> QED  BY <1>5, <1>6, <1>7, <1>8, <1>9

\* A value that starts on a continued line.
LEMMA ValueStartEvident ==
  ASSUME Good(parser), SpellInv, HeaderValueStart
  PROVE  Evident
BY StartValueEvident DEF HeaderValueStart, At

\* The letters of a value, and its end.
LEMMA ValueEvident ==
  ASSUME Good(parser), SpellInv, HeaderValue
  PROVE  Evident
<1> DEFINE p == exec.p
           w == wire
           q == Go(parser, "s_header_almost_done")
<1>1. /\ Shaped(parser) /\ LocalsShaped(exec) /\ p \in Nat /\ Byte = w[p + 1] /\ Spelled(w, parser, p)
      /\ parser.state = "s_header_value" /\ parser.state \in ValueStates
  BY DEF Good, SpellInv, LocalsShaped, Byte, HeaderValue, At, ValueStates
<1>2. /\ parser.header_state # "h_content_length" => p > 0 /\ w[p] # LF
      /\ InsideValue(w, parser, p)
  BY <1>1 DEF Spelled, LineEnds
<1>3. /\ Shaped(q) /\ q.state = "s_header_almost_done" /\ q.header_state = parser.header_state
      /\ q.flags = parser.flags
  BY <1>1, GoIs
<1> HIDE DEF q
<1>4. CASE Byte = CR /\ Report(q)
  <2>1. CR \in Skipped /\ CR # LF
    BY Zenon DEF Skipped, CR, LF
  <2>2. InsideValue(w, q, p + 1)
    BY <1>1, <1>2, <1>3, <1>4, <2>1, InsideOn
  <2>3. Spelled(w, q, p + 1)
    <3>1. p + 1 \in Nat /\ p + 1 > 0 /\ w[p + 1] # LF
      BY <1>1, <1>4, <2>1
    <3> HIDE DEF p, w
    <3> QED  BY <1>3, <2>2, <3>1, SpelledInside
  <2> QED  BY <1>1, <1>3, <1>4, <2>3, OwedNothing, EvidentOn
<1>5. CASE Byte = LF /\ ReportAgain(q)
  <2>1. InsideValue(w, q, p)
    BY <1>1, <1>2, <1>3, InsideStays
  <2>2. Spelled(w, q, p)
    BY <1>1, <1>2, <1>3, <2>1, SpelledInside
  <2> QED  BY <1>1, <1>3, <1>5, <2>2, OwedNothing, EvidentAgain
<1>6. CASE Fail(parser, "INVALID_CONTENT_LENGTH")
  BY <1>1, <1>6, OwedNothing, EvidentAgain
<1>7. CASE Byte \notin {CR, LF} /\ Take(ValueLetter(parser, Byte))
  <2> DEFINE r == ValueLetter(parser, Byte)
  <2>1. Shaped(r) /\ Spelled(w, r, p + 1) /\ Owed(r)
    BY <1>1, <1>7, ValueLetterSpelled DEF Owed
  <2> QED  BY <1>1, <1>7, <2>1, EvidentOn
<1>8. \/ Byte = CR /\ Report(q)
      \/ Byte = LF /\ ReportAgain(q)
      \/ Fail(parser, "INVALID_CONTENT_LENGTH")
      \/ Byte \notin {CR, LF} /\ Take(ValueLetter(parser, Byte))
  BY Zenon DEF HeaderValue, q
<1> QED  BY <1>4, <1>5, <1>6, <1>7, <1>8

\* The LF of a line.
LEMMA AlmostDoneEvident ==
  ASSUME Good(parser), SpellInv, AlmostDone
  PROVE  Evident
<1> DEFINE p == exec.p
           w == wire
           q == Go(parser, ExpectLf[parser.state])
<1>1. /\ Shaped(parser) /\ LocalsShaped(exec) /\ p \in Nat /\ Byte = w[p + 1] /\ Spelled(w, parser, p)
      /\ parser.state \in {"s_header_almost_done", "s_header_value_discard_ws_almost_done",
                           "s_headers_almost_done"}
  BY DEF Good, SpellInv, LocalsShaped, Byte, AlmostDone, At, ExpectLf
<1>2. /\ Shaped(q) /\ q.state = ExpectLf[parser.state] /\ q.header_state = parser.header_state
      /\ q.flags = parser.flags
  BY <1>1, GoIs
<1>3. /\ ExpectLf["s_header_almost_done"] = "s_header_value_lws"
      /\ ExpectLf["s_header_value_discard_ws_almost_done"] = "s_header_value_discard_lws"
      /\ ExpectLf["s_headers_almost_done"] = "s_headers_done"
  BY DEF ExpectLf
<1>4. LF \in Skipped /\ p + 1 > 0
  BY <1>1 DEF Skipped
<1> HIDE DEF q
<1>5. ASSUME Byte = LF PROVE Spelled(w, q, p + 1)
  <2>1. CASE parser.state = "s_header_almost_done"
    <3>1. /\ parser.header_state # "h_content_length" => w[p] # LF
          /\ InsideValue(w, parser, p) /\ parser.state \in ValueStates
      BY <1>1, <2>1 DEF Spelled, LineEnds, ValueStates
    <3>2. InsideValue(w, q, p + 1)
      BY <1>1, <1>2, <1>3, <1>4, <1>5, <2>1, <3>1, InsideOn
    <3> QED  BY <1>1, <1>2, <1>3, <1>4, <1>5, <2>1, <3>2
             DEF Spelled, LineEnds, NameRead, BeforeValue, DiscardStates
  <2>2. CASE parser.state = "s_header_value_discard_ws_almost_done"
    <3>1. w[p] # LF /\ BeforeValue(w, parser, p) /\ parser.state \in DiscardStates
      BY <1>1, <2>2 DEF Spelled, LineEnds, DiscardStates
    <3>2. BeforeValue(w, q, p + 1)
      BY <1>1, <1>2, <1>4, <1>5, <3>1, BeforeOn
    <3> QED  BY <1>1, <1>2, <1>3, <1>4, <1>5, <2>2, <3>2
             DEF Spelled, LineEnds, NameRead, InsideValue, ValueStates
  <2>3. CASE parser.state = "s_headers_almost_done"
    <3>1. q.state \notin HeaderStates
      BY <1>2, <1>3, <2>3 DEF HeaderStates, DiscardStates, ValueStates
    <3> QED  BY <3>1, SpelledElsewhere
  <2> QED  BY <1>1, <2>1, <2>2, <2>3
<1>6. CASE Byte = LF /\ Take(q)
  BY <1>1, <1>2, <1>5, <1>6, OwedNothing, EvidentOn
<1>7. CASE Fail(parser, "STRICT")
  BY <1>1, <1>7, OwedNothing, EvidentAgain
<1> QED  BY <1>6, <1>7 DEF AlmostDone, q

\* After the line end: a blank goes on with the value, anything else ends it, and a word
\* that is complete sets its flag.
LEMMA ValueLwsEvident ==
  ASSUME Good(parser), SpellInv, HeaderValueLws
  PROVE  Evident
<1> DEFINE p == exec.p
           w == wire
           h == parser.header_state
           go == Go(parser, "s_header_value_start")
           q == WithFlag(parser)
           end == Go(q, "s_header_field_start")
<1>1. /\ Shaped(parser) /\ LocalsShaped(exec) /\ p \in Nat /\ Byte = w[p + 1] /\ Spelled(w, parser, p)
      /\ parser.state = "s_header_value_lws" /\ parser.state \in ValueStates
  BY DEF Good, SpellInv, LocalsShaped, Byte, HeaderValueLws, At, ValueStates
<1>2. p > 0 /\ w[p] = LF /\ InsideValue(w, parser, p)
  BY <1>1 DEF Spelled, LineEnds
<1>3. CASE Byte = SP /\ Reexecute(go)
  <2>1. /\ Shaped(go) /\ go.state = "s_header_value_start" /\ go.header_state = h
        /\ go.flags = parser.flags
    BY <1>1, GoIs
  <2> HIDE DEF go
  <2>2. InsideValue(w, go, p)
    BY <1>1, <1>2, <2>1, InsideStays
  <2>3. Spelled(w, go, p)
    BY <1>1, <1>2, <1>3, <2>1, <2>2 DEF Spelled, LineEnds, NameRead, BeforeValue, DiscardStates
  <2> QED  BY <1>1, <1>3, <2>1, <2>3, OwedNothing, EvidentAgain
<1>4. CASE Byte # SP /\ Reexecute(end)
  <2>1. /\ Shaped(q)
        /\ \A f \in q.flags \ parser.flags : h \in DOMAIN WordFlag /\ f \in WordFlag[h]
    BY <1>1, WithFlagIs
  <2> HIDE DEF q
  <2>2. Shaped(end) /\ end.state = "s_header_field_start" /\ end.flags = q.flags
    BY <2>1, GoIs
  <2> HIDE DEF end
  <2>3. Spelled(w, end, p)
    BY <1>1, <1>2, <2>2, SpelledAtStart
  <2>4. ASSUME NEW f \in q.flags \ parser.flags PROVE CalledFor(f)
    <3>1. h \in DOMAIN ListWords \/ h = "h_transfer_encoding_chunked"
      BY <2>1, <2>4, ValueFacts
    <3>2. CASE h \in DOMAIN ListWords
      <4>1. h \in ListStates /\ h # "h_matching_connection_token"
        BY <3>2, ValueFacts DEF ListStates
      <4>2. PICK c \in 1 .. p : /\ InField(w, Connections, c, p)
                                /\ \E s \in c .. p : Starts(w, c, s) /\ Wholly(w, s, ListWords[h], p)
        BY <1>1, <1>2, <3>2, <4>1, ListIs
      <4>3. f \in DOMAIN FlagWords /\ FlagWords[f] = ListWords[h]
        BY <2>1, <2>4, <3>2, WordFlags
      <4> QED  BY <1>2, <1>4, <4>2, <4>3, Zenon DEF CalledFor
    <3>3. CASE h = "h_transfer_encoding_chunked"
      <4>1. f = "CHUNKED" /\ h \in ChunkedStates
        BY <2>1, <2>4, <3>3, WordFlags DEF ChunkedStates
      <4>2. PICK c \in 1 .. p : InField(w, {TRANSFER_ENCODING}, c, p) /\ Wholly(w, c, CHUNKED, p)
        BY <1>1, <1>2, <3>3, <4>1, EncodingIs
      <4> QED  BY <1>2, <1>4, <4>1, <4>2, Zenon DEF CalledFor
    <3> QED  BY <3>1, <3>2, <3>3
  <2>5. Owed(end)
    BY <2>2, <2>4 DEF Owed
  <2> QED  BY <1>1, <1>4, <2>2, <2>3, <2>5, EvidentAgain
<1>5. (Byte = SP /\ Reexecute(go)) \/ (Byte # SP /\ Reexecute(end))
  BY Zenon DEF HeaderValueLws, SP
<1> QED  BY <1>3, <1>4, <1>5

\* An empty value: no word is complete.
LEMMA DiscardLwsEvident ==
  ASSUME Good(parser), SpellInv, DiscardLws
  PROVE  Evident
<1> DEFINE p == exec.p
           w == wire
           h == parser.header_state
           go == Go(parser, "s_header_value_discard_ws")
           q == WithFlag(parser)
           end == Go(q, "s_header_field_start")
<1>1. /\ Shaped(parser) /\ LocalsShaped(exec) /\ p \in Nat /\ Byte = w[p + 1] /\ Spelled(w, parser, p)
      /\ parser.state = "s_header_value_discard_lws" /\ parser.state \in DiscardStates
  BY DEF Good, SpellInv, LocalsShaped, Byte, DiscardLws, At, DiscardStates
<1>2. p > 0 /\ w[p] = LF /\ BeforeValue(w, parser, p)
  BY <1>1 DEF Spelled, LineEnds
<1>3. CASE Byte = SP /\ Take(go)
  <2>1. /\ Shaped(go) /\ go.state = "s_header_value_discard_ws" /\ go.header_state = h
        /\ go.flags = parser.flags
    BY <1>1, GoIs
  <2> HIDE DEF go
  <2>2. SP \in Skipped /\ SP # LF
    BY Zenon DEF Skipped, SP, LF
  <2>3. BeforeValue(w, go, p + 1)
    BY <1>1, <1>2, <1>3, <2>1, <2>2, BeforeOn
  <2>4. Spelled(w, go, p + 1)
    BY <1>1, <1>3, <2>1, <2>2, <2>3 DEF Spelled, LineEnds, NameRead, InsideValue, ValueStates
  <2> QED  BY <1>1, <1>3, <2>1, <2>4, OwedNothing, EvidentOn
<1>4. CASE Called(end, exec) /\ UNCHANGED wire
  <2>1. h \notin DOMAIN WordFlag
    BY <1>1, <1>2, ValueFacts, NameMatcherFacts DEF BeforeValue, NameLeaves, NameMatchers
  <2>2. Shaped(q) /\ \A f \in q.flags \ parser.flags : FALSE
    BY <1>1, <2>1, WithFlagIs
  <2> HIDE DEF q
  <2>3. Shaped(end) /\ end.state = "s_header_field_start" /\ end.flags = q.flags
    BY <2>2, GoIs
  <2> HIDE DEF end
  <2>4. Spelled(w, end, p) /\ Owed(end)
    BY <1>1, <1>2, <2>2, <2>3, SpelledAtStart DEF Owed
  <2> QED  BY <1>1, <1>4, <2>3, <2>4, EvidentAgain
<1>5. (Byte = SP /\ Take(go)) \/ (Called(end, exec) /\ UNCHANGED wire)
  BY Zenon DEF DiscardLws, SP
<1> QED  BY <1>3, <1>4, <1>5

-----------------------------------------------------------------------------
(* Every step *)

\* Who sets no flag owes none.
LEMMA KeptEvident ==
  ASSUME Kept
  PROVE  Evident
BY DEF Kept, Evident, Owed

\* All rounds of the header fields.
LEMMA HeaderEvident ==
  ASSUME Good(parser), SpellInv, HeaderRound
  PROVE  Evident
BY FieldStartEvident, FieldEvident, DiscardWsEvident, ValueStartEvident, ValueEvident, AlmostDoneEvident,
   ValueLwsEvident, DiscardLwsEvident DEF HeaderRound

\* The end of a buffer, a new one, and the end of a pause.
LEMMA OutsideEvident ==
  ASSUME Good(parser), SpellInv, EndOfBuffer \/ Unpause \/ \E n \in 1 .. Len(wire) : Execute(n)
  PROVE  Evident /\ parser'.state = parser.state
<1>1. /\ Shaped(parser) /\ LocalsShaped(exec) /\ Spelled(wire, parser, exec.p)
  BY DEF Good, SpellInv
<1>2. Shaped([parser EXCEPT !.errno = "PAUSED"])
  BY <1>1 DEF Shaped, Fields
<1>3. \A e : /\ [parser EXCEPT !.errno = e].state = parser.state
             /\ [parser EXCEPT !.errno = e].flags = parser.flags
  BY <1>1 DEF Shaped, Fields
<1>4. SpellStep(parser) => Evident
  BY DEF SpellStep, Evident, Owed
<1>5. CASE EndOfBuffer
  <2>1. LocalsShaped(Returned(exec)) /\ Returned(exec).p = exec.p
    BY <1>1 DEF LocalsShaped, Locals, Returned
  <2>2. SpellStep(parser)
    <3>1. CASE parser' = parser /\ exec' = Returned(exec) /\ wire' = wire
      BY <1>1, <2>1, <3>1 DEF SpellStep, SpellInv
    <3>2. CASE Called(parser, Returned(exec)) /\ wire' = wire
      BY <1>1, <2>1, <3>2, SpelledCalled
    <3> QED  BY <1>5, <3>1, <3>2 DEF EndOfBuffer, Deliver
  <2>3. parser'.state = parser.state
    BY <1>3, <1>5 DEF EndOfBuffer, Deliver, Called
  <2> QED  BY <1>4, <2>2, <2>3
<1>6. CASE Unpause
  <2>1. Spelled(wire, [parser EXCEPT !.errno = "OK"], exec.p)
    BY <1>1, SpelledErrno
  <2> QED  BY <1>1, <1>3, <1>4, <1>6, <2>1 DEF Unpause, SpellStep, SpellInv
<1>7. CASE \E n \in 1 .. Len(wire) : Execute(n)
  <2>1. PICK n \in 1 .. Len(wire) : Execute(n)
    BY <1>7
  <2> DEFINE l == exec.p + n
             m == IF parser.state \in DOMAIN Resumes THEN exec.p + 1 ELSE 0
             k == IF parser.state \in DOMAIN Resumes THEN Resumes[parser.state] ELSE exec.what
             x == [exec EXCEPT !.limit = l, !.running = TRUE, !.mark = m, !.what = k]
  <2>2. exec' = x /\ parser' = parser /\ wire' = wire
    BY <2>1 DEF Execute
  <2>3. LocalsShaped(x) /\ x.p = exec.p
    <3> HIDE DEF l, m, k
    <3> QED  BY <1>1 DEF LocalsShaped, Locals
  <2> HIDE DEF x
  <2> QED  BY <1>1, <1>4, <2>2, <2>3 DEF SpellStep, SpellInv
<1> QED  BY <1>5, <1>6, <1>7

\* Every step of the parser.
LEMMA StepEvident ==
  ASSUME MatchInv, SpellInv, [Next]_vars
  PROVE  Evident
<1>1. Good(parser) /\ Shaped(parser) /\ LocalsShaped(exec)
  BY DEF MatchInv, Good, SpellInv
<1>2. CASE StartLineRound
  BY <1>1, <1>2, StartLineKept, KeptEvident
<1>3. CASE HeaderRound
  BY <1>1, <1>3, HeaderEvident
<1>4. CASE EndOfBuffer \/ Unpause \/ \E n \in 1 .. Len(wire) : Execute(n)
  BY <1>1, <1>4, OutsideEvident
<1>5. CASE UNCHANGED vars
  BY <1>5 DEF vars, Evident, Owed, SpellInv
<1> QED  BY <1>2, <1>3, <1>4, <1>5 DEF Next

\* The name of a field, once it is read.
LEMMA NameStep ==
  ASSUME MatchInv, SpellInv, [Next]_vars, parser.state = "s_header_field", parser'.state # "s_header_field"
  PROVE  /\ Byte = ":"
         /\ \E n \in 1 .. exec.p - 1 :
              /\ wire[n] = LF /\ \A i \in n + 1 .. exec.p : TOKEN(wire[i])
              /\ NameIs(wire, n, exec.p, parser'.header_state)
<1>1. /\ Good(parser) /\ Shaped(parser) /\ SpellInv /\ exec.p \in Nat /\ Spelled(wire, parser, exec.p)
  BY DEF MatchInv, Good, SpellInv, LocalsShaped
<1>2. ~StartLineRound
  <2>1. "s_header_field" \in HeaderStates
    BY DEF HeaderStates
  <2> QED  BY <2>1, StartLineAway
<1>3. ~(EndOfBuffer \/ Unpause \/ \E n \in 1 .. Len(wire) : Execute(n))
  BY <1>1, OutsideEvident
<1>4. ~UNCHANGED vars
  BY DEF vars
<1>5. HeaderField
  <2>1. /\ ~HeaderFieldStart /\ ~HeaderValueDiscardWs /\ ~HeaderValueStart /\ ~HeaderValue
        /\ ~AlmostDone /\ ~HeaderValueLws /\ ~DiscardLws
    BY DEF HeaderFieldStart, HeaderValueDiscardWs, HeaderValueStart, HeaderValue, AlmostDone, ExpectLf,
           HeaderValueLws, DiscardLws, At
  <2> QED  BY <1>2, <1>3, <1>4, <2>1 DEF Next, HeaderRound
<1>6. \A e : [parser EXCEPT !.errno = e].state = parser.state
  BY <1>1 DEF Shaped, Fields
<1>7. ~Take(NameLetter(parser, Byte)) /\ ~Fail(parser, "INVALID_HEADER_TOKEN")
  <2>1. NameLetter(parser, Byte).state = parser.state
    BY <1>1, NameLetterIs
  <2>2. Take(NameLetter(parser, Byte)) => parser' = NameLetter(parser, Byte)
    BY Zenon DEF Take
  <2>3. Fail(parser, "INVALID_HEADER_TOKEN") => parser' = [parser EXCEPT !.errno = "INVALID_HEADER_TOKEN"]
    BY Zenon DEF Fail
  <2> QED  BY <1>6, <2>1, <2>2, <2>3, Zenon
<1> DEFINE q == Go(parser, "s_header_value_discard_ws")
<1>8. Byte = ":" /\ Report(q)
  BY <1>5, <1>7 DEF HeaderField
<1>9. Shaped(q) /\ q.header_state = parser.header_state
  BY <1>1, GoIs
<1>10. parser'.header_state = parser.header_state
  <2> HIDE DEF q
  <2>1. [q EXCEPT !.errno = "PAUSED"].header_state = q.header_state
    BY <1>9 DEF Shaped, Fields
  <2>2. parser' = q \/ parser' = [q EXCEPT !.errno = "PAUSED"]
    BY <1>8 DEF Report, Deliver, Called
  <2> QED  BY <1>9, <2>1, <2>2
<1>11. PICK n \in 1 .. exec.p - 1 :
        /\ wire[n] = LF /\ \A i \in n + 1 .. exec.p : TOKEN(wire[i])
        /\ ReadAs(wire, n, exec.p - n, parser.header_state, parser.index)
  BY <1>1, Zenon DEF Spelled, NameRead
<1>12. NameIs(wire, n, exec.p, parser.header_state)
  BY <1>1, <1>11, NameKnown
<1> QED  BY <1>8, <1>10, <1>11, <1>12

\* Where the parser is in a field, and what of it was read, fit each other and the text
\* behind it, however it is cut and wherever a callback pauses (http_parser.cpp:1290-1801).
THEOREM FieldsStaySpelled == Spec => [](MatchInv /\ SpellInv)
<1>1. Init => SpellInv
  <2> SUFFICES ASSUME Init PROVE SpellInv
    OBVIOUS
  <2>1. head.type \in {"REQUEST", "RESPONSE", "BOTH"}
    BY HeadsAssumption DEF Init
  <2>2. parser.state \in {"s_start_req", "s_start_res", "s_start_req_or_res"}
    BY <2>1 DEF Init
  <2>3. parser.state \notin HeaderStates
    BY <2>2 DEF HeaderStates, DiscardStates, ValueStates
  <2>4. LocalsShaped(exec)
    BY DEF Init, LocalsShaped, Locals
  <2> QED  BY <2>3, <2>4, SpelledElsewhere DEF SpellInv
<1>2. MatchInv /\ SpellInv /\ [Next]_vars => SpellInv'
  BY StepEvident DEF Evident
<1> QED  BY <1>1, <1>2, MatchersInvariant, PTL DEF Spec

\* A name is known if and only if it is spelled as one that means something, between a
\* line end and its colon (http_parser.cpp:1290-1467).
THEOREM NamesAreKnown == Spec => NamesKnown
<1>1. MatchInv /\ SpellInv /\ [Next]_vars =>
        [parser.state = "s_header_field" /\ parser'.state # "s_header_field" =>
           /\ Byte = ":"
           /\ \E n \in 1 .. exec.p - 1 :
                /\ wire[n] = LF /\ \A i \in n + 1 .. exec.p : TOKEN(wire[i])
                /\ \A h \in DOMAIN NamesOf :
                     parser'.header_state = h <=>
                       \E name \in NamesOf[h] :
                         exec.p = n + Len(name) /\ Spells(wire, n, name, Len(name))]_vars
  BY NameStep, Zenon DEF NameIs
<1> QED  BY <1>1, FieldsStaySpelled, PTL DEF Spec, NamesKnown

\* Every flag that the header fields set is called for by what was read
\* (http_parser.cpp:1469-1801).
THEOREM FlagsAreSpelled == Spec => FlagsSpelled
<1>1. MatchInv /\ SpellInv /\ [Next]_vars => [\A f \in parser'.flags \ parser.flags : CalledFor(f)]_vars
  BY StepEvident DEF Evident, Owed
<1> QED  BY <1>1, FieldsStaySpelled, PTL DEF Spec, FlagsSpelled

-----------------------------------------------------------------------------
(* The numbers of a start line *)

Numbers == {"http_major", "http_minor", "status_code"}

\* No number of a start line outgrows its 16 bits: a digit is added to one of at most
\* three digits, or the parser has stopped (http_parser.cpp:794-908, 1202-1278;
\* http_parser.h:226-228).
NumbersFit == \A f \in Numbers : parser[f] \in Nat /\ parser[f] < 65536

\* Numbers of three digits, and of four.
Three(v) == v \in Nat /\ v <= 999
Four(v) == v \in Nat /\ v <= 9999

\* After a digit too many the parser stops, and it never goes on from an error.
NumberInv ==
  /\ exec.running => parser.errno = "OK"
  /\ \A f \in Numbers : Four(parser[f]) /\ (parser.errno \in {"OK", "PAUSED"} => Three(parser[f]))

-----------------------------------------------------------------------------

\* A parser that has no error, and numbers of three digits.
Sound(q) == Shaped(q) /\ q.errno = "OK" /\ \A f \in Numbers : Three(q[f])

\* A digit is one of ten.
LEMMA DigitIs ==
  ASSUME NEW ch, IS_NUM(ch)
  PROVE  Digit(ch) \in 0 .. 9
<1>1. DOMAIN Decimal = 1 .. 10
  BY DEF Decimal
<1>2. \E i \in DOMAIN Decimal : Decimal[i] = ch
  BY DEF IS_NUM, Letters
<1>3. (CHOOSE i \in DOMAIN Decimal : Decimal[i] = ch) \in DOMAIN Decimal
  BY <1>2
<1> QED  BY <1>1, <1>3 DEF Digit

\* Other fields are of no account.
LEMMA SoundOthers ==
  ASSUME NEW STATE q, Sound(q)
  PROVE  /\ \A s : Sound(Go(q, s)) /\ Sound([q EXCEPT !.header_state = s]) /\ Sound([q EXCEPT !.method = s])
         /\ \A s : Sound([q EXCEPT !.flags = s])
         /\ \A j \in Nat : Sound([q EXCEPT !.index = j])
         /\ \A j \in Nat : \A s : Sound([q EXCEPT !.index = j, !.header_state = s])
         /\ \A f \in Numbers : \A v : Three(v) => Sound([q EXCEPT ![f] = v])
BY DEF Sound, Shaped, Fields, Numbers, Go

\* How a round ends for a parser that is sound.
LEMMA SoundCalled ==
  ASSUME NEW STATE q, NEW STATE x, Sound(q), LocalsShaped(x), Called(q, x)
  PROVE  NumberInv'
<1>1. CASE parser' = q
  BY <1>1 DEF NumberInv, Sound, Three, Four
<1>2. CASE parser' = [q EXCEPT !.errno = "PAUSED"] /\ exec' = Returned(x)
  <2>1. Returned(x).running = FALSE
    BY DEF LocalsShaped, Locals, Returned
  <2>2. \A f \in Numbers : [q EXCEPT !.errno = "PAUSED"][f] = q[f]
    BY DEF Sound, Shaped, Fields, Numbers
  <2> QED  BY <1>2, <2>1, <2>2 DEF NumberInv, Sound, Three, Four
<1> QED  BY <1>1, <1>2 DEF Called

\* The other ends of a round.
LEMMA SoundEnds ==
  ASSUME NEW STATE q, Sound(q), LocalsShaped(exec)
  PROVE  /\ Take(q) => NumberInv'
         /\ \A what : TakeMarked(q, what) => NumberInv'
         /\ Reexecute(q) => NumberInv'
         /\ Report(q) => NumberInv'
         /\ ReportAgain(q) => NumberInv'
         /\ \A event : Notify(q, event) => NumberInv'
         /\ Called(q, exec) => NumberInv'
<1> DEFINE x == [exec EXCEPT !.p = @ + 1]
           y == [exec EXCEPT !.p = @ + 1, !.mark = 0]
           z == [exec EXCEPT !.mark = 0]
<1>1. LocalsShaped(x) /\ LocalsShaped(y)
  BY Advanced
<1>2. LocalsShaped(z)
  BY DEF LocalsShaped, Locals
<1> HIDE DEF x, y, z
<1>3. parser' = q => NumberInv'
  BY DEF NumberInv, Sound, Three, Four
<1>4. \A event : Notify(q, event) => NumberInv'
  BY <1>1, SoundCalled DEF Notify, x
<1>5. Report(q) => NumberInv'
  BY <1>1, <1>3, SoundCalled DEF Report, Deliver, y
<1>6. ReportAgain(q) => NumberInv'
  BY <1>2, <1>3, SoundCalled DEF ReportAgain, Deliver, z
<1>7. Called(q, exec) => NumberInv'
  BY SoundCalled
<1> QED  BY <1>3, <1>4, <1>5, <1>6, <1>7 DEF Take, TakeMarked, Reexecute

\* A round that fails stops the parser, with numbers of at most four digits.
LEMMA SoundFails ==
  ASSUME NEW STATE q, Shaped(q), \A f \in Numbers : Four(q[f]), LocalsShaped(exec),
         NEW e, e \notin {"OK", "PAUSED"}, Fail(q, e)
  PROVE  NumberInv'
<1>1. Returned(exec).running = FALSE
  BY DEF LocalsShaped, Locals, Returned
<1>2. [q EXCEPT !.errno = e].errno = e /\ \A f \in Numbers : [q EXCEPT !.errno = e][f] = q[f]
  BY DEF Shaped, Fields, Numbers
<1> QED  BY <1>1, <1>2 DEF Fail, NumberInv

\* The digits.
LEMMA SoundDigits ==
  ASSUME Sound(parser), LocalsShaped(exec), NEW field \in Numbers, NEW e, e \notin {"OK", "PAUSED"}
  PROVE  /\ \A s : FirstDigit(parser, field, s, e) => NumberInv'
         /\ NextDigit(parser, field, e) => NumberInv'
<1>1. Shaped(parser) /\ \A f \in Numbers : Three(parser[f]) /\ Four(parser[f])
  BY DEF Sound, Three, Four
<1>2. Fail(parser, e) => NumberInv'
  BY <1>1, SoundFails
<1>3. ASSUME NEW s, FirstDigit(parser, field, s, e) PROVE NumberInv'
  <2>1. ASSUME IS_NUM(Byte) PROVE Sound([Go(parser, s) EXCEPT ![field] = Digit(Byte)])
    <3>1. Three(Digit(Byte))
      BY <2>1, DigitIs DEF Three
    <3>2. Sound(Go(parser, s))
      BY SoundOthers
    <3> QED  BY <3>1, <3>2, SoundOthers
  <2> QED  BY <1>2, <1>3, <2>1, SoundEnds DEF FirstDigit
<1>4. ASSUME NextDigit(parser, field, e) PROVE NumberInv'
  <2> DEFINE v == parser[field] * 10 + Digit(Byte)
             q == [parser EXCEPT ![field] = v]
  <2>1. CASE ~IS_NUM(Byte)
    BY <1>2, <1>4, <2>1 DEF NextDigit
  <2>2. CASE IS_NUM(Byte)
    <3>1. Four(v) /\ (v > 999 \/ Three(v))
      BY <1>1, <2>2, DigitIs DEF Three, Four
    <3>2. CASE v > 999 /\ Fail(q, e)
      <4> HIDE DEF v
      <4>1. Shaped(q) /\ \A f \in Numbers : Four(q[f])
        BY <1>1, <3>1 DEF Shaped, Fields, Numbers
      <4> QED  BY <3>2, <4>1, SoundFails
    <3>3. CASE ~(v > 999) /\ Take(q)
      <4>1. Three(v)
        BY <3>1, <3>3
      <4> HIDE DEF v
      <4>2. Sound(q)
        BY <4>1, SoundOthers
      <4> QED  BY <3>3, <4>2, SoundEnds
    <3> QED  BY <1>4, <2>2, <3>1, <3>2, <3>3 DEF NextDigit
  <2> QED  BY <2>1, <2>2
<1> QED  BY <1>3, <1>4

\* The rounds of the start line.
LEMMA StartLineNumbers ==
  ASSUME Sound(parser), LocalsShaped(exec), StartLineRound
  PROVE  NumberInv'
<1> DEFINE reset == [parser EXCEPT !.flags = {}]
<1>1. /\ Shaped(parser) /\ \A f \in Numbers : Four(parser[f])
      /\ \A s : Sound(Go(parser, s))
  <2>1. \A s : Sound(Go(parser, s))
    BY SoundOthers
  <2>2. Shaped(parser) /\ \A f \in Numbers : Four(parser[f])
    BY DEF Sound, Three, Four
  <2> QED  BY <2>1, <2>2
<1>2. Sound(reset) /\ Shaped(reset) /\ \A s : Sound(Go(reset, s))
  <2>1. Sound(reset)
    BY SoundOthers
  <2> HIDE DEF reset
  <2> QED  BY <2>1, SoundOthers DEF Sound
<1>3. \A e : e \notin {"OK", "PAUSED"} /\ Fail(parser, e) => NumberInv'
  BY <1>1, SoundFails
<1>17. ASSUME NEW e, e \notin {"OK", "PAUSED"}, Fail(reset, e) PROVE NumberInv'
  <2> HIDE DEF reset
  <2>1. \A f \in Numbers : Four(reset[f])
    BY <1>2 DEF Sound, Three, Four
  <2> QED  BY <1>2, <1>17, <2>1, SoundFails
<1>4. \A s : Take(Go(parser, s)) \/ Report(Go(parser, s)) => NumberInv'
  BY <1>1, SoundEnds
<1>5. ASSUME StartReqOrRes PROVE NumberInv'
  <2> DEFINE h == [parser EXCEPT !.state = "s_res_or_resp_H", !.flags = {}]
             r == [parser EXCEPT !.state = "s_start_req", !.type = "REQUEST", !.flags = {}]
  <2>1. Sound(h) /\ Sound(r)
    BY DEF Sound, Shaped, Fields, Numbers
  <2> QED  BY <1>5, <2>1, SoundEnds DEF StartReqOrRes
<1>6. ASSUME ResOrRespH PROVE NumberInv'
  <2> DEFINE p == [parser EXCEPT !.state = "s_res_HT", !.type = "RESPONSE"]
             q == [parser EXCEPT !.state = "s_req_method", !.type = "REQUEST", !.method = "HEAD", !.index = 2]
  <2>1. Sound(p) /\ Sound(q)
    BY DEF Sound, Shaped, Fields, Numbers
  <2> QED  BY <1>3, <1>6, <2>1, SoundEnds DEF ResOrRespH
<1>7. ASSUME StartRes PROVE NumberInv'
  <2>1. Sound(Go(reset, "s_res_H"))
    BY <1>2
  <2>2. Fail(reset, "INVALID_CONSTANT") => NumberInv'
    BY <1>17
  <2> QED  BY <1>2, <1>7, <2>1, <2>2, SoundEnds DEF StartRes
<1>8. ASSUME HttpConstant \/ LineAlmostDone \/ HttpStart PROVE NumberInv'
  BY <1>3, <1>4, <1>8, SoundEnds DEF HttpConstant, LineAlmostDone, HttpStart
<1>9. ASSUME FirstMajor \/ FirstMinor \/ FirstStatusCode PROVE NumberInv'
  BY <1>3, <1>9, SoundDigits, SoundEnds DEF FirstMajor, FirstMinor, FirstStatusCode, Numbers
<1>10. ASSUME Major \/ ResMinor \/ ReqMinor \/ StatusCode PROVE NumberInv'
  BY <1>4, <1>10, SoundDigits DEF Major, ResMinor, ReqMinor, StatusCode, Numbers
<1>11. ASSUME StatusStart \/ Status PROVE NumberInv'
  <2>1. Sound([Go(parser, "s_res_status") EXCEPT !.index = 0])
    <3> DEFINE q == Go(parser, "s_res_status")
    <3>1. Sound(q)
      BY <1>1
    <3> HIDE DEF q
    <3>2. Sound([q EXCEPT !.index = 0])
      BY <3>1, SoundOthers
    <3> QED  BY <3>2 DEF q
  <2> QED  BY <1>4, <1>11, <2>1, SoundEnds DEF StatusStart, Status
<1>12. ASSUME StartReq PROVE NumberInv'
  <2> DEFINE g == [Go(reset, "s_req_method") EXCEPT !.method = FirstGuess[Byte], !.index = 1]
  <2>1. Sound(g)
    BY DEF Sound, Shaped, Fields, Numbers, Go
  <2>2. Fail(reset, "INVALID_METHOD") => NumberInv'
    BY <1>17
  <2> QED  BY <1>12, <2>1, <2>2, SoundEnds DEF StartReq
<1>13. ASSUME ReqMethod PROVE NumberInv'
  <2> DEFINE j == parser.index + 1
             next == [parser EXCEPT !.index = j]
  <2>1. Sound(next)
    <3>1. j \in Nat
      BY <1>1 DEF Shaped
    <3> HIDE DEF j
    <3> QED  BY <3>1, SoundOthers
  <2>2. next = [parser EXCEPT !.index = @ + 1]
    OBVIOUS
  <2> HIDE DEF next
  <2>3. Sound(Go(next, "s_req_spaces_before_url")) /\ \A m : Sound([next EXCEPT !.method = m])
    BY <2>1, SoundOthers
  <2> QED  BY <1>3, <1>13, <2>1, <2>2, <2>3, SoundEnds DEF ReqMethod
<1>14. ASSUME NEW s PROVE Fail(Go(parser, s), "INVALID_URL") => NumberInv'
  BY <1>1, SoundFails DEF Sound, Three, Four
<1>15. ASSUME SpacesBeforeUrl \/ UrlPrefix PROVE NumberInv'
  BY <1>1, <1>3, <1>14, <1>15, SoundEnds DEF SpacesBeforeUrl, UrlPrefix, NextUrlChar
<1>16. ASSUME Url PROVE NumberInv'
  <2> DEFINE old == [parser EXCEPT !.http_major = 0, !.http_minor = 9]
  <2>1. Sound(old)
    <3> DEFINE new == [parser EXCEPT !.http_major = 0]
    <3>1. Three(0) /\ Three(9) /\ {"http_major", "http_minor"} \subseteq Numbers
      BY DEF Three, Numbers
    <3>2. Sound(new)
      BY <3>1, SoundOthers
    <3>3. old = [new EXCEPT !.http_minor = 9]
      OBVIOUS
    <3> HIDE DEF new, old
    <3>4. Sound([new EXCEPT !.http_minor = 9])
      BY <3>1, <3>2, SoundOthers
    <3> QED  BY <3>3, <3>4
  <2> HIDE DEF old
  <2>2. Sound(Go(old, "s_req_line_almost_done")) /\ Sound(Go(old, "s_header_field_start"))
    BY <2>1, SoundOthers
  <2> QED  BY <1>1, <1>14, <1>16, <2>2, SoundEnds DEF Url, NextUrlChar, old
<1> QED
  BY <1>5, <1>6, <1>7, <1>8, <1>9, <1>10, <1>11, <1>12, <1>13, <1>15, <1>16 DEF StartLineRound

\* What a letter of a name changes.
LEMMA NameLetterForms ==
  ASSUME NEW STATE q, NEW ch
  PROVE  \/ \E s : NameLetter(q, ch) = [q EXCEPT !.index = q.index + 1, !.header_state = s]
         \/ NameLetter(q, ch) = Match(q, LOWER(ch))
         \/ NameLetter(q, ch) = [q EXCEPT !.header_state = "h_general"]
<1>1. q.header_state \in DOMAIN Shared => q.header_state \notin DOMAIN Matcher
  BY WordLengths DEF Shared
<1> QED  BY <1>1, Zenon DEF NameLetter

\* What a letter of a value changes.
LEMMA ValueLetterForms ==
  ASSUME NEW STATE q, NEW ch
  PROVE  \/ ValueLetter(q, ch) = q \/ \E s : ValueLetter(q, ch) = [q EXCEPT !.header_state = s]
         \/ ValueLetter(q, ch) = Match(q, LOWER(ch))
         \/ ValueLetter(q, ch) = NextWord(q) \/ ValueLetter(q, ch) = NextWord(WithFlag(q))
<1> DEFINE h == q.header_state
           to(s) == [q EXCEPT !.header_state = s]
           words == {"h_connection_keep_alive", "h_connection_close", "h_connection_upgrade"}
           named == {"h_content_length", "h_matching_connection_token_start",
                     "h_matching_connection_token", "h_transfer_encoding_chunked"} \cup words
<1>1. named \cap DOMAIN Matcher = {} /\ DOMAIN ListWords = words
  BY WordLengths, ValueFacts
<1>2. CASE h \in named \ {"h_matching_connection_token_start"}
  BY <1>1, <1>2, LetterIs, Zenon
<1>3. CASE h = "h_matching_connection_token_start"
  BY <1>3, LetterIs, Zenon
<1>4. CASE h \in DOMAIN Matcher
  <2>1. h \notin {"h_content_length", "h_matching_connection_token_start", "h_matching_connection_token",
                  "h_transfer_encoding_chunked", "h_connection_keep_alive", "h_connection_close",
                  "h_connection_upgrade"}
    BY <1>1, <1>4
  <2> QED  BY <1>4, <2>1, Zenon DEF ValueLetter
<1>5. CASE h \notin named /\ h \notin DOMAIN Matcher
  <2>1. ValueLetter(q, ch) = to("h_general")
    BY <1>5, Zenon DEF ValueLetter
  <2> QED  BY <2>1, Zenon
<1> QED  BY <1>2, <1>3, <1>4, <1>5

\* The rounds of the header fields leave the numbers as they are.
LEMMA SoundLetters ==
  ASSUME NEW STATE q, Sound(q), NEW ch
  PROVE  Sound(NameLetter(q, ch)) /\ Sound(ValueLetter(q, ch)) /\ Sound(WithFlag(q))
<1> DEFINE j == q.index + 1
<1>1. j \in Nat
  BY DEF Sound, Shaped
<1>2. \A s : /\ Sound([q EXCEPT !.index = j, !.header_state = s]) /\ Sound([q EXCEPT !.header_state = s])
             /\ Sound([q EXCEPT !.flags = s])
  <2> HIDE DEF j
  <2> QED  BY <1>1, SoundOthers
<1>3. ASSUME NEW c PROVE Sound(Match(q, c))
  <2>1. PICK s : Match(q, c) = [q EXCEPT !.index = j, !.header_state = s]
    BY Zenon DEF Match
  <2>2. Sound([q EXCEPT !.index = j, !.header_state = s])
    BY <1>2
  <2> HIDE DEF j
  <2> QED  BY <2>1, <2>2, Zenon
<1>4. Sound(NameLetter(q, ch))
  <2>1. \/ \E s : NameLetter(q, ch) = [q EXCEPT !.index = j, !.header_state = s]
        \/ NameLetter(q, ch) = Match(q, LOWER(ch))
        \/ NameLetter(q, ch) = [q EXCEPT !.header_state = "h_general"]
    BY NameLetterForms
  <2> HIDE DEF j
  <2> QED  BY <1>2, <1>3, <2>1, Zenon
<1>5. Sound(WithFlag(q))
  BY <1>2, Zenon DEF WithFlag
<1>6. ASSUME NEW STATE r, Sound(r) PROVE Sound(NextWord(r))
  BY <1>6 DEF Sound, Shaped, Fields, Numbers, NextWord
<1>7. Sound(ValueLetter(q, ch))
  <2>1. \/ ValueLetter(q, ch) = q \/ \E s : ValueLetter(q, ch) = [q EXCEPT !.header_state = s]
        \/ ValueLetter(q, ch) = Match(q, LOWER(ch))
        \/ ValueLetter(q, ch) = NextWord(q) \/ ValueLetter(q, ch) = NextWord(WithFlag(q))
    BY ValueLetterForms
  <2>2. Sound(NextWord(q)) /\ Sound(NextWord(WithFlag(q)))
    BY <1>5, <1>6
  <2> QED  BY <1>2, <1>3, <2>1, <2>2, Zenon
<1> QED  BY <1>4, <1>5, <1>7

\* No round of the header fields touches a number.
LEMMA HeaderNumbers ==
  ASSUME Sound(parser), LocalsShaped(exec), HeaderRound
  PROVE  NumberInv'
<1> DEFINE q == [parser EXCEPT !.state = "s_header_value", !.index = 0]
<1>1. /\ Shaped(parser) /\ \A f \in Numbers : Four(parser[f])
      /\ \A s : Sound(Go(parser, s)) /\ Sound(Go(WithFlag(parser), s))
  <2>1. \A s : Sound(Go(parser, s))
    BY SoundOthers
  <2>2. Shaped(parser) /\ \A f \in Numbers : Four(parser[f])
    BY DEF Sound, Three, Four
  <2>3. Sound(WithFlag(parser))
    BY SoundLetters
  <2> DEFINE r == WithFlag(parser)
  <2> HIDE DEF r
  <2>4. \A s : Sound(Go(r, s))
    BY <2>3, SoundOthers DEF r
  <2> QED  BY <2>1, <2>2, <2>4 DEF r
<1>2. \A e : e \notin {"OK", "PAUSED"} /\ Fail(parser, e) => NumberInv'
  BY <1>1, SoundFails
<1>3. Sound(q)
  BY DEF Sound, Shaped, Fields, Numbers
<1>4. ASSUME StartValue PROVE NumberInv'
  <2> DEFINE u == [q EXCEPT !.flags = @ \cup {"UPGRADE"}, !.header_state = "h_general"]
  <2>1. Sound(u)
    BY DEF Sound, Shaped, Fields, Numbers
  <2> HIDE DEF u
  <2>2. \A s : Sound([q EXCEPT !.header_state = s])
    <3> HIDE DEF q
    <3> QED  BY <1>3, SoundOthers
  <2>3. Fail(q, "INVALID_CONTENT_LENGTH") => NumberInv'
    <3> HIDE DEF q
    <3> QED  BY <1>3, SoundFails DEF Sound, Three, Four
  <2> QED  BY <1>3, <1>4, <2>1, <2>2, <2>3, StartIs, SoundEnds, Zenon DEF u
<1>5. ASSUME HeaderFieldStart PROVE NumberInv'
  <2> DEFINE r == [parser EXCEPT !.state = "s_header_field", !.index = 0,
                                 !.header_state = NameStart(LOWER(Byte))]
  <2>1. Sound(r)
    BY DEF Sound, Shaped, Fields, Numbers
  <2> QED  BY <1>1, <1>2, <1>5, <2>1, SoundEnds DEF HeaderFieldStart
<1>6. ASSUME HeaderField PROVE NumberInv'
  BY <1>1, <1>2, <1>6, SoundLetters, SoundEnds DEF HeaderField
<1>7. ASSUME HeaderValueDiscardWs \/ HeaderValueStart PROVE NumberInv'
  <2>1. \/ Take(parser) \/ (\E s : Take(Go(parser, s))) \/ StartValue
    BY <1>7, Zenon DEF HeaderValueDiscardWs, HeaderValueStart
  <2> QED  BY <1>1, <1>4, <2>1, SoundEnds
<1>8. ASSUME HeaderValue PROVE NumberInv'
  <2>1. \/ \E s : Report(Go(parser, s)) \/ ReportAgain(Go(parser, s))
        \/ Fail(parser, "INVALID_CONTENT_LENGTH") \/ Take(ValueLetter(parser, Byte))
    BY <1>8, Zenon DEF HeaderValue
  <2> QED  BY <1>1, <1>2, <2>1, SoundLetters, SoundEnds
<1>9. ASSUME AlmostDone PROVE NumberInv'
  BY <1>1, <1>2, <1>9, SoundEnds DEF AlmostDone
<1>10. ASSUME HeaderValueLws \/ DiscardLws PROVE NumberInv'
  <2>1. \/ \E s : Reexecute(Go(parser, s)) \/ Take(Go(parser, s))
        \/ \E s : Reexecute(Go(WithFlag(parser), s)) \/ Called(Go(WithFlag(parser), s), exec)
    BY <1>10, Zenon DEF HeaderValueLws, DiscardLws
  <2> QED  BY <1>1, <2>1, SoundEnds
<1> QED  BY <1>5, <1>6, <1>7, <1>8, <1>9, <1>10 DEF HeaderRound

\* The numbers of a start line are those it spells as far as 16 bits go: none of the
\* digits of a version or a status code is lost to an overflow (http_parser.cpp:794-908,
\* 1202-1278; http_parser.h:226-228).
THEOREM NumbersStayInside == Spec => []NumbersFit
<1>1. Init => NumberInv
  BY DEF Init, NumberInv, Numbers, Three, Four
<1>2. SpellInv /\ MatchInv /\ NumberInv /\ [Next]_vars => NumberInv'
  <2> SUFFICES ASSUME SpellInv, MatchInv, NumberInv, [Next]_vars PROVE NumberInv'
    OBVIOUS
  <2>1. LocalsShaped(exec) /\ Shaped(parser)
    BY DEF SpellInv, MatchInv, Good
  <2>2. exec.running => Sound(parser)
    BY <2>1 DEF NumberInv, Sound
  <2>3. CASE StartLineRound \/ HeaderRound
    <3>1. exec.running
      BY <2>3 DEF StartLineRound, HeaderRound, StartReqOrRes, ResOrRespH, StartRes, HttpConstant,
         FirstMajor, Major, FirstMinor, ResMinor, ReqMinor, FirstStatusCode, StatusCode, StatusStart,
         Status, LineAlmostDone, StartReq, ReqMethod, SpacesBeforeUrl, UrlPrefix, Url, HttpStart,
         HeaderFieldStart, HeaderField, HeaderValueDiscardWs, HeaderValueStart, HeaderValue,
         AlmostDone, HeaderValueLws, DiscardLws, At
    <3> QED  BY <2>1, <2>2, <2>3, <3>1, StartLineNumbers, HeaderNumbers
  <2>4. CASE EndOfBuffer
    <3>1. Sound(parser) /\ LocalsShaped(Returned(exec)) /\ Returned(exec).running = FALSE
      BY <2>1, <2>2, <2>4 DEF EndOfBuffer, LocalsShaped, Locals, Returned
    <3>2. CASE parser' = parser /\ exec' = Returned(exec)
      BY <3>1, <3>2 DEF NumberInv, Sound, Three, Four
    <3>3. CASE Called(parser, Returned(exec))
      BY <3>1, <3>3, SoundCalled
    <3> QED  BY <2>4, <3>2, <3>3 DEF EndOfBuffer, Deliver
  <2>5. CASE Unpause
    <3>1. /\ [parser EXCEPT !.errno = "OK"].errno = "OK"
          /\ \A f \in Numbers : [parser EXCEPT !.errno = "OK"][f] = parser[f]
      BY <2>1 DEF Shaped, Fields, Numbers
    <3> QED  BY <2>5, <3>1 DEF Unpause, NumberInv
  <2>6. CASE \E n \in 1 .. Len(wire) : Execute(n)
    BY <2>6 DEF Execute, NumberInv
  <2>7. CASE UNCHANGED vars
    BY <2>7 DEF vars, NumberInv
  <2> QED  BY <2>3, <2>4, <2>5, <2>6, <2>7 DEF Next
<1>3. NumberInv => NumbersFit
  BY DEF NumberInv, NumbersFit, Four
<1> QED  BY <1>1, <1>2, <1>3, FieldsStaySpelled, PTL DEF Spec

-----------------------------------------------------------------------------
(* The letters the application is told *)

\* What the callbacks have reported, and what the mark covers for the next of them.
Told == calls \o (IF exec.mark = 0 THEN <<>> ELSE Covered)

\* What it means that letter ch was read, which led to state s.
Telling(ch, s) ==
  IF s \in DOMAIN Resumes THEN << <<Resumes[s], ch>> >>
  ELSE IF \/ parser.state = "s_start_res"
          \/ parser.state \in {"s_start_req", "s_start_req_or_res"} /\ ch \notin {CR, LF}
  THEN << <<"begin">> >>
  ELSE <<>>

\* Every letter of a target, a reason, a name or a value is reported once, in order, as what
\* it is part of, and no other letter is; where a buffer ends or a callback pauses shows in
\* nothing that is told.  An error takes back only what was marked
\* (http_parser.cpp:104-141, 653-692, 2078-2100).
LettersTold ==
  [][IF parser'.errno \in {"OK", "PAUSED"}
     THEN Told' = IF exec'.p = exec.p THEN Told ELSE Told \o Telling(Byte, parser'.state)
     ELSE calls' = calls]_vars

Kinds == {Resumes[s] : s \in DOMAIN Resumes}

\* What the application may be told.
Tokens == {<<"begin">>} \cup {<<kind, wire[i]>> : kind \in Kinds, i \in Nat}

\* A call has a mark while it is in data, for that data.
Marks(q, x) ==
  IF x.running /\ q.state \in DOMAIN Resumes
  THEN x.mark \in 1 .. x.p + 1 /\ x.what = Resumes[q.state]
  ELSE x.mark = 0

TellInv ==
  Marks(parser, exec) /\ calls \in Seq(Tokens) /\ (exec.running => parser.errno = "OK")

\* What the locals x have marked.
Marked(x) ==
  IF x.mark = 0 THEN <<>> ELSE [i \in 1 .. x.p + 1 - x.mark |-> <<x.what, wire[x.mark - 1 + i]>>]

\* The marked letters are a sequence of what may be told.
LEMMA MarkedSeq ==
  ASSUME NEW STATE x, x.p \in Nat, x.mark \in 1 .. x.p + 1, x.what \in Kinds
  PROVE  /\ Marked(x) \in Seq(Tokens) /\ Len(Marked(x)) = x.p + 1 - x.mark
         /\ \A i \in 1 .. x.p + 1 - x.mark : Marked(x)[i] = <<x.what, wire[x.mark - 1 + i]>>
         /\ x.mark = x.p + 1 => Marked(x) = <<>>
<1> DEFINE n == x.p + 1 - x.mark
           f == [i \in 1 .. n |-> <<x.what, wire[x.mark - 1 + i]>>]
<1>1. n \in Nat /\ Marked(x) = f
  BY DEF Marked
<1>2. \A i \in 1 .. n : x.mark - 1 + i \in Nat
  OBVIOUS
<1>3. \A i \in 1 .. n : <<x.what, wire[x.mark - 1 + i]>> \in Tokens
  BY <1>2 DEF Tokens
<1> HIDE DEF n
<1>4. f \in Seq(Tokens)
  BY <1>1, <1>3
<1>5. Len(f) = n /\ \A i \in 1 .. n : f[i] = <<x.what, wire[x.mark - 1 + i]>>
  BY <1>1
<1>6. n = 0 => f = <<>>
  BY <1>4, <1>5, EmptySeq
<1> HIDE DEF f
<1>7. x.mark = x.p + 1 => n = 0
  BY DEF n
<1> QED  BY <1>1, <1>4, <1>5, <1>6, <1>7 DEF n

\* One letter more is marked.
LEMMA MarkedGrows ==
  ASSUME NEW STATE x, NEW STATE y, x.p \in Nat, x.mark \in 1 .. x.p + 1, x.what \in Kinds,
         y.p = x.p + 1, y.mark = x.mark, y.what = x.what
  PROVE  /\ Marked(y) = Marked(x) \o << <<x.what, wire[x.p + 1]>> >>
         /\ << <<x.what, wire[x.p + 1]>> >> \in Seq(Tokens)
<1> DEFINE e == <<x.what, wire[x.p + 1]>>
           s == Marked(x)
           t == Marked(y)
           n == x.p + 1 - x.mark
<1>1. e \in Tokens
  BY DEF Tokens
<1>2. n \in Nat /\ s \in Seq(Tokens) /\ Len(s) = n /\ \A i \in 1 .. n : s[i] = <<x.what, wire[x.mark - 1 + i]>>
  BY MarkedSeq
<1>3. y.p \in Nat /\ y.mark \in 1 .. y.p + 1 /\ y.what \in Kinds
  OBVIOUS
<1>4. /\ t \in Seq(Tokens) /\ Len(t) = y.p + 1 - y.mark
      /\ \A i \in 1 .. y.p + 1 - y.mark : t[i] = <<y.what, wire[y.mark - 1 + i]>>
  BY <1>3, MarkedSeq
<1>5. y.p + 1 - y.mark = n + 1 /\ x.mark - 1 + (n + 1) = x.p + 1
  OBVIOUS
<1>6. Len(t) = n + 1 /\ \A i \in 1 .. n + 1 : t[i] = <<x.what, wire[x.mark - 1 + i]>>
  BY <1>4, <1>5
<1>8. x.mark - 1 + (n + 1) = x.p + 1
  OBVIOUS
<1> HIDE DEF s, t, n
<1>9. t[n + 1] = <<x.what, wire[x.mark - 1 + (n + 1)]>>
  BY <1>2, <1>6
<1>7. t[n + 1] = e
  BY <1>8, <1>9
<1> HIDE DEF e
<1>10. t = Append(s, e)
  <2>1. /\ Append(s, e) \in Seq(Tokens) /\ Len(Append(s, e)) = n + 1 /\ Append(s, e)[n + 1] = e
        /\ \A i \in 1 .. n : Append(s, e)[i] = s[i]
    BY <1>1, <1>2, AppendProperties
  <2>2. ASSUME NEW i \in 1 .. n PROVE t[i] = s[i]
    <3>1. i \in 1 .. n + 1
      BY <1>2
    <3>2. t[i] = <<x.what, wire[x.mark - 1 + i]>>
      BY <1>6, <3>1
    <3>3. s[i] = <<x.what, wire[x.mark - 1 + i]>>
      BY <1>2
    <3> QED  BY <3>2, <3>3
  <2>3. \A i \in 1 .. n + 1 : t[i] = Append(s, e)[i]
    BY <1>2, <1>7, <2>1, <2>2
  <2> QED  BY <1>4, <1>6, <2>1, <2>3, SeqEqual
<1>11. Append(s, e) = s \o <<e>>
  BY <1>1, <1>2, AppendIsConcat
<1>12. <<e>> \in Seq(Tokens)
  BY <1>1
<1> QED  BY <1>10, <1>11, <1>12 DEF e, s, t

\* What a step tells, and that the invariant stays.
TellStep ==
  IF parser'.errno \in {"OK", "PAUSED"}
  THEN Told' = IF exec'.p = exec.p THEN Told ELSE Told \o Telling(Byte, parser'.state)
  ELSE calls' = calls

Tells == TellStep /\ TellInv'

\* What was told is what was called and what is marked (the mark of CALLBACK_DATA, http_parser.cpp:104-141).
LEMMA ToldIs == Told = calls \o Marked(exec)
BY DEF Told, Covered, Marked

\* The same of the next state.
LEMMA ToldNext ==
  ASSUME NEW STATE y, exec' = y, wire' = wire
  PROVE  Told' = calls' \o Marked(y) /\ Tokens' = Tokens
<1>1. Told' = calls' \o Marked(exec)'
  BY DEF Told, Covered, Marked
<1>2. Marked(exec)' = Marked(y)
  BY DEF Marked
<1>3. Tokens' = Tokens
  BY DEF Tokens
<1> QED  BY <1>1, <1>2, <1>3

\* What is told so far is a sequence.
LEMMA ToldSeq ==
  ASSUME TellInv, LocalsShaped(exec)
  PROVE  /\ calls \in Seq(Tokens) /\ Marked(exec) \in Seq(Tokens) /\ Told \in Seq(Tokens)
         /\ exec.mark = 0 => Marked(exec) = <<>> /\ Told = calls
<1>1. calls \in Seq(Tokens) /\ exec.p \in Nat
  BY DEF TellInv, LocalsShaped
<1>2. exec.mark = 0 => Marked(exec) = <<>>
  BY DEF Marked
<1>3. Marked(exec) \in Seq(Tokens)
  <2>1. CASE exec.mark = 0
    BY <1>2, <2>1, EmptySeq
  <2>2. CASE exec.mark # 0
    <3>1. exec.mark \in 1 .. exec.p + 1 /\ exec.what \in Kinds
      BY <2>2 DEF TellInv, Marks, Kinds
    <3> QED  BY <1>1, <3>1, MarkedSeq
  <2> QED  BY <2>1, <2>2
<1>4. calls \o Marked(exec) \in Seq(Tokens)
  BY <1>1, <1>3, ConcatProperties
<1>5. exec.mark = 0 => calls \o Marked(exec) = calls
  BY <1>1, <1>2, ConcatEmptySeq
<1> QED  BY <1>1, <1>2, <1>3, <1>4, <1>5, ToldIs

\* What is told may be split where the mark starts.
LEMMA ToldMore ==
  ASSUME TellInv, LocalsShaped(exec), NEW STATE data, data \in Seq(Tokens)
  PROVE  calls \o (Marked(exec) \o data) = Told \o data
<1> DEFINE m == Marked(exec)
           T == Tokens
<1>1. calls \in Seq(T) /\ m \in Seq(T) /\ data \in Seq(T) /\ Told = calls \o m
  BY ToldSeq, ToldIs
<1> HIDE DEF m, T
<1>2. (calls \o m) \o data = calls \o (m \o data)
  BY <1>1, ConcatAssociative
<1> QED  BY <1>1, <1>2 DEF m

\* What Telling gives may be told.
LEMMA TellingSeq ==
  ASSUME NEW i \in Nat, NEW s
  PROVE  Telling(wire[i], s) \in Seq(Tokens)
<1>1. s \in DOMAIN Resumes => <<Resumes[s], wire[i]>> \in Tokens
  BY DEF Tokens, Kinds
<1>2. <<"begin">> \in Tokens
  BY DEF Tokens
<1>3. \A e \in Tokens : <<e>> \in Seq(Tokens)
  OBVIOUS
<1>4. <<>> \in Seq(Tokens)
  BY EmptySeq
<1> HIDE DEF Tokens
<1> QED  BY <1>1, <1>2, <1>3, <1>4, Zenon DEF Telling

\* A round without a callback: what it marks is what is told.
LEMMA QuietTells ==
  ASSUME TellInv, LocalsShaped(exec), NEW STATE q, NEW STATE y, q.errno = "OK",
         parser' = q, exec' = y, UNCHANGED <<head, wire, calls>>, Marks(q, y),
         NEW STATE data, data \in Seq(Tokens), Marked(y) = Marked(exec) \o data,
         y.p = exec.p => data = <<>>,
         y.p # exec.p => data = Telling(Byte, q.state)
  PROVE  Tells
<1>1. calls \in Seq(Tokens) /\ Marked(exec) \in Seq(Tokens) /\ Told \in Seq(Tokens)
  BY ToldSeq
<1>2. Told' = calls \o Marked(y) /\ Tokens' = Tokens
  BY ToldNext
<1>3. Told' = Told \o data
  <2>1. calls \o (Marked(exec) \o data) = Told \o data
    BY ToldMore
  <2> QED  BY <1>2, <2>1
<1>4. y.p = exec.p => Told' = Told
  BY <1>1, <1>3, ConcatEmptySeq
<1>5. TellStep
  BY <1>3, <1>4 DEF TellStep
<1>6. TellInv'
  BY <1>1, <1>2 DEF TellInv, Marks
<1> QED  BY <1>5, <1>6 DEF Tells

\* A round with a callback, which tells what was marked and data: nothing is marked any more.
LEMMA CallTells ==
  ASSUME TellInv, LocalsShaped(exec), NEW STATE q, Shaped(q), NEW STATE y, LocalsShaped(y), q.errno = "OK",
         Called(q, y), UNCHANGED <<head, wire>>, y.mark = 0,
         y.running => q.state \notin DOMAIN Resumes,
         NEW STATE data, data \in Seq(Tokens), calls' = Told \o data,
         y.p = exec.p => data = <<>>,
         y.p # exec.p => data = Telling(Byte, q.state)
  PROVE  Tells
<1>1. Told \in Seq(Tokens) /\ Told \o data \in Seq(Tokens)
  BY ToldSeq, ConcatProperties
<1>2. /\ Returned(y).p = y.p /\ Returned(y).mark = 0 /\ Returned(y).running = FALSE
  BY DEF Returned, LocalsShaped, Locals
<1>3. /\ [q EXCEPT !.errno = "PAUSED"].errno = "PAUSED" /\ [q EXCEPT !.errno = "PAUSED"].state = q.state
  BY DEF Shaped, Fields
<1>4. ASSUME NEW STATE x, exec' = x, x.mark = 0
      PROVE  Told' = Told \o data /\ Tokens' = Tokens
  <2>1. Told' = calls' \o Marked(x) /\ Tokens' = Tokens
    BY <1>4, ToldNext
  <2>2. Marked(x) = <<>>
    BY <1>4 DEF Marked
  <2> QED  BY <1>1, <2>1, <2>2, ConcatEmptySeq
<1>5. y.p = exec.p => Told \o data = Told
  BY <1>1, ConcatEmptySeq
<1>6. CASE parser' = q /\ exec' = y
  <2>1. Told' = Told \o data /\ Tokens' = Tokens
    BY <1>4, <1>6
  <2>2. TellStep
    BY <1>5, <1>6, <2>1 DEF TellStep
  <2>3. TellInv'
    BY <1>1, <1>6, <2>1 DEF TellInv, Marks
  <2> QED  BY <2>2, <2>3 DEF Tells
<1>7. CASE parser' = [q EXCEPT !.errno = "PAUSED"] /\ exec' = Returned(y)
  <2> DEFINE r == [q EXCEPT !.errno = "PAUSED"]
             x == Returned(y)
  <2> HIDE DEF r, x
  <2>1. /\ r.errno = "PAUSED" /\ r.state = q.state /\ x.p = y.p /\ x.mark = 0 /\ x.running = FALSE
        /\ parser' = r /\ exec' = x
    BY <1>2, <1>3, <1>7 DEF r, x
  <2>2. Told' = Told \o data /\ Tokens' = Tokens
    BY <1>4, <2>1
  <2>3. TellStep
    BY <1>5, <2>1, <2>2 DEF TellStep
  <2>4. TellInv'
    BY <1>1, <2>1, <2>2 DEF TellInv, Marks
  <2> QED  BY <2>3, <2>4 DEF Tells
<1> QED  BY <1>6, <1>7 DEF Called

\* A parser that is read on as q, without an error.
Reading == TellInv /\ LocalsShaped(exec) /\ exec.running

Fine(q) == Shaped(q) /\ q.errno = "OK"

\* The letter that is read says nothing by itself.
Silent == parser.state # "s_start_res" /\ (parser.state \in {"s_start_req", "s_start_req_or_res"} => Byte \in {CR, LF})

\* To tell nothing more changes nothing.
LEMMA NoData == <<>> \in Seq(Tokens) /\ \A s \in Seq(Tokens) : s \o <<>> = s /\ <<>> \o s = s
<1> DEFINE T == Tokens
<1> HIDE DEF T
<1>1. <<>> \in Seq(T) /\ \A s \in Seq(T) : s \o <<>> = s /\ <<>> \o s = s
  BY EmptySeq, ConcatEmptySeq
<1> QED  BY <1>1 DEF T

\* The locals after a letter.
LEMMA NextLocals ==
  ASSUME LocalsShaped(exec), NEW m, NEW what
  PROVE  /\ LET x == [exec EXCEPT !.p = @ + 1]
            IN x.p = exec.p + 1 /\ x.mark = exec.mark /\ x.what = exec.what /\ x.running = exec.running
         /\ LET x == [exec EXCEPT !.p = @ + 1, !.mark = 0]
            IN x.p = exec.p + 1 /\ x.mark = 0 /\ x.running = exec.running
         /\ LET x == [exec EXCEPT !.mark = 0]
            IN LocalsShaped(x) /\ x.p = exec.p /\ x.mark = 0 /\ x.running = exec.running
         /\ LET x == [exec EXCEPT !.p = @ + 1, !.mark = IF @ = 0 THEN exec.p + 1 ELSE @, !.what = what]
            IN x.p = exec.p + 1 /\ (exec.mark = 0 => x.mark = exec.p + 1) /\ x.what = what
               /\ x.running = exec.running
         /\ LET x == Returned(exec)
            IN LocalsShaped(x) /\ x.p = exec.p /\ x.mark = 0 /\ x.running = FALSE
<1> DEFINE j == exec.p + 1
           k == IF exec.mark = 0 THEN j ELSE exec.mark
<1>1. /\ [exec EXCEPT !.p = j, !.mark = k, !.what = what].p = j
      /\ [exec EXCEPT !.p = j, !.mark = k, !.what = what].mark = k
      /\ [exec EXCEPT !.p = j, !.mark = k, !.what = what].what = what
      /\ [exec EXCEPT !.p = j, !.mark = k, !.what = what].running = exec.running
  <2> HIDE DEF j, k
  <2> QED  BY DEF LocalsShaped, Locals
<1>2. LET x == [exec EXCEPT !.p = j]
      IN x.p = j /\ x.mark = exec.mark /\ x.what = exec.what /\ x.running = exec.running
  <2> HIDE DEF j
  <2> QED  BY DEF LocalsShaped, Locals
<1>3. LET x == [exec EXCEPT !.p = j, !.mark = 0]
      IN x.p = j /\ x.mark = 0 /\ x.running = exec.running
  <2> HIDE DEF j
  <2> QED  BY DEF LocalsShaped, Locals
<1>4. LET x == [exec EXCEPT !.mark = 0]
      IN LocalsShaped(x) /\ x.p = exec.p /\ x.mark = 0 /\ x.running = exec.running
  BY DEF LocalsShaped, Locals
<1>5. LET x == Returned(exec)
      IN LocalsShaped(x) /\ x.p = exec.p /\ x.mark = 0 /\ x.running = FALSE
  BY DEF LocalsShaped, Locals, Returned
<1> QED  BY <1>1, <1>2, <1>3, <1>4, <1>5

\* Another letter of what is being read.
LEMMA ReadsOn ==
  ASSUME Reading, parser.state \in DOMAIN Resumes, NEW STATE q, Fine(q), q.state \in DOMAIN Resumes,
         Resumes[q.state] = Resumes[parser.state], Take(q)
  PROVE  Tells
<1> DEFINE y == [exec EXCEPT !.p = @ + 1]
           e == << <<exec.what, wire[exec.p + 1]>> >>
<1>1. /\ y.p = exec.p + 1 /\ y.mark = exec.mark /\ y.what = exec.what /\ y.running = exec.running
  BY NextLocals DEF Reading
<1>2. exec.p \in Nat /\ exec.mark \in 1 .. exec.p + 1 /\ exec.what = Resumes[parser.state] /\ exec.what \in Kinds
  BY DEF Reading, TellInv, Marks, LocalsShaped, Kinds
<1>3. parser' = q /\ exec' = y /\ UNCHANGED <<head, wire, calls>>
  BY DEF Take
<1> HIDE DEF y
<1>4. Marked(y) = Marked(exec) \o e /\ e \in Seq(Tokens)
  BY <1>1, <1>2, MarkedGrows
<1>5. e = Telling(Byte, q.state)
  BY <1>2 DEF Telling, Byte
<1>6. Marks(q, y)
  <2>1. exec.mark \in 1 .. (exec.p + 1) + 1
    BY <1>2
  <2> QED  BY <1>1, <1>2, <2>1 DEF Marks, Reading
<1>7. y.p # exec.p /\ q.errno = "OK" /\ TellInv /\ LocalsShaped(exec)
  BY <1>1, <1>2 DEF Reading, Fine
<1> HIDE DEF e
<1> QED  BY <1>3, <1>4, <1>5, <1>6, <1>7, QuietTells

\* A letter of nothing that is reported.
LEMMA ReadsPast ==
  ASSUME Reading, parser.state \notin DOMAIN Resumes, NEW STATE q, Fine(q), q.state \notin DOMAIN Resumes,
         Silent, Take(q)
  PROVE  Tells
<1> DEFINE y == [exec EXCEPT !.p = @ + 1]
<1>1. /\ y.p = exec.p + 1 /\ y.mark = exec.mark
  BY NextLocals DEF Reading
<1>2. exec.p \in Nat /\ exec.mark = 0 /\ TellInv /\ LocalsShaped(exec) /\ q.errno = "OK"
  BY DEF Reading, TellInv, Marks, LocalsShaped, Fine
<1>3. parser' = q /\ exec' = y /\ UNCHANGED <<head, wire, calls>>
  BY DEF Take
<1> HIDE DEF y
<1>4. Marked(y) = <<>> /\ Marked(exec) = <<>>
  BY <1>1, <1>2 DEF Marked
<1>5. <<>> = Telling(Byte, q.state)
  BY DEF Telling, Silent
<1>6. Marks(q, y) /\ y.p # exec.p
  BY <1>1, <1>2 DEF Marks
<1>7. <<>> \in Seq(Tokens) /\ Marked(y) = Marked(exec) \o <<>>
  BY <1>4, NoData
<1> QED  BY <1>2, <1>3, <1>5, <1>6, <1>7, QuietTells

\* The first letter of what is reported.
LEMMA ReadsFirst ==
  ASSUME Reading, parser.state \notin DOMAIN Resumes, NEW STATE q, Fine(q), q.state \in DOMAIN Resumes,
         NEW what, what = Resumes[q.state], TakeMarked(q, what)
  PROVE  Tells
<1> DEFINE y == [exec EXCEPT !.p = @ + 1, !.mark = IF @ = 0 THEN exec.p + 1 ELSE @, !.what = what]
           z == [p |-> exec.p, mark |-> exec.p + 1, what |-> what]
           e == << <<what, wire[exec.p + 1]>> >>
<1>1. exec.p \in Nat /\ exec.mark = 0 /\ TellInv /\ LocalsShaped(exec) /\ q.errno = "OK" /\ what \in Kinds
  BY DEF Reading, TellInv, Marks, LocalsShaped, Fine, Kinds
<1>2. y.p = exec.p + 1 /\ y.mark = exec.p + 1 /\ y.what = what /\ y.running = exec.running
  BY <1>1, NextLocals
<1>3. parser' = q /\ exec' = y /\ UNCHANGED <<head, wire, calls>>
  BY DEF TakeMarked
<1>4. z.p = exec.p /\ z.mark = exec.p + 1 /\ z.what = what
  OBVIOUS
<1> HIDE DEF y, z
<1>5. Marked(y) = Marked(z) \o e /\ e \in Seq(Tokens)
  <2>1. /\ z.p \in Nat /\ z.mark \in 1 .. z.p + 1 /\ z.what \in Kinds
        /\ y.p = z.p + 1 /\ y.mark = z.mark /\ y.what = z.what
    BY <1>1, <1>2, <1>4
  <2>2. << <<z.what, wire[z.p + 1]>> >> = e
    BY <1>4
  <2> QED  BY <2>1, <2>2, MarkedGrows
<1>6. Marked(z) = <<>> /\ Marked(exec) = <<>>
  <2>1. z.mark \in 1 .. z.p + 1 /\ z.mark = z.p + 1
    BY <1>1, <1>4
  <2> QED  BY <1>1, <1>4, <2>1, MarkedSeq DEF Marked
<1>7. e = Telling(Byte, q.state)
  BY DEF Telling, Byte
<1>8. Marks(q, y) /\ y.p # exec.p
  <2>1. exec.p + 1 \in 1 .. (exec.p + 1) + 1 /\ exec.p + 1 # exec.p
    BY <1>1
  <2> QED  BY <1>2, <2>1 DEF Marks, Reading
<1>9. Marked(y) = Marked(exec) \o e
  BY <1>5, <1>6
<1> HIDE DEF e
<1> QED  BY <1>1, <1>3, <1>5, <1>7, <1>8, <1>9, QuietTells

\* A round that reads nothing, outside what is reported.
LEMMA ReadsAgain ==
  ASSUME Reading, parser.state \notin DOMAIN Resumes, NEW STATE q, Fine(q), q.state \notin DOMAIN Resumes,
         Reexecute(q)
  PROVE  Tells
<1>1. exec.mark = 0 /\ TellInv /\ LocalsShaped(exec) /\ q.errno = "OK"
  BY DEF Reading, TellInv, Marks, Fine
<1>2. Marked(exec) = <<>>
  BY <1>1 DEF Marked
<1>3. parser' = q /\ exec' = exec /\ UNCHANGED <<head, wire, calls>> /\ exec.p = exec.p
  BY DEF Reexecute
<1>4. <<>> \in Seq(Tokens) /\ Marked(exec) = Marked(exec) \o <<>>
  BY <1>2, NoData
<1>5. Marks(q, exec)
  BY <1>1 DEF Marks
<1> QED  BY <1>1, <1>3, <1>4, <1>5, QuietTells

\* The callback for an empty value gets no letters.
LEMMA CallsForNothing ==
  ASSUME Reading, parser.state \notin DOMAIN Resumes, NEW STATE q, Fine(q), q.state \notin DOMAIN Resumes,
         Called(q, exec), UNCHANGED <<head, wire, calls>>
  PROVE  Tells
<1>1. exec.mark = 0 /\ TellInv /\ LocalsShaped(exec) /\ q.errno = "OK" /\ Shaped(q)
  BY DEF Reading, TellInv, Marks, Fine
<1>2. Told = calls /\ calls \in Seq(Tokens)
  BY <1>1, ToldSeq
<1>3. <<>> \in Seq(Tokens) /\ calls' = Told \o <<>>
  BY <1>2, NoData
<1> QED  BY <1>1, <1>3, CallTells

\* A message begins.
LEMMA Begins ==
  ASSUME Reading, parser.state \notin DOMAIN Resumes, NEW STATE q, Fine(q), q.state \notin DOMAIN Resumes,
         ~Silent, Notify(q, "begin")
  PROVE  Tells
<1> DEFINE y == [exec EXCEPT !.p = @ + 1]
           e == << <<"begin">> >>
<1>1. exec.p \in Nat /\ exec.mark = 0 /\ TellInv /\ LocalsShaped(exec) /\ q.errno = "OK" /\ Shaped(q)
  BY DEF Reading, TellInv, Marks, LocalsShaped, Fine
<1>2. y.p = exec.p + 1 /\ y.mark = 0 /\ LocalsShaped(y)
  BY <1>1, NextLocals, Advanced
<1>3. Called(q, y) /\ calls' = Append(calls, <<"begin">>) /\ UNCHANGED <<head, wire>>
  BY DEF Notify
<1> HIDE DEF y
<1>4. Told = calls /\ calls \in Seq(Tokens)
  BY <1>1, ToldSeq
<1>5. <<"begin">> \in Tokens
  BY DEF Tokens
<1>6. e \in Seq(Tokens) /\ Append(calls, <<"begin">>) = calls \o e
  <2> DEFINE T == Tokens
             b == <<"begin">>
  <2>1. b \in T /\ calls \in Seq(T)
    BY <1>4, <1>5
  <2> HIDE DEF T, b
  <2>2. <<b>> \in Seq(T) /\ Append(calls, b) = calls \o <<b>>
    BY <2>1, AppendIsConcat
  <2> QED  BY <2>2 DEF T, b
<1>7. e = Telling(Byte, q.state)
  BY DEF Telling, Silent
<1>8. calls' = Told \o e /\ y.p # exec.p
  BY <1>1, <1>2, <1>3, <1>4, <1>6
<1> HIDE DEF e
<1> QED  BY <1>1, <1>2, <1>3, <1>6, <1>7, <1>8, CallTells

\* What is marked is reported, with the letter after it or without.
LEMMA Reports ==
  ASSUME Reading, parser.state \in DOMAIN Resumes, NEW STATE q, Fine(q), q.state \notin DOMAIN Resumes,
         Report(q) \/ ReportAgain(q)
  PROVE  Tells
<1> DEFINE f == [exec EXCEPT !.p = @ + 1, !.mark = 0]
           g == [exec EXCEPT !.mark = 0]
<1>1. /\ exec.p \in Nat /\ exec.mark # 0 /\ TellInv /\ LocalsShaped(exec) /\ q.errno = "OK" /\ Shaped(q)
  BY DEF Reading, TellInv, Marks, LocalsShaped, Fine
<1>2. /\ LocalsShaped(f) /\ f.mark = 0
      /\ LocalsShaped(g) /\ g.mark = 0 /\ g.p = exec.p
  BY <1>1, NextLocals, Advanced
<1>3. Report(q) => Deliver(q, f)
  BY DEF Report
<1>4. ReportAgain(q) => Deliver(q, g)
  BY DEF ReportAgain
<1> HIDE DEF f, g
<1>5. Told = calls \o Covered /\ Told \in Seq(Tokens)
  BY <1>1, ToldSeq DEF Told
<1>6. \A y : Deliver(q, y) => Called(q, y) /\ calls' = Told /\ UNCHANGED <<head, wire>>
  BY <1>1, <1>5 DEF Deliver
<1>7. <<>> \in Seq(Tokens) /\ Told = Told \o <<>>
  BY <1>5, NoData
<1>8. <<>> = Telling(Byte, q.state)
  <2>1. parser.state \notin {"s_start_res", "s_start_req", "s_start_req_or_res"}
    BY DEF Resumes
  <2> QED  BY <2>1 DEF Telling
<1>9. CASE Report(q)
  <2>1. Called(q, f) /\ calls' = Told \o <<>> /\ UNCHANGED <<head, wire>>
    BY <1>3, <1>6, <1>7, <1>9
  <2> QED  BY <1>1, <1>2, <1>7, <1>8, <2>1, CallTells
<1>10. CASE ReportAgain(q)
  <2>1. Called(q, g) /\ calls' = Told \o <<>> /\ UNCHANGED <<head, wire>>
    BY <1>4, <1>6, <1>7, <1>10
  <2> QED  BY <1>1, <1>2, <1>7, <1>8, <2>1, CallTells
<1> QED  BY <1>9, <1>10

\* Where the buffer ends, what is marked is reported.
LEMMA EndTells ==
  ASSUME Reading, Shaped(parser), Deliver(parser, Returned(exec))
  PROVE  Tells
<1> DEFINE x == Returned(exec)
<1>1. TellInv /\ LocalsShaped(exec) /\ parser.errno = "OK"
  BY DEF Reading, TellInv
<1>2. LocalsShaped(x) /\ x.p = exec.p /\ x.mark = 0 /\ x.running = FALSE
  BY <1>1, NextLocals
<1> HIDE DEF x
<1>3. Told \in Seq(Tokens) /\ Marked(exec) \in Seq(Tokens)
  BY <1>1, ToldSeq
<1>4. <<>> \in Seq(Tokens) /\ Told = Told \o <<>> /\ Marked(exec) = Marked(exec) \o <<>>
  BY <1>3, NoData
<1>5. CASE exec.mark = 0
  <2>1. parser' = parser /\ exec' = x /\ UNCHANGED <<head, wire, calls>>
    BY <1>5 DEF Deliver, x
  <2>2. Marked(x) = Marked(exec) \o <<>> /\ Marks(parser, x)
    BY <1>2, <1>4, <1>5 DEF Marked, Marks
  <2> QED  BY <1>1, <1>2, <1>4, <2>1, <2>2, QuietTells
<1>6. CASE exec.mark # 0
  <2>1. Called(parser, x) /\ calls' = Told \o <<>> /\ UNCHANGED <<head, wire>>
    BY <1>4, <1>6 DEF Deliver, x, Told
  <2> QED  BY <1>1, <1>2, <1>4, <2>1, CallTells
<1> QED  BY <1>5, <1>6

\* An error takes back what is marked.
LEMMA FailTells ==
  ASSUME Reading, NEW STATE q, Shaped(q), NEW e, e \notin {"OK", "PAUSED"}, Fail(q, e)
  PROVE  Tells
<1> DEFINE x == Returned(exec)
           r == [q EXCEPT !.errno = e]
<1>1. TellInv /\ LocalsShaped(exec)
  BY DEF Reading
<1>2. x.mark = 0 /\ x.running = FALSE /\ r.errno = e
  BY <1>1, NextLocals DEF Shaped, Fields
<1>3. parser' = r /\ exec' = x /\ UNCHANGED <<head, wire, calls>>
  BY DEF Fail
<1> HIDE DEF x, r
<1>4. TellStep
  BY <1>2, <1>3 DEF TellStep
<1>5. TellInv'
  BY <1>1, <1>2, <1>3, ToldNext DEF TellInv, Marks
<1> QED  BY <1>4, <1>5 DEF Tells

\* A call starts with a mark where one is due, and nothing behind it.
LEMMA ExecuteTells ==
  ASSUME TellInv, LocalsShaped(exec), NEW n, Execute(n)
  PROVE  Tells
<1> DEFINE m == IF parser.state \in DOMAIN Resumes THEN exec.p + 1 ELSE 0
           w == IF parser.state \in DOMAIN Resumes THEN Resumes[parser.state] ELSE exec.what
           l == exec.p + n
           y == [exec EXCEPT !.limit = l, !.running = TRUE, !.mark = m, !.what = w]
<1>1. parser' = parser /\ exec' = y /\ UNCHANGED <<head, wire, calls>> /\ parser.errno = "OK" /\ ~exec.running
  BY DEF Execute
<1>2. y.p = exec.p /\ y.mark = m /\ y.what = w /\ y.running = TRUE
  <2> HIDE DEF m, w, l
  <2> QED  BY DEF LocalsShaped, Locals
<1>3. exec.p \in Nat /\ exec.p + 1 \in 1 .. exec.p + 1 /\ exec.mark = 0
  BY <1>1 DEF LocalsShaped, TellInv, Marks
<1> HIDE DEF y
<1>4. Marked(y) = <<>> /\ Marks(parser, y)
  <2>1. CASE parser.state \in DOMAIN Resumes
    <3>1. y.p \in Nat /\ y.mark = y.p + 1 /\ y.mark \in 1 .. y.p + 1 /\ y.what = Resumes[parser.state]
      BY <1>2, <1>3, <2>1
    <3>2. y.what \in Kinds
      BY <3>1, <2>1 DEF Kinds
    <3>3. Marked(y) = <<>>
      BY <3>1, <3>2, MarkedSeq
    <3>4. Marks(parser, y)
      BY <1>2, <2>1, <3>1 DEF Marks
    <3> QED  BY <3>3, <3>4
  <2>2. CASE parser.state \notin DOMAIN Resumes
    BY <1>2, <2>2 DEF Marked, Marks
  <2> QED  BY <2>1, <2>2
<1>5. Marked(exec) = <<>>
  BY <1>3 DEF Marked
<1>6. <<>> \in Seq(Tokens) /\ Marked(y) = Marked(exec) \o <<>>
  BY <1>4, <1>5, NoData
<1> QED  BY <1>1, <1>2, <1>4, <1>6, QuietTells

\* The parser goes on after a pause as it was.
LEMMA UnpauseTells ==
  ASSUME TellInv, LocalsShaped(exec), Shaped(parser), Unpause
  PROVE  Tells
<1> DEFINE q == [parser EXCEPT !.errno = "OK"]
<1>1. parser' = q /\ exec' = exec /\ UNCHANGED <<head, wire, calls>> /\ parser.errno = "PAUSED" /\ exec.p = exec.p
  BY DEF Unpause
<1>2. q.errno = "OK"
  BY DEF Shaped, Fields
<1> HIDE DEF q
<1>3. Marked(exec) \in Seq(Tokens)
  BY ToldSeq
<1>4. <<>> \in Seq(Tokens) /\ Marked(exec) = Marked(exec) \o <<>>
  BY <1>3, NoData
<1>5. Marks(q, exec)
  BY <1>1 DEF TellInv, Marks
<1> QED  BY <1>1, <1>2, <1>4, <1>5, QuietTells

\* A parser without an error, in state s.
FineIn(q, s) == Fine(q) /\ q.state = s

\* What a round assigns besides the state leaves a parser without an error.
LEMMA FineOthers ==
  ASSUME NEW STATE q, NEW s, FineIn(q, s)
  PROVE  /\ \A t : FineIn(Go(q, t), t)
         /\ \A v : /\ FineIn([q EXCEPT !.header_state = v], s) /\ FineIn([q EXCEPT !.method = v], s)
                   /\ FineIn([q EXCEPT !.flags = v], s) /\ FineIn([q EXCEPT !.type = v], s)
         /\ \A j \in Nat : FineIn([q EXCEPT !.index = j], s)
         /\ \A j \in Nat : \A v : FineIn([q EXCEPT !.index = j, !.header_state = v], s)
         /\ \A f \in Numbers : \A v : FineIn([q EXCEPT ![f] = v], s)
BY DEF FineIn, Fine, Shaped, Fields, Numbers, Go

\* What the letters of names and values change.
LEMMA FineMatch ==
  ASSUME NEW STATE q, NEW s, FineIn(q, s), NEW c
  PROVE  FineIn(Match(q, c), s)
<1> DEFINE j == q.index + 1
<1>1. j \in Nat
  BY DEF FineIn, Fine, Shaped
<1>2. PICK t : Match(q, c) = [q EXCEPT !.index = j, !.header_state = t]
  BY Zenon DEF Match
<1> HIDE DEF j
<1>3. FineIn([q EXCEPT !.index = j, !.header_state = t], s)
  BY <1>1, FineOthers
<1> QED  BY <1>2, <1>3, Zenon

\* So do the letters of a name and of a value, and the flag of a word.
LEMMA FineLetters ==
  ASSUME NEW STATE q, NEW s, FineIn(q, s), NEW ch
  PROVE  FineIn(NameLetter(q, ch), s) /\ FineIn(ValueLetter(q, ch), s) /\ FineIn(WithFlag(q), s)
<1> DEFINE j == q.index + 1
<1>1. j \in Nat
  BY DEF FineIn, Fine, Shaped
<1>2. \A t : /\ FineIn([q EXCEPT !.index = j, !.header_state = t], s) /\ FineIn([q EXCEPT !.header_state = t], s)
             /\ FineIn([q EXCEPT !.flags = t], s)
  <2> HIDE DEF j
  <2> QED  BY <1>1, FineOthers
<1>3. FineIn(Match(q, LOWER(ch)), s)
  BY FineMatch
<1>4. FineIn(NameLetter(q, ch), s)
  <2>1. \/ \E t : NameLetter(q, ch) = [q EXCEPT !.index = j, !.header_state = t]
        \/ NameLetter(q, ch) = Match(q, LOWER(ch))
        \/ NameLetter(q, ch) = [q EXCEPT !.header_state = "h_general"]
    BY NameLetterForms
  <2> HIDE DEF j
  <2> QED  BY <1>2, <1>3, <2>1, Zenon
<1>5. FineIn(WithFlag(q), s)
  BY <1>2, Zenon DEF WithFlag
<1>6. ASSUME NEW STATE r, FineIn(r, s) PROVE FineIn(NextWord(r), s)
  BY <1>6 DEF FineIn, Fine, Shaped, Fields, NextWord
<1>7. FineIn(ValueLetter(q, ch), s)
  <2>1. \/ ValueLetter(q, ch) = q \/ \E t : ValueLetter(q, ch) = [q EXCEPT !.header_state = t]
        \/ ValueLetter(q, ch) = Match(q, LOWER(ch))
        \/ ValueLetter(q, ch) = NextWord(q) \/ ValueLetter(q, ch) = NextWord(WithFlag(q))
    BY ValueLetterForms
  <2>2. FineIn(NextWord(q), s) /\ FineIn(NextWord(WithFlag(q)), s)
    BY <1>5, <1>6
  <2> QED  BY <1>2, <1>3, <2>1, <2>2, Zenon
<1> QED  BY <1>4, <1>5, <1>7

\* Which states are reported letters of.
LEMMA ResumesAre ==
  /\ Resumes["s_res_status"] = "status" /\ Resumes["s_header_field"] = "field"
  /\ Resumes["s_header_value"] = "value"
  /\ {"s_res_status", "s_header_field", "s_header_value"} \subseteq DOMAIN Resumes
  /\ \A s \in {"s_req_schema", "s_req_schema_slash", "s_req_schema_slash_slash", "s_req_server_start",
               "s_req_server", "s_req_server_with_at", "s_req_path", "s_req_query_string_start",
               "s_req_query_string", "s_req_fragment_start", "s_req_fragment"} :
       s \in DOMAIN Resumes /\ Resumes[s] = "url"
  /\ \A s \in {"s_start_req", "s_start_res", "s_start_req_or_res", "s_res_or_resp_H", "s_req_method",
               "s_res_H", "s_res_HT", "s_res_http_major", "s_req_http_major", "s_res_http_minor",
               "s_req_http_minor", "s_res_first_http_major", "s_req_first_http_major",
               "s_res_first_http_minor", "s_req_first_http_minor", "s_res_first_status_code",
               "s_res_status_code", "s_res_status_start", "s_res_line_almost_done",
               "s_req_line_almost_done", "s_req_spaces_before_url", "s_req_http_start", "s_req_http_H",
               "s_header_field_start", "s_headers_almost_done", "s_header_value_discard_ws",
               "s_header_value_discard_ws_almost_done", "s_header_value_discard_lws", "s_header_almost_done",
               "s_header_value_start", "s_header_value_lws", "s_headers_done"} : s \notin DOMAIN Resumes
  /\ \A s \in DOMAIN Constants : s \notin DOMAIN Resumes /\ Constants[s][2] \notin DOMAIN Resumes
  /\ \A s \in DOMAIN ExpectLf : s \notin DOMAIN Resumes /\ ExpectLf[s] \notin DOMAIN Resumes
BY DEF Resumes, Constants, ExpectLf

\* The letters of a URL are letters of a URL, or do not belong there.
LEMMA UrlResumes ==
  ASSUME NEW s, NEW ch
  PROVE  \/ parse_url_char(s, ch) = "s_dead"
         \/ parse_url_char(s, ch) \in DOMAIN Resumes /\ Resumes[parse_url_char(s, ch)] = "url"
<1> DEFINE U == {"s_req_schema", "s_req_schema_slash", "s_req_schema_slash_slash", "s_req_server_start",
               "s_req_server", "s_req_server_with_at", "s_req_path", "s_req_query_string_start",
               "s_req_query_string", "s_req_fragment_start", "s_req_fragment"}
<1>1. parse_url_char(s, ch) \in U \cup {"s_dead"}
  BY DEF parse_url_char, IS_URL_CHAR, IS_USERINFO_CHAR
<1> QED  BY <1>1, ResumesAre

\* Where a line of letters begins that says nothing.
Outside == Reading /\ Shaped(parser) /\ parser.state \notin DOMAIN Resumes /\ Silent

\* The ways a round outside ends.
LEMMA OutsideEnds ==
  ASSUME Outside
  PROVE  /\ FineIn(parser, parser.state)
         /\ Take(parser) => Tells
         /\ \A s : s \notin DOMAIN Resumes /\ Take(Go(parser, s)) => Tells
         /\ \A e : e \notin {"OK", "PAUSED"} /\ Fail(parser, e) => Tells
<1>1. FineIn(parser, parser.state)
  BY DEF Outside, Reading, TellInv, FineIn, Fine
<1>2. Take(parser) => Tells
  BY <1>1, ReadsPast DEF Outside, FineIn
<1>3. ASSUME NEW s, s \notin DOMAIN Resumes, Take(Go(parser, s)) PROVE Tells
  <2> DEFINE q == Go(parser, s)
  <2>1. FineIn(q, s)
    BY <1>1, FineOthers
  <2>2. Take(q)
    BY <1>3
  <2> HIDE DEF q
  <2> QED  BY <1>3, <2>1, <2>2, ReadsPast DEF Outside, FineIn
<1>4. \A e : e \notin {"OK", "PAUSED"} /\ Fail(parser, e) => Tells
  BY FailTells DEF Outside
<1> QED  BY <1>1, <1>2, <1>3, <1>4

\* The digits.
LEMMA DigitsTell ==
  ASSUME Outside, NEW field \in Numbers, NEW e, e \notin {"OK", "PAUSED"}
  PROVE  /\ \A s : s \notin DOMAIN Resumes /\ FirstDigit(parser, field, s, e) => Tells
         /\ NextDigit(parser, field, e) => Tells
<1>1. FineIn(parser, parser.state) /\ (Fail(parser, e) => Tells)
  BY OutsideEnds
<1>2. ASSUME NEW s, s \notin DOMAIN Resumes, FirstDigit(parser, field, s, e) PROVE Tells
  <2> DEFINE d == Digit(Byte)
             g == Go(parser, s)
             q == [g EXCEPT ![field] = d]
  <2>1. FineIn(g, s)
    BY <1>1, FineOthers
  <2>2. FineIn(q, s)
    <3> HIDE DEF g, d
    <3> QED  BY <2>1, FineOthers
  <2>3. Take(q) \/ Fail(parser, e)
    BY <1>2 DEF FirstDigit
  <2> HIDE DEF q
  <2> QED  BY <1>1, <1>2, <2>2, <2>3, ReadsPast DEF Outside, FineIn
<1>3. ASSUME NextDigit(parser, field, e) PROVE Tells
  <2> DEFINE v == parser[field] * 10 + Digit(Byte)
             q == [parser EXCEPT ![field] = v]
  <2>1. Take(q) \/ Fail(q, e) \/ Fail(parser, e)
    BY <1>3 DEF NextDigit
  <2>2. FineIn(q, parser.state)
    <3> HIDE DEF v
    <3> QED  BY <1>1, FineOthers
  <2> HIDE DEF q
  <2>3. Take(q) => Tells
    BY <2>2, ReadsPast DEF Outside, FineIn
  <2>4. Fail(q, e) => Tells
    BY <2>2, FailTells DEF Outside, FineIn, Fine
  <2> QED  BY <1>1, <2>1, <2>3, <2>4
<1> QED  BY <1>2, <1>3

\* Where a message may start.
Openings == {"s_start_req", "s_start_res", "s_start_req_or_res"}

\* A round in a state that is not reported, and in none where a message starts.
LEMMA OutsideAt ==
  ASSUME Reading, Shaped(parser), parser.state \notin DOMAIN Resumes, parser.state \notin Openings
  PROVE  Outside
BY DEF Outside, Silent, Openings

\* A round inside what is reported: it goes on, or it ends.
LEMMA InsideEnds ==
  ASSUME Reading, Shaped(parser), parser.state \in DOMAIN Resumes
  PROVE  /\ FineIn(parser, parser.state)
         /\ Take(parser) => Tells
         /\ \A s : s \in DOMAIN Resumes /\ Resumes[s] = Resumes[parser.state] /\ Take(Go(parser, s)) => Tells
         /\ \A s : s \notin DOMAIN Resumes /\ (Report(Go(parser, s)) \/ ReportAgain(Go(parser, s))) => Tells
         /\ \A e : e \notin {"OK", "PAUSED"} /\ Fail(parser, e) => Tells
<1>1. FineIn(parser, parser.state)
  BY DEF Reading, TellInv, FineIn, Fine
<1>2. Take(parser) => Tells
  BY <1>1, ReadsOn DEF FineIn
<1>3. ASSUME NEW s,
             \/ s \in DOMAIN Resumes /\ Resumes[s] = Resumes[parser.state] /\ Take(Go(parser, s))
             \/ s \notin DOMAIN Resumes /\ (Report(Go(parser, s)) \/ ReportAgain(Go(parser, s)))
      PROVE  Tells
  <2> DEFINE q == Go(parser, s)
  <2>1. FineIn(q, s)
    BY <1>1, FineOthers
  <2>2. \/ s \in DOMAIN Resumes /\ Resumes[s] = Resumes[parser.state] /\ Take(q)
        \/ s \notin DOMAIN Resumes /\ (Report(q) \/ ReportAgain(q))
    BY <1>3
  <2> HIDE DEF q
  <2> QED  BY <2>1, <2>2, ReadsOn, Reports DEF FineIn
<1>4. \A e : e \notin {"OK", "PAUSED"} /\ Fail(parser, e) => Tells
  BY FailTells
<1> QED  BY <1>1, <1>2, <1>3, <1>4

\* Where a message starts.
LEMMA StartTells ==
  ASSUME Reading, Shaped(parser), StartReqOrRes \/ StartRes \/ StartReq
  PROVE  Tells
<1> DEFINE reset == [parser EXCEPT !.flags = {}]
<1>1. parser.state \in Openings /\ parser.state \notin DOMAIN Resumes
  BY ResumesAre DEF Openings, StartReqOrRes, StartRes, StartReq, At
<1>2. FineIn(parser, parser.state)
  BY DEF Reading, TellInv, FineIn, Fine
<1>3. FineIn(reset, parser.state) /\ \A s : FineIn(Go(reset, s), s)
  <2>1. FineIn(reset, parser.state)
    BY <1>2, FineOthers
  <2> HIDE DEF reset
  <2> QED  BY <2>1, FineOthers
<1>4. \A e : e \notin {"OK", "PAUSED"} => (Fail(reset, e) => Tells)
  <2> HIDE DEF reset
  <2> QED  BY <1>3, FailTells DEF FineIn, Fine
<1>5. Silent /\ Take(parser) => Tells
  BY <1>1, <1>2, ReadsPast DEF FineIn
<1>6. CASE StartReqOrRes
  <2> DEFINE h == [parser EXCEPT !.state = "s_res_or_resp_H", !.flags = {}]
             r == [parser EXCEPT !.state = "s_start_req", !.type = "REQUEST", !.flags = {}]
  <2>1. Fine(h) /\ h.state = "s_res_or_resp_H" /\ Fine(r) /\ r.state = "s_start_req"
    BY <1>2 DEF FineIn, Fine, Shaped, Fields
  <2>2. parser.state = "s_start_req_or_res"
    BY <1>6 DEF StartReqOrRes, At
  <2>3. \/ Byte \in {CR, LF} /\ Take(parser)
        \/ Byte \notin {CR, LF} /\ Notify(h, "begin")
        \/ Reexecute(r)
    BY <1>6 DEF StartReqOrRes, CR, LF
  <2>4. Silent <=> Byte \in {CR, LF}
    BY <2>2 DEF Silent
  <2> HIDE DEF h, r
  <2> QED  BY <1>1, <1>5, <2>1, <2>3, <2>4, ResumesAre, Begins, ReadsAgain
<1>7. CASE StartRes
  <2>1. parser.state = "s_start_res" /\ ~Silent
    BY <1>7 DEF StartRes, At, Silent
  <2> DEFINE g == Go(reset, "s_res_H")
  <2>2. Notify(g, "begin") \/ Notify(reset, "begin") \/ Fail(reset, "INVALID_CONSTANT")
    BY <1>7 DEF StartRes
  <2>3. FineIn(g, "s_res_H")
    BY <1>3
  <2> HIDE DEF g, reset
  <2> QED  BY <1>1, <1>3, <1>4, <2>1, <2>2, <2>3, ResumesAre, Begins DEF FineIn
<1>8. CASE StartReq
  <2> DEFINE g == Go(reset, "s_req_method")
             k == [g EXCEPT !.method = FirstGuess[Byte], !.index = 1]
  <2>1. parser.state = "s_start_req"
    BY <1>8 DEF StartReq, At
  <2>2. Byte \in DOMAIN FirstGuess => Byte \notin {CR, LF}
    BY DEF FirstGuess, CR, LF
  <2>3. \/ Byte \in {CR, LF} /\ Take(parser)
        \/ Byte \notin {CR, LF} /\ Notify(k, "begin")
        \/ Fail(reset, "INVALID_METHOD")
    BY <1>8, <2>2, Zenon DEF StartReq
  <2>4. Silent <=> Byte \in {CR, LF}
    BY <2>1 DEF Silent
  <2>5. Fine(k) /\ k.state = "s_req_method"
    <3>1. FineIn(g, "s_req_method")
      BY <1>3
    <3> HIDE DEF g
    <3> QED  BY <3>1 DEF FineIn, Fine, Shaped, Fields
  <2> HIDE DEF k, reset
  <2> QED  BY <1>1, <1>4, <1>5, <2>3, <2>4, <2>5, ResumesAre, Begins
<1> QED  BY <1>6, <1>7, <1>8

\* The version, the status and the line ends.
LEMMA LineTells ==
  ASSUME Reading, Shaped(parser),
         \/ HttpConstant \/ FirstMajor \/ Major \/ FirstMinor \/ ResMinor \/ ReqMinor
         \/ FirstStatusCode \/ StatusCode \/ LineAlmostDone \/ HttpStart
  PROVE  Tells
<1>1. Outside
  <2>1. parser.state \notin DOMAIN Resumes /\ parser.state \notin Openings
    BY ResumesAre DEF Openings, HttpConstant, FirstMajor, Major, FirstMinor, ResMinor, ReqMinor,
       FirstStatusCode, StatusCode, LineAlmostDone, HttpStart, At, Constants
  <2> QED  BY <2>1, OutsideAt
<1>2. /\ Take(parser) => Tells
      /\ \A s : s \notin DOMAIN Resumes /\ Take(Go(parser, s)) => Tells
      /\ \A e : e \notin {"OK", "PAUSED"} /\ Fail(parser, e) => Tells
  BY <1>1, OutsideEnds
<1>3. \A field \in Numbers : \A e : e \notin {"OK", "PAUSED"} =>
        /\ \A s : s \notin DOMAIN Resumes /\ FirstDigit(parser, field, s, e) => Tells
        /\ NextDigit(parser, field, e) => Tells
  BY <1>1, DigitsTell
<1>4. CASE HttpConstant
  BY <1>2, <1>4, ResumesAre DEF HttpConstant, At
<1>5. CASE FirstMajor \/ FirstMinor \/ FirstStatusCode
  BY <1>2, <1>3, <1>5, ResumesAre DEF FirstMajor, FirstMinor, FirstStatusCode, Numbers
<1>6. CASE Major \/ ResMinor \/ ReqMinor \/ StatusCode
  BY <1>2, <1>3, <1>6, ResumesAre DEF Major, ResMinor, ReqMinor, StatusCode, Numbers
<1>7. CASE LineAlmostDone \/ HttpStart
  BY <1>2, <1>7, ResumesAre DEF LineAlmostDone, HttpStart
<1> QED  BY <1>4, <1>5, <1>6, <1>7

\* The reason of a response.
LEMMA StatusTells ==
  ASSUME Reading, Shaped(parser), StatusStart \/ Status
  PROVE  Tells
<1>1. CASE StatusStart
  <2> DEFINE g == Go(parser, "s_res_status")
             q == [g EXCEPT !.index = 0]
  <2>1. Outside
    BY <1>1, ResumesAre, OutsideAt DEF StatusStart, At, Openings
  <2>2. FineIn(q, "s_res_status")
    <3>1. FineIn(g, "s_res_status")
      BY <2>1, OutsideEnds, FineOthers
    <3> HIDE DEF g
    <3> QED  BY <3>1, FineOthers
  <2>3. \/ Take(Go(parser, "s_res_line_almost_done")) \/ Take(Go(parser, "s_header_field_start"))
        \/ TakeMarked(q, "status")
    BY <1>1 DEF StatusStart
  <2> HIDE DEF q
  <2>4. TakeMarked(q, "status") => Tells
    BY <2>1, <2>2, ResumesAre, ReadsFirst DEF Outside, FineIn
  <2> QED  BY <2>1, <2>3, <2>4, ResumesAre, OutsideEnds
<1>2. CASE Status
  <2>1. parser.state \in DOMAIN Resumes
    BY <1>2, ResumesAre DEF Status, At
  <2>2. \/ Report(Go(parser, "s_res_line_almost_done")) \/ Report(Go(parser, "s_header_field_start"))
        \/ Take(parser)
    BY <1>2 DEF Status
  <2> QED  BY <2>1, <2>2, ResumesAre, InsideEnds
<1> QED  BY <1>1, <1>2

\* The method.
LEMMA MethodTells ==
  ASSUME Reading, Shaped(parser), ResOrRespH \/ ReqMethod
  PROVE  Tells
<1>1. Outside
  BY ResumesAre, OutsideAt DEF ResOrRespH, ReqMethod, At, Openings
<1>2. /\ FineIn(parser, parser.state)
      /\ \A e : e \notin {"OK", "PAUSED"} /\ Fail(parser, e) => Tells
  BY <1>1, OutsideEnds
<1>3. ASSUME NEW STATE q, NEW s, FineIn(q, s), s \notin DOMAIN Resumes, Take(q) PROVE Tells
  BY <1>1, <1>3, ReadsPast DEF Outside, FineIn
<1>4. CASE ResOrRespH
  <2> DEFINE r == [parser EXCEPT !.state = "s_res_HT", !.type = "RESPONSE"]
             m == [parser EXCEPT !.state = "s_req_method", !.type = "REQUEST", !.method = "HEAD", !.index = 2]
  <2>1. FineIn(r, "s_res_HT") /\ FineIn(m, "s_req_method")
    BY <1>2 DEF FineIn, Fine, Shaped, Fields
  <2>2. Take(r) \/ Take(m) \/ Fail(parser, "INVALID_CONSTANT")
    BY <1>4 DEF ResOrRespH
  <2> HIDE DEF r, m
  <2> QED  BY <1>2, <1>3, <2>1, <2>2, ResumesAre
<1>5. CASE ReqMethod
  <2> DEFINE j == parser.index + 1
             next == [parser EXCEPT !.index = j]
             g == Go(next, "s_req_spaces_before_url")
  <2>1. parser.state = "s_req_method" /\ j \in Nat
    <3>1. j \in Nat
      BY <1>2 DEF FineIn, Fine, Shaped
    <3>2. parser.state = "s_req_method"
      BY <1>5, Zenon DEF ReqMethod, At
    <3> QED  BY <3>1, <3>2
  <2>2. FineIn(next, "s_req_method")
    <3> HIDE DEF j
    <3> QED  BY <1>2, <2>1, FineOthers
  <2>3. \/ Fail(parser, "INVALID_METHOD") \/ Take(g) \/ Take(next)
        \/ \E m : Take([next EXCEPT !.method = m])
    <3>1. next = [parser EXCEPT !.index = @ + 1]
      OBVIOUS
    <3> HIDE DEF next
    <3> QED  BY <1>5, <3>1, Zenon DEF ReqMethod
  <2> HIDE DEF next
  <2>4. FineIn(g, "s_req_spaces_before_url") /\ \A m : FineIn([next EXCEPT !.method = m], "s_req_method")
    BY <2>2, FineOthers
  <2>5. ASSUME NEW m, Take([next EXCEPT !.method = m]) PROVE Tells
    BY <1>3, <2>4, <2>5, ResumesAre
  <2> HIDE DEF g
  <2> QED  BY <1>2, <1>3, <2>2, <2>3, <2>4, <2>5, ResumesAre
<1> QED  BY <1>4, <1>5

\* The target of a request.
LEMMA TargetTells ==
  ASSUME Reading, Shaped(parser), SpacesBeforeUrl \/ UrlPrefix \/ Url
  PROVE  Tells
<1>1. FineIn(parser, parser.state)
  BY DEF Reading, TellInv, FineIn, Fine
<1>2. \A s : FineIn(Go(parser, s), s)
  BY <1>1, FineOthers
<1>3. ASSUME NEW s PROVE Fail(Go(parser, s), "INVALID_URL") => Tells
  BY <1>2, FailTells DEF FineIn, Fine
<1>4. Fail(parser, "INVALID_URL") => Tells
  BY FailTells
<1>5. CASE SpacesBeforeUrl
  <2>1. Outside
    BY <1>5, ResumesAre, OutsideAt DEF SpacesBeforeUrl, At, Openings
  <2> DEFINE s == IF parser.method = "CONNECT" THEN "s_req_server_start" ELSE parser.state
             t == parse_url_char(s, Byte)
             q == Go(parser, t)
  <2>2. \/ Take(parser)
        \/ t = "s_dead" /\ Fail(q, "INVALID_URL")
        \/ t # "s_dead" /\ TakeMarked(q, "url")
    BY <1>5, Zenon DEF SpacesBeforeUrl, NextUrlChar
  <2>3. t = "s_dead" \/ (t \in DOMAIN Resumes /\ Resumes[t] = "url")
    <3> HIDE DEF s
    <3> QED  BY UrlResumes, Zenon
  <2>4. FineIn(q, t)
    BY <1>2
  <2>5. Fail(q, "INVALID_URL") => Tells
    BY <1>3
  <2> HIDE DEF t, q
  <2>6. t # "s_dead" /\ TakeMarked(q, "url") => Tells
    BY <2>1, <2>3, <2>4, ReadsFirst DEF Outside, FineIn
  <2> QED  BY <2>1, <2>2, <2>5, <2>6, OutsideEnds
<1>6. CASE UrlPrefix \/ Url
  <2> DEFINE t == parse_url_char(parser.state, Byte)
             q == Go(parser, t)
             old == [parser EXCEPT !.http_major = 0, !.http_minor = 9]
  <2>1. parser.state \in DOMAIN Resumes /\ Resumes[parser.state] = "url"
    BY <1>6, ResumesAre DEF UrlPrefix, Url, At
  <2>2. \/ Fail(parser, "INVALID_URL")
        \/ t = "s_dead" /\ Fail(q, "INVALID_URL")
        \/ t # "s_dead" /\ Take(q)
        \/ Report(Go(parser, "s_req_http_start"))
        \/ Report(Go(old, "s_req_line_almost_done")) \/ Report(Go(old, "s_header_field_start"))
    <3>1. CASE UrlPrefix
      BY <3>1, Zenon DEF UrlPrefix, NextUrlChar
    <3>2. CASE Url
      BY <3>2, Zenon DEF Url, NextUrlChar
    <3> QED  BY <1>6, <3>1, <3>2
  <2>3. t = "s_dead" \/ (t \in DOMAIN Resumes /\ Resumes[t] = "url")
    BY UrlResumes, Zenon
  <2>4. FineIn(q, t)
    BY <1>2
  <2>5. Fail(q, "INVALID_URL") => Tells
    BY <1>3
  <2>6. \A s : FineIn(Go(old, s), s)
    <3>1. FineIn(old, parser.state)
      BY <1>1 DEF FineIn, Fine, Shaped, Fields
    <3> HIDE DEF old
    <3> QED  BY <3>1, FineOthers
  <2> HIDE DEF t, q, old
  <2>7. t # "s_dead" /\ Take(q) => Tells
    BY <2>1, <2>3, <2>4, ReadsOn DEF FineIn
  <2>8. ASSUME NEW s, s \notin DOMAIN Resumes PROVE Report(Go(old, s)) => Tells
    <3> DEFINE r == Go(old, s)
    <3>1. FineIn(r, s)
      BY <2>6
    <3> HIDE DEF r
    <3>2. Report(r) => Tells
      BY <2>1, <2>8, <3>1, Reports DEF FineIn
    <3> QED  BY <3>2 DEF r
  <2>9. Report(Go(parser, "s_req_http_start")) => Tells
    BY <2>1, ResumesAre, InsideEnds
  <2> QED  BY <1>4, <2>2, <2>5, <2>7, <2>8, <2>9, ResumesAre
<1> QED  BY <1>5, <1>6

\* The first letter of a value.
LEMMA StartValueTells ==
  ASSUME Outside, StartValue
  PROVE  Tells
<1> DEFINE q == [parser EXCEPT !.state = "s_header_value", !.index = 0]
           u == [q EXCEPT !.flags = @ \cup {"UPGRADE"}, !.header_state = "h_general"]
<1>1. FineIn(parser, parser.state)
  BY OutsideEnds
<1>2. FineIn(q, "s_header_value") /\ FineIn(u, "s_header_value")
  BY <1>1 DEF FineIn, Fine, Shaped, Fields
<1>3. \/ TakeMarked(u, "value") \/ Fail(q, "INVALID_CONTENT_LENGTH") \/ TakeMarked(q, "value")
      \/ \E s : TakeMarked([q EXCEPT !.header_state = s], "value")
  BY StartIs, Zenon
<1> HIDE DEF u, q
<1>4. ASSUME NEW STATE r, FineIn(r, "s_header_value"), TakeMarked(r, "value") PROVE Tells
  BY <1>4, ResumesAre, ReadsFirst DEF Outside, FineIn
<1>5. ASSUME NEW s, TakeMarked([q EXCEPT !.header_state = s], "value") PROVE Tells
  <2> DEFINE r == [q EXCEPT !.header_state = s]
  <2>1. FineIn(r, "s_header_value")
    BY <1>2, FineOthers
  <2>2. TakeMarked(r, "value")
    BY <1>5
  <2> HIDE DEF r
  <2> QED  BY <1>4, <2>1, <2>2
<1>6. Fail(q, "INVALID_CONTENT_LENGTH") => Tells
  BY <1>2, FailTells DEF Outside, FineIn, Fine
<1> QED  BY <1>2, <1>3, <1>4, <1>5, <1>6

\* The names, the values and the line ends of the header fields.
LEMMA HeaderTells ==
  ASSUME Reading, Shaped(parser), HeaderRound
  PROVE  Tells
<1>1. FineIn(parser, parser.state)
  BY DEF Reading, TellInv, FineIn, Fine
<1>2. /\ FineIn(NameLetter(parser, Byte), parser.state) /\ FineIn(ValueLetter(parser, Byte), parser.state)
      /\ FineIn(WithFlag(parser), parser.state)
  BY <1>1, FineLetters
<1>3. CASE HeaderFieldStart
  <2> DEFINE r == [parser EXCEPT !.state = "s_header_field", !.index = 0,
                                 !.header_state = NameStart(LOWER(Byte))]
             g == Go(parser, "s_headers_almost_done")
  <2>1. Outside
    BY <1>3, ResumesAre, OutsideAt DEF HeaderFieldStart, At, Openings
  <2>2. FineIn(r, "s_header_field")
    BY <1>1 DEF FineIn, Fine, Shaped, Fields
  <2>3. FineIn(g, "s_headers_almost_done")
    BY <1>1, FineOthers
  <2>4. Take(g) \/ Reexecute(g) \/ TakeMarked(r, "field") \/ Fail(parser, "INVALID_HEADER_TOKEN")
    BY <1>3, Zenon DEF HeaderFieldStart
  <2> HIDE DEF r
  <2>5. TakeMarked(r, "field") => Tells
    BY <2>1, <2>2, ResumesAre, ReadsFirst DEF Outside, FineIn
  <2>6. Take(g) => Tells
    BY <2>1, ResumesAre, OutsideEnds
  <2> HIDE DEF g
  <2>7. Reexecute(g) => Tells
    BY <2>1, <2>3, ResumesAre, ReadsAgain DEF Outside, FineIn
  <2> QED  BY <2>1, <2>4, <2>5, <2>6, <2>7, OutsideEnds
<1>4. CASE HeaderField
  <2> DEFINE q == NameLetter(parser, Byte)
  <2>1. parser.state = "s_header_field"
    BY <1>4 DEF HeaderField, At
  <2>2. \/ Take(q) \/ Report(Go(parser, "s_header_value_discard_ws")) \/ Fail(parser, "INVALID_HEADER_TOKEN")
    BY <1>4, Zenon DEF HeaderField
  <2>3. FineIn(q, "s_header_field")
    BY <1>2, <2>1
  <2> HIDE DEF q
  <2>4. Take(q) => Tells
    BY <2>1, <2>3, ResumesAre, ReadsOn DEF FineIn
  <2> QED  BY <2>1, <2>2, <2>4, ResumesAre, InsideEnds
<1>5. CASE HeaderValueDiscardWs \/ HeaderValueStart
  <2>1. Outside
    BY <1>5, ResumesAre, OutsideAt DEF HeaderValueDiscardWs, HeaderValueStart, At, Openings
  <2>2. \/ Take(parser) \/ Take(Go(parser, "s_header_value_discard_ws_almost_done"))
        \/ Take(Go(parser, "s_header_value_discard_lws")) \/ StartValue
    <3>1. CASE HeaderValueDiscardWs
      BY <3>1, Zenon DEF HeaderValueDiscardWs
    <3>2. CASE HeaderValueStart
      BY <3>2 DEF HeaderValueStart
    <3> QED  BY <1>5, <3>1, <3>2
  <2> QED  BY <2>1, <2>2, ResumesAre, OutsideEnds, StartValueTells
<1>6. CASE HeaderValue
  <2> DEFINE q == ValueLetter(parser, Byte)
             g == Go(parser, "s_header_almost_done")
  <2>1. parser.state = "s_header_value"
    BY <1>6 DEF HeaderValue, At
  <2>2. \/ Report(g) \/ ReportAgain(g) \/ Fail(parser, "INVALID_CONTENT_LENGTH") \/ Take(q)
    BY <1>6, Zenon DEF HeaderValue
  <2>3. FineIn(q, "s_header_value")
    BY <1>2, <2>1
  <2>4. Report(g) \/ ReportAgain(g) => Tells
    BY <2>1, ResumesAre, InsideEnds
  <2> HIDE DEF q, g
  <2>5. Take(q) => Tells
    BY <2>1, <2>3, ResumesAre, ReadsOn DEF FineIn
  <2> QED  BY <2>1, <2>2, <2>4, <2>5, ResumesAre, InsideEnds
<1>7. CASE AlmostDone
  <2>1. parser.state \in DOMAIN ExpectLf /\ parser.state \notin DOMAIN Resumes /\ parser.state \notin Openings
    BY <1>7, ResumesAre DEF AlmostDone, At, ExpectLf, Openings
  <2>2. Outside
    BY <2>1, OutsideAt
  <2> QED  BY <1>7, <2>1, <2>2, ResumesAre, OutsideEnds DEF AlmostDone
<1>8. CASE HeaderValueLws \/ DiscardLws
  <2> DEFINE f == Go(WithFlag(parser), "s_header_field_start")
             g == Go(parser, "s_header_value_start")
  <2>1. Outside
    BY <1>8, ResumesAre, OutsideAt DEF HeaderValueLws, DiscardLws, At, Openings
  <2>2. FineIn(g, "s_header_value_start") /\ FineIn(f, "s_header_field_start")
    <3> DEFINE w == WithFlag(parser)
    <3>1. FineIn(w, parser.state)
      BY <1>2
    <3> HIDE DEF w
    <3>2. FineIn(Go(w, "s_header_field_start"), "s_header_field_start")
      BY <3>1, FineOthers
    <3> QED  BY <1>1, <3>2, FineOthers DEF w
  <2>3. \/ Reexecute(g) \/ Reexecute(f) \/ Take(Go(parser, "s_header_value_discard_ws"))
        \/ Called(f, exec) /\ UNCHANGED <<head, wire, calls>>
    <3>1. CASE HeaderValueLws
      BY <3>1, Zenon DEF HeaderValueLws
    <3>2. CASE DiscardLws
      BY <3>2, Zenon DEF DiscardLws
    <3> QED  BY <1>8, <3>1, <3>2
  <2> HIDE DEF f, g
  <2>4. Reexecute(g) \/ Reexecute(f) => Tells
    BY <2>1, <2>2, ResumesAre, ReadsAgain DEF Outside, FineIn
  <2>5. Called(f, exec) /\ UNCHANGED <<head, wire, calls>> => Tells
    BY <2>1, <2>2, ResumesAre, CallsForNothing DEF Outside, FineIn
  <2> QED  BY <2>1, <2>3, <2>4, <2>5, ResumesAre, OutsideEnds
<1> QED  BY <1>3, <1>4, <1>5, <1>6, <1>7, <1>8 DEF HeaderRound

\* Every step.
LEMMA StepTells ==
  ASSUME MatchInv, SpellInv, TellInv, [Next]_vars
  PROVE  TellInv' /\ [TellStep]_vars
<1>1. Shaped(parser) /\ LocalsShaped(exec)
  BY DEF MatchInv, Good, SpellInv
<1>2. CASE StartLineRound \/ HeaderRound
  <2>1. exec.running
    BY <1>2 DEF StartLineRound, HeaderRound, StartReqOrRes, ResOrRespH, StartRes, HttpConstant,
       FirstMajor, Major, FirstMinor, ResMinor, ReqMinor, FirstStatusCode, StatusCode, StatusStart,
       Status, LineAlmostDone, StartReq, ReqMethod, SpacesBeforeUrl, UrlPrefix, Url, HttpStart,
       HeaderFieldStart, HeaderField, HeaderValueDiscardWs, HeaderValueStart, HeaderValue,
       AlmostDone, HeaderValueLws, DiscardLws, At
  <2>2. Reading
    BY <1>1, <2>1 DEF Reading
  <2>3. StartLineRound => Tells
    BY <1>1, <2>2, StartTells, LineTells, StatusTells, MethodTells, TargetTells DEF StartLineRound
  <2> QED  BY <1>1, <1>2, <2>2, <2>3, HeaderTells DEF Tells
<1>3. CASE EndOfBuffer
  <2>1. Reading
    BY <1>1, <1>3 DEF EndOfBuffer, Reading
  <2> QED  BY <1>1, <1>3, <2>1, EndTells DEF EndOfBuffer, Tells
<1>4. CASE Unpause
  BY <1>1, <1>4, UnpauseTells DEF Tells
<1>5. CASE \E n \in 1 .. Len(wire) : Execute(n)
  BY <1>1, <1>5, ExecuteTells DEF Tells
<1>6. CASE UNCHANGED vars
  BY <1>6 DEF vars, TellInv, Marks, Tokens
<1> QED  BY <1>2, <1>3, <1>4, <1>5, <1>6 DEF Next

\* Every letter is told once, in order, as what it is part of (http_parser.cpp:104-141,
\* 653-692, 2078-2100).
THEOREM LettersAreTold == Spec => LettersTold
<1>1. Init => TellInv
  <2> SUFFICES ASSUME Init PROVE TellInv
    OBVIOUS
  <2>1. calls = <<>> /\ exec.running = FALSE /\ exec.mark = 0
    BY DEF Init
  <2> QED  BY <2>1, NoData DEF TellInv, Marks
<1>2. MatchInv /\ SpellInv /\ TellInv /\ [Next]_vars => TellInv'
  BY StepTells
<1>3. MatchInv /\ SpellInv /\ TellInv /\ [Next]_vars =>
        [IF parser'.errno \in {"OK", "PAUSED"}
         THEN Told' = IF exec'.p = exec.p THEN Told ELSE Told \o Telling(Byte, parser'.state)
         ELSE calls' = calls]_vars
  BY StepTells, Zenon DEF TellStep
<1> QED  BY <1>1, <1>2, <1>3, FieldsStaySpelled, PTL DEF Spec, LettersTold

-----------------------------------------------------------------------------
(* The method *)

\* A request starts with the text or after a line end.
LineStart(w, n) == n = 0 \/ w[n] \in {CR, LF}

\* The methods whose second letter may be any letter, because their guess falls out of the
\* chain of ifs at index 1.
Unchecked == {"ACL", "BIND", "DELETE", "GET", "HEAD", "NOTIFY", "OPTIONS", "TRACE",
              "UNLOCK", "UNSUBSCRIBE", "UNBIND", "UNLINK"}

\* The first k letters after the first n of w are those of method m, as far as they are checked.
Loosely(w, n, m, k) ==
  \A i \in 1 .. k : w[n + i] = method_strings[m][i] \/ (i = 2 /\ m \in Unchecked)

Exactly(w, n, m, k) == k <= Len(method_strings[m]) /\ \A i \in 1 .. k : w[n + i] = method_strings[m][i]

\* A method that is spelled is recognised, for every guess its letters lead through, and one
\* that is recognised is spelled, but for a second letter the matcher does not look at
\* (http_parser.cpp:921-1065).
MethodRead ==
  [][parser.state = "s_req_method" /\ (parser'.state # "s_req_method" \/ parser'.errno = "INVALID_METHOD") =>
       \E n \in 0 .. exec.p :
         /\ LineStart(wire, n)
         /\ parser'.state = "s_req_spaces_before_url" =>
              /\ Byte = SP /\ exec.p = n + Len(method_strings[parser'.method])
              /\ Loosely(wire, n, parser'.method, exec.p - n)
         /\ \A m \in DOMAIN method_strings :
              Byte = SP /\ exec.p = n + Len(method_strings[m]) /\ Exactly(wire, n, m, exec.p - n) =>
                parser'.state = "s_req_spaces_before_url" /\ parser'.method = m
         /\ parser'.errno = "INVALID_METHOD" =>
              \A m \in DOMAIN method_strings : ~Exactly(wire, n, m, exec.p + 1 - n)]_vars

\* The guesses the letters of a method lead through before it is guessed itself.
Guesses ==
  [CHECKOUT |-> <<"CONNECT">>, COPY |-> <<"CONNECT", "CONNECT">>,
   MOVE |-> <<"MKCOL">>, MERGE |-> <<"MKCOL">>, MSEARCH |-> <<"MKCOL">>,
   MKACTIVITY |-> <<"MKCOL", "MKCOL">>, MKCALENDAR |-> <<"MKCOL", "MKCOL", "MKCOL">>,
   SEARCH |-> <<"SUBSCRIBE">>, REBIND |-> <<"REPORT", "REPORT">>, LINK |-> <<"LOCK">>,
   PROPFIND |-> <<"POST">>, PUT |-> <<"POST">>, PATCH |-> <<"POST">>, PURGE |-> <<"POST", "PUT">>,
   PROPPATCH |-> <<"POST", "PROPFIND", "PROPFIND", "PROPFIND">>,
   UNSUBSCRIBE |-> <<"UNLOCK", "UNLOCK">>, UNBIND |-> <<"UNLOCK", "UNLOCK">>,
   UNLINK |-> <<"UNLOCK", "UNLOCK", "UNLOCK">>]

\* The guess after the first k letters of m.
Guess(m, k) == IF m \in DOMAIN Guesses /\ k <= Len(Guesses[m]) THEN Guesses[m][k] ELSE m

\* The letter after the first k of m leads from one guess to the next.
Leads(m, k) ==
  LET word == method_strings[Guess(m, k)]
      ch == method_strings[m][k + 1]
  IN \/ CharAt(word, k) = ch /\ Guess(m, k + 1) = Guess(m, k)
     \/ CharAt(word, k) # ch /\ <<Guess(m, k), k, ch, Guess(m, k + 1)>> \in Revisions

\* Each guess leads to the next.
LEMMA LeadsThrough ==
  \A m \in DOMAIN Guesses : \A k \in 1 .. Len(Guesses[m]) : Leads(m, k)
<1>1. \A k \in 1 .. 1 : Leads("CHECKOUT", k)
  BY DEF Leads, Guess, Guesses, method_strings, CharAt, Revisions
<1>2. \A k \in 1 .. 2 : Leads("COPY", k)
  BY DEF Leads, Guess, Guesses, method_strings, CharAt, Revisions
<1>3. \A k \in 1 .. 1 : Leads("MOVE", k)
  BY DEF Leads, Guess, Guesses, method_strings, CharAt, Revisions
<1>4. \A k \in 1 .. 1 : Leads("MERGE", k)
  BY DEF Leads, Guess, Guesses, method_strings, CharAt, Revisions
<1>5. \A k \in 1 .. 1 : Leads("MSEARCH", k)
  BY DEF Leads, Guess, Guesses, method_strings, CharAt, Revisions
<1>6. \A k \in 1 .. 2 : Leads("MKACTIVITY", k)
  <2>1. Leads("MKACTIVITY", 1)
    <3>1. Guess("MKACTIVITY", 1) = "MKCOL" /\ Guess("MKACTIVITY", 1 + 1) = "MKCOL"
      BY DEF Guess, Guesses
    <3>2. method_strings["MKACTIVITY"][1 + 1] = "K" /\ CharAt(method_strings["MKCOL"], 1) = "K"
      BY DEF method_strings, CharAt
    <3> QED  BY <3>1, <3>2 DEF Leads, Revisions
  <2>2. Leads("MKACTIVITY", 2)
    <3>1. Guess("MKACTIVITY", 2) = "MKCOL" /\ Guess("MKACTIVITY", 2 + 1) = "MKACTIVITY"
      BY DEF Guess, Guesses
    <3>2. method_strings["MKACTIVITY"][2 + 1] = "A" /\ CharAt(method_strings["MKCOL"], 2) = "C"
      BY DEF method_strings, CharAt
    <3> QED  BY <3>1, <3>2 DEF Leads, Revisions
  <2> QED  BY <2>1, <2>2
<1>7. \A k \in 1 .. 3 : Leads("MKCALENDAR", k)
  <2>1. Leads("MKCALENDAR", 1)
    <3>1. Guess("MKCALENDAR", 1) = "MKCOL" /\ Guess("MKCALENDAR", 1 + 1) = "MKCOL"
      BY DEF Guess, Guesses
    <3>2. method_strings["MKCALENDAR"][1 + 1] = "K" /\ CharAt(method_strings["MKCOL"], 1) = "K"
      BY DEF method_strings, CharAt
    <3> QED  BY <3>1, <3>2 DEF Leads, Revisions
  <2>2. Leads("MKCALENDAR", 2)
    <3>1. Guess("MKCALENDAR", 2) = "MKCOL" /\ Guess("MKCALENDAR", 2 + 1) = "MKCOL"
      BY DEF Guess, Guesses
    <3>2. method_strings["MKCALENDAR"][2 + 1] = "C" /\ CharAt(method_strings["MKCOL"], 2) = "C"
      BY DEF method_strings, CharAt
    <3> QED  BY <3>1, <3>2 DEF Leads, Revisions
  <2>3. Leads("MKCALENDAR", 3)
    <3>1. Guess("MKCALENDAR", 3) = "MKCOL" /\ Guess("MKCALENDAR", 3 + 1) = "MKCALENDAR"
      BY DEF Guess, Guesses
    <3>2. method_strings["MKCALENDAR"][3 + 1] = "A" /\ CharAt(method_strings["MKCOL"], 3) = "O"
      BY DEF method_strings, CharAt
    <3> QED  BY <3>1, <3>2 DEF Leads, Revisions
  <2> QED  BY <2>1, <2>2, <2>3
<1>8. \A k \in 1 .. 1 : Leads("SEARCH", k)
  <2>1. Leads("SEARCH", 1)
    <3>1. Guess("SEARCH", 1) = "SUBSCRIBE" /\ Guess("SEARCH", 1 + 1) = "SEARCH"
      BY DEF Guess, Guesses
    <3>2. method_strings["SEARCH"][1 + 1] = "E" /\ CharAt(method_strings["SUBSCRIBE"], 1) = "U"
      BY DEF method_strings, CharAt
    <3> QED  BY <3>1, <3>2 DEF Leads, Revisions
  <2> QED  BY <2>1
<1>9. \A k \in 1 .. 2 : Leads("REBIND", k)
  <2>1. Leads("REBIND", 1)
    <3>1. Guess("REBIND", 1) = "REPORT" /\ Guess("REBIND", 1 + 1) = "REPORT"
      BY DEF Guess, Guesses
    <3>2. method_strings["REBIND"][1 + 1] = "E" /\ CharAt(method_strings["REPORT"], 1) = "E"
      BY DEF method_strings, CharAt
    <3> QED  BY <3>1, <3>2 DEF Leads, Revisions
  <2>2. Leads("REBIND", 2)
    <3>1. Guess("REBIND", 2) = "REPORT" /\ Guess("REBIND", 2 + 1) = "REBIND"
      BY DEF Guess, Guesses
    <3>2. method_strings["REBIND"][2 + 1] = "B" /\ CharAt(method_strings["REPORT"], 2) = "P"
      BY DEF method_strings, CharAt
    <3> QED  BY <3>1, <3>2 DEF Leads, Revisions
  <2> QED  BY <2>1, <2>2
<1>10. \A k \in 1 .. 1 : Leads("LINK", k)
  BY DEF Leads, Guess, Guesses, method_strings, CharAt, Revisions
<1>11. \A k \in 1 .. 1 : Leads("PROPFIND", k)
  BY DEF Leads, Guess, Guesses, method_strings, CharAt, Revisions
<1>12. \A k \in 1 .. 1 : Leads("PUT", k)
  BY DEF Leads, Guess, Guesses, method_strings, CharAt, Revisions
<1>13. \A k \in 1 .. 1 : Leads("PATCH", k)
  BY DEF Leads, Guess, Guesses, method_strings, CharAt, Revisions
<1>14. \A k \in 1 .. 2 : Leads("PURGE", k)
  BY DEF Leads, Guess, Guesses, method_strings, CharAt, Revisions
<1>15. \A k \in 1 .. 4 : Leads("PROPPATCH", k)
  <2>1. Leads("PROPPATCH", 1)
    <3>1. Guess("PROPPATCH", 1) = "POST" /\ Guess("PROPPATCH", 1 + 1) = "PROPFIND"
      BY DEF Guess, Guesses
    <3>2. method_strings["PROPPATCH"][1 + 1] = "R" /\ CharAt(method_strings["POST"], 1) = "O"
      BY DEF method_strings, CharAt
    <3> QED  BY <3>1, <3>2 DEF Leads, Revisions
  <2>2. Leads("PROPPATCH", 2)
    <3>1. Guess("PROPPATCH", 2) = "PROPFIND" /\ Guess("PROPPATCH", 2 + 1) = "PROPFIND"
      BY DEF Guess, Guesses
    <3>2. method_strings["PROPPATCH"][2 + 1] = "O" /\ CharAt(method_strings["PROPFIND"], 2) = "O"
      BY DEF method_strings, CharAt
    <3> QED  BY <3>1, <3>2 DEF Leads, Revisions
  <2>3. Leads("PROPPATCH", 3)
    <3>1. Guess("PROPPATCH", 3) = "PROPFIND" /\ Guess("PROPPATCH", 3 + 1) = "PROPFIND"
      BY DEF Guess, Guesses
    <3>2. method_strings["PROPPATCH"][3 + 1] = "P" /\ CharAt(method_strings["PROPFIND"], 3) = "P"
      BY DEF method_strings, CharAt
    <3> QED  BY <3>1, <3>2 DEF Leads, Revisions
  <2>4. Leads("PROPPATCH", 4)
    <3>1. Guess("PROPPATCH", 4) = "PROPFIND" /\ Guess("PROPPATCH", 4 + 1) = "PROPPATCH"
      BY DEF Guess, Guesses
    <3>2. method_strings["PROPPATCH"][4 + 1] = "P" /\ CharAt(method_strings["PROPFIND"], 4) = "F"
      BY DEF method_strings, CharAt
    <3> QED  BY <3>1, <3>2 DEF Leads, Revisions
  <2> QED  BY <2>1, <2>2, <2>3, <2>4
<1>16. \A k \in 1 .. 2 : Leads("UNSUBSCRIBE", k)
  <2>1. Leads("UNSUBSCRIBE", 1)
    <3>1. Guess("UNSUBSCRIBE", 1) = "UNLOCK" /\ Guess("UNSUBSCRIBE", 1 + 1) = "UNLOCK"
      BY DEF Guess, Guesses
    <3>2. method_strings["UNSUBSCRIBE"][1 + 1] = "N" /\ CharAt(method_strings["UNLOCK"], 1) = "N"
      BY DEF method_strings, CharAt
    <3> QED  BY <3>1, <3>2 DEF Leads, Revisions
  <2>2. Leads("UNSUBSCRIBE", 2)
    <3>1. Guess("UNSUBSCRIBE", 2) = "UNLOCK" /\ Guess("UNSUBSCRIBE", 2 + 1) = "UNSUBSCRIBE"
      BY DEF Guess, Guesses
    <3>2. method_strings["UNSUBSCRIBE"][2 + 1] = "S" /\ CharAt(method_strings["UNLOCK"], 2) = "L"
      BY DEF method_strings, CharAt
    <3> QED  BY <3>1, <3>2 DEF Leads, Revisions
  <2> QED  BY <2>1, <2>2
<1>17. \A k \in 1 .. 2 : Leads("UNBIND", k)
  <2>1. Leads("UNBIND", 1)
    <3>1. Guess("UNBIND", 1) = "UNLOCK" /\ Guess("UNBIND", 1 + 1) = "UNLOCK"
      BY DEF Guess, Guesses
    <3>2. method_strings["UNBIND"][1 + 1] = "N" /\ CharAt(method_strings["UNLOCK"], 1) = "N"
      BY DEF method_strings, CharAt
    <3> QED  BY <3>1, <3>2 DEF Leads, Revisions
  <2>2. Leads("UNBIND", 2)
    <3>1. Guess("UNBIND", 2) = "UNLOCK" /\ Guess("UNBIND", 2 + 1) = "UNBIND"
      BY DEF Guess, Guesses
    <3>2. method_strings["UNBIND"][2 + 1] = "B" /\ CharAt(method_strings["UNLOCK"], 2) = "L"
      BY DEF method_strings, CharAt
    <3> QED  BY <3>1, <3>2 DEF Leads, Revisions
  <2> QED  BY <2>1, <2>2
<1>18. \A k \in 1 .. 3 : Leads("UNLINK", k)
  <2>1. Leads("UNLINK", 1)
    <3>1. Guess("UNLINK", 1) = "UNLOCK" /\ Guess("UNLINK", 1 + 1) = "UNLOCK"
      BY DEF Guess, Guesses
    <3>2. method_strings["UNLINK"][1 + 1] = "N" /\ CharAt(method_strings["UNLOCK"], 1) = "N"
      BY DEF method_strings, CharAt
    <3> QED  BY <3>1, <3>2 DEF Leads, Revisions
  <2>2. Leads("UNLINK", 2)
    <3>1. Guess("UNLINK", 2) = "UNLOCK" /\ Guess("UNLINK", 2 + 1) = "UNLOCK"
      BY DEF Guess, Guesses
    <3>2. method_strings["UNLINK"][2 + 1] = "L" /\ CharAt(method_strings["UNLOCK"], 2) = "L"
      BY DEF method_strings, CharAt
    <3> QED  BY <3>1, <3>2 DEF Leads, Revisions
  <2>3. Leads("UNLINK", 3)
    <3>1. Guess("UNLINK", 3) = "UNLOCK" /\ Guess("UNLINK", 3 + 1) = "UNLINK"
      BY DEF Guess, Guesses
    <3>2. method_strings["UNLINK"][3 + 1] = "I" /\ CharAt(method_strings["UNLOCK"], 3) = "O"
      BY DEF method_strings, CharAt
    <3> QED  BY <3>1, <3>2 DEF Leads, Revisions
  <2> QED  BY <2>1, <2>2, <2>3
<1>19. DOMAIN Guesses = {"CHECKOUT", "COPY", "MOVE", "MERGE", "MSEARCH", "MKACTIVITY", "MKCALENDAR", "SEARCH", "REBIND", "LINK", "PROPFIND", "PUT", "PATCH", "PURGE", "PROPPATCH", "UNSUBSCRIBE", "UNBIND", "UNLINK"}
  BY DEF Guesses
<1>20. Len(Guesses["CHECKOUT"]) = 1 /\ Len(Guesses["COPY"]) = 2 /\ Len(Guesses["MOVE"]) = 1 /\ Len(Guesses["MERGE"]) = 1 /\ Len(Guesses["MSEARCH"]) = 1 /\ Len(Guesses["MKACTIVITY"]) = 2 /\ Len(Guesses["MKCALENDAR"]) = 3 /\ Len(Guesses["SEARCH"]) = 1 /\ Len(Guesses["REBIND"]) = 2 /\ Len(Guesses["LINK"]) = 1 /\ Len(Guesses["PROPFIND"]) = 1 /\ Len(Guesses["PUT"]) = 1 /\ Len(Guesses["PATCH"]) = 1 /\ Len(Guesses["PURGE"]) = 2 /\ Len(Guesses["PROPPATCH"]) = 4 /\ Len(Guesses["UNSUBSCRIBE"]) = 2 /\ Len(Guesses["UNBIND"]) = 2 /\ Len(Guesses["UNLINK"]) = 3
  BY DEF Guesses
<1> QED
  BY <1>1, <1>2, <1>3, <1>4, <1>5, <1>6, <1>7, <1>8, <1>9, <1>10, <1>11, <1>12, <1>13, <1>14, <1>15, <1>16, <1>17, <1>18, <1>19, <1>20

\* A revised guess has the letters of the one before it so far, and the letter that tells.
Shares(r) ==
  /\ \A i \in 1 .. r[2] : method_strings[r[1]][i] = method_strings[r[4]][i]
  /\ method_strings[r[4]][r[2] + 1] = r[3]

\* Every revision is one of a guess that shares its letters so far.
LEMMA RevisionsShare ==
  \A r \in Revisions : Shares(r)
<1>1. Shares(<<"CONNECT", 1, "H", "CHECKOUT">>)
  BY DEF Shares, method_strings
<1>2. Shares(<<"CONNECT", 2, "P", "COPY">>)
  BY DEF Shares, method_strings
<1>3. Shares(<<"MKCOL", 1, "O", "MOVE">>)
  BY DEF Shares, method_strings
<1>4. Shares(<<"MKCOL", 1, "E", "MERGE">>)
  BY DEF Shares, method_strings
<1>5. Shares(<<"MKCOL", 1, "-", "MSEARCH">>)
  BY DEF Shares, method_strings
<1>6. Shares(<<"MKCOL", 2, "A", "MKACTIVITY">>)
  BY DEF Shares, method_strings
<1>7. Shares(<<"MKCOL", 3, "A", "MKCALENDAR">>)
  BY DEF Shares, method_strings
<1>8. Shares(<<"SUBSCRIBE", 1, "E", "SEARCH">>)
  BY DEF Shares, method_strings
<1>9. Shares(<<"REPORT", 2, "B", "REBIND">>)
  BY DEF Shares, method_strings
<1>10. Shares(<<"POST", 1, "R", "PROPFIND">>)
  BY DEF Shares, method_strings
<1>11. Shares(<<"POST", 1, "U", "PUT">>)
  BY DEF Shares, method_strings
<1>12. Shares(<<"POST", 1, "A", "PATCH">>)
  BY DEF Shares, method_strings
<1>13. Shares(<<"LOCK", 1, "I", "LINK">>)
  BY DEF Shares, method_strings
<1>14. Shares(<<"PUT", 2, "R", "PURGE">>)
  BY DEF Shares, method_strings
<1>15. Shares(<<"UNLOCK", 2, "S", "UNSUBSCRIBE">>)
  BY DEF Shares, method_strings
<1>16. Shares(<<"UNLOCK", 2, "B", "UNBIND">>)
  BY DEF Shares, method_strings
<1>17. Shares(<<"PROPFIND", 4, "P", "PROPPATCH">>)
  BY DEF Shares, method_strings
<1>18. Shares(<<"UNLOCK", 3, "I", "UNLINK">>)
  BY DEF Shares, method_strings
<1> QED
  BY <1>1, <1>2, <1>3, <1>4, <1>5, <1>6, <1>7, <1>8, <1>9, <1>10, <1>11, <1>12, <1>13, <1>14, <1>15, <1>16, <1>17, <1>18 DEF Revisions

\* A letter tells one revision from another, and revisions are not of a method that is longer
\* unchecked.
LEMMA RevisionFacts ==
  /\ \A r, s \in Revisions : r[1] = s[1] /\ r[2] = s[2] /\ r[3] = s[3] => r[4] = s[4]
  /\ \A r \in Revisions : r[2] \in 1 .. 4 /\ (r[1] \in Unchecked => r[4] \in Unchecked)
<1>1. \A r, s \in Revisions : r[1] = s[1] /\ r[2] = s[2] /\ r[3] = s[3] => r[4] = s[4]
  BY DEF Revisions
<1>2. \A r \in Revisions : r[2] \in 1 .. 4
  BY DEF Revisions
<1>3. \A r \in Revisions : r[1] \in Unchecked => r[4] \in Unchecked
  BY DEF Revisions, Unchecked
<1> QED  BY <1>1, <1>2, <1>3

\* The letters of the methods.
MethodLetters ==
  {"A", "B", "C", "D", "E", "F", "G", "H", "I", "J", "K", "L", "M", "N", "O", "P", "Q", "R", "S", "T",
   "U", "V", "W", "X", "Y", "Z", "-"}

\* The word of method m consists of them.
Lettered(m) == \A k \in 1 .. Len(method_strings[m]) : method_strings[m][k] \in MethodLetters

\* A method ends where NUL follows, and has no blank.
LEMMA MethodsAreLettered ==
  /\ \A m \in DOMAIN method_strings : Lettered(m)
  /\ NUL \notin MethodLetters /\ SP \notin MethodLetters
<1>1. /\ Lettered("DELETE") /\ Lettered("GET") /\ Lettered("HEAD") /\ Lettered("POST")
      /\ Lettered("PUT") /\ Lettered("CONNECT") /\ Lettered("OPTIONS") /\ Lettered("TRACE")
      /\ Lettered("COPY") /\ Lettered("LOCK") /\ Lettered("MKCOL") /\ Lettered("MOVE")
      /\ Lettered("PROPFIND") /\ Lettered("PROPPATCH") /\ Lettered("SEARCH") /\ Lettered("UNLOCK")
      /\ Lettered("BIND") /\ Lettered("REBIND") /\ Lettered("UNBIND") /\ Lettered("ACL")
      /\ Lettered("REPORT") /\ Lettered("MKACTIVITY") /\ Lettered("CHECKOUT") /\ Lettered("MERGE")
      /\ Lettered("MSEARCH") /\ Lettered("NOTIFY") /\ Lettered("SUBSCRIBE") /\ Lettered("UNSUBSCRIBE")
      /\ Lettered("PATCH") /\ Lettered("PURGE") /\ Lettered("MKCALENDAR") /\ Lettered("LINK")
      /\ Lettered("UNLINK")
  BY DEF Lettered, method_strings, MethodLetters
<1>2. DOMAIN method_strings =
        {"DELETE", "GET", "HEAD", "POST", "PUT", "CONNECT", "OPTIONS", "TRACE", "COPY", "LOCK", "MKCOL", "MOVE", "PROPFIND", "PROPPATCH", "SEARCH", "UNLOCK", "BIND", "REBIND", "UNBIND", "ACL", "REPORT", "MKACTIVITY", "CHECKOUT", "MERGE", "MSEARCH", "NOTIFY", "SUBSCRIBE", "UNSUBSCRIBE", "PATCH", "PURGE", "MKCALENDAR", "LINK", "UNLINK"}
  BY DEF method_strings
<1>3. SP \notin MethodLetters
  BY Zenon DEF SP, MethodLetters
<1>4. NUL \notin MethodLetters
  BY Zenon DEF NUL, MethodLetters
<1> QED  BY <1>1, <1>2, <1>3, <1>4

\* The first letter of m leads to the guess for it.
Opened(m) ==
  LET c == method_strings[m][1]
  IN c \in DOMAIN FirstGuess /\ FirstGuess[c] = Guess(m, 1) /\ (c = "H" => m = "HEAD")

\* The first guess has the letter that was read, and checks the next or is one that does not.
LEMMA FirstGuessFacts ==
  /\ \A c \in DOMAIN FirstGuess :
       /\ method_strings[FirstGuess[c]][1] = c
       /\ FirstGuess[c] \notin Checked => FirstGuess[c] \in Unchecked
  /\ \A m \in DOMAIN method_strings : Opened(m)
<1>1. \A c \in DOMAIN FirstGuess : method_strings[FirstGuess[c]][1] = c
  BY DEF FirstGuess, method_strings
<1>2. \A c \in DOMAIN FirstGuess : FirstGuess[c] \notin Checked => FirstGuess[c] \in Unchecked
  BY DEF FirstGuess, Checked, Unchecked
<1>3. /\ Opened("DELETE") /\ Opened("GET") /\ Opened("HEAD") /\ Opened("POST")
      /\ Opened("PUT") /\ Opened("CONNECT") /\ Opened("OPTIONS") /\ Opened("TRACE")
      /\ Opened("COPY") /\ Opened("LOCK") /\ Opened("MKCOL")
  BY DEF Opened, method_strings, FirstGuess, Guess, Guesses
<1>4. /\ Opened("MOVE") /\ Opened("PROPFIND") /\ Opened("PROPPATCH") /\ Opened("SEARCH")
      /\ Opened("UNLOCK") /\ Opened("BIND") /\ Opened("REBIND") /\ Opened("UNBIND")
      /\ Opened("ACL") /\ Opened("REPORT") /\ Opened("MKACTIVITY")
  BY DEF Opened, method_strings, FirstGuess, Guess, Guesses
<1>5. /\ Opened("CHECKOUT") /\ Opened("MERGE") /\ Opened("MSEARCH") /\ Opened("NOTIFY")
      /\ Opened("SUBSCRIBE") /\ Opened("UNSUBSCRIBE") /\ Opened("PATCH") /\ Opened("PURGE")
      /\ Opened("MKCALENDAR") /\ Opened("LINK") /\ Opened("UNLINK")
  BY DEF Opened, method_strings, FirstGuess, Guess, Guesses
<1>6. DOMAIN method_strings =
        {"DELETE", "GET", "HEAD", "POST", "PUT", "CONNECT", "OPTIONS", "TRACE",
         "COPY", "LOCK", "MKCOL", "MOVE", "PROPFIND", "PROPPATCH", "SEARCH", "UNLOCK",
         "BIND", "REBIND", "UNBIND", "ACL", "REPORT", "MKACTIVITY", "CHECKOUT", "MERGE",
         "MSEARCH", "NOTIFY", "SUBSCRIBE", "UNSUBSCRIBE", "PATCH", "PURGE", "MKCALENDAR", "LINK",
         "UNLINK"}
  BY DEF method_strings
<1>7. \A m \in DOMAIN method_strings : Opened(m)
  BY <1>3, <1>4, <1>5, <1>6
<1> QED  BY <1>1, <1>2, <1>7

\* The guesses for m end before m does.
Shorter(m) == Len(Guesses[m]) \in Nat /\ Len(Guesses[m]) < Len(method_strings[m])

\* Before its last letter a method is guessed itself.
LEMMA GuessesEnd ==
  /\ DOMAIN Guesses \subseteq DOMAIN method_strings
  /\ \A m \in DOMAIN Guesses : Shorter(m)
<1>1. DOMAIN Guesses =
        {"CHECKOUT", "COPY", "MOVE", "MERGE", "MSEARCH", "MKACTIVITY", "MKCALENDAR", "SEARCH",
         "REBIND", "LINK", "PROPFIND", "PUT", "PATCH", "PURGE", "PROPPATCH", "UNSUBSCRIBE",
         "UNBIND", "UNLINK"}
  BY DEF Guesses
<1>2. /\ Shorter("CHECKOUT") /\ Shorter("COPY") /\ Shorter("MOVE")
      /\ Shorter("MERGE") /\ Shorter("MSEARCH") /\ Shorter("MKACTIVITY")
  BY DEF Shorter, method_strings, Guesses
<1>3. /\ Shorter("MKCALENDAR") /\ Shorter("SEARCH") /\ Shorter("REBIND")
      /\ Shorter("LINK") /\ Shorter("PROPFIND") /\ Shorter("PUT")
  BY DEF Shorter, method_strings, Guesses
<1>4. /\ Shorter("PATCH") /\ Shorter("PURGE") /\ Shorter("PROPPATCH")
      /\ Shorter("UNSUBSCRIBE") /\ Shorter("UNBIND") /\ Shorter("UNLINK")
  BY DEF Shorter, method_strings, Guesses
<1>5. DOMAIN Guesses \subseteq DOMAIN method_strings
  BY <1>1 DEF method_strings
<1> QED  BY <1>1, <1>2, <1>3, <1>4, <1>5

\* The letters after "H" and "HE" are those of HEAD alone.
LEMMA HeadIs ==
  /\ method_strings["HEAD"][1] = "H" /\ method_strings["HEAD"][2] = "E" /\ "HEAD" \in DOMAIN method_strings
  /\ Guess("HEAD", 1) = "HEAD" /\ Guess("HEAD", 2) = "HEAD"
BY DEF method_strings, Guess, Guesses

\* Every letter of a method but its first leads from one guess to the next.
LEMMA GuessesLead ==
  /\ \A m \in DOMAIN method_strings : \A k \in Nat : k >= 1 /\ k + 1 <= Len(method_strings[m]) => Leads(m, k)
  /\ \A m \in DOMAIN method_strings : Guess(m, Len(method_strings[m])) = m
<1>1. ASSUME NEW m \in DOMAIN method_strings, NEW k \in Nat, k >= 1, k + 1 <= Len(method_strings[m])
      PROVE  Leads(m, k)
  <2>1. Len(method_strings[m]) \in Nat
    BY MethodLengths
  <2>2. CASE m \in DOMAIN Guesses /\ k <= Len(Guesses[m])
    <3>1. k \in 1 .. Len(Guesses[m])
      BY <1>1, <2>2, GuessesEnd DEF Shorter
    <3> QED  BY <2>2, <3>1, LeadsThrough
  <2>3. CASE ~(m \in DOMAIN Guesses /\ k <= Len(Guesses[m]))
    <3>1. Guess(m, k) = m
      BY <2>3 DEF Guess
    <3>2. m \in DOMAIN Guesses => ~(k + 1 <= Len(Guesses[m]))
      BY <2>3, GuessesEnd DEF Shorter
    <3>3. Guess(m, k + 1) = m
      BY <3>2 DEF Guess
    <3>4. k # Len(method_strings[m])
      BY <1>1, <2>1
    <3>5. CharAt(method_strings[m], k) = method_strings[m][k + 1]
      BY <3>4 DEF CharAt
    <3> QED  BY <3>1, <3>3, <3>5 DEF Leads
  <2> QED  BY <2>2, <2>3
<1>2. ASSUME NEW m \in DOMAIN method_strings PROVE Guess(m, Len(method_strings[m])) = m
  <2>1. Len(method_strings[m]) \in Nat
    BY MethodLengths
  <2>2. m \in DOMAIN Guesses => ~(Len(method_strings[m]) <= Len(Guesses[m]))
    BY <2>1, GuessesEnd DEF Shorter
  <2> QED  BY <2>2 DEF Guess
<1> QED  BY <1>1, <1>2

\* What the first k letters after n say of the guess g.
GuessedAt(w, g, n, k) ==
  Loosely(w, n, g, k) /\ \A m \in DOMAIN method_strings : Exactly(w, n, m, k) => g = Guess(m, k)

\* A method that is spelled with another letter was guessed before it, and the letter tells.
LEMMA SpelledLeads ==
  ASSUME NEW w, NEW g, NEW n \in Nat, NEW k \in Nat, k >= 1, GuessedAt(w, g, n, k),
         NEW m \in DOMAIN method_strings, Exactly(w, n, m, k + 1)
  PROVE  LET ch == w[n + (k + 1)]
             h == Guess(m, k + 1)
         IN /\ g = Guess(m, k) /\ ch \in MethodLetters
            /\ \/ CharAt(method_strings[g], k) = ch /\ h = g
               \/ CharAt(method_strings[g], k) # ch /\ <<g, k, ch, h>> \in Revisions
<1>1. k + 1 <= Len(method_strings[m]) /\ Len(method_strings[m]) \in Nat
  BY MethodLengths DEF Exactly
<1>2. \A i \in 1 .. k : i \in 1 .. k + 1
  OBVIOUS
<1>3. Exactly(w, n, m, k)
  <2>1. k <= Len(method_strings[m])
    BY <1>1
  <2>2. ASSUME NEW i \in 1 .. k PROVE w[n + i] = method_strings[m][i]
    <3>1. i \in 1 .. k + 1
      BY <1>2
    <3> QED  BY <3>1 DEF Exactly
  <2> QED  BY <2>1, <2>2 DEF Exactly
<1>4. g = Guess(m, k)
  BY <1>3 DEF GuessedAt
<1>5. k + 1 \in 1 .. k + 1 /\ k + 1 \in 1 .. Len(method_strings[m])
  BY <1>1
<1>6. w[n + (k + 1)] = method_strings[m][k + 1]
  BY <1>5 DEF Exactly
<1>7. method_strings[m][k + 1] \in MethodLetters
  BY <1>5, MethodsAreLettered DEF Lettered
<1>8. Leads(m, k)
  BY <1>1, GuessesLead
<1> QED  BY <1>4, <1>6, <1>7, <1>8 DEF Leads

\* The first letter of a method.
LEMMA ReadFirst ==
  ASSUME NEW w, NEW n \in Nat, w[n + 1] \in DOMAIN FirstGuess
  PROVE  GuessedAt(w, FirstGuess[w[n + 1]], n, 1)
<1> DEFINE g == FirstGuess[w[n + 1]]
<1>1. Loosely(w, n, g, 1)
  <2>1. \A i \in 1 .. 1 : i = 1
    OBVIOUS
  <2>2. method_strings[g][1] = w[n + 1]
    BY FirstGuessFacts
  <2> QED  BY <2>1, <2>2 DEF Loosely
<1>2. ASSUME NEW m \in DOMAIN method_strings, Exactly(w, n, m, 1) PROVE g = Guess(m, 1)
  <2>1. w[n + 1] = method_strings[m][1]
    BY <1>2 DEF Exactly
  <2>2. Opened(m)
    BY FirstGuessFacts
  <2> QED  BY <2>1, <2>2 DEF Opened
<1> QED  BY <1>1, <1>2 DEF GuessedAt

\* The first two of HEAD, where a response might have started.
LEMMA ReadHead ==
  ASSUME NEW w, NEW n \in Nat, w[n + 1] = "H", w[n + 2] = "E"
  PROVE  GuessedAt(w, "HEAD", n, 2)
<1>1. Loosely(w, n, "HEAD", 2)
  <2>1. \A i \in 1 .. 2 : i = 1 \/ i = 2
    OBVIOUS
  <2> QED  BY <2>1, HeadIs DEF Loosely
<1>2. ASSUME NEW m \in DOMAIN method_strings, Exactly(w, n, m, 2) PROVE "HEAD" = Guess(m, 2)
  <2>1. method_strings[m][1] = "H"
    <3>1. 1 \in 1 .. 2
      OBVIOUS
    <3> QED  BY <1>2, <3>1 DEF Exactly
  <2>2. m = "HEAD"
    BY <2>1, FirstGuessFacts DEF Opened
  <2> QED  BY <2>2, HeadIs
<1> QED  BY <1>1, <1>2 DEF GuessedAt

\* Another letter is the one that is expected, or one that is not looked at.
LEMMA ReadNext ==
  ASSUME NEW w, NEW g \in DOMAIN method_strings, NEW n \in Nat, NEW k \in Nat, k >= 1,
         k <= Len(method_strings[g]), GuessedAt(w, g, n, k),
         LET ch == w[n + (k + 1)]
         IN \/ ch = CharAt(method_strings[g], k) /\ ch # NUL
            \/ /\ k = 1 /\ g \in Unchecked
               /\ \A r \in Revisions : ~(r[1] = g /\ r[2] = k /\ r[3] = ch)
  PROVE  GuessedAt(w, g, n, k + 1)
<1> DEFINE ch == w[n + (k + 1)]
<1>1. ch = method_strings[g][k + 1] \/ (k + 1 = 2 /\ g \in Unchecked)
  BY DEF CharAt
<1>2. Loosely(w, n, g, k + 1)
  <2>1. ASSUME NEW i \in 1 .. k + 1
        PROVE  w[n + i] = method_strings[g][i] \/ (i = 2 /\ g \in Unchecked)
    <3>1. i \in 1 .. k \/ i = k + 1
      OBVIOUS
    <3>2. CASE i \in 1 .. k
      BY <3>2 DEF GuessedAt, Loosely
    <3>3. CASE i = k + 1
      BY <1>1, <3>3
    <3> QED  BY <3>1, <3>2, <3>3
  <2> QED  BY <2>1 DEF Loosely
<1>3. ASSUME NEW m \in DOMAIN method_strings, Exactly(w, n, m, k + 1) PROVE g = Guess(m, k + 1)
  <2> DEFINE h == Guess(m, k + 1)
             r == <<g, k, ch, h>>
  <2>1. \/ CharAt(method_strings[g], k) = ch /\ h = g
        \/ CharAt(method_strings[g], k) # ch /\ r \in Revisions
    BY <1>3, SpelledLeads
  <2>2. r[1] = g /\ r[2] = k /\ r[3] = ch
    OBVIOUS
  <2> HIDE DEF r, ch
  <2> QED  BY <2>1, <2>2 DEF ch
<1> QED  BY <1>2, <1>3 DEF GuessedAt

\* A letter that revises the guess.
LEMMA ReadRevised ==
  ASSUME NEW w, NEW g \in DOMAIN method_strings, NEW n \in Nat, NEW k \in Nat, k >= 1, GuessedAt(w, g, n, k),
         NEW r \in Revisions, r[1] = g, r[2] = k, r[3] = w[n + (k + 1)],
         w[n + (k + 1)] # CharAt(method_strings[g], k)
  PROVE  GuessedAt(w, r[4], n, k + 1)
<1> DEFINE ch == w[n + (k + 1)]
           f == r[4]
<1>1. /\ \A i \in 1 .. k : method_strings[g][i] = method_strings[f][i]
      /\ method_strings[f][k + 1] = ch
      /\ g \in Unchecked => f \in Unchecked
  BY RevisionsShare, RevisionFacts DEF Shares
<1>2. Loosely(w, n, f, k + 1)
  <2> HIDE DEF f
  <2>1. ASSUME NEW i \in 1 .. k + 1
        PROVE  w[n + i] = method_strings[f][i] \/ (i = 2 /\ f \in Unchecked)
    <3>1. i \in 1 .. k \/ i = k + 1
      OBVIOUS
    <3>2. CASE i \in 1 .. k
      BY <1>1, <3>2 DEF GuessedAt, Loosely
    <3>3. CASE i = k + 1
      BY <1>1, <3>3
    <3> QED  BY <3>1, <3>2, <3>3
  <2> QED  BY <2>1 DEF Loosely
<1>3. ASSUME NEW m \in DOMAIN method_strings, Exactly(w, n, m, k + 1) PROVE f = Guess(m, k + 1)
  <2> DEFINE h == Guess(m, k + 1)
             s == <<g, k, ch, h>>
  <2>1. s \in Revisions
    BY <1>3, SpelledLeads
  <2>2. s[1] = g /\ s[2] = k /\ s[3] = ch /\ s[4] = h
    OBVIOUS
  <2> HIDE DEF s
  <2> QED  BY <2>1, <2>2, RevisionFacts
<1> QED  BY <1>2, <1>3 DEF GuessedAt

\* A letter that no revision knows, and the guess does not expect: no method is spelled so.
LEMMA ReadNothing ==
  ASSUME NEW w, NEW g \in DOMAIN method_strings, NEW n \in Nat, NEW k \in Nat, k >= 1, GuessedAt(w, g, n, k),
         LET ch == w[n + (k + 1)]
         IN \/ ch \notin MethodLetters
            \/ /\ ch # CharAt(method_strings[g], k)
               /\ \A r \in Revisions : ~(r[1] = g /\ r[2] = k /\ r[3] = ch)
  PROVE  \A m \in DOMAIN method_strings : ~Exactly(w, n, m, k + 1)
<1> DEFINE ch == w[n + (k + 1)]
<1> SUFFICES ASSUME NEW m \in DOMAIN method_strings, Exactly(w, n, m, k + 1) PROVE FALSE
  OBVIOUS
<1> DEFINE s == <<g, k, ch, Guess(m, k + 1)>>
<1>1. ch \in MethodLetters /\ (CharAt(method_strings[g], k) = ch \/ s \in Revisions)
  BY SpelledLeads
<1>2. s[1] = g /\ s[2] = k /\ s[3] = ch
  OBVIOUS
<1> HIDE DEF s
<1> QED  BY <1>1, <1>2

\* The states in which a request may start, or its method is read.
MethodStates == {"s_start_req", "s_start_req_or_res", "s_res_or_resp_H", "s_req_method"}

\* Parser q has read as much of a method as the text w before p says.
MethodAt(w, q, p) ==
  /\ q.state \in {"s_start_req", "s_start_req_or_res"} => LineStart(w, p)
  /\ q.state = "s_res_or_resp_H" => p > 0 /\ w[p] = "H" /\ LineStart(w, p - 1)
  /\ q.state = "s_req_method" =>
       /\ q.index \in 1 .. p /\ LineStart(w, p - q.index)
       /\ q.index = 1 => \E c \in DOMAIN FirstGuess : q.method = FirstGuess[c]
       /\ GuessedAt(w, q.method, p - q.index, q.index)

MethodInv == MethodAt(wire, parser, exec.p)

\* The round leaves no method to be read.
Off == parser'.state \notin MethodStates

\* How the ways a round ends leave the parser.
LEMMA EndsAs ==
  ASSUME NEW STATE q, NEW s, FineIn(q, s)
  PROVE  /\ Take(q) \/ Reexecute(q) \/ Report(q) \/ ReportAgain(q) => parser'.state = s
         /\ \A what : TakeMarked(q, what) => parser'.state = s
         /\ \A event : Notify(q, event) => parser'.state = s
         /\ \A x : Called(q, x) => parser'.state = s
         /\ \A e : Fail(q, e) => parser'.state = s
<1>1. q.state = s /\ \A e : [q EXCEPT !.errno = e].state = s
  BY DEF FineIn, Fine, Shaped, Fields
<1>2. \A x : Called(q, x) => parser'.state = s
  BY <1>1 DEF Called
<1>3. \A x : Deliver(q, x) => parser'.state = s
  BY <1>1, <1>2 DEF Deliver
<1> QED  BY <1>1, <1>2, <1>3 DEF Take, Reexecute, Report, ReportAgain, TakeMarked, Notify, Fail

\* A round that ends in a state of its own.
LEMMA EndsOff ==
  ASSUME NEW STATE q, NEW s, FineIn(q, s), s \notin MethodStates
  PROVE  /\ Take(q) \/ Reexecute(q) \/ Report(q) \/ ReportAgain(q) => Off
         /\ \A what : TakeMarked(q, what) => Off
         /\ \A event : Notify(q, event) => Off
         /\ \A x : Called(q, x) => Off
         /\ \A e : Fail(q, e) => Off
BY EndsAs DEF Off

\* The other states.
LEMMA OffStates ==
  /\ \A s \in DOMAIN Resumes : s \notin MethodStates
  /\ \A s \in {"s_start_res", "s_res_H", "s_res_HT", "s_res_http_major", "s_req_http_major", "s_res_http_minor",
               "s_req_http_minor", "s_res_first_http_minor", "s_req_first_http_minor",
               "s_res_first_status_code", "s_res_status_code", "s_res_status_start", "s_res_line_almost_done",
               "s_req_line_almost_done", "s_req_spaces_before_url", "s_req_http_start", "s_req_http_H", "s_dead",
               "s_header_field_start", "s_headers_almost_done", "s_header_value_discard_ws",
               "s_header_value_discard_ws_almost_done", "s_header_value_discard_lws", "s_header_almost_done",
               "s_header_value_start", "s_header_value_lws", "s_header_field", "s_header_value",
               "s_res_status"} : s \notin MethodStates
  /\ \A s \in DOMAIN Constants : Constants[s][2] \notin MethodStates
  /\ \A s \in DOMAIN ExpectLf : ExpectLf[s] \notin MethodStates
BY DEF Resumes, Constants, ExpectLf, MethodStates

\* The rounds of the start line that are not in the states of a method do not lead there.
LEMMA LineOff ==
  ASSUME FineIn(parser, parser.state), parser.state \notin MethodStates, StartLineRound
  PROVE  Off
<1> DEFINE reset == [parser EXCEPT !.flags = {}]
           old == [parser EXCEPT !.http_major = 0, !.http_minor = 9]
<1>1. /\ Take(parser) => Off
      /\ \A e : Fail(parser, e) => Off
  BY EndsOff
<1>2. \A s : FineIn(Go(parser, s), s)
  BY FineOthers
<1>3. ASSUME NEW s, s \notin MethodStates
      PROVE  /\ Take(Go(parser, s)) \/ Report(Go(parser, s)) => Off
             /\ \A what : TakeMarked(Go(parser, s), what) => Off
             /\ \A e : Fail(Go(parser, s), e) => Off
  <2> DEFINE q == Go(parser, s)
  <2>1. FineIn(q, s)
    BY <1>2
  <2> HIDE DEF q
  <2>2. /\ Take(q) \/ Report(q) => Off
        /\ \A what : TakeMarked(q, what) => Off
        /\ \A e : Fail(q, e) => Off
    BY <1>3, <2>1, EndsOff
  <2> QED  BY <2>2 DEF q
<1>4. ASSUME NEW field \in Numbers, NEW e
      PROVE  /\ \A s : s \notin MethodStates /\ FirstDigit(parser, field, s, e) => Off
             /\ NextDigit(parser, field, e) => Off
  <2>1. ASSUME NEW s, s \notin MethodStates, FirstDigit(parser, field, s, e) PROVE Off
    <3> DEFINE d == Digit(Byte)
               g == Go(parser, s)
               q == [g EXCEPT ![field] = d]
    <3>1. FineIn(g, s)
      BY <1>2
    <3>2. FineIn(q, s)
      <4> HIDE DEF g, d
      <4> QED  BY <3>1, FineOthers
    <3>3. Take(q) \/ Fail(parser, e)
      BY <2>1 DEF FirstDigit
    <3> HIDE DEF q
    <3> QED  BY <1>1, <2>1, <3>2, <3>3, EndsOff
  <2>2. ASSUME NextDigit(parser, field, e) PROVE Off
    <3> DEFINE v == parser[field] * 10 + Digit(Byte)
               q == [parser EXCEPT ![field] = v]
    <3>1. Take(q) \/ Fail(q, e) \/ Fail(parser, e)
      BY <2>2 DEF NextDigit
    <3>2. FineIn(q, parser.state)
      <4> HIDE DEF v
      <4> QED  BY FineOthers
    <3> HIDE DEF q
    <3> QED  BY <1>1, <3>1, <3>2, EndsOff
  <2> QED  BY <2>1, <2>2
<1>5. CASE StartReqOrRes \/ ResOrRespH \/ StartReq \/ ReqMethod
  BY <1>5 DEF StartReqOrRes, ResOrRespH, StartReq, ReqMethod, At, MethodStates
<1>6. CASE StartRes
  <2> DEFINE g == Go(reset, "s_res_H")
  <2>1. Notify(g, "begin") \/ Notify(reset, "begin") \/ Fail(reset, "INVALID_CONSTANT")
    BY <1>6 DEF StartRes
  <2>2. FineIn(reset, parser.state)
    BY FineOthers
  <2> HIDE DEF reset
  <2>3. FineIn(g, "s_res_H")
    BY <2>2, FineOthers
  <2> HIDE DEF g
  <2> QED  BY <2>1, <2>2, <2>3, OffStates, EndsOff
<1>7. CASE HttpConstant
  BY <1>1, <1>3, <1>7, OffStates DEF HttpConstant, At
<1>8. CASE FirstMajor \/ FirstMinor \/ FirstStatusCode
  BY <1>1, <1>4, <1>8, OffStates DEF FirstMajor, FirstMinor, FirstStatusCode, Numbers
<1>9. CASE Major \/ ResMinor \/ ReqMinor \/ StatusCode
  BY <1>3, <1>4, <1>9, OffStates DEF Major, ResMinor, ReqMinor, StatusCode, Numbers
<1>10. CASE LineAlmostDone \/ HttpStart
  BY <1>1, <1>3, <1>10, OffStates DEF LineAlmostDone, HttpStart
<1>11. CASE StatusStart \/ Status
  <2> DEFINE g == Go(parser, "s_res_status")
             q == [g EXCEPT !.index = 0]
  <2>1. FineIn(q, "s_res_status")
    <3>1. FineIn(g, "s_res_status")
      BY <1>2
    <3> HIDE DEF g
    <3> QED  BY <3>1, FineOthers
  <2>2. \/ Take(parser) \/ TakeMarked(q, "status")
        \/ \E s \in {"s_res_line_almost_done", "s_header_field_start"} :
             Take(Go(parser, s)) \/ Report(Go(parser, s))
    BY <1>11 DEF StatusStart, Status
  <2> HIDE DEF q
  <2> QED  BY <1>1, <1>3, <2>1, <2>2, OffStates, EndsOff
<1>12. CASE SpacesBeforeUrl \/ UrlPrefix \/ Url
  <2> DEFINE s == IF SpacesBeforeUrl /\ parser.method = "CONNECT" THEN "s_req_server_start" ELSE parser.state
             t == parse_url_char(s, Byte)
             q == Go(parser, t)
  <2>1. t \notin MethodStates
    <3> HIDE DEF s
    <3>1. t = "s_dead" \/ (t \in DOMAIN Resumes /\ Resumes[t] = "url")
      BY UrlResumes, Zenon
    <3> HIDE DEF t
    <3> QED  BY <3>1, OffStates
  <2>2. \/ Take(parser) \/ Fail(parser, "INVALID_URL")
        \/ Fail(q, "INVALID_URL") \/ TakeMarked(q, "url") \/ Take(q)
        \/ Report(Go(parser, "s_req_http_start"))
        \/ Report(Go(old, "s_req_line_almost_done")) \/ Report(Go(old, "s_header_field_start"))
    <3>1. CASE SpacesBeforeUrl
      BY <3>1, Zenon DEF SpacesBeforeUrl, NextUrlChar
    <3>2. CASE UrlPrefix
      <4>1. ~SpacesBeforeUrl
        BY <3>2 DEF UrlPrefix, SpacesBeforeUrl, At
      <4> QED  BY <3>2, <4>1, Zenon DEF UrlPrefix, NextUrlChar
    <3>3. CASE Url
      <4>1. ~SpacesBeforeUrl
        BY <3>3 DEF Url, SpacesBeforeUrl, At
      <4> QED  BY <3>3, <4>1, Zenon DEF Url, NextUrlChar
    <3> QED  BY <1>12, <3>1, <3>2, <3>3
  <2>3. FineIn(old, parser.state)
    BY DEF FineIn, Fine, Shaped, Fields
  <2> HIDE DEF t, old
  <2>4. ASSUME NEW u, u \notin MethodStates PROVE Report(Go(old, u)) => Off
    <3> DEFINE r == Go(old, u)
    <3>1. FineIn(r, u)
      BY <2>3, FineOthers
    <3> HIDE DEF r
    <3>2. Report(r) => Off
      BY <2>4, <3>1, EndsOff
    <3> QED  BY <3>2 DEF r
  <2>5. TakeMarked(q, "url") \/ Take(q) \/ Fail(q, "INVALID_URL") => Off
    BY <1>3, <2>1
  <2> HIDE DEF q
  <2> QED  BY <1>1, <1>3, <2>2, <2>4, <2>5, OffStates
<1> QED
  BY <1>5, <1>6, <1>7, <1>8, <1>9, <1>10, <1>11, <1>12 DEF StartLineRound

\* Nor do the rounds of the header fields.
LEMMA HeaderOff ==
  ASSUME FineIn(parser, parser.state), HeaderRound
  PROVE  Off
<1> DEFINE name == NameLetter(parser, Byte)
           letter == ValueLetter(parser, Byte)
           flagged == WithFlag(parser)
<1>1. FineIn(name, parser.state) /\ FineIn(letter, parser.state) /\ FineIn(flagged, parser.state)
  BY FineLetters
<1>2. parser.state \notin MethodStates
  BY OffStates DEF HeaderRound, HeaderFieldStart, HeaderField, HeaderValueDiscardWs, HeaderValueStart,
     HeaderValue, AlmostDone, HeaderValueLws, DiscardLws, At, ExpectLf, MethodStates
<1>3. /\ Take(parser) \/ Take(name) \/ Take(letter) => Off
      /\ \A e : Fail(parser, e) => Off
  <2> HIDE DEF name, letter
  <2> QED  BY <1>1, <1>2, EndsOff
<1>4. ASSUME NEW s, s \notin MethodStates
      PROVE  /\ Take(Go(parser, s)) \/ Report(Go(parser, s)) \/ ReportAgain(Go(parser, s))
                  \/ Reexecute(Go(parser, s)) => Off
             /\ Reexecute(Go(flagged, s)) \/ Called(Go(flagged, s), exec) => Off
  <2> DEFINE q == Go(parser, s)
             r == Go(flagged, s)
  <2> HIDE DEF flagged
  <2>1. FineIn(q, s) /\ FineIn(r, s)
    BY <1>1, FineOthers
  <2> HIDE DEF q, r
  <2>2. /\ Take(q) \/ Report(q) \/ ReportAgain(q) \/ Reexecute(q) => Off
        /\ Reexecute(r) \/ Called(r, exec) => Off
    BY <1>4, <2>1, EndsOff
  <2> QED  BY <2>2 DEF q, r
<1> HIDE DEF name, letter, flagged
<1>5. CASE HeaderFieldStart
  <2> DEFINE r == [parser EXCEPT !.state = "s_header_field", !.index = 0,
                                 !.header_state = NameStart(LOWER(Byte))]
             g == Go(parser, "s_headers_almost_done")
  <2>1. FineIn(r, "s_header_field")
    BY DEF FineIn, Fine, Shaped, Fields
  <2>2. Take(g) \/ Reexecute(g) \/ TakeMarked(r, "field") \/ Fail(parser, "INVALID_HEADER_TOKEN")
    BY <1>5, Zenon DEF HeaderFieldStart
  <2> HIDE DEF r
  <2> QED  BY <1>3, <1>4, <2>1, <2>2, OffStates, EndsOff
<1>6. CASE HeaderField
  <2>1. \/ Take(name) \/ Report(Go(parser, "s_header_value_discard_ws")) \/ Fail(parser, "INVALID_HEADER_TOKEN")
    BY <1>6, Zenon DEF HeaderField, name
  <2> QED  BY <1>3, <1>4, <2>1, OffStates
<1>7. ASSUME StartValue PROVE Off
  <2> DEFINE q == [parser EXCEPT !.state = "s_header_value", !.index = 0]
             u == [q EXCEPT !.flags = @ \cup {"UPGRADE"}, !.header_state = "h_general"]
  <2>1. FineIn(q, "s_header_value") /\ FineIn(u, "s_header_value")
    BY DEF FineIn, Fine, Shaped, Fields
  <2>2. \/ TakeMarked(u, "value") \/ Fail(q, "INVALID_CONTENT_LENGTH") \/ TakeMarked(q, "value")
        \/ \E s : TakeMarked([q EXCEPT !.header_state = s], "value")
    BY <1>7, StartIs, Zenon
  <2> HIDE DEF u, q
  <2>3. ASSUME NEW s, TakeMarked([q EXCEPT !.header_state = s], "value") PROVE Off
    <3> DEFINE r == [q EXCEPT !.header_state = s]
    <3>1. FineIn(r, "s_header_value")
      BY <2>1, FineOthers
    <3>2. TakeMarked(r, "value")
      BY <2>3
    <3> HIDE DEF r
    <3> QED  BY <3>1, <3>2, OffStates, EndsOff
  <2> QED  BY <2>1, <2>2, <2>3, OffStates, EndsOff
<1>8. CASE HeaderValueDiscardWs \/ HeaderValueStart
  <2>1. \/ Take(parser) \/ Take(Go(parser, "s_header_value_discard_ws_almost_done"))
        \/ Take(Go(parser, "s_header_value_discard_lws")) \/ StartValue
    <3>1. CASE HeaderValueDiscardWs
      BY <3>1, Zenon DEF HeaderValueDiscardWs
    <3>2. CASE HeaderValueStart
      BY <3>2 DEF HeaderValueStart
    <3> QED  BY <1>8, <3>1, <3>2
  <2> QED  BY <1>3, <1>4, <1>7, <2>1, OffStates
<1>9. CASE HeaderValue
  <2> DEFINE g == Go(parser, "s_header_almost_done")
  <2>1. \/ Report(g) \/ ReportAgain(g) \/ Fail(parser, "INVALID_CONTENT_LENGTH") \/ Take(letter)
    BY <1>9, Zenon DEF HeaderValue, letter
  <2> QED  BY <1>3, <1>4, <2>1, OffStates
<1>10. CASE AlmostDone
  BY <1>3, <1>4, <1>10, OffStates DEF AlmostDone, At
<1>11. CASE HeaderValueLws \/ DiscardLws
  <2> DEFINE f == Go(flagged, "s_header_field_start")
             g == Go(parser, "s_header_value_start")
  <2>1. \/ Reexecute(g) \/ Reexecute(f) \/ Take(Go(parser, "s_header_value_discard_ws")) \/ Called(f, exec)
    <3>1. CASE HeaderValueLws
      BY <3>1, Zenon DEF HeaderValueLws, flagged
    <3>2. CASE DiscardLws
      BY <3>2, Zenon DEF DiscardLws, flagged
    <3> QED  BY <1>11, <3>1, <3>2
  <2> QED  BY <1>3, <1>4, <2>1, OffStates
<1> QED  BY <1>5, <1>6, <1>8, <1>9, <1>10, <1>11 DEF HeaderRound

\* An error code, and another field, are of no account to the method.
LEMMA MethodErrno ==
  ASSUME NEW w, NEW p, NEW STATE q, Shaped(q), MethodAt(w, q, p), NEW e
  PROVE  MethodAt(w, [q EXCEPT !.errno = e], p)
<1> DEFINE r == [q EXCEPT !.errno = e]
<1>1. r.state = q.state /\ r.index = q.index /\ r.method = q.method
  BY DEF Shaped, Fields
<1> HIDE DEF r
<1>2. MethodAt(w, r, p)
  BY <1>1 DEF MethodAt
<1> QED  BY <1>2 DEF r

\* The ends of a round, with what they leave of a method.
LEMMA MethodEnds ==
  ASSUME NEW STATE q, Shaped(q), LocalsShaped(exec)
  PROVE  /\ MethodAt(wire, q, exec.p + 1) =>
              /\ Take(q) => MethodInv'
              /\ \A event : Notify(q, event) => MethodInv'
         /\ MethodAt(wire, q, exec.p) =>
              /\ Reexecute(q) => MethodInv'
              /\ \A e : Fail(q, e) => MethodInv'
              /\ \A x : x.p = exec.p /\ Called(q, x) /\ wire' = wire /\ LocalsShaped(x) => MethodInv'
<1> DEFINE y == [exec EXCEPT !.p = @ + 1]
<1>1. y.p = exec.p + 1 /\ LocalsShaped(y)
  BY Advanced
<1>2. ASSUME NEW STATE x, LocalsShaped(x), MethodAt(wire, q, x.p), Called(q, x), wire' = wire
      PROVE  MethodInv'
  <2>1. Returned(x).p = x.p
    BY <1>2 DEF Returned, LocalsShaped, Locals
  <2>2. MethodAt(wire, [q EXCEPT !.errno = "PAUSED"], x.p)
    BY <1>2, MethodErrno
  <2>3. CASE parser' = q /\ exec' = x
    BY <1>2, <2>3 DEF MethodInv
  <2>4. CASE parser' = [q EXCEPT !.errno = "PAUSED"] /\ exec' = Returned(x)
    BY <1>2, <2>1, <2>2, <2>4 DEF MethodInv
  <2> QED  BY <1>2, <2>3, <2>4 DEF Called
<1>3. ASSUME MethodAt(wire, q, exec.p + 1)
      PROVE  (Take(q) => MethodInv') /\ \A event : Notify(q, event) => MethodInv'
  <2>1. Take(q) => parser' = q /\ exec' = y /\ wire' = wire
    BY DEF Take
  <2>2. \A event : Notify(q, event) => Called(q, y) /\ wire' = wire
    BY DEF Notify
  <2> HIDE DEF y
  <2>3. ASSUME Take(q) PROVE MethodInv'
    BY <1>1, <1>3, <2>1, <2>3 DEF MethodInv
  <2> QED  BY <1>1, <1>2, <1>3, <2>2, <2>3
<1>4. ASSUME MethodAt(wire, q, exec.p), NEW e, Fail(q, e) PROVE MethodInv'
  <2>1. Returned(exec).p = exec.p
    BY DEF Returned, LocalsShaped, Locals
  <2>2. MethodAt(wire, [q EXCEPT !.errno = e], exec.p)
    BY <1>4, MethodErrno
  <2> QED  BY <1>4, <2>1, <2>2 DEF Fail, MethodInv
<1>5. ASSUME MethodAt(wire, q, exec.p), Reexecute(q) PROVE MethodInv'
  BY <1>5 DEF Reexecute, MethodInv
<1>6. ASSUME MethodAt(wire, q, exec.p), NEW x, x.p = exec.p, Called(q, x), wire' = wire, LocalsShaped(x)
      PROVE  MethodInv'
  BY <1>2, <1>6
<1> QED  BY <1>3, <1>4, <1>5, <1>6

\* Out of the states of a method nothing is asked.
LEMMA MethodNone ==
  ASSUME NEW w, NEW p, NEW STATE q, q.state \notin MethodStates
  PROVE  MethodAt(w, q, p)
BY DEF MethodAt, MethodStates

\* Where a method starts, or might be the start of a response.
LEMMA OpeningReads ==
  ASSUME FineIn(parser, parser.state), LocalsShaped(exec), MethodInv,
         StartReqOrRes \/ ResOrRespH \/ StartReq
  PROVE  MethodInv'
<1> DEFINE p == exec.p
<1>1. p \in Nat /\ Shaped(parser)
  BY DEF LocalsShaped, FineIn, Fine
<1>2. (p + 1) - 1 = p /\ (p + 1) - 2 = p - 1 /\ p + 1 > 0 /\ Byte = wire[p + 1]
  BY <1>1 DEF Byte
<1>3. Fail(parser, "INVALID_CONSTANT") => MethodInv'
  BY <1>1, MethodEnds DEF MethodInv
<1>4. CASE StartReqOrRes
  <2> DEFINE h == [parser EXCEPT !.state = "s_res_or_resp_H", !.flags = {}]
             r == [parser EXCEPT !.state = "s_start_req", !.type = "REQUEST", !.flags = {}]
  <2>1. Shaped(h) /\ h.state = "s_res_or_resp_H" /\ Shaped(r) /\ r.state = "s_start_req"
    BY <1>1 DEF Shaped, Fields
  <2>2. parser.state = "s_start_req_or_res" /\ LineStart(wire, p)
    BY <1>4 DEF StartReqOrRes, At, MethodInv, MethodAt
  <2>3. \/ Byte \in {CR, LF} /\ Take(parser)
        \/ Byte = "H" /\ Notify(h, "begin")
        \/ Reexecute(r)
    BY <1>4, Zenon DEF StartReqOrRes
  <2> HIDE DEF h, r
  <2>4. Byte \in {CR, LF} => MethodAt(wire, parser, p + 1)
    BY <1>2, <2>2 DEF MethodAt, LineStart
  <2>5. Byte = "H" => MethodAt(wire, h, p + 1)
    BY <1>2, <2>1, <2>2 DEF MethodAt
  <2>6. MethodAt(wire, r, p)
    BY <2>1, <2>2 DEF MethodAt
  <2> QED  BY <1>1, <2>1, <2>3, <2>4, <2>5, <2>6, MethodEnds
<1>5. CASE ResOrRespH
  <2> DEFINE r == [parser EXCEPT !.state = "s_res_HT", !.type = "RESPONSE"]
             m == [parser EXCEPT !.state = "s_req_method", !.type = "REQUEST", !.method = "HEAD", !.index = 2]
  <2>1. /\ Shaped(r) /\ r.state = "s_res_HT"
        /\ Shaped(m) /\ m.state = "s_req_method" /\ m.method = "HEAD" /\ m.index = 2
    BY <1>1 DEF Shaped, Fields
  <2>2. p > 0 /\ wire[p] = "H" /\ LineStart(wire, p - 1)
    BY <1>5 DEF ResOrRespH, At, MethodInv, MethodAt
  <2>3. \/ Take(r)
        \/ Byte = "E" /\ Take(m)
        \/ Fail(parser, "INVALID_CONSTANT")
    BY <1>5, Zenon DEF ResOrRespH
  <2> HIDE DEF r, m
  <2>4. MethodAt(wire, r, p + 1)
    BY <2>1, MethodNone DEF MethodStates
  <2>5. ASSUME Byte = "E" PROVE MethodAt(wire, m, p + 1)
    <3>1. p - 1 \in Nat /\ (p - 1) + 1 = p /\ (p - 1) + 2 = p + 1 /\ 2 \in 1 .. p + 1
      BY <1>1, <2>2
    <3>2. GuessedAt(wire, "HEAD", p - 1, 2)
      BY <1>2, <2>2, <2>5, <3>1, ReadHead
    <3> QED  BY <1>2, <2>1, <2>2, <3>1, <3>2 DEF MethodAt
  <2> QED  BY <1>1, <1>3, <2>1, <2>3, <2>4, <2>5, MethodEnds
<1>6. CASE StartReq
  <2> DEFINE reset == [parser EXCEPT !.flags = {}]
             g == Go(reset, "s_req_method")
             k == [g EXCEPT !.method = FirstGuess[Byte], !.index = 1]
  <2>1. /\ Shaped(reset) /\ reset.state = parser.state /\ Shaped(g) /\ g.state = "s_req_method"
    BY <1>1 DEF Shaped, Fields, Go
  <2>2. Shaped(k) /\ k.state = "s_req_method" /\ k.method = FirstGuess[Byte] /\ k.index = 1
    <3> HIDE DEF g
    <3> QED  BY <2>1 DEF Shaped, Fields
  <2>3. parser.state = "s_start_req" /\ LineStart(wire, p)
    BY <1>6 DEF StartReq, At, MethodInv, MethodAt
  <2>4. \/ Byte \in {CR, LF} /\ Take(parser)
        \/ Byte \in DOMAIN FirstGuess /\ Notify(k, "begin")
        \/ Fail(reset, "INVALID_METHOD")
    BY <1>6, Zenon DEF StartReq
  <2> HIDE DEF k, reset
  <2>5. Byte \in {CR, LF} => MethodAt(wire, parser, p + 1)
    BY <1>2, <2>3 DEF MethodAt, LineStart
  <2>6. ASSUME Byte \in DOMAIN FirstGuess PROVE MethodAt(wire, k, p + 1)
    <3>1. GuessedAt(wire, FirstGuess[Byte], p, 1)
      BY <1>1, <1>2, <2>6, ReadFirst
    <3>2. 1 \in 1 .. p + 1
      BY <1>1
    <3> QED  BY <1>2, <2>2, <2>3, <2>6, <3>1, <3>2 DEF MethodAt
  <2>7. MethodAt(wire, reset, p)
    BY <2>1, <2>3 DEF MethodAt
  <2> QED  BY <1>1, <2>1, <2>2, <2>4, <2>5, <2>6, <2>7, MethodEnds
<1> QED  BY <1>4, <1>5, <1>6

\* What a step tells of the method that was being read.
MethodStep ==
  parser.state = "s_req_method" /\ (parser'.state # "s_req_method" \/ parser'.errno = "INVALID_METHOD") =>
    \E n \in 0 .. exec.p :
      /\ LineStart(wire, n)
      /\ parser'.state = "s_req_spaces_before_url" =>
           /\ Byte = SP /\ exec.p = n + Len(method_strings[parser'.method])
           /\ Loosely(wire, n, parser'.method, exec.p - n)
      /\ \A m \in DOMAIN method_strings :
           Byte = SP /\ exec.p = n + Len(method_strings[m]) /\ Exactly(wire, n, m, exec.p - n) =>
             parser'.state = "s_req_spaces_before_url" /\ parser'.method = m
      /\ parser'.errno = "INVALID_METHOD" =>
           \A m \in DOMAIN method_strings : ~Exactly(wire, n, m, exec.p + 1 - n)

\* A letter of a method, or what ends it.
LEMMA MethodReads ==
  ASSUME MatchInv, FineIn(parser, parser.state), LocalsShaped(exec), MethodInv, ReqMethod
  PROVE  MethodInv' /\ MethodStep
<1> DEFINE p == exec.p
           k == parser.index
           n == p - k
           g == parser.method
           word == method_strings[g]
           expected == CharAt(word, k)
           j == k + 1
           next == [parser EXCEPT !.index = j]
           over == Go(next, "s_req_spaces_before_url")
           revised == {r \in Revisions : r[1] = g /\ r[2] = k /\ r[3] = Byte}
           pick == CHOOSE r \in revised : TRUE
           other == [next EXCEPT !.method = pick[4]]
<1>1. /\ p \in Nat /\ Shaped(parser) /\ parser.errno = "OK" /\ parser.state = "s_req_method"
      /\ g \in DOMAIN method_strings /\ k <= Len(word)
  BY DEF LocalsShaped, FineIn, Fine, ReqMethod, At, MatchInv, Good, InMethod
<1>2. /\ k \in 1 .. p /\ LineStart(wire, n) /\ GuessedAt(wire, g, n, k)
      /\ k = 1 => \E c \in DOMAIN FirstGuess : g = FirstGuess[c]
  BY <1>1 DEF MethodInv, MethodAt
<1>3. /\ n \in Nat /\ n \in 0 .. p /\ n + k = p /\ n + (k + 1) = p + 1 /\ (p + 1) - (k + 1) = n
      /\ k \in Nat /\ k >= 1 /\ k + 1 \in 1 .. p + 1 /\ k + 1 # 1 /\ p - n = k /\ p + 1 - n = k + 1
  <2>1. p \in Nat
    BY <1>1
  <2>2. k \in 1 .. p
    BY <1>2
  <2> HIDE DEF p, k
  <2> QED  BY <2>1, <2>2
<1>4. Byte = wire[n + (k + 1)]
  BY <1>3 DEF Byte
<1>5. /\ Shaped(next) /\ next.state = "s_req_method" /\ next.method = g /\ next.index = j
      /\ next.errno = "OK"
  <2>1. j \in Nat
    BY <1>3
  <2> HIDE DEF j
  <2> QED  BY <1>1, <2>1 DEF Shaped, Fields
<1>6. /\ Shaped(over) /\ over.state = "s_req_spaces_before_url" /\ over.method = g
      /\ Shaped(other) /\ other.state = "s_req_method" /\ other.method = pick[4] /\ other.index = j
      /\ other.errno = "OK"
  <2> HIDE DEF next, pick
  <2> QED  BY <1>5 DEF Shaped, Fields, Go
<1>7. \/ Byte = NUL /\ Fail(parser, "INVALID_METHOD")
      \/ Byte = SP /\ expected = NUL /\ Take(over)
      \/ Byte # expected /\ revised # {} /\ Take(other)
      \/ Byte = expected /\ Byte # NUL /\ Take(next)
      \/ revised = {} /\ k = 1 /\ g \notin Checked /\ Take(next)
      \/ /\ Byte # expected /\ revised = {} /\ ~(Byte = SP /\ expected = NUL)
         /\ Fail(parser, "INVALID_METHOD")
  <2>1. next = [parser EXCEPT !.index = @ + 1]
    OBVIOUS
  <2> HIDE DEF next
  <2> QED  BY <2>1, Zenon DEF ReqMethod, SP
<1>8. ASSUME NEW STATE q, q.state = "s_req_method", q.index = k + 1, GuessedAt(wire, q.method, n, k + 1)
      PROVE  MethodAt(wire, q, p + 1)
  BY <1>2, <1>3, <1>8 DEF MethodAt
<1>9. \A r \in Revisions : r[1] = g /\ r[2] = k /\ r[3] = wire[n + (k + 1)] => r \in revised
  BY <1>4
<1>10. MethodAt(wire, parser, p)
  BY DEF MethodInv
<1>11. ASSUME Fail(parser, "INVALID_METHOD"), \/ Byte = NUL
                                              \/ Byte # expected /\ revised = {} /\ ~(Byte = SP /\ expected = NUL)
       PROVE  MethodInv' /\ MethodStep
  <2>1. \A m \in DOMAIN method_strings : ~Exactly(wire, n, m, k + 1)
    <3> HIDE DEF n, k, g, revised
    <3>1. Byte = NUL => wire[n + (k + 1)] \notin MethodLetters
      BY <1>4, MethodsAreLettered
    <3>2. revised = {} => \A r \in Revisions : ~(r[1] = g /\ r[2] = k /\ r[3] = wire[n + (k + 1)])
      BY <1>9
    <3> QED  BY <1>1, <1>2, <1>3, <1>4, <1>11, <3>1, <3>2, ReadNothing
  <2>2. [parser EXCEPT !.errno = "INVALID_METHOD"].state = "s_req_method"
    BY <1>1 DEF Shaped, Fields
  <2>3. parser'.state = "s_req_method"
    BY <1>11, <2>2 DEF Fail
  <2>4. ASSUME NEW m \in DOMAIN method_strings, Byte = SP, p = n + Len(method_strings[m]),
               Exactly(wire, n, m, p - n)
        PROVE  FALSE
    <3>1. k = Len(method_strings[m])
      BY <1>3, <2>4, MethodLengths
    <3>2. Exactly(wire, n, m, k)
      BY <1>3, <2>4
    <3>3. g = Guess(m, k)
      BY <1>2, <3>2 DEF GuessedAt
    <3>4. g = m
      BY <3>1, <3>3, GuessesLead
    <3>5. expected = NUL
      BY <3>1, <3>4 DEF CharAt
    <3>6. SP # NUL
      BY Zenon DEF SP, NUL
    <3> QED  BY <1>11, <2>4, <3>5, <3>6
  <2>5. MethodStep
    <3> HIDE DEF n
    <3> QED  BY <1>2, <1>3, <2>1, <2>3, <2>4 DEF MethodStep
  <2>6. MethodInv'
    BY <1>1, <1>10, <1>11, MethodEnds
  <2> QED  BY <2>5, <2>6
<1>12. ASSUME NEW STATE q, Shaped(q), q.state = "s_req_method", q.errno = "OK", q.index = k + 1,
              GuessedAt(wire, q.method, n, k + 1), Take(q)
       PROVE  MethodInv' /\ MethodStep
  <2>1. MethodAt(wire, q, p + 1)
    BY <1>8, <1>12
  <2>2. MethodInv'
    BY <1>12, <2>1, MethodEnds
  <2>3. parser'.state = "s_req_method" /\ parser'.errno = "OK"
    BY <1>12 DEF Take
  <2> QED  BY <2>2, <2>3 DEF MethodStep
<1>13. CASE Byte = SP /\ expected = NUL /\ Take(over)
  <2>1. k = Len(word)
    <3>1. ASSUME k # Len(word) PROVE FALSE
      <4>1. Len(word) \in Nat
        BY <1>1, MethodLengths
      <4>2. k \in Nat /\ k <= Len(word)
        BY <1>1, <1>3
      <4>3. k + 1 <= Len(word) /\ k + 1 \in 1 .. Len(word)
        <5> HIDE DEF k, word
        <5> QED  BY <3>1, <4>1, <4>2
      <4>4. expected = word[k + 1]
        <5> HIDE DEF k, word
        <5> QED  BY <4>2, <4>3 DEF CharAt
      <4>5. Lettered(g)
        BY <1>1, MethodsAreLettered
      <4> QED  BY <1>13, <4>3, <4>4, <4>5, MethodsAreLettered DEF Lettered
    <3> QED  BY <3>1
  <2>2. parser' = over /\ parser'.state = "s_req_spaces_before_url" /\ parser'.method = g
    BY <1>6, <1>13 DEF Take
  <2>3. MethodInv'
    <3>1. MethodAt(wire, over, p + 1)
      BY <1>6, MethodNone DEF MethodStates
    <3> HIDE DEF over
    <3> QED  BY <1>6, <1>13, <3>1, MethodEnds
  <2>4. Loosely(wire, n, g, p - n)
    BY <1>2, <1>3 DEF GuessedAt
  <2>5. ASSUME NEW m \in DOMAIN method_strings, p = n + Len(method_strings[m]), Exactly(wire, n, m, p - n)
        PROVE  g = m
    <3>1. k = Len(method_strings[m])
      BY <1>3, <2>5, MethodLengths
    <3>2. Exactly(wire, n, m, k)
      BY <1>3, <2>5
    <3>3. g = Guess(m, k)
      BY <1>2, <3>2 DEF GuessedAt
    <3> QED  BY <3>1, <3>3, GuessesLead
  <2>6. ASSUME NEW m \in DOMAIN method_strings PROVE ~Exactly(wire, n, m, k + 1)
    <3>1. wire[n + (k + 1)] \notin MethodLetters
      BY <1>4, <1>13, MethodsAreLettered
    <3> HIDE DEF n, k, g
    <3> QED  BY <1>1, <1>2, <1>3, <3>1, ReadNothing
  <2>7. MethodStep
    <3> HIDE DEF n, over
    <3> QED  BY <1>2, <1>3, <1>13, <2>1, <2>2, <2>4, <2>5, <2>6 DEF MethodStep
  <2> QED  BY <2>3, <2>7
<1>14. CASE Byte # expected /\ revised # {} /\ Take(other)
  <2>1. pick \in Revisions /\ pick[1] = g /\ pick[2] = k /\ pick[3] = wire[n + (k + 1)]
    <3>1. pick \in revised
      BY <1>14
    <3> QED  BY <1>4, <3>1
  <2> HIDE DEF pick, n, k, g
  <2>2. GuessedAt(wire, pick[4], n, k + 1)
    BY <1>1, <1>2, <1>3, <1>4, <1>14, <2>1, ReadRevised
  <2> HIDE DEF other
  <2> QED  BY <1>6, <1>12, <1>14, <2>2
<1>15. CASE (Byte = expected /\ Byte # NUL /\ Take(next)) \/ (revised = {} /\ k = 1 /\ g \notin Checked /\ Take(next))
  <2>1. k = 1 /\ g \notin Checked => g \in Unchecked
    BY <1>2, FirstGuessFacts
  <2>2. revised = {} => \A r \in Revisions : ~(r[1] = g /\ r[2] = k /\ r[3] = wire[n + (k + 1)])
    <3> HIDE DEF revised, n, k, g
    <3> QED  BY <1>9
  <2>3. GuessedAt(wire, g, n, k + 1)
    <3> HIDE DEF n, k, g, revised
    <3> QED  BY <1>1, <1>2, <1>3, <1>4, <1>15, <2>1, <2>2, ReadNext
  <2>4. Take(next)
    BY <1>15
  <2> HIDE DEF next, n
  <2> QED  BY <1>5, <1>12, <2>3, <2>4
<1> QED  BY <1>7, <1>11, <1>13, <1>14, <1>15

\* The other rounds of the start line are not in a state of a method.
LEMMA LineElsewhere ==
  ASSUME StartLineRound, ~(StartReqOrRes \/ ResOrRespH \/ StartReq \/ ReqMethod)
  PROVE  parser.state \notin MethodStates
<1>1. CASE StartRes \/ HttpConstant \/ FirstMajor \/ Major \/ FirstMinor \/ ResMinor \/ ReqMinor
  BY <1>1 DEF StartRes, HttpConstant, Constants, FirstMajor, Major, FirstMinor, ResMinor, ReqMinor, At, MethodStates
<1>2. CASE FirstStatusCode \/ StatusCode \/ StatusStart \/ Status \/ LineAlmostDone \/ HttpStart
  BY <1>2 DEF FirstStatusCode, StatusCode, StatusStart, Status, LineAlmostDone, HttpStart, At, MethodStates
<1>3. CASE SpacesBeforeUrl \/ UrlPrefix \/ Url
  BY <1>3 DEF SpacesBeforeUrl, UrlPrefix, Url, At, MethodStates
<1> QED  BY <1>1, <1>2, <1>3 DEF StartLineRound

\* Out of the states of a method nothing is asked of what follows either.
LEMMA OffReads ==
  ASSUME Off, parser.state # "s_req_method"
  PROVE  MethodInv' /\ MethodStep
BY DEF Off, MethodInv, MethodAt, MethodStates, MethodStep

\* Where nothing is read, what was read of a method stays.
LEMMA MethodStays ==
  ASSUME MethodInv, Shaped(parser), NEW e, NEW STATE x, x.p = exec.p, e # "INVALID_METHOD",
         (parser' = parser /\ parser.errno # "INVALID_METHOD") \/ parser' = [parser EXCEPT !.errno = e],
         exec' = x, wire' = wire
  PROVE  MethodInv' /\ MethodStep
<1> DEFINE q == [parser EXCEPT !.errno = e]
<1>1. MethodAt(wire, q, exec.p)
  BY MethodErrno DEF MethodInv
<1>2. q.errno = e /\ q.state = parser.state
  BY DEF Shaped, Fields
<1> HIDE DEF q
<1>3. MethodInv'
  BY <1>1 DEF MethodInv, q
<1>4. MethodStep
  BY <1>2 DEF MethodStep, q
<1> QED  BY <1>3, <1>4

\* Every step reads on in the method it is in.
LEMMA StepReads ==
  ASSUME MatchInv, SpellInv, TellInv, MethodInv, [Next]_vars
  PROVE  MethodInv' /\ [MethodStep]_vars
<1>1. Shaped(parser) /\ LocalsShaped(exec)
  BY DEF MatchInv, Good, SpellInv
<1>2. exec.running => FineIn(parser, parser.state)
  BY <1>1 DEF TellInv, FineIn, Fine
<1>3. CASE StartLineRound
  <2>1. exec.running
    BY <1>3 DEF StartLineRound, StartReqOrRes, ResOrRespH, StartRes, HttpConstant,
       FirstMajor, Major, FirstMinor, ResMinor, ReqMinor, FirstStatusCode, StatusCode, StatusStart,
       Status, LineAlmostDone, StartReq, ReqMethod, SpacesBeforeUrl, UrlPrefix, Url, HttpStart, At
  <2>2. CASE StartReqOrRes \/ ResOrRespH \/ StartReq
    <3>1. parser.state # "s_req_method"
      BY <2>2 DEF StartReqOrRes, ResOrRespH, StartReq, At
    <3>2. MethodInv'
      BY <1>1, <1>2, <2>1, <2>2, OpeningReads
    <3> QED  BY <3>1, <3>2 DEF MethodStep
  <2>3. CASE ReqMethod
    BY <1>1, <1>2, <2>1, <2>3, MethodReads
  <2>4. CASE ~(StartReqOrRes \/ ResOrRespH \/ StartReq \/ ReqMethod)
    <3>1. parser.state \notin MethodStates
      BY <1>3, <2>4, LineElsewhere
    <3>2. parser.state # "s_req_method"
      BY <3>1 DEF MethodStates
    <3> QED  BY <1>2, <1>3, <2>1, <3>1, <3>2, LineOff, OffReads
  <2> QED  BY <2>2, <2>3, <2>4
<1>4. CASE HeaderRound
  <2>1. exec.running /\ parser.state # "s_req_method"
    BY <1>4 DEF HeaderRound, HeaderFieldStart, HeaderField, HeaderValueDiscardWs, HeaderValueStart,
       HeaderValue, AlmostDone, HeaderValueLws, DiscardLws, At, ExpectLf
  <2> QED  BY <1>2, <1>4, <2>1, HeaderOff, OffReads
<1>5. CASE EndOfBuffer
  <2> DEFINE x == Returned(exec)
  <2>1. parser.errno = "OK" /\ LocalsShaped(x) /\ x.p = exec.p /\ Returned(x).p = exec.p
    <3>1. LocalsShaped(x) /\ x.p = exec.p
      BY <1>1, NextLocals
    <3>2. parser.errno = "OK"
      BY <1>5 DEF EndOfBuffer, TellInv
    <3> HIDE DEF x
    <3> QED  BY <3>1, <3>2 DEF Returned, LocalsShaped, Locals
  <2>2. /\ wire' = wire
        /\ \/ parser' = parser /\ exec' = x
           \/ parser' = [parser EXCEPT !.errno = "PAUSED"] /\ exec' = Returned(x)
    BY <1>5 DEF EndOfBuffer, Deliver, Called
  <2> HIDE DEF x
  <2>3. CASE parser' = parser /\ exec' = x
    BY <1>1, <2>1, <2>2, <2>3, MethodStays
  <2>4. CASE parser' = [parser EXCEPT !.errno = "PAUSED"] /\ exec' = Returned(x)
    BY <1>1, <2>1, <2>2, <2>4, MethodStays
  <2> QED  BY <2>2, <2>3, <2>4
<1>6. CASE Unpause
  BY <1>1, <1>6, MethodStays DEF Unpause
<1>7. CASE \E n \in 1 .. Len(wire) : Execute(n)
  <2>1. parser' = parser /\ parser.errno = "OK" /\ wire' = wire /\ exec'.p = exec.p
    BY <1>1, <1>7 DEF Execute, LocalsShaped, Locals
  <2> QED  BY <2>1 DEF MethodInv, MethodStep
<1>8. CASE UNCHANGED vars
  BY <1>8 DEF vars, MethodInv
<1> QED  BY <1>3, <1>4, <1>5, <1>6, <1>7, <1>8 DEF Next

\* The matcher reads the method that is spelled, and the one it reads is spelled, but for a
\* second letter it does not look at (http_parser.cpp:921-1065).
THEOREM MethodsAreRead == Spec => MethodRead
<1>1. Init => TellInv /\ MethodInv
  <2> SUFFICES ASSUME Init PROVE TellInv /\ MethodInv
    OBVIOUS
  <2>1. calls = <<>> /\ exec.running = FALSE /\ exec.mark = 0 /\ exec.p = 0
    BY DEF Init
  <2>2. parser.state \in {"s_start_req", "s_start_res", "s_start_req_or_res"}
    <3>1. head.type \in {"REQUEST", "RESPONSE", "BOTH"}
      BY HeadsAssumption DEF Init
    <3> QED  BY <3>1 DEF Init
  <2>3. TellInv
    BY <2>1, NoData DEF TellInv, Marks
  <2>4. MethodInv
    BY <2>1, <2>2 DEF MethodInv, MethodAt, LineStart
  <2> QED  BY <2>3, <2>4
<1>2. MatchInv /\ SpellInv /\ TellInv /\ MethodInv /\ [Next]_vars => TellInv' /\ MethodInv'
  BY StepTells, StepReads
<1>3. MatchInv /\ SpellInv /\ TellInv /\ MethodInv /\ [Next]_vars =>
        [parser.state = "s_req_method" /\ (parser'.state # "s_req_method" \/ parser'.errno = "INVALID_METHOD") =>
           \E n \in 0 .. exec.p :
             /\ LineStart(wire, n)
             /\ parser'.state = "s_req_spaces_before_url" =>
                  /\ Byte = SP /\ exec.p = n + Len(method_strings[parser'.method])
                  /\ Loosely(wire, n, parser'.method, exec.p - n)
             /\ \A m \in DOMAIN method_strings :
                  Byte = SP /\ exec.p = n + Len(method_strings[m]) /\ Exactly(wire, n, m, exec.p - n) =>
                    parser'.state = "s_req_spaces_before_url" /\ parser'.method = m
             /\ parser'.errno = "INVALID_METHOD" =>
                  \A m \in DOMAIN method_strings : ~Exactly(wire, n, m, exec.p + 1 - n)]_vars
  BY StepReads, Zenon DEF MethodStep
<1> QED  BY <1>1, <1>2, <1>3, FieldsStaySpelled, PTL DEF Spec, MethodRead

===============================================================================
