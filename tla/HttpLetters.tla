------------------------------ MODULE HttpLetters ------------------------------
(***************************************************************************)
(* http_parser_execute letter by letter: what the start line (StartLine)   *)
(* and the header fields (HeaderField) have in common.  HttpParser takes   *)
(* each of their words as one token and models everything else; here the   *)
(* words are spelled, and a message ends with its header.  The count of    *)
(* header bytes, content_length and what follows the header are            *)
(* HttpParser's.                                                           *)
(*                                                                         *)
(* A step is one round of the switch, or of the inner loops over a header  *)
(* name and a header value, whose local copies of header_state are not     *)
(* told apart from the parser's: nothing looks at it in between.           *)
(***************************************************************************)
EXTENDS Naturals, Sequences

CONSTANT Heads  \* the message headers that may be sent: see HttpHead

ASSUME HeadsAssumption == \A h \in Heads : h.type \in {"REQUEST", "RESPONSE", "BOTH"}

VARIABLES
  parser,  \* struct http_parser
  exec,    \* the locals of http_parser_execute
  head,    \* the header that was sent
  wire,    \* its letters
  calls    \* history: the callbacks, a data callback as its kind and letters

vars == <<parser, exec, head, wire, calls>>

CR == "\r"
LF == "\n"

\* The letter that a string ends with.
NUL == "NUL"

Lowers == <<"a", "b", "c", "d", "e", "f", "g", "h", "i", "j", "k", "l", "m",
            "n", "o", "p", "q", "r", "s", "t", "u", "v", "w", "x", "y", "z">>
Uppers == <<"A", "B", "C", "D", "E", "F", "G", "H", "I", "J", "K", "L", "M",
            "N", "O", "P", "Q", "R", "S", "T", "U", "V", "W", "X", "Y", "Z">>
Decimal == <<"0", "1", "2", "3", "4", "5", "6", "7", "8", "9">>

Letters(alphabet) == {alphabet[i] : i \in DOMAIN alphabet}

IS_ALPHA(ch) == ch \in Letters(Lowers) \cup Letters(Uppers)
IS_NUM(ch) == ch \in Letters(Decimal)
LOWER(ch) ==
  IF ch \in Letters(Uppers) THEN Lowers[CHOOSE i \in DOMAIN Uppers : Uppers[i] = ch] ELSE ch

\* ch - '0'
Digit(ch) == (CHOOSE i \in DOMAIN Decimal : Decimal[i] = ch) - 1

\* word[index] in C: indices start at 0, and NUL follows the last letter.
CharAt(word, index) == IF index = Len(word) THEN NUL ELSE word[index + 1]

-----------------------------------------------------------------------------
(* The rounds of the switch *)

\* A round in one of the states S.
At(S) == exec.running /\ exec.p < exec.limit /\ parser.state \in S

Byte == wire[exec.p + 1]

Go(q, s) == [q EXCEPT !.state = s]

\* break: the byte is consumed.
Take(q) ==
  /\ parser' = q
  /\ exec' = [exec EXCEPT !.p = @ + 1]
  /\ UNCHANGED <<head, wire, calls>>

\* MARK(what), and break: the mark is set unless it is set already.
TakeMarked(q, what) ==
  /\ parser' = q
  /\ exec' = [exec EXCEPT !.p = @ + 1, !.mark = IF @ = 0 THEN exec.p + 1 ELSE @, !.what = what]
  /\ UNCHANGED <<head, wire, calls>>

\* goto reexecute
Reexecute(q) == parser' = q /\ UNCHANGED <<exec, head, wire, calls>>

Returned(x) == [x EXCEPT !.running = FALSE, !.mark = 0]

\* goto error
Fail(q, e) ==
  /\ parser' = [q EXCEPT !.errno = e]
  /\ exec' = Returned(exec)
  /\ UNCHANGED <<head, wire, calls>>

\* The application may pause the parser in a callback; the call returns then.
Called(q, x) ==
  \/ parser' = q /\ exec' = x
  \/ parser' = [q EXCEPT !.errno = "PAUSED"] /\ exec' = Returned(x)

\* CALLBACK_NOTIFY
Notify(q, event) ==
  /\ Called(q, [exec EXCEPT !.p = @ + 1])
  /\ calls' = Append(calls, <<event>>)
  /\ UNCHANGED <<head, wire>>

\* What the mark covers, as one callback or several hand it over.  At most one of the
\* four marks is set at a time (2088-2092).
Covered == [i \in 1 .. exec.p + 1 - exec.mark |-> <<exec.what, wire[exec.mark - 1 + i]>>]

\* CALLBACK_DATA_ : nothing happens without a mark.  x are the locals after it.
Deliver(q, x) ==
  /\ IF exec.mark = 0 THEN parser' = q /\ exec' = x /\ UNCHANGED calls
     ELSE Called(q, x) /\ calls' = calls \o Covered
  /\ UNCHANGED <<head, wire>>

\* CALLBACK_DATA: the byte is consumed.
Report(q) == Deliver(q, [exec EXCEPT !.p = @ + 1, !.mark = 0])

\* CALLBACK_DATA_NOADVANCE and goto reexecute
ReportAgain(q) == Deliver(q, [exec EXCEPT !.mark = 0])

-----------------------------------------------------------------------------
(* The application *)

\* The states in which a call starts with a mark, and the data it is for: what the
\* last buffer held of it has been reported.
Resumes ==
  [s \in {"s_req_path", "s_req_schema", "s_req_schema_slash", "s_req_schema_slash_slash",
          "s_req_server_start", "s_req_server", "s_req_server_with_at", "s_req_query_string_start",
          "s_req_query_string", "s_req_fragment_start", "s_req_fragment",
          "s_res_status", "s_header_field", "s_header_value"} |->
     CASE s = "s_res_status" -> "status"
       [] s = "s_header_field" -> "field"
       [] s = "s_header_value" -> "value"
       [] OTHER -> "url"]

\* Mutation: a call resumes no mark.
ExecuteUnmarked(n) ==
  /\ ~exec.running /\ parser.errno = "OK" /\ exec.p + n <= Len(wire)
  /\ exec' = [exec EXCEPT !.limit = exec.p + n, !.running = TRUE]
  /\ UNCHANGED <<parser, head, wire, calls>>

\* http_parser_execute with the next n letters.
Execute(n) ==
  /\ ~exec.running /\ parser.errno = "OK" /\ exec.p + n <= Len(wire)
  /\ exec' = [exec EXCEPT !.limit = exec.p + n, !.running = TRUE,
                          !.mark = IF parser.state \in DOMAIN Resumes THEN exec.p + 1 ELSE 0,
                          !.what = IF parser.state \in DOMAIN Resumes THEN Resumes[parser.state] ELSE @]
  /\ UNCHANGED <<parser, head, wire, calls>>

\* The end of the buffer: what the mark covers is reported.
EndOfBuffer == exec.running /\ exec.p = exec.limit /\ Deliver(parser, Returned(exec))

\* http_parser_pause(parser, 0)
Unpause ==
  /\ parser.errno = "PAUSED"
  /\ parser' = [parser EXCEPT !.errno = "OK"]
  /\ UNCHANGED <<exec, head, wire, calls>>
===============================================================================
