--------------------------- MODULE HttpParserProofs ---------------------------
(***************************************************************************)
(* What holds of http_parser_execute for every connection, every way to    *)
(* cut it into buffers, every width of content_length and every limit on   *)
(* the headers: its assertions, its marks and positions stay inside the    *)
(* buffer, the length of a body is the number its digits spell, no byte is *)
(* taken back, and the buffers and pauses show in nothing the application  *)
(* is told: the parser implements HttpDecoder.                             *)
(***************************************************************************)
EXTENDS HttpParser, SequenceTheorems, TLAPS

ParserFields == {"type", "state", "header_state", "flags", "content_length", "line", "nread",
                 "upgrade", "errno"}
ExecFields == {"p", "limit", "running", "reexec", "value_mark", "body_mark", "start"}

\* The states by what they need of struct http_parser.
LengthStates == {"s_body_identity", "s_chunk_data"}
DigitStates == {"s_chunk_size", "s_chunk_parameters", "s_chunk_size_almost_done"}
ChunkStates == DigitStates \cup {"s_chunk_size_start", "s_chunk_data", "s_chunk_data_almost_done",
                                 "s_chunk_data_done"}
BodyMarked == {"s_body_identity", "s_body_identity_eof", "s_chunk_data", "s_chunk_data_almost_done"}

\* What holds of struct http_parser, in a call and between calls.
Framed(q) ==
  /\ q = [f \in ParserFields |-> q[f]]
  /\ q.content_length \in 0 .. MaxU
  /\ q.state \in LengthStates => q.content_length > 0 /\ q.content_length # MaxU
  /\ q.state \in DigitStates => q.content_length < MaxU
  /\ q.state = "s_chunk_data_almost_done" => q.content_length = 0
  /\ q.state \in ChunkStates => "CHUNKED" \in q.flags
  /\ q.nread \in Nat

\* A parser that has not stopped with an error has not counted too many bytes.
Counts(q) ==
  /\ q.nread <= MaxHeader
  /\ q.state = "s_chunk_size_start" => q.nread = 0

\* The locals of a call: where it is in the buffer, and what it has marked.
Placed(q, x) ==
  /\ x = [f \in ExecFields |-> x[f]]
  /\ x.p \in Nat /\ x.limit \in Nat /\ x.p <= x.limit
  /\ x.value_mark \in 0 .. x.p + 1 /\ x.body_mark \in 0 .. x.p + 1 /\ x.start \in 0 .. x.p
  /\ x.value_mark # 0 => q.state = "s_header_value"
  /\ x.body_mark # 0 => q.state \in BodyMarked
  /\ x.start # 0 => q.state = "s_header_value"
  /\ x.reexec \in BOOLEAN /\ x.running \in BOOLEAN
  /\ x.running => q.errno = "OK"
  /\ ~x.running => ~x.reexec /\ x.value_mark = 0 /\ x.body_mark = 0 /\ x.start = 0
  /\ x.reexec => q.state # "s_chunk_size_start"

Sound(q, x) == Framed(q) /\ (q.errno \in {"OK", "PAUSED"} => Counts(q)) /\ Placed(q, x)

ParserInv == Sound(parser, exec)

\* What a round of the switch leaves, when it does not fail.
Ready(q) == Framed(q) /\ Counts(q) /\ q.errno = "OK"

\* Nothing is marked, and no loop over a value runs.
Unmarked(x) == x.value_mark = 0 /\ x.body_mark = 0 /\ x.start = 0

-----------------------------------------------------------------------------
(* How a round ends *)

\* The error code is of no account to the framing.
LEMMA FramedErrno ==
  ASSUME NEW STATE q, Framed(q), NEW e
  PROVE  LET r == [q EXCEPT !.errno = e]
         IN Framed(r) /\ r.errno = e /\ (Counts(q) => Counts(r))
<1> DEFINE r == [q EXCEPT !.errno = e]
<1>1. /\ r = [f \in ParserFields |-> r[f]] /\ r.errno = e
      /\ r.state = q.state /\ r.content_length = q.content_length /\ r.flags = q.flags
      /\ r.nread = q.nread
  BY DEF Framed, ParserFields
<1> HIDE DEF r
<1>2. Framed(r)
  BY <1>1 DEF Framed
<1>3. Counts(q) => Counts(r)
  BY <1>1 DEF Counts
<1> QED BY <1>1, <1>2, <1>3 DEF r

\* A call that returns drops its marks, and leaves its position for the next one.
LEMMA PlacedReturned ==
  ASSUME NEW STATE q, NEW STATE x, x = [f \in ExecFields |-> x[f]],
         x.p \in Nat, x.limit \in Nat, x.p <= x.limit
  PROVE  Placed(q, Returned(x))
<1> DEFINE y == Returned(x)
<1>1. /\ y = [f \in ExecFields |-> y[f]]
      /\ y.p = x.p /\ y.limit = x.limit /\ y.running = FALSE /\ y.reexec = FALSE
      /\ y.value_mark = 0 /\ y.body_mark = 0 /\ y.start = 0
  BY DEF Returned, ExecFields
<1> HIDE DEF y
<1>2. Placed(q, y)
  <2>1. y.p \in Nat /\ y.limit \in Nat /\ y.p <= y.limit
    BY <1>1
  <2>2. y.value_mark \in 0 .. y.p + 1 /\ y.body_mark \in 0 .. y.p + 1 /\ y.start \in 0 .. y.p
    BY <1>1
  <2>3. y.reexec \in BOOLEAN /\ y.running \in BOOLEAN /\ ~y.running /\ ~y.reexec
    BY <1>1
  <2> QED BY <1>1, <2>1, <2>2, <2>3 DEF Placed
<1> QED BY <1>2 DEF y

\* goto error: whatever was counted, the parser stops.
LEMMA FailEnds ==
  ASSUME NEW STATE q, NEW e, Framed(q), e \notin {"OK", "PAUSED"}, ParserInv, Fail(q, e)
  PROVE  ParserInv'
<1>1. parser' = [q EXCEPT !.errno = e] /\ exec' = Returned(exec)
  BY DEF Fail
<1>2. Framed(parser') /\ parser'.errno = e
  BY <1>1, FramedErrno
<1>3. Placed(parser', exec')
  BY <1>1, PlacedReturned DEF ParserInv, Sound, Placed
<1> QED BY <1>2, <1>3 DEF ParserInv, Sound

\* The call goes on with the locals x, or returns where x is, whatever the callback does.
LEMMA CallEnds ==
  ASSUME NEW STATE q, NEW STATE x, NEW o \in Outcomes, Ready(q), Placed(q, x), AfterCall(q, x, o)
  PROVE  ParserInv'
<1> DEFINE e == [ok |-> "OK", pause |-> "PAUSED", fail |-> "CB"][o]
<1>1. (o = "ok" /\ e = "OK") \/ (o # "ok" /\ e \in {"PAUSED", "CB"})
  BY ParserAssumption
<1>2. parser' = [q EXCEPT !.errno = e] /\ exec' = IF o = "ok" THEN x ELSE Returned(x)
  BY DEF AfterCall
<1> HIDE DEF e
<1>3. Framed(parser') /\ parser'.errno = e /\ Counts(parser')
  BY <1>2, FramedErrno DEF Ready
<1>4. parser'.state = q.state
  BY <1>2 DEF Ready, Framed, ParserFields
<1>5. CASE o = "ok"
  BY <1>1, <1>2, <1>3, <1>4, <1>5 DEF Ready, Placed, Sound, ParserInv
<1>6. CASE o # "ok"
  BY <1>1, <1>2, <1>3, <1>6, PlacedReturned DEF Placed, Sound, ParserInv
<1> QED BY <1>5, <1>6

\* break and goto reexecute, with and without a callback, where nothing is marked.
LEMMA RoundEnds ==
  ASSUME NEW STATE q, Ready(q), ParserInv, Reading, Unmarked(exec)
  PROVE  /\ Take(q) => ParserInv'
         /\ \A what : Notify(q, what) => ParserInv'
         /\ q.state # "s_chunk_size_start" /\ Reexecute(q) => ParserInv'
         /\ q.state # "s_chunk_size_start" => \A what : NotifyAgain(q, what) => ParserInv'
<1> DEFINE next == [exec EXCEPT !.p = @ + 1, !.reexec = FALSE]
           again == [exec EXCEPT !.reexec = TRUE]
<1>1. Placed(q, next)
  <2>1. /\ next = [f \in ExecFields |-> next[f]]
        /\ next.p = exec.p + 1 /\ next.limit = exec.limit /\ next.reexec = FALSE
        /\ next.running = exec.running /\ next.value_mark = exec.value_mark
        /\ next.body_mark = exec.body_mark /\ next.start = exec.start
    BY DEF Placed, ExecFields, ParserInv, Sound
  <2>2. /\ exec.p \in Nat /\ exec.limit \in Nat /\ exec.p < exec.limit /\ exec.running
        /\ q.errno = "OK"
    BY DEF Placed, ParserInv, Sound, Reading, Ready
  <2> HIDE DEF next
  <2>3. /\ next.value_mark = 0 /\ next.body_mark = 0 /\ next.start = 0
        /\ next.running /\ next.running \in BOOLEAN /\ next.reexec \in BOOLEAN /\ ~next.reexec
    BY <2>1, <2>2 DEF Placed, Unmarked, ParserInv, Sound
  <2>4. next.p \in Nat /\ next.limit \in Nat /\ next.p <= next.limit
    BY <2>1, <2>2
  <2> QED BY <2>1, <2>2, <2>3, <2>4 DEF Placed
<1>2. q.state # "s_chunk_size_start" => Placed(q, again)
  BY DEF Placed, ExecFields, Ready, ParserInv, Sound, Reading, Unmarked, BodyMarked
<1> HIDE DEF next, again
<1>3. Take(q) => parser' = q /\ exec' = next
  BY DEF Take, next
<1>4. Reexecute(q) => parser' = q /\ exec' = again
  BY DEF Reexecute, again
<1>5. \A what : Notify(q, what) => \E o \in Outcomes : AfterCall(q, next, o)
  BY DEF Notify, next
<1>6. \A what : NotifyAgain(q, what) => \E o \in Outcomes : AfterCall(q, again, o)
  BY DEF NotifyAgain, again
<1>7. ASSUME NEW STATE x, Placed(q, x), parser' = q, exec' = x  PROVE ParserInv'
  BY <1>7 DEF ParserInv, Sound, Ready
<1>8. Take(q) => ParserInv'
  BY <1>1, <1>3, <1>7
<1>9. q.state # "s_chunk_size_start" /\ Reexecute(q) => ParserInv'
  BY <1>2, <1>4, <1>7
<1>10. \A what : Notify(q, what) => ParserInv'
  BY <1>1, <1>5, CallEnds
<1>11. q.state # "s_chunk_size_start" => \A what : NotifyAgain(q, what) => ParserInv'
  BY <1>2, <1>6, CallEnds
<1> QED BY <1>8, <1>9, <1>10, <1>11

\* A data callback, if there is something marked.
LEMMA ReportEnds ==
  ASSUME NEW STATE q, NEW STATE x, NEW mark, NEW p, Ready(q), Placed(q, x), Report(q, mark, p, x)
  PROVE  ParserInv'
<1>1. CASE mark = 0
  <2>1. parser' = q /\ exec' = x
    BY <1>1 DEF Report
  <2> QED BY <2>1 DEF ParserInv, Sound, Ready
<1>2. CASE mark # 0
  <2>1. PICK o \in Outcomes : AfterCall(q, x, o)
    BY <1>2 DEF Report
  <2> QED BY <2>1, CallEnds
<1> QED BY <1>1, <1>2

-----------------------------------------------------------------------------
(* The parser a round starts with *)

\* The states where nothing is asked of the length or the flags.
Plain(s) == s \notin LengthStates \cup ChunkStates

LEMMA PlainReady ==
  ASSUME NEW STATE q, q = [f \in ParserFields |-> q[f]], q.content_length \in 0 .. MaxU,
         q.nread \in Nat, q.nread <= MaxHeader, q.errno = "OK", Plain(q.state)
  PROVE  Ready(q)
BY DEF Ready, Framed, Counts, Plain, LengthStates, ChunkStates, DigitStates

\* What the round finds in struct http_parser, with its byte counted.
LEMMA AtFacts ==
  ASSUME ParserInv, Reading, Counted.nread <= MaxHeader
  PROVE  /\ Framed(Counted) /\ Counted.errno = "OK"
         /\ Counted.state = parser.state /\ Counted.content_length = parser.content_length
         /\ Counted.flags = parser.flags /\ Counted.header_state = parser.header_state
         /\ Plain(parser.state) => Ready(Counted)
         /\ parser.state \notin BodyMarked \cup {"s_header_value"} => Unmarked(exec)
<1> DEFINE c == Counted
<1>1. /\ Framed(parser) /\ parser.errno = "OK" /\ Placed(parser, exec)
  BY DEF ParserInv, Sound, Placed, Reading
<1>2. /\ c = [f \in ParserFields |-> c[f]] /\ c.errno = "OK" /\ c.nread \in Nat
      /\ c.state = parser.state /\ c.content_length = parser.content_length
      /\ c.flags = parser.flags /\ c.header_state = parser.header_state
  BY <1>1 DEF Counted, Framed, ParserFields
<1>3. c.nread <= MaxHeader
  OBVIOUS
<1>4. parser.state \notin BodyMarked \cup {"s_header_value"} => Unmarked(exec)
  BY <1>1 DEF Placed, Unmarked
<1> HIDE DEF c
<1>5. Framed(c)
  BY <1>1, <1>2 DEF Framed
<1>6. Plain(parser.state) => Ready(c)
  BY <1>2, <1>3, <1>5, PlainReady DEF Framed
<1> QED BY <1>2, <1>4, <1>5, <1>6 DEF c

\* A round that only changes the state of a parser, from one plain state to another.
LEMMA GoReady ==
  ASSUME NEW STATE q, Framed(q), q.nread <= MaxHeader, q.errno = "OK", NEW s, Plain(s)
  PROVE  Ready(Go(q, s)) /\ Go(q, s).state = s
<1> DEFINE r == Go(q, s)
<1>1. /\ r = [f \in ParserFields |-> r[f]] /\ r.errno = "OK" /\ r.nread = q.nread
      /\ r.state = s /\ r.content_length = q.content_length
  BY DEF Framed, ParserFields, Go
<1> HIDE DEF r
<1>2. Ready(r)
  BY <1>1, PlainReady DEF Framed
<1> QED BY <1>1, <1>2 DEF r

\* A finished header value may set a flag.
LEMMA WithFlagKeeps ==
  ASSUME NEW STATE q, Framed(q)
  PROVE  LET r == WithFlag(q)
         IN /\ Framed(r) /\ r.errno = q.errno /\ r.nread = q.nread /\ r.state = q.state
            /\ r.content_length = q.content_length
<1> DEFINE r == WithFlag(q)
<1>1. /\ r = [f \in ParserFields |-> r[f]] /\ r.errno = q.errno /\ r.nread = q.nread
      /\ r.state = q.state /\ r.content_length = q.content_length
      /\ "CHUNKED" \in q.flags => "CHUNKED" \in r.flags
  BY DEF Framed, ParserFields, WithFlag
<1> HIDE DEF r
<1>2. Framed(r)
  BY <1>1 DEF Framed
<1> QED BY <1>1, <1>2 DEF r

\* The value of a digit token.
LEMMA DigitValue ==
  /\ \A c \in DOMAIN Digit : Digit[c] \in 0 .. 15
  /\ \A i \in 1 .. 10 : Digits[i] \in DOMAIN Digit /\ Digit[Digits[i]] \in 0 .. 9
<1>1. \A i \in 1 .. 16, j \in 1 .. 16 : Digits[i] = Digits[j] => i = j
  BY DEF Digits
<1>2. DOMAIN Digit = {Digits[i] : i \in 1 .. 16}
  BY DEF Digit, ToSet, Digits
<1>3. ASSUME NEW i \in 1 .. 16
      PROVE  Digit[Digits[i]] = i - 1
  <2>1. Digit[Digits[i]] = CHOOSE n \in 0 .. 15 : Digits[n + 1] = Digits[i]
    BY <1>2 DEF Digit
  <2>2. \A n \in 0 .. 15 : Digits[n + 1] = Digits[i] <=> n = i - 1
    BY <1>1
  <2>3. i - 1 \in 0 .. 15
    OBVIOUS
  <2> QED BY <2>1, <2>2, <2>3
<1> QED BY <1>2, <1>3

\* The test beside t *= base; t += digit: when it passes, the number was not cut to
\* the width of a uint64_t, and is not ULLONG_MAX, which stands for "no length".
LEMMA ShiftedExact ==
  ASSUME NEW length \in 0 .. MaxU, NEW base \in {10, 16}, NEW d \in 0 .. base - 1,
         ~overflows(length, base)
  PROVE  /\ Shifted(length, base, d) = length * base + d
         /\ Shifted(length, base, d) < MaxU
<1>1. MaxU \in Nat /\ MaxU > 16
  BY ParserAssumption
<1>2. CASE base = 10
  <2>1. length <= (MaxU - 10) \div 10
    BY <1>1, <1>2 DEF overflows
  <2>2. length * 10 <= MaxU - 10
    BY <1>1, <2>1
  <2>3. length * 10 + d \in 0 .. MaxU - 1
    BY <1>1, <1>2, <2>2
  <2> QED BY <1>1, <1>2, <2>3 DEF Shifted
<1>3. CASE base = 16
  <2>1. length <= (MaxU - 16) \div 16
    BY <1>1, <1>3 DEF overflows
  <2>2. length * 16 <= MaxU - 16
    BY <1>1, <2>1
  <2>3. length * 16 + d \in 0 .. MaxU - 1
    BY <1>1, <1>3, <2>2
  <2> QED BY <1>1, <1>3, <2>3 DEF Shifted
<1> QED BY <1>2, <1>3

-----------------------------------------------------------------------------
(* The rounds *)

\* A round in state s, which asks nothing of the parser and marks nothing.
LEMMA AtPlain ==
  ASSUME ParserInv, NEW s, At(s), Plain(s), s \notin BodyMarked \cup {"s_header_value"}
  PROVE  /\ Reading /\ Unmarked(exec) /\ Ready(Counted) /\ Framed(Counted)
         /\ Counted.state = s /\ Counted.errno = "OK" /\ Counted.nread <= MaxHeader
         /\ Counted.content_length = parser.content_length
BY AtFacts DEF At

\* Bytes that are not taken.
LEMMA RejectStep == ASSUME ParserInv, Reject PROVE ParserInv'
<1>1. Complaint(parser) \notin {"OK", "PAUSED"}
  BY DEF Complaint
<1> QED BY <1>1, AtFacts, FailEnds DEF Reject

LEMMA OverflowStep == ASSUME ParserInv, HeaderOverflow PROVE ParserInv'
<1>1. Framed(Counted)
  <2> DEFINE c == Counted
  <2>1. Framed(parser)
    BY DEF ParserInv, Sound
  <2>2. /\ c = [f \in ParserFields |-> c[f]] /\ c.nread \in Nat
        /\ c.state = parser.state /\ c.content_length = parser.content_length
        /\ c.flags = parser.flags
    BY <2>1 DEF Counted, Framed, ParserFields
  <2> HIDE DEF c
  <2>3. Framed(c)
    BY <2>1, <2>2 DEF Framed
  <2> QED BY <2>3 DEF c
<1> QED BY <1>1, FailEnds DEF HeaderOverflow

LEMMA DeadStep == ASSUME ParserInv, Dead PROVE ParserInv'
BY AtPlain, RoundEnds DEF Dead, Plain, LengthStates, ChunkStates, DigitStates, BodyMarked

LEMMA StartMessageStep == ASSUME ParserInv, StartMessage PROVE ParserInv'
<1> DEFINE q == [Counted EXCEPT !.flags = {}, !.content_length = MaxU]
           r == [q EXCEPT !.state = "s_header_field_start", !.line = Byte]
<1>1. /\ Reading /\ Unmarked(exec) /\ Ready(Counted)
      /\ Counted.state = "s_start" /\ Framed(Counted) /\ Counted.nread <= MaxHeader /\ Counted.errno = "OK"
  BY AtPlain DEF StartMessage, Plain, LengthStates, ChunkStates, DigitStates, BodyMarked
<1>2. /\ q = [f \in ParserFields |-> q[f]] /\ q.content_length = MaxU
      /\ q.nread = Counted.nread /\ q.errno = "OK" /\ q.state = "s_start"
  BY <1>1 DEF Framed, ParserFields
<1> HIDE DEF q
<1>3. /\ r = [f \in ParserFields |-> r[f]] /\ r.content_length = MaxU
      /\ r.nread = Counted.nread /\ r.errno = "OK" /\ r.state = "s_header_field_start"
  BY <1>2 DEF ParserFields
<1>4. Take(Counted) \/ Notify(q, "begin") \/ Notify(r, "begin")
  BY DEF StartMessage, q
<1> HIDE DEF r
<1>5. Ready(q) /\ Ready(r)
  BY ParserAssumption, <1>1, <1>2, <1>3, PlainReady DEF Plain, LengthStates, ChunkStates, DigitStates, Framed
<1> QED BY <1>1, <1>4, <1>5, RoundEnds

LEMMA HeaderFieldStartStep == ASSUME ParserInv, HeaderFieldStart PROVE ParserInv'
<1> DEFINE r == [Counted EXCEPT !.state = "s_header_value_discard_ws", !.header_state = NameState[Byte]]
           g == Go(Counted, "s_headers_almost_done")
<1>1. /\ Reading /\ Unmarked(exec) /\ Ready(Counted)
      /\ Framed(Counted) /\ Counted.nread <= MaxHeader /\ Counted.errno = "OK"
  BY AtPlain DEF HeaderFieldStart, Plain, LengthStates, ChunkStates, DigitStates, BodyMarked
<1>2. Ready(g) /\ g.state = "s_headers_almost_done"
  BY <1>1, GoReady DEF Plain, LengthStates, ChunkStates, DigitStates
<1>3. /\ r = [f \in ParserFields |-> r[f]] /\ r.content_length = Counted.content_length
      /\ r.nread = Counted.nread /\ r.errno = "OK" /\ r.state = "s_header_value_discard_ws"
  BY <1>1 DEF Framed, ParserFields
<1>4. Take(g) \/ Reexecute(g) \/ Notify(r, "field")
  BY DEF HeaderFieldStart
<1> HIDE DEF r, g
<1>5. Ready(r)
  BY <1>1, <1>3, PlainReady DEF Plain, LengthStates, ChunkStates, DigitStates, Framed
<1> QED BY <1>1, <1>2, <1>4, <1>5, RoundEnds

LEMMA StartValueStep ==
  ASSUME ParserInv, Reading, Unmarked(exec), Ready(Counted), StartValue(Counted)
  PROVE  ParserInv'
<1> DEFINE bad == Counted.header_state = "h_content_length" /\ Byte \notin {Digits[i] : i \in 1 .. 10}
           f0 == [Counted EXCEPT !.state = "s_header_value"]
           h == CASE Counted.header_state \in {"h_content_length", "h_matching_connection_token_start"} ->
                       Counted.header_state
                  [] Counted.header_state = "h_transfer_encoding" /\ Byte = "chunked" ->
                       "h_transfer_encoding_chunked"
                  [] Counted.header_state = "h_connection" -> ConnectionState(Byte)
                  [] OTHER -> "h_general"
           n == IF Counted.header_state = "h_content_length" THEN Digit[Byte] ELSE Counted.content_length
           fl == IF Counted.header_state = "h_upgrade" THEN Counted.flags \cup {"UPGRADE"} ELSE Counted.flags
           r == [Counted EXCEPT !.state = "s_header_value", !.flags = fl, !.content_length = n,
                                !.header_state = h]
           x == [exec EXCEPT !.p = @ + 1, !.reexec = FALSE, !.value_mark = Mark(@)]
<1>1. Framed(Counted) /\ Counted.nread <= MaxHeader /\ Counted.errno = "OK"
  BY DEF Ready, Counts
<1>2. CASE bad
  <2>1. Fail(f0, "INVALID_CONTENT_LENGTH")
    BY <1>2 DEF StartValue, NotANumber, Go
  <2>2. Ready(f0)
    BY <1>1, GoReady DEF Go, Plain, LengthStates, ChunkStates, DigitStates
  <2> QED BY <2>1, <2>2, FailEnds DEF Ready
<1>3. CASE ~bad
  <2>1. parser' = r /\ exec' = x
    BY <1>1, <1>3 DEF StartValue, NotANumber, FirstByte
  <2>2. n \in 0 .. MaxU
    <3>1. CASE Counted.header_state = "h_content_length"
      <4>1. Digit[Byte] \in 0 .. 9
        BY <1>3, <3>1, DigitValue
      <4> QED BY <3>1, <4>1, ParserAssumption
    <3>2. CASE Counted.header_state # "h_content_length"
      BY <1>1, <3>2 DEF Framed
    <3> QED BY <3>1, <3>2
  <2> HIDE DEF n, h, fl
  <2>3. /\ r = [f \in ParserFields |-> r[f]] /\ r.content_length = n
        /\ r.nread = Counted.nread /\ r.errno = "OK" /\ r.state = "s_header_value"
    BY <1>1 DEF Framed, ParserFields
  <2>4. Placed(parser, exec)
    BY DEF ParserInv, Sound
  <2>5. /\ x = [f \in ExecFields |-> x[f]]
        /\ x.p = exec.p + 1 /\ x.limit = exec.limit /\ x.running = exec.running
        /\ x.reexec = FALSE /\ x.value_mark = exec.p + 1 /\ x.body_mark = 0 /\ x.start = 0
    BY <2>4 DEF Placed, ExecFields, Unmarked, Mark
  <2>6. exec.p \in Nat /\ exec.limit \in Nat /\ exec.p < exec.limit /\ exec.running
    BY <2>4 DEF Placed, Reading
  <2> HIDE DEF r, x
  <2>7. Ready(r)
    BY <1>1, <2>2, <2>3, PlainReady DEF Plain, LengthStates, ChunkStates, DigitStates, Framed
  <2>8. Placed(r, x)
    <3>1. x.p \in Nat /\ x.limit \in Nat /\ x.p <= x.limit
      BY <2>5, <2>6
    <3>2. x.value_mark \in 0 .. x.p + 1 /\ x.body_mark \in 0 .. x.p + 1 /\ x.start \in 0 .. x.p
      BY <2>5, <2>6
    <3>3. x.running /\ x.running \in BOOLEAN /\ ~x.reexec /\ x.reexec \in BOOLEAN
      BY <2>4, <2>5, <2>6 DEF Placed
    <3> QED BY <2>3, <2>5, <3>1, <3>2, <3>3 DEF Placed
  <2> QED BY <2>1, <2>7, <2>8 DEF ParserInv, Sound, Ready
<1> QED BY <1>2, <1>3

LEMMA DiscardWsStep == ASSUME ParserInv, DiscardWs PROVE ParserInv'
<1>1. /\ Reading /\ Unmarked(exec) /\ Ready(Counted)
      /\ Framed(Counted) /\ Counted.nread <= MaxHeader /\ Counted.errno = "OK"
  BY AtPlain DEF DiscardWs, Plain, LengthStates, ChunkStates, DigitStates, BodyMarked
<1>2. /\ Ready(Go(Counted, "s_header_value_discard_ws_almost_done"))
      /\ Ready(Go(Counted, "s_header_value_discard_lws"))
  BY <1>1, GoReady DEF Plain, LengthStates, ChunkStates, DigitStates
<1>3. \/ Take(Counted) \/ Take(Go(Counted, "s_header_value_discard_ws_almost_done"))
      \/ Take(Go(Counted, "s_header_value_discard_lws")) \/ StartValue(Counted)
  BY DEF DiscardWs
<1> QED BY <1>1, <1>2, <1>3, RoundEnds, StartValueStep

LEMMA HeaderValueStartStep == ASSUME ParserInv, HeaderValueStart PROVE ParserInv'
<1>1. Reading /\ Unmarked(exec) /\ Ready(Counted)
  BY AtPlain DEF HeaderValueStart, Plain, LengthStates, ChunkStates, DigitStates, BodyMarked
<1> QED BY <1>1, StartValueStep DEF HeaderValueStart

\* One byte of a value.
LEMMA ValueByteKeeps ==
  ASSUME NEW STATE q, Framed(q), q.errno = "OK", NEW byte
  PROVE  LET r == ValueByte(q, byte)
         IN /\ r = [f \in ParserFields |-> r[f]] /\ r.state = q.state /\ r.nread = q.nread
            /\ r.content_length \in 0 .. MaxU /\ r.errno \in {"OK", "INVALID_CONTENT_LENGTH"}
<1> DEFINE r == ValueByte(q, byte)
           Kept(t) == /\ t = [f \in ParserFields |-> t[f]] /\ t.state = q.state /\ t.nread = q.nread
                      /\ t.content_length \in 0 .. MaxU /\ t.errno \in {"OK", "INVALID_CONTENT_LENGTH"}
<1>1. Kept(q)
  BY DEF Framed
<1>2. \A h : Kept([q EXCEPT !.header_state = h])
  <2> TAKE h
  <2> DEFINE t == [q EXCEPT !.header_state = h]
  <2>1. /\ t = [f \in ParserFields |-> t[f]] /\ t.state = q.state /\ t.nread = q.nread
        /\ t.content_length = q.content_length /\ t.errno = q.errno
    BY DEF Framed, ParserFields
  <2> HIDE DEF t
  <2>2. Kept(t)
    BY <2>1 DEF Framed
  <2> QED BY <2>2 DEF t
<1>3. CASE q.header_state = "h_content_length"
  <2> DEFINE bad == byte \notin {Digits[i] : i \in 1 .. 10} \/ overflows(q.content_length, 10)
             n == Shifted(q.content_length, 10, Digit[byte])
  <2>1. CASE byte = " "
    BY <1>1, <1>3, <2>1 DEF ValueByte
  <2>2. CASE byte # " " /\ bad
    <3> DEFINE t == [q EXCEPT !.errno = "INVALID_CONTENT_LENGTH"]
    <3>1. r = t
      BY <1>3, <2>2 DEF ValueByte
    <3>2. /\ t = [f \in ParserFields |-> t[f]] /\ t.state = q.state /\ t.nread = q.nread
          /\ t.content_length = q.content_length /\ t.errno = "INVALID_CONTENT_LENGTH"
      BY DEF Framed, ParserFields
    <3> HIDE DEF t, r
    <3>3. Kept(t)
      BY <3>2 DEF Framed
    <3> QED BY <3>1, <3>3 DEF r
  <2>3. CASE byte # " " /\ ~bad
    <3> DEFINE t == [q EXCEPT !.content_length = n]
    <3>1. r = t
      BY <1>3, <2>3 DEF ValueByte
    <3>2. n \in 0 .. MaxU
      <4>1. Digit[byte] \in 0 .. 9
        BY <2>3, DigitValue
      <4> DEFINE d == Digit[byte]
      <4> HIDE DEF bad
      <4>2. d \in 0 .. 10 - 1
        BY <4>1
      <4>3. ~overflows(q.content_length, 10)
        BY <2>3 DEF bad
      <4> HIDE DEF d
      <4>4. /\ Shifted(q.content_length, 10, d) = q.content_length * 10 + d
            /\ Shifted(q.content_length, 10, d) < MaxU
        BY <4>2, <4>3, ShiftedExact DEF Framed
      <4>5. Shifted(q.content_length, 10, d) \in 0 .. MaxU
        <5> DEFINE c == q.content_length
                   m == Shifted(q.content_length, 10, d)
        <5>1. c \in Nat /\ d \in Nat /\ MaxU \in Nat
          BY <4>2, ParserAssumption DEF Framed
        <5>2. m = c * 10 + d /\ m < MaxU
          BY <4>4
        <5> HIDE DEF c, m
        <5>3. m \in 0 .. MaxU
          BY <5>1, <5>2
        <5> QED BY <5>3 DEF m
      <4> QED BY <4>5 DEF d
    <3> HIDE DEF n
    <3>3. /\ t = [f \in ParserFields |-> t[f]] /\ t.state = q.state /\ t.nread = q.nread
          /\ t.content_length = n /\ t.errno = "OK"
      BY DEF Framed, ParserFields
    <3> HIDE DEF t, r
    <3>4. Kept(t)
      BY <3>2, <3>3
    <3> QED BY <3>1, <3>4 DEF r
  <2> QED BY <2>1, <2>2, <2>3
<1>4. CASE q.header_state \in {"h_connection_keep_alive", "h_connection_close", "h_connection_upgrade"}
  <2> DEFINE t == [WithFlag(q) EXCEPT !.header_state = "h_matching_connection_token_start"]
  <2>1. r \in {t, q, [q EXCEPT !.header_state = "h_matching_connection_token"]}
    BY <1>4 DEF ValueByte
  <2>2. Kept(t)
    <3> DEFINE w == WithFlag(q)
    <3>1. /\ Framed(w) /\ w.errno = q.errno /\ w.nread = q.nread /\ w.state = q.state
          /\ w.content_length = q.content_length
      BY WithFlagKeeps
    <3> HIDE DEF w
    <3> DEFINE v == [w EXCEPT !.header_state = "h_matching_connection_token_start"]
    <3>2. /\ v = [f \in ParserFields |-> v[f]] /\ v.state = q.state /\ v.nread = q.nread
          /\ v.content_length = q.content_length /\ v.errno = q.errno
      BY <3>1 DEF Framed, ParserFields
    <3>3. v = t
      BY DEF w
    <3> HIDE DEF v, t
    <3>4. Kept(v)
      BY <3>2 DEF Framed
    <3> QED BY <3>3, <3>4
  <2> HIDE DEF t, r
  <2> QED BY <1>1, <1>2, <2>1, <2>2 DEF r
<1>5. CASE q.header_state \notin {"h_content_length", "h_connection_keep_alive", "h_connection_close",
                                  "h_connection_upgrade"}
  <2>1. r = q \/ \E h : r = [q EXCEPT !.header_state = h]
    BY <1>5 DEF ValueByte
  <2> HIDE DEF r
  <2> QED BY <1>1, <1>2, <2>1 DEF r
<1> QED BY <1>3, <1>4, <1>5

\* Where the loop over a value is.
LEMMA InValue ==
  ASSUME ParserInv, exec.running
  PROVE  /\ exec.p \in Nat /\ exec.limit \in Nat /\ exec.p <= exec.limit
         /\ Start \in 1 .. exec.p + 1 /\ exec.p + 1 - Start \in Nat
         /\ exec = [f \in ExecFields |-> exec[f]]
         /\ exec.value_mark \in 0 .. exec.p + 1 /\ parser.errno = "OK" /\ Counts(parser)
         /\ exec.reexec \in BOOLEAN
         /\ exec.start # 0 => exec.start \in 1 .. exec.p
<1>1. Placed(parser, exec)
  BY DEF ParserInv, Sound
<1>2. exec.start \in 0 .. exec.p /\ exec.p \in Nat
  BY <1>1 DEF Placed
<1>3. Start \in 1 .. exec.p + 1 /\ exec.p + 1 - Start \in Nat
  BY <1>2 DEF Start
<1> QED BY <1>1, <1>2, <1>3 DEF Placed, ParserInv, Sound

LEMMA HeaderValueStep == ASSUME ParserInv, HeaderValue PROVE ParserInv'
<1> DEFINE q == ValueByte(Counted, Byte)
           x == [exec EXCEPT !.p = @ + 1, !.start = Start]
<1>1. /\ Reading /\ parser.state = "s_header_value" /\ Counted.nread <= MaxHeader
      /\ Framed(Counted) /\ Counted.errno = "OK" /\ Counted.state = "s_header_value"
  BY AtFacts DEF HeaderValue, At
<1>2. /\ q = [f \in ParserFields |-> q[f]] /\ q.state = "s_header_value" /\ q.nread = Counted.nread
      /\ q.content_length \in 0 .. MaxU /\ q.errno \in {"OK", "INVALID_CONTENT_LENGTH"}
  BY <1>1, ValueByteKeeps
<1>3. \/ q.errno = "OK" /\ parser' = q /\ exec' = x
      \/ q.errno # "OK" /\ Fail(q, q.errno)
  BY DEF HeaderValue
<1> HIDE DEF q
<1>4. Framed(q)
  BY <1>1, <1>2 DEF Framed, LengthStates, ChunkStates, DigitStates
<1>5. CASE q.errno # "OK" /\ Fail(q, q.errno)
  BY <1>2, <1>4, <1>5, FailEnds
<1>6. CASE q.errno = "OK" /\ parser' = q /\ exec' = x
  <2>1. Placed(parser, exec) /\ exec.body_mark = 0 /\ exec.running /\ exec.p < exec.limit
    BY <1>1 DEF ParserInv, Sound, Placed, Reading, BodyMarked
  <2>2. /\ x = [f \in ExecFields |-> x[f]] /\ x.p = exec.p + 1 /\ x.limit = exec.limit
        /\ x.running = exec.running /\ x.reexec = exec.reexec /\ x.value_mark = exec.value_mark
        /\ x.body_mark = 0 /\ x.start = Start
    BY <2>1 DEF Placed, ExecFields
  <2>3. /\ exec.p \in Nat /\ exec.limit \in Nat /\ Start \in 1 .. exec.p + 1
        /\ exec.value_mark \in 0 .. exec.p + 1
    BY <2>1, InValue
  <2> HIDE DEF x
  <2>4. x.p \in Nat /\ x.limit \in Nat /\ x.p <= x.limit
    BY <2>1, <2>2, <2>3
  <2>5. x.value_mark \in 0 .. x.p + 1 /\ x.body_mark \in 0 .. x.p + 1 /\ x.start \in 0 .. x.p
    BY <2>2, <2>3
  <2>6. x.running /\ x.running \in BOOLEAN /\ x.reexec \in BOOLEAN
    BY <2>1, <2>2 DEF Placed
  <2>7. Placed(q, x)
    BY <1>2, <1>6, <2>2, <2>4, <2>5, <2>6 DEF Placed
  <2>8. Counts(q)
    BY <1>1, <1>2 DEF Counts
  <2> QED BY <1>4, <1>6, <2>7, <2>8 DEF ParserInv, Sound
<1> QED BY <1>3, <1>5, <1>6

\* The bytes of the loop are added to the count, whatever it comes to.
LEMMA SizedKeeps ==
  ASSUME ParserInv, exec.running, NEW STATE q, Framed(q)
  PROVE  LET r == Sized(q)
         IN /\ Framed(r) /\ r.state = q.state /\ r.errno = q.errno
            /\ r.nread = q.nread + (exec.p + 1 - Start) /\ r.nread >= q.nread
<1> DEFINE r == Sized(q)
           n == q.nread + (exec.p + 1 - Start)
<1>1. n \in Nat /\ n >= q.nread
  BY InValue DEF Framed
<1>2. /\ r = [f \in ParserFields |-> r[f]] /\ r.state = q.state /\ r.errno = q.errno
      /\ r.content_length = q.content_length /\ r.flags = q.flags /\ r.nread = n
  BY DEF Framed, ParserFields, Sized
<1> HIDE DEF r, n
<1>3. Framed(r)
  BY <1>1, <1>2 DEF Framed
<1> QED BY <1>1, <1>2, <1>3 DEF r, n

LEMMA ValueEndStep == ASSUME ParserInv, ValueEnd PROVE ParserInv'
<1> DEFINE done == Go(Counted, "s_header_almost_done")
           big == Sized(Counted).nread > MaxHeader
           x == [exec EXCEPT !.value_mark = 0, !.start = 0]
           next == [x EXCEPT !.p = @ + 1]
           again == [x EXCEPT !.reexec = TRUE]
<1>1. /\ Reading /\ exec.running /\ parser.state = "s_header_value" /\ Counted.nread <= MaxHeader
      /\ Framed(Counted) /\ Counted.errno = "OK" /\ Counted.state = "s_header_value"
  BY AtFacts DEF ValueEnd, At, Reading
<1>2. /\ Ready(done) /\ done.state = "s_header_almost_done"
      /\ done.nread = Counted.nread
  <2>1. Ready(done) /\ done.state = "s_header_almost_done"
    BY <1>1, GoReady DEF Plain, LengthStates, ChunkStates, DigitStates
  <2>2. done.nread = Counted.nread
    BY <1>1 DEF Go, Framed, ParserFields
  <2> QED BY <2>1, <2>2
<1>3. /\ Framed(Sized(done)) /\ Sized(done).state = "s_header_almost_done" /\ Sized(done).errno = "OK"
      /\ Sized(done).nread = Sized(Counted).nread /\ Sized(Counted).nread \in Nat
  BY <1>1, <1>2, SizedKeeps DEF Ready, Framed
<1>4. ~big => Ready(Sized(done))
  BY <1>3, ParserAssumption DEF Ready, Counts, Framed
<1>5. /\ exec.p \in Nat /\ exec.limit \in Nat /\ exec.p < exec.limit /\ exec.body_mark = 0
      /\ Placed(parser, exec)
  BY <1>1 DEF ParserInv, Sound, Placed, Reading, BodyMarked
<1>6. /\ next = [f \in ExecFields |-> next[f]] /\ next.p = exec.p + 1 /\ next.limit = exec.limit
      /\ next.running = exec.running /\ next.reexec = exec.reexec /\ next.value_mark = 0
      /\ next.body_mark = 0 /\ next.start = 0
  BY <1>5 DEF Placed, ExecFields
<1>7. /\ again = [f \in ExecFields |-> again[f]] /\ again.p = exec.p /\ again.limit = exec.limit
      /\ again.running = exec.running /\ again.reexec = TRUE /\ again.value_mark = 0
      /\ again.body_mark = 0 /\ again.start = 0
  BY <1>5 DEF Placed, ExecFields
<1>8. \/ \E o \in Outcomes :
           IF o = "ok" /\ big
           THEN parser' = [Sized(done) EXCEPT !.errno = "HEADER_OVERFLOW"] /\ exec' = Returned(exec)
           ELSE AfterCall(IF o = "ok" THEN Sized(done) ELSE done, next, o)
      \/ big /\ Fail(Sized(done), "HEADER_OVERFLOW")
      \/ ~big /\ Report(Sized(done), exec.value_mark, exec.p, again)
  BY DEF ValueEnd
<1> HIDE DEF done, next, again
<1>9. ASSUME NEW STATE q, q.state = "s_header_almost_done", q.errno = "OK"
      PROVE  Placed(q, next) /\ Placed(q, again)
  <2>1. /\ next.p \in Nat /\ next.limit \in Nat /\ next.p <= next.limit
        /\ again.p \in Nat /\ again.limit \in Nat /\ again.p <= again.limit
    BY <1>5, <1>6, <1>7
  <2>2. /\ next.running \in BOOLEAN /\ next.reexec \in BOOLEAN /\ next.running
        /\ again.running \in BOOLEAN /\ again.reexec \in BOOLEAN /\ again.running
    BY <1>1, <1>5, <1>6, <1>7 DEF Placed
  <2> QED BY <1>6, <1>7, <1>9, <2>1, <2>2 DEF Placed
<1> DEFINE full == Sized(done)
<1> HIDE DEF big, full
<1>10. ASSUME NEW o \in Outcomes, ~(o = "ok" /\ big), AfterCall(IF o = "ok" THEN full ELSE done, next, o)
       PROVE  ParserInv'
  <2> DEFINE q == IF o = "ok" THEN full ELSE done
  <2>1. Ready(q) /\ q.state = "s_header_almost_done"
    BY <1>2, <1>3, <1>4, <1>10 DEF full
  <2>2. Placed(q, next)
    BY <1>9, <2>1 DEF Ready
  <2> QED BY <1>10, <2>1, <2>2, CallEnds
<1>11. ASSUME parser' = [full EXCEPT !.errno = "HEADER_OVERFLOW"] /\ exec' = Returned(exec)
       PROVE  ParserInv'
  <2>1. Framed(parser') /\ parser'.errno = "HEADER_OVERFLOW"
    BY <1>3, <1>11, FramedErrno DEF full
  <2>2. Placed(parser', exec')
    BY <1>5, <1>11, PlacedReturned DEF Placed
  <2> QED BY <2>1, <2>2 DEF ParserInv, Sound
<1>12. ASSUME ~big, Report(full, exec.value_mark, exec.p, again)
       PROVE  ParserInv'
  BY <1>3, <1>4, <1>9, <1>12, ReportEnds DEF full
<1> QED BY <1>3, <1>8, <1>10, <1>11, <1>12, FailEnds DEF full

LEMMA ValueCutStep == ASSUME ParserInv, ValueCut PROVE ParserInv'
<1> DEFINE q == Sized(parser)
           x == [exec EXCEPT !.start = 0]
<1>1. Framed(parser) /\ exec.running /\ exec.start # 0
  BY DEF ParserInv, Sound, ValueCut
<1>2. Placed(parser, exec) /\ parser.state = "s_header_value" /\ parser.errno = "OK"
  BY <1>1 DEF ParserInv, Sound, Placed
<1>3. /\ Framed(q) /\ q.state = "s_header_value" /\ q.errno = "OK"
  BY <1>1, <1>2, SizedKeeps
<1>4. \/ Fail(q, "HEADER_OVERFLOW")
      \/ ~(q.nread > MaxHeader) /\ parser' = q /\ exec' = x
  BY DEF ValueCut
<1>5. /\ x = [f \in ExecFields |-> x[f]] /\ x.p = exec.p /\ x.limit = exec.limit
      /\ x.running = exec.running /\ x.reexec = exec.reexec /\ x.value_mark = exec.value_mark
      /\ x.body_mark = exec.body_mark /\ x.start = 0
  BY <1>2 DEF Placed, ExecFields
<1> HIDE DEF q, x
<1>6. Placed(q, x)
  BY <1>2, <1>3, <1>5 DEF Placed
<1>7. ~(q.nread > MaxHeader) => Counts(q)
  BY <1>3, ParserAssumption DEF Counts, Framed
<1> QED BY <1>3, <1>4, <1>6, <1>7, FailEnds DEF ParserInv, Sound

LEMMA HeaderAlmostDoneStep == ASSUME ParserInv, HeaderAlmostDone PROVE ParserInv'
<1>1. /\ Reading /\ Unmarked(exec)
      /\ Framed(Counted) /\ Counted.nread <= MaxHeader /\ Counted.errno = "OK"
  BY AtPlain DEF HeaderAlmostDone, Plain, LengthStates, ChunkStates, DigitStates, BodyMarked
<1>2. Ready(Go(Counted, "s_header_value_lws"))
  BY <1>1, GoReady DEF Plain, LengthStates, ChunkStates, DigitStates
<1> QED BY <1>1, <1>2, RoundEnds DEF HeaderAlmostDone

LEMMA HeaderValueLwsStep == ASSUME ParserInv, HeaderValueLws PROVE ParserInv'
<1>1. /\ Reading /\ Unmarked(exec)
      /\ Framed(Counted) /\ Counted.nread <= MaxHeader /\ Counted.errno = "OK"
  BY AtPlain DEF HeaderValueLws, Plain, LengthStates, ChunkStates, DigitStates, BodyMarked
<1>2. LET r == WithFlag(Counted) IN Framed(r) /\ r.nread <= MaxHeader /\ r.errno = "OK"
  BY <1>1, WithFlagKeeps
<1>3. /\ Ready(Go(Counted, "s_header_value_start"))
      /\ Go(Counted, "s_header_value_start").state = "s_header_value_start"
      /\ Ready(Go(WithFlag(Counted), "s_header_field_start"))
      /\ Go(WithFlag(Counted), "s_header_field_start").state = "s_header_field_start"
  BY <1>1, <1>2, GoReady DEF Plain, LengthStates, ChunkStates, DigitStates
<1>4. \/ Reexecute(Go(Counted, "s_header_value_start"))
      \/ Reexecute(Go(WithFlag(Counted), "s_header_field_start"))
  BY DEF HeaderValueLws
<1> QED BY <1>1, <1>3, <1>4, RoundEnds

LEMMA DiscardWsAlmostDoneStep == ASSUME ParserInv, DiscardWsAlmostDone PROVE ParserInv'
<1>1. /\ Reading /\ Unmarked(exec)
      /\ Framed(Counted) /\ Counted.nread <= MaxHeader /\ Counted.errno = "OK"
  BY AtPlain DEF DiscardWsAlmostDone, Plain, LengthStates, ChunkStates, DigitStates, BodyMarked
<1>2. Ready(Go(Counted, "s_header_value_discard_lws"))
  BY <1>1, GoReady DEF Plain, LengthStates, ChunkStates, DigitStates
<1> QED BY <1>1, <1>2, RoundEnds DEF DiscardWsAlmostDone

\* The round goes on with the same byte, and nothing marked.
LEMMA AgainPlaced ==
  ASSUME ParserInv, Reading, Unmarked(exec), NEW STATE q, q.errno = "OK",
         q.state # "s_chunk_size_start"
  PROVE  Placed(q, [exec EXCEPT !.reexec = TRUE])
<1> DEFINE x == [exec EXCEPT !.reexec = TRUE]
<1>1. Placed(parser, exec) /\ exec.running
  BY DEF ParserInv, Sound, Reading
<1>2. /\ x = [f \in ExecFields |-> x[f]] /\ x.p = exec.p /\ x.limit = exec.limit
      /\ x.running = exec.running /\ x.reexec = TRUE /\ x.value_mark = 0
      /\ x.body_mark = 0 /\ x.start = 0
  BY <1>1 DEF Placed, ExecFields, Unmarked
<1>3. x.running \in BOOLEAN /\ x.reexec \in BOOLEAN /\ x.running
  BY <1>1, <1>2 DEF Placed
<1> HIDE DEF x
<1>4. Placed(q, x)
  BY <1>1, <1>2, <1>3 DEF Placed
<1> QED BY <1>4 DEF x

LEMMA DiscardLwsStep == ASSUME ParserInv, DiscardLws PROVE ParserInv'
<1> DEFINE q == Go(WithFlag(Counted), "s_header_field_start")
           x == [exec EXCEPT !.reexec = TRUE]
<1>1. /\ Reading /\ Unmarked(exec)
      /\ Framed(Counted) /\ Counted.nread <= MaxHeader /\ Counted.errno = "OK"
  BY AtPlain DEF DiscardLws, Plain, LengthStates, ChunkStates, DigitStates, BodyMarked
<1>2. LET r == WithFlag(Counted) IN Framed(r) /\ r.nread <= MaxHeader /\ r.errno = "OK"
  BY <1>1, WithFlagKeeps
<1>3. Ready(Go(Counted, "s_header_value_discard_ws")) /\ Ready(q) /\ q.state = "s_header_field_start"
  BY <1>1, <1>2, GoReady DEF Plain, LengthStates, ChunkStates, DigitStates
<1>4. Placed(q, x)
  BY <1>1, <1>3, AgainPlaced DEF Ready
<1>5. \/ Take(Go(Counted, "s_header_value_discard_ws"))
      \/ Report(q, exec.p + 1, exec.p, x)
  BY DEF DiscardLws
<1> HIDE DEF q, x
<1> QED BY <1>1, <1>3, <1>4, <1>5, RoundEnds, ReportEnds

LEMMA TrailersEndStep == ASSUME ParserInv, TrailersEnd PROVE ParserInv'
<1>1. /\ Reading /\ Unmarked(exec)
      /\ Framed(Counted) /\ Counted.nread <= MaxHeader /\ Counted.errno = "OK"
  BY AtPlain DEF TrailersEnd, Plain, LengthStates, ChunkStates, DigitStates, BodyMarked
<1>2. Ready(Go(Counted, "s_message_done")) /\ Go(Counted, "s_message_done").state = "s_message_done"
  BY <1>1, GoReady DEF Plain, LengthStates, ChunkStates, DigitStates
<1> QED BY <1>1, <1>2, RoundEnds DEF TrailersEnd

LEMMA HeadersAlmostDoneStep == ASSUME ParserInv, HeadersAlmostDone PROVE ParserInv'
<1> DEFINE u == {"UPGRADE", "CONNECTION_UPGRADE"} \subseteq Counted.flags \/ Counted.line = "CONNECT 1.1"
           q == [Counted EXCEPT !.state = "s_headers_done", !.upgrade = u]
           r == [q EXCEPT !.flags = @ \cup {"SKIPBODY"}]
<1>1. /\ Reading /\ Unmarked(exec)
      /\ Framed(Counted) /\ Counted.nread <= MaxHeader /\ Counted.errno = "OK"
  BY AtPlain DEF HeadersAlmostDone, Plain, LengthStates, ChunkStates, DigitStates, BodyMarked
<1>2. NotifyAgain(q, "headers") \/ NotifyAgain(r, "headers")
  BY DEF HeadersAlmostDone
<1> HIDE DEF u
<1>3. /\ q = [f \in ParserFields |-> q[f]] /\ q.content_length = Counted.content_length
      /\ q.nread = Counted.nread /\ q.errno = "OK" /\ q.state = "s_headers_done"
  BY <1>1 DEF Framed, ParserFields
<1> HIDE DEF q
<1>4. /\ r = [f \in ParserFields |-> r[f]] /\ r.content_length = Counted.content_length
      /\ r.nread = Counted.nread /\ r.errno = "OK" /\ r.state = "s_headers_done"
  BY <1>3 DEF ParserFields
<1> HIDE DEF r
<1>5. Ready(q) /\ Ready(r)
  BY <1>1, <1>3, <1>4, PlainReady DEF Plain, LengthStates, ChunkStates, DigitStates, Framed
<1> QED BY <1>1, <1>2, <1>3, <1>4, <1>5, RoundEnds

\* The end of the headers: each way to frame the body starts with what it needs.
LEMMA HeadersDoneStep == ASSUME ParserInv, HeadersDone PROVE ParserInv'
<1> DEFINE q == [Counted EXCEPT !.nread = 0]
           x == Returned([exec EXCEPT !.p = @ + 1])
<1>1. /\ Reading /\ Unmarked(exec) /\ Framed(Counted) /\ Counted.errno = "OK"
  BY AtPlain DEF HeadersDone, Plain, LengthStates, ChunkStates, DigitStates, BodyMarked
<1>2. /\ q = [f \in ParserFields |-> q[f]] /\ q.content_length = Counted.content_length
      /\ q.nread = 0 /\ q.errno = "OK" /\ q.flags = Counted.flags /\ q.state = Counted.state
  BY <1>1 DEF Framed, ParserFields
<1>3. Frame(q)
  BY DEF HeadersDone
<1> HIDE DEF q
<1>4. Framed(q) /\ q.nread <= MaxHeader
  BY <1>1, <1>2, ParserAssumption DEF Framed
<1>5. Ready(Go(q, NEW_MESSAGE(q)))
  <2>1. NEW_MESSAGE(q) \in {"s_start", "s_dead"}
    BY DEF NEW_MESSAGE
  <2> QED BY <1>2, <1>4, <2>1, GoReady DEF Plain, LengthStates, ChunkStates, DigitStates
<1>6. Ready(Go(q, "s_body_identity_eof"))
  BY <1>2, <1>4, GoReady DEF Plain, LengthStates, ChunkStates, DigitStates
<1>7. ASSUME NEW s \in {"s_chunk_size_start", "s_body_identity"}
      PROVE  LET r == Go(q, s)
             IN /\ r = [f \in ParserFields |-> r[f]] /\ r.content_length = q.content_length
                /\ r.nread = 0 /\ r.errno = "OK" /\ r.flags = q.flags /\ r.state = s
  BY <1>2 DEF ParserFields, Go
<1>8. Has(q, "CHUNKED") => Ready(Go(q, "s_chunk_size_start"))
  <2> DEFINE r == Go(q, "s_chunk_size_start")
  <2>1. /\ r = [f \in ParserFields |-> r[f]] /\ r.content_length = q.content_length
        /\ r.nread = 0 /\ r.errno = "OK" /\ r.flags = q.flags /\ r.state = "s_chunk_size_start"
    BY <1>7
  <2> HIDE DEF r
  <2>2. Has(q, "CHUNKED") => Ready(r)
    BY <1>4, <2>1, ParserAssumption DEF Ready, Framed, Counts, Has, LengthStates, DigitStates
  <2> QED BY <2>2 DEF r
<1>9. HasLength(q) => Ready(Go(q, "s_body_identity"))
  <2> DEFINE r == Go(q, "s_body_identity")
  <2>1. /\ r = [f \in ParserFields |-> r[f]] /\ r.content_length = q.content_length
        /\ r.nread = 0 /\ r.errno = "OK" /\ r.flags = q.flags /\ r.state = "s_body_identity"
    BY <1>7
  <2> HIDE DEF r
  <2>2. HasLength(q) => Ready(r)
    BY <1>4, <2>1, ParserAssumption DEF Ready, Framed, Counts, HasLength, ChunkStates, DigitStates
  <2> QED BY <2>2 DEF r
<1>10. \/ \E o \in Outcomes : AfterCall(Go(q, NEW_MESSAGE(q)), x, o)
       \/ Notify(Go(q, NEW_MESSAGE(q)), "complete")
       \/ Has(q, "CHUNKED") /\ Take(Go(q, "s_chunk_size_start"))
       \/ HasLength(q) /\ Take(Go(q, "s_body_identity"))
       \/ Take(Go(q, "s_body_identity_eof"))
  BY <1>3 DEF Frame
<1>11. Placed(Go(q, NEW_MESSAGE(q)), x)
  <2> DEFINE y == [exec EXCEPT !.p = @ + 1]
  <2>1. Placed(parser, exec) /\ exec.p < exec.limit
    BY <1>1 DEF ParserInv, Sound, Reading
  <2>2. y = [f \in ExecFields |-> y[f]] /\ y.p = exec.p + 1 /\ y.limit = exec.limit
    BY <2>1 DEF Placed, ExecFields
  <2> HIDE DEF y
  <2>3. y.p \in Nat /\ y.limit \in Nat /\ y.p <= y.limit
    BY <2>1, <2>2 DEF Placed
  <2>4. Placed(Go(q, NEW_MESSAGE(q)), Returned(y))
    BY <2>2, <2>3, PlacedReturned
  <2> QED BY <2>4 DEF y
<1> HIDE DEF x
<1> QED BY <1>1, <1>5, <1>6, <1>8, <1>9, <1>10, <1>11, RoundEnds, CallEnds

-----------------------------------------------------------------------------
(* Bodies *)

\* Some of the body is in the buffer, and no more than is left of it.
LEMMA ToReadIn ==
  ASSUME ParserInv, Reading, parser.state \in LengthStates
  PROVE  /\ ToRead \in 1 .. parser.content_length /\ ToRead \in 1 .. exec.limit - exec.p
         /\ parser.content_length - ToRead \in 0 .. MaxU
         /\ parser.content_length - ToRead < MaxU
         /\ parser.content_length \in 1 .. MaxU - 1
<1>1. /\ parser.content_length \in 0 .. MaxU /\ parser.content_length > 0 /\ parser.content_length # MaxU
      /\ exec.p \in Nat /\ exec.limit \in Nat /\ exec.p < exec.limit
  BY DEF ParserInv, Sound, Framed, Placed, Reading
<1>2. MaxU \in Nat
  BY ParserAssumption
<1>3. ToRead \in 1 .. parser.content_length /\ ToRead \in 1 .. exec.limit - exec.p
  BY <1>1, <1>2 DEF ToRead, Least
<1> QED BY <1>1, <1>2, <1>3

\* The locals of a body state.
LEMMA InBody ==
  ASSUME ParserInv, Reading, parser.state \in BodyMarked
  PROVE  /\ exec = [f \in ExecFields |-> exec[f]]
         /\ exec.p \in Nat /\ exec.limit \in Nat /\ exec.p < exec.limit
         /\ exec.value_mark = 0 /\ exec.start = 0 /\ exec.running /\ exec.running \in BOOLEAN
         /\ exec.reexec \in BOOLEAN /\ exec.body_mark \in 0 .. exec.p + 1
         /\ Mark(exec.body_mark) \in 1 .. exec.p + 1
         /\ Framed(parser) /\ parser.errno = "OK" /\ Counts(parser)
<1>1. Placed(parser, exec) /\ Framed(parser) /\ exec.running /\ exec.p < exec.limit
  BY DEF ParserInv, Sound, Reading
<1>2. parser.errno = "OK"
  BY <1>1 DEF Placed
<1>3. Mark(exec.body_mark) \in 1 .. exec.p + 1
  BY <1>1 DEF Placed, Mark
<1> QED BY <1>1, <1>2, <1>3 DEF Placed, ParserInv, Sound, BodyMarked

LEMMA BodyIdentityStep == ASSUME ParserInv, BodyIdentity PROVE ParserInv'
<1> DEFINE n == parser.content_length - ToRead
           q == [parser EXCEPT !.content_length = @ - ToRead]
           g == Go(q, "s_message_done")
           x == [exec EXCEPT !.body_mark = Mark(@), !.p = @ + ToRead]
           y == [x EXCEPT !.p = @ - 1, !.reexec = TRUE, !.body_mark = 0]
<1>1. Reading /\ parser.state = "s_body_identity"
  BY DEF BodyIdentity, At
<1>2. /\ ToRead \in 1 .. exec.limit - exec.p /\ n \in 0 .. MaxU /\ n < MaxU
  BY <1>1, ToReadIn DEF LengthStates
<1>3. /\ exec = [f \in ExecFields |-> exec[f]]
      /\ exec.p \in Nat /\ exec.limit \in Nat /\ exec.p < exec.limit
      /\ exec.value_mark = 0 /\ exec.start = 0 /\ exec.running /\ exec.running \in BOOLEAN
      /\ exec.reexec \in BOOLEAN
      /\ Mark(exec.body_mark) \in 1 .. exec.p + 1
      /\ Framed(parser) /\ parser.errno = "OK" /\ Counts(parser)
  BY <1>1, InBody DEF BodyMarked
<1>4. /\ q = [f \in ParserFields |-> q[f]] /\ q.state = "s_body_identity" /\ q.errno = "OK"
      /\ q.content_length = n /\ q.nread = parser.nread
  BY <1>1, <1>3 DEF Framed, ParserFields
<1>5. /\ x = [f \in ExecFields |-> x[f]] /\ x.p = exec.p + ToRead /\ x.limit = exec.limit
      /\ x.running = exec.running /\ x.reexec = exec.reexec /\ x.value_mark = 0 /\ x.start = 0
      /\ x.body_mark = Mark(exec.body_mark)
  BY <1>3 DEF ExecFields
<1>6. \/ q.content_length = 0 /\ Report(g, x.body_mark, x.p, y)
      \/ q.content_length # 0 /\ parser' = q /\ exec' = x
  BY DEF BodyIdentity
<1> HIDE DEF n, q, x
<1>7. x.p \in Nat /\ x.limit \in Nat /\ x.p <= x.limit /\ x.p >= 1 /\ x.p - 1 \in Nat /\ x.p - 1 <= x.limit
  BY <1>2, <1>3, <1>5
<1>8. CASE q.content_length = 0 /\ Report(g, x.body_mark, x.p, y)
  <2>1. /\ g = [f \in ParserFields |-> g[f]] /\ g.state = "s_message_done" /\ g.errno = "OK"
        /\ g.content_length = q.content_length /\ g.nread = q.nread
    BY <1>4 DEF Go, ParserFields
  <2>2. /\ y = [f \in ExecFields |-> y[f]] /\ y.p = x.p - 1 /\ y.limit = x.limit
        /\ y.running = x.running /\ y.reexec = TRUE /\ y.value_mark = 0 /\ y.start = 0
        /\ y.body_mark = 0
    BY <1>5 DEF ExecFields
  <2>3. Framed(parser) /\ Counts(parser)
    BY <1>3
  <2> HIDE DEF g, y
  <2>4. Ready(g)
    BY <1>2, <1>4, <2>1, <2>3, PlainReady DEF Plain, LengthStates, ChunkStates, DigitStates, Framed, Counts
  <2>5. y.p \in Nat /\ y.limit \in Nat /\ y.p <= y.limit
    BY <1>7, <2>2
  <2>6. y.running /\ y.running \in BOOLEAN /\ y.reexec \in BOOLEAN
    BY <1>3, <1>5, <2>2
  <2>7. Placed(g, y)
    BY <2>1, <2>2, <2>5, <2>6 DEF Placed
  <2> QED BY <1>8, <2>4, <2>7, ReportEnds
<1>9. CASE q.content_length # 0 /\ parser' = q /\ exec' = x
  <2>1. Framed(q) /\ Counts(q)
    BY <1>2, <1>3, <1>4, <1>9 DEF Framed, Counts, LengthStates, ChunkStates, DigitStates
  <2>2. x.running /\ x.running \in BOOLEAN /\ x.reexec \in BOOLEAN
    BY <1>3, <1>5
  <2>3. x.value_mark \in 0 .. x.p + 1 /\ x.body_mark \in 0 .. x.p + 1 /\ x.start \in 0 .. x.p
    BY <1>2, <1>3, <1>5, <1>7
  <2>4. Placed(q, x)
    BY <1>4, <1>5, <1>7, <2>2, <2>3 DEF Placed, BodyMarked
  <2> QED BY <1>9, <2>1, <2>4 DEF ParserInv, Sound
<1> QED BY <1>6, <1>8, <1>9

LEMMA BodyIdentityEofStep == ASSUME ParserInv, BodyIdentityEof PROVE ParserInv'
<1> DEFINE x == [exec EXCEPT !.body_mark = Mark(@), !.p = exec.limit]
<1>1. Reading /\ parser.state = "s_body_identity_eof" /\ parser' = parser /\ exec' = x
  BY DEF BodyIdentityEof, At
<1>2. /\ exec = [f \in ExecFields |-> exec[f]]
      /\ exec.p \in Nat /\ exec.limit \in Nat /\ exec.p < exec.limit
      /\ exec.value_mark = 0 /\ exec.start = 0 /\ exec.running /\ exec.running \in BOOLEAN
      /\ exec.reexec \in BOOLEAN
      /\ Mark(exec.body_mark) \in 1 .. exec.p + 1
      /\ Framed(parser) /\ parser.errno = "OK" /\ Counts(parser)
  BY <1>1, InBody DEF BodyMarked
<1>3. /\ x = [f \in ExecFields |-> x[f]] /\ x.p = exec.limit /\ x.limit = exec.limit
      /\ x.running = exec.running /\ x.reexec = exec.reexec /\ x.value_mark = 0 /\ x.start = 0
      /\ x.body_mark = Mark(exec.body_mark)
  BY <1>2 DEF ExecFields
<1> HIDE DEF x
<1>4. x.p \in Nat /\ x.limit \in Nat /\ x.p <= x.limit
  BY <1>2, <1>3
<1>5. x.running /\ x.running \in BOOLEAN /\ x.reexec \in BOOLEAN
  BY <1>2, <1>3
<1>6. x.value_mark \in 0 .. x.p + 1 /\ x.body_mark \in 0 .. x.p + 1 /\ x.start \in 0 .. x.p
  BY <1>2, <1>3
<1>7. Placed(parser, x)
  BY <1>1, <1>2, <1>3, <1>4, <1>5, <1>6 DEF Placed, BodyMarked
<1> QED BY <1>1, <1>2, <1>7 DEF ParserInv, Sound

\* The message is complete; an upgraded one ends the call.
LEMMA MessageDoneStep == ASSUME ParserInv, MessageDone PROVE ParserInv'
<1> DEFINE q == Go(parser, NEW_MESSAGE(parser))
           x == [exec EXCEPT !.p = @ + 1, !.reexec = FALSE]
<1>1. Reading /\ parser.state = "s_message_done"
  BY DEF MessageDone, At
<1>2. /\ Placed(parser, exec) /\ Framed(parser) /\ Counts(parser) /\ parser.errno = "OK"
      /\ exec.running /\ exec.p < exec.limit
  BY <1>1 DEF ParserInv, Sound, Placed, Reading
<1>3. Ready(q)
  <2>1. NEW_MESSAGE(parser) \in {"s_start", "s_dead"}
    BY DEF NEW_MESSAGE
  <2> QED BY <1>2, <2>1, GoReady DEF Plain, LengthStates, ChunkStates, DigitStates, Counts
<1>4. /\ x = [f \in ExecFields |-> x[f]] /\ x.p = exec.p + 1 /\ x.limit = exec.limit
      /\ x.running = exec.running /\ x.reexec = FALSE /\ x.value_mark = 0
      /\ x.body_mark = 0 /\ x.start = 0
  BY <1>1, <1>2 DEF Placed, ExecFields, BodyMarked
<1>5. \E o \in Outcomes : AfterCall(q, IF parser.upgrade THEN Returned(x) ELSE x, o)
  BY DEF MessageDone
<1> HIDE DEF q, x
<1>6. x.p \in Nat /\ x.limit \in Nat /\ x.p <= x.limit
  BY <1>2, <1>4 DEF Placed
<1>7. Placed(q, Returned(x))
  BY <1>4, <1>6, PlacedReturned
<1>8. x.running /\ x.running \in BOOLEAN /\ x.reexec \in BOOLEAN
  BY <1>2, <1>4 DEF Placed
<1>9. Placed(q, x)
  BY <1>3, <1>4, <1>6, <1>8 DEF Placed, Ready
<1>10. Placed(q, IF parser.upgrade THEN Returned(x) ELSE x)
  BY <1>7, <1>9
<1> DEFINE z == IF parser.upgrade THEN Returned(x) ELSE x
<1> HIDE DEF z
<1>11. Placed(q, z) /\ \E o \in Outcomes : AfterCall(q, z, o)
  BY <1>5, <1>10 DEF z
<1> QED BY <1>3, <1>11, CallEnds

-----------------------------------------------------------------------------
(* Chunks *)

\* A round in one of the chunk states where nothing is marked.
LEMMA AtChunk ==
  ASSUME ParserInv, NEW s \in DigitStates \cup {"s_chunk_size_start", "s_chunk_data_done"}, At(s)
  PROVE  /\ Reading /\ Unmarked(exec) /\ Framed(Counted) /\ Counted.state = s
         /\ Counted.errno = "OK" /\ Counted.nread <= MaxHeader
         /\ Counted.content_length = parser.content_length
         /\ "CHUNKED" \in Counted.flags
         /\ s \in DigitStates => Ready(Counted)
<1>1. /\ Reading /\ Unmarked(exec) /\ Framed(Counted) /\ Counted.state = s
      /\ Counted.errno = "OK" /\ Counted.nread <= MaxHeader
      /\ Counted.content_length = parser.content_length
  BY AtFacts DEF At, DigitStates, BodyMarked
<1>2. "CHUNKED" \in Counted.flags
  BY <1>1 DEF Framed, ChunkStates
<1> QED BY <1>1, <1>2 DEF Ready, Counts, DigitStates

\* A parser with a chunk's size in it, or on its way there.
LEMMA ChunkReady ==
  ASSUME NEW STATE q, q = [f \in ParserFields |-> q[f]], q.content_length \in 0 .. MaxU,
         q.content_length < MaxU, q.nread \in Nat, q.nread <= MaxHeader, q.errno = "OK",
         "CHUNKED" \in q.flags, q.state \in DigitStates
  PROVE  Ready(q)
BY DEF Ready, Framed, Counts, DigitStates, LengthStates

LEMMA ChunkSizeStartStep == ASSUME ParserInv, ChunkSizeStart PROVE ParserInv'
<1> DEFINE d == Digit[Byte]
           q == [Counted EXCEPT !.state = "s_chunk_size", !.content_length = d]
<1>1. /\ Reading /\ Unmarked(exec) /\ Framed(Counted) /\ Counted.errno = "OK"
      /\ Counted.nread <= MaxHeader /\ "CHUNKED" \in Counted.flags
  BY AtChunk DEF ChunkSizeStart
<1>2. d \in 0 .. 15
  BY DigitValue DEF ChunkSizeStart, At, Takes
<1>3. Take(q)
  BY DEF ChunkSizeStart
<1> HIDE DEF d
<1>4. /\ q = [f \in ParserFields |-> q[f]] /\ q.content_length = d /\ q.nread = Counted.nread
      /\ q.errno = "OK" /\ q.flags = Counted.flags /\ q.state = "s_chunk_size"
  BY <1>1 DEF Framed, ParserFields
<1> HIDE DEF q
<1>5. d \in 0 .. MaxU /\ d < MaxU
  BY <1>2, ParserAssumption
<1>6. Ready(q)
  BY <1>1, <1>4, <1>5, ChunkReady DEF Framed, DigitStates
<1> QED BY <1>1, <1>3, <1>6, RoundEnds

LEMMA ChunkSizeStep == ASSUME ParserInv, ChunkSize PROVE ParserInv'
<1> DEFINE n == Shifted(parser.content_length, 16, Digit[Byte])
           q == [Counted EXCEPT !.content_length = n]
           almost == Go(Counted, "s_chunk_size_almost_done")
           parameters == Go(Counted, "s_chunk_parameters")
           fits == Byte \notin {"CR", ";", " "} /\ ~overflows(parser.content_length, 16)
<1>1. /\ Reading /\ Unmarked(exec) /\ Framed(Counted) /\ Counted.errno = "OK"
      /\ Counted.nread <= MaxHeader /\ "CHUNKED" \in Counted.flags /\ Counted.state = "s_chunk_size"
      /\ Counted.content_length = parser.content_length
  BY AtChunk DEF ChunkSize, DigitStates
<1>2. \/ Take(almost) \/ Take(parameters) \/ Fail(Counted, "INVALID_CONTENT_LENGTH")
      \/ fits /\ Take(q)
  <2>1. CASE Byte = "CR"
    BY <2>1 DEF ChunkSize
  <2>2. CASE Byte \in {";", " "}
    BY <2>2 DEF ChunkSize
  <2>3. CASE Byte \notin {"CR", ";", " "}
    BY <1>1, <2>3 DEF ChunkSize, Framed, ParserFields
  <2> QED BY <2>1, <2>2, <2>3
<1>3. parser.content_length \in 0 .. MaxU /\ parser.content_length < MaxU
  BY <1>1 DEF Framed, DigitStates
<1>4. fits => n \in 0 .. MaxU /\ n < MaxU
  <2> SUFFICES ASSUME fits PROVE n \in 0 .. MaxU /\ n < MaxU
    OBVIOUS
  <2> DEFINE d == Digit[Byte]
  <2>1. ~overflows(parser.content_length, 16)
    OBVIOUS
  <2> HIDE DEF n, q, almost, parameters, fits
  <2>2. d \in 0 .. 16 - 1
    <3>1. Byte \in DOMAIN Digit
      BY DEF ChunkSize, At, Takes, fits
    <3>2. d \in 0 .. 15
      BY <3>1, DigitValue
    <3> HIDE DEF d
    <3> QED BY <3>2
  <2> HIDE DEF d
  <2>3. /\ Shifted(parser.content_length, 16, d) = parser.content_length * 16 + d
        /\ Shifted(parser.content_length, 16, d) < MaxU
    BY <1>3, <2>1, <2>2, ShiftedExact
  <2>4. Shifted(parser.content_length, 16, d) \in 0 .. MaxU
    BY <1>3, <2>2, <2>3, ParserAssumption
  <2> QED BY <2>3, <2>4 DEF d, n
<1> HIDE DEF n, fits
<1>5. /\ q = [f \in ParserFields |-> q[f]] /\ q.content_length = n /\ q.nread = Counted.nread
      /\ q.errno = "OK" /\ q.flags = Counted.flags /\ q.state = "s_chunk_size"
  BY <1>1 DEF Framed, ParserFields
<1>6. /\ almost = [f \in ParserFields |-> almost[f]] /\ almost.content_length = Counted.content_length
      /\ almost.nread = Counted.nread /\ almost.errno = "OK" /\ almost.flags = Counted.flags
      /\ almost.state = "s_chunk_size_almost_done"
  BY <1>1 DEF Framed, ParserFields, Go
<1>7. /\ parameters = [f \in ParserFields |-> parameters[f]]
      /\ parameters.content_length = Counted.content_length
      /\ parameters.nread = Counted.nread /\ parameters.errno = "OK" /\ parameters.flags = Counted.flags
      /\ parameters.state = "s_chunk_parameters"
  BY <1>1 DEF Framed, ParserFields, Go
<1> HIDE DEF q, almost, parameters
<1>8. Ready(almost) /\ Ready(parameters)
  BY <1>1, <1>3, <1>6, <1>7, ChunkReady DEF Framed, DigitStates
<1>9. fits => Ready(q)
  BY <1>1, <1>4, <1>5, ChunkReady DEF Framed, DigitStates
<1> QED BY <1>1, <1>2, <1>8, <1>9, RoundEnds, FailEnds

LEMMA ChunkParametersStep == ASSUME ParserInv, ChunkParameters PROVE ParserInv'
<1> DEFINE r == Go(Counted, "s_chunk_size_almost_done")
<1>1. /\ Reading /\ Unmarked(exec) /\ Ready(Counted) /\ Framed(Counted) /\ Counted.errno = "OK"
      /\ Counted.nread <= MaxHeader /\ "CHUNKED" \in Counted.flags
      /\ Counted.state = "s_chunk_parameters"
  BY AtChunk DEF ChunkParameters, DigitStates
<1>2. Take(Counted) \/ Take(r)
  BY DEF ChunkParameters
<1>3. /\ r = [f \in ParserFields |-> r[f]] /\ r.content_length = Counted.content_length
      /\ r.nread = Counted.nread /\ r.errno = "OK" /\ r.flags = Counted.flags
      /\ r.state = "s_chunk_size_almost_done"
  BY <1>1 DEF Framed, ParserFields, Go
<1> HIDE DEF r
<1>4. Ready(r)
  BY <1>1, <1>3, ChunkReady DEF Framed, DigitStates
<1> QED BY <1>1, <1>2, <1>4, RoundEnds

\* The size of the chunk is known: a chunk of length 0 is the last one.
LEMMA ChunkSizeAlmostDoneStep == ASSUME ParserInv, ChunkSizeAlmostDone PROVE ParserInv'
<1> DEFINE q == [Counted EXCEPT !.nread = 0]
           last == [q EXCEPT !.flags = @ \cup {"TRAILING"}, !.state = "s_header_field_start"]
           data == Go(q, "s_chunk_data")
<1>1. /\ Reading /\ Unmarked(exec) /\ Ready(Counted) /\ Framed(Counted) /\ Counted.errno = "OK"
      /\ "CHUNKED" \in Counted.flags /\ Counted.state = "s_chunk_size_almost_done"
  BY AtChunk DEF ChunkSizeAlmostDone, DigitStates
<1>2. \/ Notify(last, "chunk")
      \/ q.content_length # 0 /\ Notify(data, "chunk")
  BY DEF ChunkSizeAlmostDone
<1>3. /\ q = [f \in ParserFields |-> q[f]] /\ q.content_length = Counted.content_length
      /\ q.nread = 0 /\ q.errno = "OK" /\ q.flags = Counted.flags
  BY <1>1 DEF Framed, ParserFields
<1> HIDE DEF q
<1>4. /\ last = [f \in ParserFields |-> last[f]] /\ last.content_length = q.content_length
      /\ last.nread = 0 /\ last.errno = "OK" /\ last.state = "s_header_field_start"
  BY <1>3 DEF ParserFields
<1>5. /\ data = [f \in ParserFields |-> data[f]] /\ data.content_length = q.content_length
      /\ data.nread = 0 /\ data.errno = "OK" /\ data.flags = q.flags /\ data.state = "s_chunk_data"
  BY <1>3 DEF ParserFields, Go
<1> HIDE DEF last, data
<1>6. q.content_length \in 0 .. MaxU /\ q.content_length < MaxU
  BY <1>1, <1>3 DEF Framed, DigitStates
<1>7. Ready(last)
  BY <1>4, <1>6, ParserAssumption, PlainReady DEF Plain, LengthStates, ChunkStates, DigitStates
<1>8. q.content_length # 0 => Ready(data)
  BY <1>1, <1>3, <1>5, <1>6, ParserAssumption DEF Ready, Framed, Counts, DigitStates
<1> QED BY <1>1, <1>2, <1>7, <1>8, RoundEnds

LEMMA ChunkDataStep == ASSUME ParserInv, ChunkData PROVE ParserInv'
<1> DEFINE n == parser.content_length - ToRead
           q == [parser EXCEPT !.content_length = @ - ToRead]
           g == Go(q, "s_chunk_data_almost_done")
           x == [exec EXCEPT !.body_mark = Mark(@), !.p = @ + ToRead]
<1>1. Reading /\ parser.state = "s_chunk_data"
  BY DEF ChunkData, At
<1>2. /\ ToRead \in 1 .. exec.limit - exec.p /\ n \in 0 .. MaxU /\ n < MaxU
  BY <1>1, ToReadIn DEF LengthStates
<1>3. /\ exec = [f \in ExecFields |-> exec[f]]
      /\ exec.p \in Nat /\ exec.limit \in Nat /\ exec.p < exec.limit
      /\ exec.value_mark = 0 /\ exec.start = 0 /\ exec.running /\ exec.running \in BOOLEAN
      /\ exec.reexec \in BOOLEAN
      /\ Mark(exec.body_mark) \in 1 .. exec.p + 1
      /\ Framed(parser) /\ parser.errno = "OK" /\ Counts(parser)
  BY <1>1, InBody DEF BodyMarked
<1>4. /\ q = [f \in ParserFields |-> q[f]] /\ q.state = "s_chunk_data" /\ q.errno = "OK"
      /\ q.content_length = n /\ q.nread = parser.nread /\ q.flags = parser.flags
  BY <1>1, <1>3 DEF Framed, ParserFields
<1>5. /\ x = [f \in ExecFields |-> x[f]] /\ x.p = exec.p + ToRead /\ x.limit = exec.limit
      /\ x.running = exec.running /\ x.reexec = exec.reexec /\ x.value_mark = 0 /\ x.start = 0
      /\ x.body_mark = Mark(exec.body_mark)
  BY <1>3 DEF ExecFields
<1>6. /\ (q.content_length = 0 /\ parser' = g) \/ (q.content_length # 0 /\ parser' = q)
      /\ exec' = x
  BY DEF ChunkData
<1> HIDE DEF n, q, x
<1>7. /\ g = [f \in ParserFields |-> g[f]] /\ g.state = "s_chunk_data_almost_done" /\ g.errno = "OK"
      /\ g.content_length = q.content_length /\ g.nread = q.nread /\ g.flags = q.flags
  BY <1>4 DEF Go, ParserFields
<1> HIDE DEF g
<1>8. x.p \in Nat /\ x.limit \in Nat /\ x.p <= x.limit
  BY <1>2, <1>3, <1>5
<1>9. x.running /\ x.running \in BOOLEAN /\ x.reexec \in BOOLEAN
  BY <1>3, <1>5
<1>10. x.value_mark \in 0 .. x.p + 1 /\ x.body_mark \in 0 .. x.p + 1 /\ x.start \in 0 .. x.p
  BY <1>2, <1>3, <1>5, <1>8
<1>11. CASE q.content_length = 0 /\ parser' = g
  <2>1. Framed(g) /\ Counts(g)
    BY <1>1, <1>2, <1>3, <1>4, <1>7, <1>11
       DEF Framed, Counts, LengthStates, ChunkStates, DigitStates
  <2>2. Placed(g, x)
    BY <1>5, <1>7, <1>8, <1>9, <1>10 DEF Placed, BodyMarked
  <2> QED BY <1>6, <1>11, <2>1, <2>2 DEF ParserInv, Sound
<1>12. CASE q.content_length # 0 /\ parser' = q
  <2>1. Framed(q) /\ Counts(q)
    BY <1>1, <1>2, <1>3, <1>4, <1>12
       DEF Framed, Counts, LengthStates, ChunkStates, DigitStates
  <2>2. Placed(q, x)
    BY <1>4, <1>5, <1>8, <1>9, <1>10 DEF Placed, BodyMarked
  <2> QED BY <1>6, <1>12, <2>1, <2>2 DEF ParserInv, Sound
<1> QED BY <1>6, <1>11, <1>12

LEMMA ChunkDataAlmostDoneStep == ASSUME ParserInv, ChunkDataAlmostDone PROVE ParserInv'
<1> DEFINE q == Go(parser, "s_chunk_data_done")
           x == [exec EXCEPT !.p = @ + 1, !.body_mark = 0]
<1>1. Reading /\ parser.state = "s_chunk_data_almost_done"
  BY DEF ChunkDataAlmostDone, At
<1>2. /\ exec = [f \in ExecFields |-> exec[f]]
      /\ exec.p \in Nat /\ exec.limit \in Nat /\ exec.p < exec.limit
      /\ exec.value_mark = 0 /\ exec.start = 0 /\ exec.running /\ exec.running \in BOOLEAN
      /\ exec.reexec \in BOOLEAN
      /\ Framed(parser) /\ parser.errno = "OK" /\ Counts(parser)
  BY <1>1, InBody DEF BodyMarked
<1>3. /\ q = [f \in ParserFields |-> q[f]] /\ q.state = "s_chunk_data_done" /\ q.errno = "OK"
      /\ q.content_length = parser.content_length /\ q.nread = parser.nread /\ q.flags = parser.flags
  BY <1>2 DEF Framed, ParserFields, Go
<1>4. /\ x = [f \in ExecFields |-> x[f]] /\ x.p = exec.p + 1 /\ x.limit = exec.limit
      /\ x.running = exec.running /\ x.reexec = exec.reexec /\ x.value_mark = 0 /\ x.start = 0
      /\ x.body_mark = 0
  BY <1>2 DEF ExecFields
<1>5. Report(q, exec.body_mark, exec.p, x)
  BY DEF ChunkDataAlmostDone
<1> HIDE DEF q, x
<1>6. Ready(q)
  BY <1>1, <1>2, <1>3 DEF Ready, Framed, Counts, LengthStates, ChunkStates, DigitStates
<1>7. x.p \in Nat /\ x.limit \in Nat /\ x.p <= x.limit
  BY <1>2, <1>4
<1>8. x.running /\ x.running \in BOOLEAN /\ x.reexec \in BOOLEAN
  BY <1>2, <1>4
<1>9. Placed(q, x)
  BY <1>3, <1>4, <1>7, <1>8 DEF Placed
<1> QED BY <1>5, <1>6, <1>9, ReportEnds

LEMMA ChunkDataDoneStep == ASSUME ParserInv, ChunkDataDone PROVE ParserInv'
<1> DEFINE q == [parser EXCEPT !.nread = 0, !.state = "s_chunk_size_start"]
<1>1. /\ Reading /\ Unmarked(exec) /\ parser.state = "s_chunk_data_done"
  BY AtChunk DEF ChunkDataDone, At
<1>2. Framed(parser) /\ parser.errno = "OK"
  BY <1>1 DEF ParserInv, Sound, Placed, Reading
<1>3. /\ q = [f \in ParserFields |-> q[f]] /\ q.state = "s_chunk_size_start" /\ q.errno = "OK"
      /\ q.content_length = parser.content_length /\ q.nread = 0 /\ q.flags = parser.flags
  BY <1>2 DEF Framed, ParserFields
<1>4. Notify(q, "chunk end")
  BY DEF ChunkDataDone
<1> HIDE DEF q
<1>5. Ready(q)
  BY <1>1, <1>2, <1>3, ParserAssumption DEF Ready, Framed, Counts, LengthStates, ChunkStates, DigitStates
<1> QED BY <1>1, <1>4, <1>5, RoundEnds

-----------------------------------------------------------------------------
(* The calls *)

LEMMA EndOfBufferStep == ASSUME ParserInv, EndOfBuffer PROVE ParserInv'
<1>1. /\ Placed(parser, exec) /\ Framed(parser) /\ Counts(parser) /\ parser.errno = "OK"
  BY DEF ParserInv, Sound, Placed, EndOfBuffer
<1>2. Ready(parser) /\ Placed(parser, Returned(exec))
  BY <1>1, PlacedReturned DEF Ready, Placed
<1> DEFINE mark == IF exec.value_mark # 0 THEN exec.value_mark ELSE exec.body_mark
           x == Returned(exec)
<1> HIDE DEF mark, x
<1>3. Report(parser, mark, exec.p, x)
  BY DEF EndOfBuffer, mark, x
<1> QED BY <1>2, <1>3, ReportEnds DEF x

LEMMA ExecuteStep ==
  ASSUME ParserInv, NEW n \in Nat, Execute(n)
  PROVE  ParserInv'
<1> DEFINE m == IF parser.state = "s_header_value" THEN exec.p + 1 ELSE 0
           x == [exec EXCEPT !.limit = exec.p + n, !.running = TRUE, !.value_mark = m]
<1>1. /\ Placed(parser, exec) /\ Framed(parser) /\ Counts(parser) /\ parser.errno = "OK"
      /\ exec' = x /\ parser' = parser /\ ~exec.running
  BY DEF ParserInv, Sound, Execute
<1>2. m \in 0 .. exec.p + 1 /\ (m # 0 => parser.state = "s_header_value")
  BY <1>1 DEF Placed
<1> HIDE DEF m
<1>3. /\ x = [f \in ExecFields |-> x[f]] /\ x.p = exec.p /\ x.limit = exec.p + n
      /\ x.running = TRUE /\ x.reexec = exec.reexec /\ x.value_mark = m /\ x.start = 0
      /\ x.body_mark = 0
  BY <1>1 DEF ExecFields, Placed
<1> HIDE DEF x
<1>4. x.p \in Nat /\ x.limit \in Nat /\ x.p <= x.limit
  BY <1>1, <1>3 DEF Placed
<1>5. x.running /\ x.running \in BOOLEAN /\ x.reexec \in BOOLEAN /\ ~x.reexec
  BY <1>1, <1>3 DEF Placed
<1>6. x.value_mark \in 0 .. x.p + 1 /\ x.body_mark \in 0 .. x.p + 1 /\ x.start \in 0 .. x.p
  BY <1>1, <1>2, <1>3, <1>4 DEF Placed
<1>7. Placed(parser, x)
  BY <1>1, <1>2, <1>3, <1>4, <1>5, <1>6 DEF Placed
<1> QED BY <1>1, <1>7 DEF ParserInv, Sound

LEMMA EofStep == ASSUME ParserInv, Eof PROVE ParserInv'
<1>1. /\ Placed(parser, exec) /\ Framed(parser) /\ Counts(parser) /\ parser.errno = "OK"
      /\ ~exec.running
  BY DEF ParserInv, Sound, Eof
<1>2. CASE parser.state = "s_body_identity_eof"
  <2>1. PICK o \in Outcomes : AfterCall(parser, exec, o)
    BY <1>2 DEF Eof
  <2> QED BY <1>1, <2>1, CallEnds DEF Ready
<1>3. CASE parser.state # "s_body_identity_eof"
  <2> DEFINE e == IF parser.state \in {"s_dead", "s_start"} THEN "OK" ELSE "INVALID_EOF_STATE"
  <2>1. parser' = [parser EXCEPT !.errno = e] /\ exec' = exec
    BY <1>3 DEF Eof
  <2> HIDE DEF e
  <2>2. Framed(parser') /\ Counts(parser')
    BY <1>1, <2>1, FramedErrno
  <2>3. parser'.state = parser.state
    BY <1>1, <2>1 DEF Framed, ParserFields
  <2>4. Placed(parser', exec')
    BY <1>1, <2>1, <2>3 DEF Placed
  <2> QED BY <2>2, <2>4 DEF ParserInv, Sound
<1> QED BY <1>2, <1>3

LEMMA UnpauseStep == ASSUME ParserInv, Unpause PROVE ParserInv'
<1>1. /\ Placed(parser, exec) /\ Framed(parser) /\ Counts(parser) /\ ~exec.running
      /\ parser' = [parser EXCEPT !.errno = "OK"] /\ exec' = exec
  BY DEF ParserInv, Sound, Unpause
<1>2. Framed(parser') /\ Counts(parser')
  BY <1>1, FramedErrno
<1>3. parser'.state = parser.state
  BY <1>1 DEF Framed, ParserFields
<1>4. Placed(parser', exec')
  BY <1>1, <1>3 DEF Placed
<1> QED BY <1>2, <1>4 DEF ParserInv, Sound

LEMMA ParserInit == ASSUME Init PROVE ParserInv
<1>1. /\ parser = [f \in ParserFields |-> parser[f]] /\ parser.content_length = 0
      /\ parser.state = "s_start" /\ parser.nread = 0 /\ parser.errno = "OK"
  BY DEF Init, http_parser_init, ParserFields
<1>2. /\ exec = [f \in ExecFields |-> exec[f]] /\ exec.p = 0 /\ exec.limit = 0
      /\ exec.running = FALSE /\ exec.reexec = FALSE /\ exec.value_mark = 0 /\ exec.body_mark = 0
      /\ exec.start = 0
  BY DEF Init, ExecFields
<1>3. Framed(parser) /\ Counts(parser)
  BY <1>1, ParserAssumption DEF Framed, Counts, LengthStates, ChunkStates, DigitStates
<1>4. exec.running \in BOOLEAN /\ exec.reexec \in BOOLEAN /\ ~exec.running /\ ~exec.reexec
  BY <1>2
<1>5. Placed(parser, exec)
  BY <1>2, <1>4 DEF Placed
<1> QED BY <1>3, <1>5 DEF ParserInv, Sound

LEMMA ParserStep == ASSUME ParserInv, [Next]_vars PROVE ParserInv'
<1>1. CASE Round
  BY <1>1, DeadStep, StartMessageStep, HeaderFieldStartStep, DiscardWsStep, HeaderValueStartStep,
     HeaderValueStep, ValueEndStep, ValueCutStep, HeaderAlmostDoneStep, HeaderValueLwsStep,
     DiscardWsAlmostDoneStep, DiscardLwsStep, HeadersDoneStep, BodyIdentityStep,
     BodyIdentityEofStep, MessageDoneStep, ChunkSizeStartStep, ChunkSizeStep, ChunkParametersStep,
     ChunkSizeAlmostDoneStep, ChunkDataStep, ChunkDataAlmostDoneStep, ChunkDataDoneStep,
     EndOfBufferStep
     DEF Round
<1>2. CASE Reject \/ HeaderOverflow \/ TrailersEnd \/ HeadersAlmostDone
  BY <1>2, RejectStep, OverflowStep, TrailersEndStep, HeadersAlmostDoneStep
<1>3. ASSUME NEW n \in 1 .. Len(wire), Execute(n)
      PROVE  ParserInv'
  <2>1. n \in Nat
    OBVIOUS
  <2> QED BY <1>3, <2>1, ExecuteStep
<1>4. CASE Eof \/ Unpause
  BY <1>4, EofStep, UnpauseStep
<1>5. CASE UNCHANGED vars
  BY <1>5 DEF vars, ParserInv
<1> QED BY <1>1, <1>2, <1>3, <1>4, <1>5 DEF Next, Step

\* The type of the parser and of the locals of a call, with what the assertions and the
\* marks need: true in every state, whatever is sent and however it is cut.
THEOREM ParserIsSound == Spec => []ParserInv
<1>1. Init => ParserInv
  BY ParserInit
<1>2. ParserInv /\ [Next]_vars => ParserInv'
  BY ParserStep
<1> QED BY <1>1, <1>2, PTL DEF Spec

\* The assertions of http_parser_execute hold: a chunk's size starts with no bytes
\* counted, a body has a length where one is read, a chunk is read only of a message
\* that has chunks, one mark at most is set, and no round runs after an error.
THEOREM AssertionsHold == Spec => []AssertsHold
<1>1. ParserInv => AssertsHold
  <2> SUFFICES ASSUME ParserInv PROVE AssertsHold
    OBVIOUS
  <2>1. Framed(parser) /\ Placed(parser, exec) /\ (exec.running => Counts(parser))
    BY DEF ParserInv, Sound, Placed
  <2>2. At("s_chunk_size_start") => Counted.nread = 1
    <3> SUFFICES ASSUME At("s_chunk_size_start") PROVE Counted.nread = 1
      OBVIOUS
    <3>1. /\ parser.state = "s_chunk_size_start" /\ parser.nread = 0 /\ ~exec.reexec /\ exec.start = 0
      BY <2>1 DEF At, Reading, Placed, Counts
    <3>2. Counted = [parser EXCEPT !.nread = @ + 1]
      BY <3>1 DEF Counted, PARSING_HEADER, BodyStates
    <3>3. Counted.nread = parser.nread + 1
      BY <2>1, <3>2 DEF Framed, ParserFields
    <3> QED BY <3>1, <3>3
  <2>3. parser.state \in {"s_body_identity", "s_chunk_data"} => HasLength(parser)
    BY <2>1 DEF Framed, LengthStates, HasLength
  <2>4. parser.state \in {"s_chunk_size_start", "s_chunk_size", "s_chunk_parameters",
                          "s_chunk_size_almost_done", "s_chunk_data", "s_chunk_data_almost_done",
                          "s_chunk_data_done"} => Has(parser, "CHUNKED")
    BY <2>1 DEF Framed, ChunkStates, DigitStates, Has
  <2>5. parser.state = "s_chunk_data_almost_done" => parser.content_length = 0
    BY <2>1 DEF Framed
  <2>6. exec.value_mark = 0 \/ exec.body_mark = 0
    BY <2>1 DEF Placed, BodyMarked
  <2>7. exec.running => parser.errno = "OK"
    BY <2>1 DEF Placed
  <2> QED BY <2>2, <2>3, <2>4, <2>5, <2>6, <2>7 DEF AssertsHold
<1> QED BY <1>1, ParserIsSound, PTL

-----------------------------------------------------------------------------
(* Where the parser is *)

\* The parser never looks past the buffer it was given, which is a part of the
\* connection, and marks only bytes it has reached.
InBuffer ==
  /\ exec.p <= exec.limit /\ exec.limit <= Len(wire)
  /\ exec.value_mark <= exec.p + 1 /\ exec.body_mark <= exec.p + 1

\* The end of a buffer is within the connection.
LimitInv == Len(wire) \in Nat /\ exec.limit \in Nat /\ exec.limit <= Len(wire)

\* How far a round of the switch gets: one byte, or what the buffer holds of a body.
\* It works on the buffer the call began with.
Onward(x) == x.limit = exec.limit /\ x.p >= exec.p

LEMMA OnwardEnds ==
  ASSUME ParserInv
  PROVE  /\ \A q, e : Fail(q, e) => Onward(exec')
         /\ \A q : Take(q) => Onward(exec')
         /\ \A q : Reexecute(q) => Onward(exec')
         /\ \A q, what : Notify(q, what) => Onward(exec')
         /\ \A q, what : NotifyAgain(q, what) => Onward(exec')
<1>1. exec = [f \in ExecFields |-> exec[f]] /\ exec.p \in Nat
  BY DEF ParserInv, Sound, Placed
<1> DEFINE next == [exec EXCEPT !.p = @ + 1, !.reexec = FALSE]
           again == [exec EXCEPT !.reexec = TRUE]
<1>2. Onward(next) /\ Onward(again) /\ Onward(Returned(exec)) /\ Onward(Returned(next)) /\ Onward(Returned(again))
  BY <1>1 DEF Onward, ExecFields, Returned
<1>3. \A q, e : Fail(q, e) => exec' = Returned(exec)
  BY DEF Fail
<1>4. \A q : Take(q) => exec' = next
  BY DEF Take
<1>5. \A q : Reexecute(q) => exec' = again
  BY DEF Reexecute
<1>6. \A q, what : Notify(q, what) => exec' = next \/ exec' = Returned(next)
  BY DEF Notify, AfterCall
<1>7. \A q, what : NotifyAgain(q, what) => exec' = again \/ exec' = Returned(again)
  BY DEF NotifyAgain, AfterCall
<1> HIDE DEF next, again
<1> QED BY <1>2, <1>3, <1>4, <1>5, <1>6, <1>7

\* A data callback returns where the locals after it are, or goes on there.
LEMMA OnwardReport ==
  ASSUME NEW STATE q, NEW mark, NEW p, NEW STATE x, Report(q, mark, p, x),
         x = [f \in ExecFields |-> x[f]], Onward(x)
  PROVE  Onward(exec')
<1>1. Onward(Returned(x))
  BY DEF Onward, ExecFields, Returned
<1>2. exec' = x \/ exec' = Returned(x)
  BY DEF Report, AfterCall
<1> QED BY <1>1, <1>2

\* No round takes a byte back, and none goes beyond its buffer.
LEMMA OnwardStep == ASSUME ParserInv, Step PROVE Onward(exec')
<1>1. /\ exec = [f \in ExecFields |-> exec[f]] /\ exec.p \in Nat /\ exec.limit \in Nat
      /\ exec.p <= exec.limit
  BY DEF ParserInv, Sound, Placed
<1>2. CASE Reject \/ HeaderOverflow \/ TrailersEnd \/ HeadersAlmostDone
  BY <1>2, OnwardEnds DEF Reject, HeaderOverflow, TrailersEnd, HeadersAlmostDone
<1>3. CASE Dead \/ StartMessage \/ HeaderFieldStart
  BY <1>3, OnwardEnds DEF Dead, StartMessage, HeaderFieldStart
<1>4. ASSUME NEW STATE q, StartValue(q)
      PROVE  Onward(exec')
  <2> DEFINE x == [exec EXCEPT !.p = @ + 1, !.reexec = FALSE, !.value_mark = Mark(@)]
  <2>1. Onward(x)
    BY <1>1 DEF Onward, ExecFields
  <2>2. exec' = x \/ \E r, e : Fail(r, e)
    BY <1>4 DEF StartValue
  <2> HIDE DEF x
  <2> QED BY <2>1, <2>2, OnwardEnds
<1>5. CASE DiscardWs \/ HeaderValueStart
  BY <1>4, <1>5, OnwardEnds DEF DiscardWs, HeaderValueStart
<1>6. CASE HeaderValue
  <2> DEFINE x == [exec EXCEPT !.p = @ + 1, !.start = Start]
  <2>1. Onward(x)
    BY <1>1 DEF Onward, ExecFields
  <2>2. exec' = x \/ \E r, e : Fail(r, e)
    BY <1>6 DEF HeaderValue
  <2> HIDE DEF x
  <2> QED BY <2>1, <2>2, OnwardEnds
<1>7. CASE ValueEnd
  <2> DEFINE x == [exec EXCEPT !.value_mark = 0, !.start = 0]
             next == [x EXCEPT !.p = @ + 1]
             again == [x EXCEPT !.reexec = TRUE]
  <2>1. /\ next.p = exec.p + 1 /\ next.limit = exec.limit
        /\ Returned(next).p = exec.p + 1 /\ Returned(next).limit = exec.limit
        /\ Returned(exec).p = exec.p /\ Returned(exec).limit = exec.limit
        /\ again.p = exec.p /\ again.limit = exec.limit /\ again = [f \in ExecFields |-> again[f]]
    BY <1>1 DEF ExecFields, Returned
  <2>2. \/ exec' = next \/ exec' = Returned(next) \/ exec' = Returned(exec)
        \/ \E r, e : Fail(r, e)
        \/ \E r : Report(r, exec.value_mark, exec.p, again)
    BY <1>7 DEF ValueEnd, AfterCall
  <2> HIDE DEF next, again
  <2>3. Onward(next) /\ Onward(Returned(next)) /\ Onward(Returned(exec)) /\ Onward(again)
    BY <1>1, <2>1 DEF Onward
  <2>4. \A r : Report(r, exec.value_mark, exec.p, again) => Onward(exec')
    BY <2>1, <2>3, OnwardReport
  <2> QED BY <2>2, <2>3, <2>4, OnwardEnds
<1>8. CASE ValueCut
  <2>1. Onward([exec EXCEPT !.start = 0])
    BY <1>1 DEF Onward, ExecFields
  <2>2. exec' = [exec EXCEPT !.start = 0] \/ \E r, e : Fail(r, e)
    BY <1>8 DEF ValueCut
  <2> QED BY <2>1, <2>2, OnwardEnds
<1>9. CASE HeaderAlmostDone \/ HeaderValueLws \/ DiscardWsAlmostDone
  BY <1>9, OnwardEnds DEF HeaderAlmostDone, HeaderValueLws, DiscardWsAlmostDone
<1>10. CASE DiscardLws
  <2> DEFINE again == [exec EXCEPT !.reexec = TRUE]
  <2>1. again.p = exec.p /\ again.limit = exec.limit /\ again = [f \in ExecFields |-> again[f]]
    BY <1>1 DEF ExecFields
  <2>2. (\E r : Take(r)) \/ \E r : Report(r, exec.p + 1, exec.p, again)
    BY <1>10 DEF DiscardLws
  <2> HIDE DEF again
  <2>3. \A r : Report(r, exec.p + 1, exec.p, again) => Onward(exec')
    BY <1>1, <2>1, OnwardReport DEF Onward
  <2> QED BY <2>2, <2>3, OnwardEnds
<1>11. CASE HeadersDone
  <2> DEFINE q == [Counted EXCEPT !.nread = 0]
             x == Returned([exec EXCEPT !.p = @ + 1])
  <2>1. Onward(x) /\ Onward(Returned(x))
    BY <1>1 DEF Onward, ExecFields, Returned
  <2>2. Frame(q)
    BY <1>11 DEF HeadersDone
  <2> HIDE DEF q
  <2>3. \/ exec' = x \/ exec' = Returned(x)
        \/ \E r : Take(r) \/ Notify(r, "complete")
    BY <2>2 DEF Frame, AfterCall
  <2> HIDE DEF x
  <2> QED BY <2>1, <2>3, OnwardEnds
<1>12. CASE BodyIdentity
  <2> DEFINE x == [exec EXCEPT !.body_mark = Mark(@), !.p = @ + ToRead]
             y == [x EXCEPT !.p = @ - 1, !.reexec = TRUE, !.body_mark = 0]
  <2>1. ToRead \in 1 .. exec.limit - exec.p
    BY <1>12, ToReadIn DEF BodyIdentity, At, LengthStates
  <2>2. x = [f \in ExecFields |-> x[f]] /\ x.p = exec.p + ToRead /\ x.limit = exec.limit
    BY <1>1 DEF ExecFields
  <2>3. exec' = x \/ \E r : Report(r, x.body_mark, x.p, y)
    BY <1>12 DEF BodyIdentity
  <2> HIDE DEF x
  <2>4. y = [f \in ExecFields |-> y[f]] /\ y.p = x.p - 1 /\ y.limit = x.limit
    BY <2>2 DEF ExecFields
  <2> HIDE DEF y
  <2>5. Onward(x) /\ Onward(y)
    BY <1>1, <2>1, <2>2, <2>4 DEF Onward
  <2>6. \A r : Report(r, x.body_mark, x.p, y) => Onward(exec')
    BY <2>4, <2>5, OnwardReport
  <2> QED BY <2>3, <2>5, <2>6
<1>13. CASE BodyIdentityEof
  <2>1. exec' = [exec EXCEPT !.body_mark = Mark(@), !.p = exec.limit]
    BY <1>13 DEF BodyIdentityEof
  <2> QED BY <1>1, <2>1 DEF Onward, ExecFields
<1>14. CASE MessageDone
  <2> DEFINE x == [exec EXCEPT !.p = @ + 1, !.reexec = FALSE]
  <2>1. Onward(x) /\ Onward(Returned(x)) /\ Onward(Returned(Returned(x)))
    BY <1>1 DEF Onward, ExecFields, Returned
  <2>2. exec' \in {x, Returned(x), Returned(Returned(x))}
    BY <1>14 DEF MessageDone, AfterCall
  <2> HIDE DEF x
  <2> QED BY <2>1, <2>2
<1>15. CASE ChunkSizeStart \/ ChunkSize \/ ChunkParameters \/ ChunkSizeAlmostDone \/ ChunkDataDone
  BY <1>15, OnwardEnds
     DEF ChunkSizeStart, ChunkSize, ChunkParameters, ChunkSizeAlmostDone, ChunkDataDone
<1>16. CASE ChunkData
  <2>1. ToRead \in 1 .. exec.limit - exec.p
    BY <1>16, ToReadIn DEF ChunkData, At, LengthStates
  <2>2. exec' = [exec EXCEPT !.body_mark = Mark(@), !.p = @ + ToRead]
    BY <1>16 DEF ChunkData
  <2>3. exec'.p = exec.p + ToRead /\ exec'.limit = exec.limit
    BY <1>1, <2>2 DEF ExecFields
  <2> QED BY <1>1, <2>1, <2>3 DEF Onward
<1>17. CASE ChunkDataAlmostDone
  <2> DEFINE x == [exec EXCEPT !.p = @ + 1, !.body_mark = 0]
  <2>1. x.p = exec.p + 1 /\ x.limit = exec.limit /\ x = [f \in ExecFields |-> x[f]]
    BY <1>1 DEF ExecFields
  <2>2. \E r : Report(r, exec.body_mark, exec.p, x)
    BY <1>17 DEF ChunkDataAlmostDone
  <2> HIDE DEF x
  <2>3. Onward(x)
    BY <1>1, <2>1 DEF Onward
  <2> QED BY <2>1, <2>2, <2>3, OnwardReport
<1>18. CASE EndOfBuffer
  <2>1. Onward(Returned(exec)) /\ Onward(Returned(Returned(exec)))
    BY <1>1 DEF Onward, ExecFields, Returned
  <2>2. exec' = Returned(exec) \/ exec' = Returned(Returned(exec))
    BY <1>18 DEF EndOfBuffer, Report, AfterCall
  <2> QED BY <2>1, <2>2
<1> QED BY <1>2, <1>3, <1>5, <1>6, <1>7, <1>8, <1>9, <1>10, <1>11, <1>12, <1>13, <1>14, <1>15,
           <1>16, <1>17, <1>18 DEF Step, Round

\* Between rounds the application starts a call where the last one ended.
LEMMA OnwardNext ==
  ASSUME ParserInv, [Next]_vars
  PROVE  exec'.p >= exec.p /\ (LimitInv => LimitInv')
<1>1. /\ exec = [f \in ExecFields |-> exec[f]] /\ exec.p \in Nat /\ exec.limit \in Nat
  BY DEF ParserInv, Sound, Placed
<1>2. CASE Step
  <2>1. Onward(exec') /\ wire' = wire
    BY <1>2, OnwardStep DEF Step, Round
  <2> QED BY <2>1 DEF Onward, LimitInv
<1>3. ASSUME NEW n \in 1 .. Len(wire), Execute(n)
      PROVE  exec'.p = exec.p /\ (LimitInv => LimitInv')
  <2>1. exec'.p = exec.p /\ exec'.limit = exec.p + n /\ wire' = wire /\ exec.p + n <= Len(wire)
    BY <1>1, <1>3 DEF Execute, ExecFields
  <2> QED BY <1>1, <2>1 DEF LimitInv
<1>4. CASE Eof
  <2>1. exec' = exec \/ exec' = Returned(exec)
    BY <1>4 DEF Eof, AfterCall
  <2>2. exec'.p = exec.p /\ exec'.limit = exec.limit
    BY <1>1, <2>1 DEF Returned, ExecFields
  <2> QED BY <1>1, <1>4, <2>2 DEF Eof, LimitInv
<1>5. CASE Unpause \/ UNCHANGED vars
  BY <1>1, <1>5 DEF Unpause, vars, LimitInv
<1> QED BY <1>1, <1>2, <1>3, <1>4, <1>5 DEF Next

\* The parser stays in the buffer it is given, which is a part of the connection,
\* and marks only bytes it has reached.
THEOREM StaysInBuffer == Spec => []InBuffer
<1>1. Init => LimitInv
  <2> SUFFICES ASSUME Init PROVE LimitInv
    OBVIOUS
  <2>1. wire \in Seq(STRING) /\ exec.limit = 0
    BY ParserAssumption DEF Init
  <2> QED BY <2>1 DEF LimitInv
<1>2. ParserInv /\ LimitInv /\ [Next]_vars => LimitInv'
  BY OnwardNext
<1>3. ParserInv /\ LimitInv => InBuffer
  BY DEF ParserInv, Sound, Placed, LimitInv, InBuffer
<1> QED BY <1>1, <1>2, <1>3, ParserIsSound, PTL DEF Spec

\* A byte that was consumed is never looked at again: not by the round that leaves
\* the last byte of a body to s_message_done, nor by the next call.
NeverBack == [][exec'.p >= exec.p]_vars

THEOREM ParserNeverGoesBack == Spec => NeverBack
<1>1. ParserInv /\ [Next]_vars => exec'.p >= exec.p
  BY OnwardNext
<1> QED BY <1>1, ParserIsSound, PTL DEF Spec, NeverBack

-----------------------------------------------------------------------------
(* The length of a body *)

Base == [s \in {"s_header_value", "s_chunk_size"} |-> IF s = "s_chunk_size" THEN 16 ELSE 10]

\* A length grows by the digit that is read, in the base of its field: it is never cut
\* to the width of content_length, and never becomes ULLONG_MAX, which would make the
\* parser read the body to the end of the connection.
LengthExact ==
  [][parser.state \in DOMAIN Base /\ parser'.content_length # parser.content_length =>
       /\ parser'.content_length = parser.content_length * Base[parser.state] + Digit[Byte]
       /\ parser'.content_length < MaxU]_vars

\* The rounds that leave the length as it is.
LEMMA SameLength ==
  ASSUME ParserInv, parser.state \in DOMAIN Base,
         Reject \/ HeaderOverflow \/ ValueEnd \/ ValueCut \/ EndOfBuffer \/ Eof \/ Unpause
         \/ (\E n \in Nat : Execute(n))
  PROVE  parser'.content_length = parser.content_length
<1>1. Framed(parser)
  BY DEF ParserInv, Sound
<1>2. \A q, e : q = [f \in ParserFields |-> q[f]] => [q EXCEPT !.errno = e].content_length = q.content_length
  BY DEF ParserFields
<1>3. Counted = [f \in ParserFields |-> Counted[f]] /\ Counted.content_length = parser.content_length
  BY <1>1 DEF Counted, Framed, ParserFields
<1>4. CASE Reject \/ HeaderOverflow
  BY <1>2, <1>3, <1>4 DEF Reject, HeaderOverflow, Fail
<1>5. CASE ValueEnd
  <2> DEFINE done == Go(Counted, "s_header_almost_done")
             full == Sized(done)
  <2>1. /\ done = [f \in ParserFields |-> done[f]] /\ done.content_length = parser.content_length
    BY <1>3 DEF Go, ParserFields
  <2>2. \/ parser' = full \/ \E e : parser' = [full EXCEPT !.errno = e] \/ parser' = [done EXCEPT !.errno = e]
    BY <1>5 DEF ValueEnd, Fail, Report, AfterCall
  <2> HIDE DEF done
  <2>3. /\ full = [f \in ParserFields |-> full[f]] /\ full.content_length = parser.content_length
    BY <2>1 DEF Sized, ParserFields
  <2> HIDE DEF full
  <2> QED BY <1>2, <2>1, <2>2, <2>3
<1>6. CASE ValueCut
  <2> DEFINE full == Sized(parser)
  <2>1. /\ full = [f \in ParserFields |-> full[f]] /\ full.content_length = parser.content_length
    BY <1>1 DEF Sized, ParserFields, Framed
  <2>2. \/ parser' = full \/ \E e : parser' = [full EXCEPT !.errno = e]
    BY <1>6 DEF ValueCut, Fail
  <2> HIDE DEF full
  <2> QED BY <1>2, <2>1, <2>2
<1>7. CASE EndOfBuffer
  <2>1. parser' = parser \/ \E e : parser' = [parser EXCEPT !.errno = e]
    BY <1>7 DEF EndOfBuffer, Report, AfterCall
  <2> QED BY <1>1, <1>2, <2>1 DEF Framed
<1>8. CASE Eof \/ Unpause \/ \E n \in Nat : Execute(n)
  <2>1. parser' = parser \/ \E e : parser' = [parser EXCEPT !.errno = e]
    BY <1>8 DEF Eof, Unpause, Execute, AfterCall
  <2> QED BY <1>1, <1>2, <2>1 DEF Framed
<1> QED BY <1>4, <1>5, <1>6, <1>7, <1>8

\* A byte of a value may be the next digit of a Content-Length.
LEMMA ValueLength ==
  ASSUME ParserInv, HeaderValue, parser'.content_length # parser.content_length
  PROVE  /\ parser'.content_length = parser.content_length * 10 + Digit[Byte]
         /\ parser'.content_length < MaxU
<1> DEFINE n == parser.content_length
           d == Digit[Byte]
           q == ValueByte(Counted, Byte)
           t == [Counted EXCEPT !.content_length = Shifted(@, 10, d)]
<1>1. /\ Framed(Counted) /\ Counted.content_length = n /\ Counted.errno = "OK"
  BY AtFacts DEF HeaderValue, At
<1>2. parser' = q \/ \E e : parser' = [q EXCEPT !.errno = e]
  BY DEF HeaderValue, Fail
<1>3. q = [f \in ParserFields |-> q[f]]
  BY <1>1, ValueByteKeeps
<1>4. \/ q.content_length = n
      \/ q = t /\ Byte \in {Digits[i] : i \in 1 .. 10} /\ ~overflows(n, 10)
  <2>1. WithFlag(Counted).content_length = n /\ Framed(WithFlag(Counted))
    BY <1>1, WithFlagKeeps
  <2>2. \A h, e : /\ [Counted EXCEPT !.header_state = h].content_length = n
                  /\ [Counted EXCEPT !.errno = e].content_length = n
                  /\ [WithFlag(Counted) EXCEPT !.header_state = h].content_length = n
    BY <1>1, <2>1 DEF Framed, ParserFields
  <2>3. \/ q = Counted
        \/ \E h, e : q \in {[Counted EXCEPT !.header_state = h], [Counted EXCEPT !.errno = e],
                            [WithFlag(Counted) EXCEPT !.header_state = h]}
        \/ q = t /\ Byte \in {Digits[i] : i \in 1 .. 10} /\ ~overflows(Counted.content_length, 10)
    BY DEF ValueByte
  <2> QED BY <1>1, <2>2, <2>3
<1>5. parser'.content_length = q.content_length
  BY <1>2, <1>3 DEF ParserFields
<1>6. /\ q = t /\ Byte \in {Digits[i] : i \in 1 .. 10} /\ ~overflows(n, 10)
  BY <1>4, <1>5
<1>7. d \in 0 .. 9
  BY <1>6, DigitValue
<1>8. t.content_length = Shifted(n, 10, d)
  BY <1>1 DEF Framed, ParserFields
<1>9. n \in 0 .. MaxU
  BY <1>1 DEF Framed
<1> HIDE DEF n, d, q, t
<1>10. d \in 0 .. 10 - 1
  BY <1>7
<1>11. Shifted(n, 10, d) = n * 10 + d /\ Shifted(n, 10, d) < MaxU
  BY <1>6, <1>9, <1>10, ShiftedExact
<1>12. parser'.content_length = n * 10 + d /\ parser'.content_length < MaxU
  BY <1>5, <1>6, <1>8, <1>11
<1> QED BY <1>12 DEF n, d

\* A byte of a chunk's size may be its next digit.
LEMMA ChunkLength ==
  ASSUME ParserInv, ChunkSize, parser'.content_length # parser.content_length
  PROVE  /\ parser'.content_length = parser.content_length * 16 + Digit[Byte]
         /\ parser'.content_length < MaxU
<1> DEFINE n == parser.content_length
           d == Digit[Byte]
           t == [Counted EXCEPT !.content_length = Shifted(@, 16, d)]
<1>1. /\ Framed(Counted) /\ Counted.content_length = n
  BY AtFacts DEF ChunkSize, At
<1>2. \A s, e : Go(Counted, s).content_length = n /\ [Counted EXCEPT !.errno = e].content_length = n
  BY <1>1 DEF Framed, ParserFields, Go
<1>3. \/ parser' = t /\ Byte \notin {"CR", ";", " "} /\ ~overflows(n, 16)
      \/ \E s : parser' = Go(Counted, s)
      \/ \E e : parser' = [Counted EXCEPT !.errno = e]
  <2>1. CASE Byte = "CR"
    BY <2>1 DEF ChunkSize, Take
  <2>2. CASE Byte \in {";", " "}
    BY <2>2 DEF ChunkSize, Take
  <2>3. CASE Byte \notin {"CR", ";", " "}
    BY <1>1, <2>3 DEF ChunkSize, Take, Fail
  <2> QED BY <2>1, <2>2, <2>3
<1> HIDE DEF t
<1>4. parser' = t /\ Byte \notin {"CR", ";", " "} /\ ~overflows(n, 16)
  <2>1. \A s : parser' # Go(Counted, s)
    BY <1>2
  <2>2. \A e : parser' # [Counted EXCEPT !.errno = e]
    BY <1>2
  <2> QED BY <1>3, <2>1, <2>2
<1>5. Byte \in DOMAIN Digit
  BY <1>4 DEF ChunkSize, At, Takes
<1>6. d \in 0 .. 15
  BY <1>5, DigitValue
<1>7. t.content_length = Shifted(n, 16, d)
  BY <1>1 DEF Framed, ParserFields, t
<1>8. n \in 0 .. MaxU
  BY <1>1 DEF Framed
<1> HIDE DEF n, d, t
<1>9. d \in 0 .. 16 - 1
  BY <1>6
<1>10. Shifted(n, 16, d) = n * 16 + d /\ Shifted(n, 16, d) < MaxU
  BY <1>4, <1>8, <1>9, ShiftedExact
<1>11. parser'.content_length = n * 16 + d /\ parser'.content_length < MaxU
  BY <1>4, <1>7, <1>10
<1> QED BY <1>11 DEF n, d

THEOREM LengthsAreExact == Spec => LengthExact
<1>1. ASSUME ParserInv, [Next]_vars, parser.state \in DOMAIN Base,
             parser'.content_length # parser.content_length
      PROVE  /\ parser'.content_length = parser.content_length * Base[parser.state] + Digit[Byte]
             /\ parser'.content_length < MaxU
  <2>1. parser.state \in {"s_header_value", "s_chunk_size"}
    BY <1>1 DEF Base
  <2>2. ~(UNCHANGED vars) /\ Next
    BY <1>1 DEF vars
  <2>3. \/ Reject \/ HeaderOverflow \/ ValueEnd \/ ValueCut \/ EndOfBuffer \/ Eof \/ Unpause
        \/ (\E n \in Nat : Execute(n))
        \/ HeaderValue \/ ChunkSize
    <3>1. CASE Round
      <4>1. \A s : At(s) => s \in {"s_header_value", "s_chunk_size"}
        BY <2>1 DEF At
      <4>2. /\ Dead => At("s_dead")
            /\ StartMessage => At("s_start")
            /\ HeaderFieldStart => At("s_header_field_start")
            /\ DiscardWs => At("s_header_value_discard_ws")
            /\ HeaderValueStart => At("s_header_value_start")
        BY DEF Dead, StartMessage, HeaderFieldStart, DiscardWs, HeaderValueStart
      <4>3. /\ HeaderAlmostDone => At("s_header_almost_done")
            /\ HeaderValueLws => At("s_header_value_lws")
            /\ DiscardWsAlmostDone => At("s_header_value_discard_ws_almost_done")
            /\ DiscardLws => At("s_header_value_discard_lws")
            /\ HeadersDone => At("s_headers_done")
        BY DEF HeaderAlmostDone, HeaderValueLws, DiscardWsAlmostDone, DiscardLws, HeadersDone
      <4>4. /\ BodyIdentity => At("s_body_identity")
            /\ BodyIdentityEof => At("s_body_identity_eof")
            /\ MessageDone => At("s_message_done")
            /\ ChunkSizeStart => At("s_chunk_size_start")
            /\ ChunkParameters => At("s_chunk_parameters")
        BY DEF BodyIdentity, BodyIdentityEof, MessageDone, ChunkSizeStart, ChunkParameters
      <4>5. /\ ChunkSizeAlmostDone => At("s_chunk_size_almost_done")
            /\ ChunkData => At("s_chunk_data")
            /\ ChunkDataAlmostDone => At("s_chunk_data_almost_done")
            /\ ChunkDataDone => At("s_chunk_data_done")
        BY DEF ChunkSizeAlmostDone, ChunkData, ChunkDataAlmostDone, ChunkDataDone
      <4> QED BY <3>1, <4>1, <4>2, <4>3, <4>4, <4>5 DEF Round
    <3>2. CASE Reject \/ HeaderOverflow \/ TrailersEnd \/ HeadersAlmostDone
      BY <2>1, <3>2 DEF TrailersEnd, HeadersAlmostDone, At
    <3>3. CASE \E n \in 1 .. Len(wire) : Execute(n)
      <4>1. PICK n \in 1 .. Len(wire) : Execute(n)
        BY <3>3
      <4>2. n \in Nat
        OBVIOUS
      <4> QED BY <4>1, <4>2
    <3> QED BY <2>2, <3>1, <3>2, <3>3 DEF Next, Step
  <2>4. HeaderValue \/ ChunkSize
    BY <1>1, <2>3, SameLength
  <2>5. CASE HeaderValue
    <3>1. Base[parser.state] = 10
      BY <2>5 DEF HeaderValue, At, Base
    <3> QED BY <1>1, <2>5, <3>1, ValueLength
  <2>6. CASE ChunkSize
    <3>1. Base[parser.state] = 16
      BY <2>6 DEF ChunkSize, At, Base
    <3> QED BY <1>1, <2>6, <3>1, ChunkLength
  <2> QED BY <2>4, <2>5, <2>6
<1> QED BY <1>1, ParserIsSound, PTL DEF Spec, LengthExact

-----------------------------------------------------------------------------
(* The decoder of the connection as one sequence *)

\* HttpDecoder follows the same rules of HttpFraming.
LEMMA SameRules ==
  /\ \A q, s : Decoder!Go(q, s) = Go(q, s)
  /\ \A q : Decoder!Complaint(q) = Complaint(q)
  /\ Decoder!NameState = NameState /\ Decoder!HeaderNames = HeaderNames
  /\ \A s : Decoder!PARSING_HEADER(s) <=> PARSING_HEADER(s)
  /\ \A type : Decoder!http_parser_init(type) = http_parser_init(type)
<1>1. \A q, s : Decoder!Go(q, s) = Go(q, s)
  BY DEF Go, Decoder!Go
<1>2. \A q : Decoder!Complaint(q) = Complaint(q)
  BY DEF Complaint, Decoder!Complaint
<1>3. Decoder!NameState = NameState /\ Decoder!HeaderNames = HeaderNames
  BY DEF NameState, Decoder!NameState, HeaderNames, Decoder!HeaderNames
<1>4. \A s : Decoder!PARSING_HEADER(s) <=> PARSING_HEADER(s)
  BY DEF PARSING_HEADER, Decoder!PARSING_HEADER, BodyStates, Decoder!BodyStates
<1>5. \A type : Decoder!http_parser_init(type) = http_parser_init(type)
  BY DEF http_parser_init, Decoder!http_parser_init
<1> QED BY <1>1, <1>2, <1>3, <1>4, <1>5

\* The decoder reads digits by the same table.
LEMMA SameDigits == Decoder!Digits = Digits /\ Decoder!Digit = Digit
<1>1. Decoder!Digits = Digits
  BY DEF Digits, Decoder!Digits
<1>2. Decoder!Digit = Digit
  BY <1>1 DEF Digit, Decoder!Digit, ToSet, Decoder!ToSet
<1> QED BY <1>1, <1>2

\* The decoder takes the same bytes in the same states.
LEMMA SameTakes == \A q, byte : Decoder!Takes(q, byte) <=> Takes(q, byte)
BY SameRules, SameDigits
   DEF Takes, Decoder!Takes, Requests, Decoder!Requests, Responses, Decoder!Responses, Bodiless,
       Decoder!Bodiless

\* The decoder judges the end of the headers and of a message by the same rules.
LEMMA SameEnd ==
  /\ \A q, flag : Decoder!Has(q, flag) <=> Has(q, flag)
  /\ \A q : Decoder!HasLength(q) <=> HasLength(q)
  /\ \A q : Decoder!Upgraded(q) <=> Upgraded(q)
  /\ \A q : Decoder!NoBody(q) <=> NoBody(q)
  /\ \A q : Decoder!NEW_MESSAGE(q) = NEW_MESSAGE(q)
<1>1. \A q, flag : Decoder!Has(q, flag) <=> Has(q, flag)
  BY DEF Has, Decoder!Has
<1>2. \A q : Decoder!HasLength(q) <=> HasLength(q)
  BY DEF HasLength, Decoder!HasLength
<1>3. \A q : Decoder!Upgraded(q) <=> Upgraded(q)
  BY <1>1, <1>2 DEF Upgraded, Decoder!Upgraded
<1>4. \A q : Decoder!http_message_needs_eof(q) <=> http_message_needs_eof(q)
  BY DEF http_message_needs_eof, Decoder!http_message_needs_eof, Responses, Decoder!Responses,
         Bodiless, Decoder!Bodiless
<1>5. \A q : Decoder!NoBody(q) <=> NoBody(q)
  BY <1>1, <1>4 DEF NoBody, Decoder!NoBody
<1>6. \A q : Decoder!NEW_MESSAGE(q) = NEW_MESSAGE(q)
  BY <1>4 DEF NEW_MESSAGE, Decoder!NEW_MESSAGE, http_should_keep_alive, Decoder!http_should_keep_alive,
              Http11, Decoder!Http11
<1> QED BY <1>1, <1>2, <1>3, <1>5, <1>6

\* The decoder reads the bytes of a value by the same rules.
LEMMA SameValue ==
  /\ \A q, byte : Decoder!NotANumber(q, byte) <=> NotANumber(q, byte)
  /\ \A q, byte : Decoder!FirstByte(q, byte) = FirstByte(q, byte)
  /\ \A q : Decoder!WithFlag(q) = WithFlag(q)
  /\ \A n, base : Decoder!overflows(n, base) <=> overflows(n, base)
  /\ \A n, base, d : Decoder!Shifted(n, base, d) = Shifted(n, base, d)
  /\ \A q, byte : Decoder!ValueByte(q, byte) = ValueByte(q, byte)
<1>1. \A q, byte : Decoder!NotANumber(q, byte) <=> NotANumber(q, byte)
  BY SameDigits DEF NotANumber, Decoder!NotANumber
<1>2. \A word : Decoder!ConnectionState(word) = ConnectionState(word)
  BY DEF ConnectionState, Decoder!ConnectionState
<1>3. \A q, byte : Decoder!FirstByte(q, byte) = FirstByte(q, byte)
  BY <1>2, SameDigits DEF FirstByte, Decoder!FirstByte
<1>4. \A q : Decoder!WithFlag(q) = WithFlag(q)
  BY DEF WithFlag, Decoder!WithFlag, Flag, Decoder!Flag
<1>5. \A n, base : Decoder!overflows(n, base) <=> overflows(n, base)
  BY DEF overflows, Decoder!overflows
<1>6. \A n, base, d : Decoder!Shifted(n, base, d) = Shifted(n, base, d)
  BY DEF Shifted, Decoder!Shifted
<1>7. \A q, byte : Decoder!ValueByte(q, byte) = ValueByte(q, byte)
  BY <1>2, <1>4, <1>5, <1>6, SameDigits DEF ValueByte, Decoder!ValueByte
<1> QED BY <1>1, <1>3, <1>4, <1>5, <1>6, <1>7

\* A record with the fields of struct http_parser.
IsParser(q) == q = [f \in ParserFields |-> q[f]]

\* What the mapping leaves of struct http_parser.
LEMMA UnpausedFields ==
  ASSUME NEW STATE q, IsParser(q)
  PROVE  /\ Unpaused(q) = [f \in ParserFields |->
                             IF f = "nread" THEN 0
                             ELSE IF f = "errno" /\ q.errno = "PAUSED" THEN "OK" ELSE q[f]]
         /\ Unpaused(q).state = q.state /\ Unpaused(q).flags = q.flags
         /\ Unpaused(q).content_length = q.content_length /\ Unpaused(q).header_state = q.header_state
         /\ Unpaused(q).type = q.type /\ Unpaused(q).line = q.line /\ Unpaused(q).upgrade = q.upgrade
         /\ Unpaused(q).errno = IF q.errno = "PAUSED" THEN "OK" ELSE q.errno
<1>1. Unpaused(q) = [f \in ParserFields |->
                             IF f = "nread" THEN 0
                             ELSE IF f = "errno" /\ q.errno = "PAUSED" THEN "OK" ELSE q[f]]
  BY DEF Unpaused, IsParser, ParserFields
<1> QED BY <1>1 DEF ParserFields

\* A change of a field is the same change to the decoder's.
LEMMA UnpausedExcept ==
  ASSUME NEW STATE q, IsParser(q)
  PROVE  /\ \A v : Unpaused([q EXCEPT !.state = v]) = [Unpaused(q) EXCEPT !.state = v]
         /\ \A v : Unpaused([q EXCEPT !.flags = v]) = [Unpaused(q) EXCEPT !.flags = v]
         /\ \A v : Unpaused([q EXCEPT !.content_length = v]) = [Unpaused(q) EXCEPT !.content_length = v]
         /\ \A v : Unpaused([q EXCEPT !.header_state = v]) = [Unpaused(q) EXCEPT !.header_state = v]
         /\ \A v : Unpaused([q EXCEPT !.line = v]) = [Unpaused(q) EXCEPT !.line = v]
         /\ \A v : Unpaused([q EXCEPT !.upgrade = v]) = [Unpaused(q) EXCEPT !.upgrade = v]
         /\ \A v : Unpaused([q EXCEPT !.nread = v]) = Unpaused(q)
         /\ \A v : Unpaused([q EXCEPT !.errno = v]) = [Unpaused(q) EXCEPT !.errno = IF v = "PAUSED" THEN "OK" ELSE v]
<1>1. \A v : Unpaused([q EXCEPT !.state = v]) = [Unpaused(q) EXCEPT !.state = v]
  BY DEF Unpaused, IsParser, ParserFields
<1>2. \A v : Unpaused([q EXCEPT !.flags = v]) = [Unpaused(q) EXCEPT !.flags = v]
  BY DEF Unpaused, IsParser, ParserFields
<1>3. \A v : Unpaused([q EXCEPT !.content_length = v]) = [Unpaused(q) EXCEPT !.content_length = v]
  BY DEF Unpaused, IsParser, ParserFields
<1>4. \A v : Unpaused([q EXCEPT !.header_state = v]) = [Unpaused(q) EXCEPT !.header_state = v]
  BY DEF Unpaused, IsParser, ParserFields
<1>5. \A v : Unpaused([q EXCEPT !.line = v]) = [Unpaused(q) EXCEPT !.line = v]
  BY DEF Unpaused, IsParser, ParserFields
<1>6. \A v : Unpaused([q EXCEPT !.upgrade = v]) = [Unpaused(q) EXCEPT !.upgrade = v]
  BY DEF Unpaused, IsParser, ParserFields
<1>7. \A v : Unpaused([q EXCEPT !.nread = v]) = Unpaused(q)
  BY DEF Unpaused, IsParser, ParserFields
<1>8. \A v : Unpaused([q EXCEPT !.errno = v]) = [Unpaused(q) EXCEPT !.errno = IF v = "PAUSED" THEN "OK" ELSE v]
  BY DEF Unpaused, IsParser, ParserFields
<1> QED BY <1>1, <1>2, <1>3, <1>4, <1>5, <1>6, <1>7, <1>8

\* What the decoder asks of the parser does not depend on what the mapping leaves out.
LEMMA UnpausedSame ==
  ASSUME NEW STATE q, IsParser(q)
  PROVE  /\ \A byte : Takes(Unpaused(q), byte) <=> Takes(q, byte)
         /\ Complaint(Unpaused(q)) = Complaint(q)
         /\ \A byte : NotANumber(Unpaused(q), byte) <=> NotANumber(q, byte)
         /\ \A flag : Has(Unpaused(q), flag) <=> Has(q, flag)
         /\ HasLength(Unpaused(q)) <=> HasLength(q)
         /\ Upgraded(Unpaused(q)) <=> Upgraded(q)
         /\ NoBody(Unpaused(q)) <=> NoBody(q)
         /\ NEW_MESSAGE(Unpaused(q)) = NEW_MESSAGE(q)
<1> DEFINE u == Unpaused(q)
<1>1. /\ u.state = q.state /\ u.flags = q.flags /\ u.content_length = q.content_length
      /\ u.header_state = q.header_state /\ u.type = q.type /\ u.line = q.line /\ u.upgrade = q.upgrade
  BY UnpausedFields
<1> HIDE DEF u
<1>2. \A byte : Takes(u, byte) <=> Takes(q, byte)
  BY <1>1 DEF Takes
<1>3. Complaint(u) = Complaint(q)
  BY <1>1 DEF Complaint
<1>4. \A byte : NotANumber(u, byte) <=> NotANumber(q, byte)
  BY <1>1 DEF NotANumber
<1>5. \A flag : Has(u, flag) <=> Has(q, flag)
  BY <1>1 DEF Has
<1>6. HasLength(u) <=> HasLength(q)
  BY <1>1 DEF HasLength
<1>7. Upgraded(u) <=> Upgraded(q)
  BY <1>1, <1>5, <1>6 DEF Upgraded
<1>8. http_message_needs_eof(u) <=> http_message_needs_eof(q)
  BY <1>1 DEF http_message_needs_eof
<1>9. NoBody(u) <=> NoBody(q)
  BY <1>1, <1>5, <1>8 DEF NoBody
<1>10. NEW_MESSAGE(u) = NEW_MESSAGE(q)
  BY <1>1, <1>8 DEF NEW_MESSAGE, http_should_keep_alive
<1> QED BY <1>2, <1>3, <1>4, <1>5, <1>6, <1>7, <1>9, <1>10 DEF u

\* Counting a byte changes nothing for the decoder.
LEMMA UnpausedCounted ==
  ASSUME IsParser(parser)
  PROVE  /\ IsParser(Counted) /\ Unpaused(Counted) = Unpaused(parser)
         /\ Counted.state = parser.state /\ Counted.flags = parser.flags
         /\ Counted.header_state = parser.header_state /\ Counted.type = parser.type
         /\ Counted.line = parser.line /\ Counted.upgrade = parser.upgrade
         /\ Counted.content_length = parser.content_length /\ Counted.errno = parser.errno
<1>1. Counted = parser \/ Counted = [parser EXCEPT !.nread = parser.nread + 1]
  BY DEF Counted
<1>2. Unpaused(Counted) = Unpaused(parser)
  BY <1>1, UnpausedExcept
<1> QED BY <1>1, <1>2 DEF IsParser, ParserFields

\* A parser that goes to another state stays a parser, with what it had.
LEMMA ParserGo ==
  ASSUME NEW STATE q, IsParser(q), NEW s
  PROVE  /\ IsParser(Go(q, s)) /\ Unpaused(Go(q, s)) = Go(Unpaused(q), s)
         /\ Go(q, s).state = s /\ Go(q, s).errno = q.errno
<1>1. Unpaused(Go(q, s)) = Go(Unpaused(q), s)
  BY UnpausedExcept DEF Go
<1> QED BY <1>1 DEF Go, IsParser, ParserFields

\* The flag of a field is the same with and without what the mapping leaves out.
LEMMA UnpausedWithFlag ==
  ASSUME NEW STATE q, IsParser(q)
  PROVE  /\ IsParser(WithFlag(q)) /\ Unpaused(WithFlag(q)) = WithFlag(Unpaused(q))
         /\ WithFlag(q).errno = q.errno /\ WithFlag(q).state = q.state
<1> DEFINE u == Unpaused(q)
           fl == q.flags \cup {Flag[q.header_state]}
<1>1. u.flags = q.flags /\ u.header_state = q.header_state
  BY UnpausedFields
<1>2. Unpaused([q EXCEPT !.flags = fl]) = [u EXCEPT !.flags = fl]
  BY UnpausedExcept
<1>3. IsParser([q EXCEPT !.flags = fl]) /\ [q EXCEPT !.flags = fl].errno = q.errno
      /\ [q EXCEPT !.flags = fl].state = q.state
  BY DEF IsParser, ParserFields
<1>4. WithFlag(q) = IF q.header_state \in DOMAIN Flag THEN [q EXCEPT !.flags = fl] ELSE q
  BY DEF WithFlag
<1>5. WithFlag(u) = IF q.header_state \in DOMAIN Flag THEN [u EXCEPT !.flags = fl] ELSE u
  BY <1>1 DEF WithFlag
<1> HIDE DEF u, fl
<1> QED BY <1>2, <1>3, <1>4, <1>5 DEF u

\* So is what the first byte of a value does,
LEMMA UnpausedFirstByte ==
  ASSUME NEW STATE q, IsParser(q), NEW byte
  PROVE  /\ IsParser(FirstByte(q, byte)) /\ Unpaused(FirstByte(q, byte)) = FirstByte(Unpaused(q), byte)
         /\ FirstByte(q, byte).errno = q.errno /\ FirstByte(q, byte).state = "s_header_value"
<1> DEFINE u == Unpaused(q)
           fl == IF q.header_state = "h_upgrade" THEN q.flags \cup {"UPGRADE"} ELSE q.flags
           n == IF q.header_state = "h_content_length" THEN Digit[byte] ELSE q.content_length
           h == CASE q.header_state \in {"h_content_length", "h_matching_connection_token_start"} ->
                       q.header_state
                  [] q.header_state = "h_transfer_encoding" /\ byte = "chunked" ->
                       "h_transfer_encoding_chunked"
                  [] q.header_state = "h_connection" -> ConnectionState(byte)
                  [] OTHER -> "h_general"
           q1 == [q EXCEPT !.state = "s_header_value"]
           q2 == [q1 EXCEPT !.flags = fl]
           q3 == [q2 EXCEPT !.content_length = n]
           q4 == [q3 EXCEPT !.header_state = h]
           u1 == [u EXCEPT !.state = "s_header_value"]
           u2 == [u1 EXCEPT !.flags = fl]
           u3 == [u2 EXCEPT !.content_length = n]
           u4 == [u3 EXCEPT !.header_state = h]
<1>1. u.flags = q.flags /\ u.header_state = q.header_state /\ u.content_length = q.content_length
  BY UnpausedFields
<1>2. FirstByte(q, byte) = [q EXCEPT !.state = "s_header_value", !.flags = fl, !.content_length = n, !.header_state = h]
  BY DEF FirstByte
<1>3. FirstByte(u, byte) = [u EXCEPT !.state = "s_header_value", !.flags = fl, !.content_length = n, !.header_state = h]
  BY <1>1 DEF FirstByte
<1> HIDE DEF fl, n, h
<1>4. FirstByte(q, byte) = q4
  BY <1>2 DEF IsParser, ParserFields
<1>5. FirstByte(u, byte) = u4
  BY <1>3, UnpausedFields DEF IsParser, ParserFields
<1>6. IsParser(q1) /\ IsParser(q2) /\ IsParser(q3) /\ IsParser(q4) /\ q4.errno = q.errno /\ q4.state = "s_header_value"
  BY DEF IsParser, ParserFields
<1>7. Unpaused(q1) = u1
  BY UnpausedExcept
<1> HIDE DEF q1, u1
<1>8. Unpaused(q2) = u2
  BY <1>6, <1>7, UnpausedExcept
<1> HIDE DEF q2, u2
<1>9. Unpaused(q3) = u3
  BY <1>6, <1>8, UnpausedExcept
<1> HIDE DEF q3, u3
<1>10. Unpaused(q4) = u4
  BY <1>6, <1>9, UnpausedExcept
<1> HIDE DEF q4, u4, u
<1> QED BY <1>4, <1>5, <1>6, <1>10 DEF u

\* and what its other bytes do.
LEMMA UnpausedValueByte ==
  ASSUME NEW STATE q, IsParser(q), q.errno = "OK", NEW byte
  PROVE  Unpaused(ValueByte(q, byte)) = ValueByte(Unpaused(q), byte)
<1> DEFINE u == Unpaused(q)
<1>1. u.header_state = q.header_state /\ u.content_length = q.content_length
  BY UnpausedFields
<1>2. \A h : Unpaused([q EXCEPT !.header_state = h]) = [u EXCEPT !.header_state = h]
  BY UnpausedExcept
<1>3. CASE q.header_state = "h_content_length"
  <2> DEFINE n == Shifted(q.content_length, 10, Digit[byte])
             bad == byte \notin {Digits[i] : i \in 1 .. 10} \/ overflows(q.content_length, 10)
  <2>1. ValueByte(q, byte) = IF byte = " " THEN q
                             ELSE IF bad THEN [q EXCEPT !.errno = "INVALID_CONTENT_LENGTH"]
                             ELSE [q EXCEPT !.content_length = n]
    BY <1>3 DEF ValueByte
  <2>2. ValueByte(u, byte) = IF byte = " " THEN u
                             ELSE IF bad THEN [u EXCEPT !.errno = "INVALID_CONTENT_LENGTH"]
                             ELSE [u EXCEPT !.content_length = n]
    BY <1>1, <1>3 DEF ValueByte
  <2>3. Unpaused([q EXCEPT !.content_length = n]) = [u EXCEPT !.content_length = n]
    BY UnpausedExcept
  <2>4. Unpaused([q EXCEPT !.errno = "INVALID_CONTENT_LENGTH"]) = [u EXCEPT !.errno = "INVALID_CONTENT_LENGTH"]
    BY UnpausedExcept
  <2> HIDE DEF u, n, bad
  <2> QED BY <2>1, <2>2, <2>3, <2>4 DEF u
<1>4. CASE q.header_state \in {"h_connection_keep_alive", "h_connection_close", "h_connection_upgrade"}
  <2> DEFINE w == WithFlag(q)
             v == WithFlag(u)
  <2>1. ValueByte(q, byte) = CASE byte = "," -> [w EXCEPT !.header_state = "h_matching_connection_token_start"]
                               [] byte = " " -> q
                               [] OTHER -> [q EXCEPT !.header_state = "h_matching_connection_token"]
    BY <1>4, Zenon DEF ValueByte
  <2>2. ValueByte(u, byte) = CASE byte = "," -> [v EXCEPT !.header_state = "h_matching_connection_token_start"]
                               [] byte = " " -> u
                               [] OTHER -> [u EXCEPT !.header_state = "h_matching_connection_token"]
    BY <1>1, <1>4, Zenon DEF ValueByte
  <2>3. IsParser(w) /\ Unpaused(w) = v
    BY UnpausedWithFlag
  <2> HIDE DEF w, v
  <2>4. \A h : Unpaused([w EXCEPT !.header_state = h]) = [v EXCEPT !.header_state = h]
    BY <2>3, UnpausedExcept
  <2> HIDE DEF u
  <2>5. CASE byte = ","
    BY <2>1, <2>2, <2>4, <2>5 DEF u
  <2>6. CASE byte = " "
    BY <2>1, <2>2, <2>6 DEF u
  <2>7. CASE byte # "," /\ byte # " "
    BY <1>2, <2>1, <2>2, <2>7 DEF u
  <2> QED BY <2>5, <2>6, <2>7
<1>5. CASE q.header_state = "h_matching_connection_token_start"
  BY <1>1, <1>2, <1>5 DEF ValueByte
<1>6. CASE q.header_state = "h_matching_connection_token"
  BY <1>1, <1>2, <1>6 DEF ValueByte
<1>7. CASE q.header_state = "h_transfer_encoding_chunked"
  BY <1>1, <1>2, <1>7 DEF ValueByte
<1>8. CASE q.header_state \notin {"h_content_length", "h_connection_keep_alive", "h_connection_close",
                                  "h_connection_upgrade", "h_matching_connection_token_start",
                                  "h_matching_connection_token", "h_transfer_encoding_chunked"}
  <2>1. ValueByte(q, byte) = [q EXCEPT !.header_state = "h_general"]
    BY <1>8 DEF ValueByte
  <2>2. ValueByte(u, byte) = [u EXCEPT !.header_state = "h_general"]
    BY <1>1, <1>8 DEF ValueByte
  <2> HIDE DEF u
  <2> QED BY <1>2, <2>1, <2>2 DEF u
<1> QED BY <1>3, <1>4, <1>5, <1>6, <1>7, <1>8

\* A record with the locals of http_parser_execute.
IsExec(x) == x = [f \in ExecFields |-> x[f]]

\* The bytes of a connection, and the callbacks.
Tokens == STRING \cup {"begin", "field", "headers", "chunk", "chunk end", "complete"}

\* The invariant a step of the decoder needs beside ParserInv.  What is told is a sequence;
\* a call that is in a value has marked it; the last byte of a message is left in the buffer
\* for s_message_done; and a message of another protocol ends the call.
ReadInv ==
  /\ calls \in Seq(Tokens) /\ wire \in Seq(Tokens)
  /\ parser.type \in {"REQUEST", "RESPONSE"}
  /\ exec.running => ~eof
  /\ exec.running /\ parser.state = "s_header_value" => exec.value_mark # 0
  /\ parser.state = "s_message_done" => exec.p < Len(wire)
  /\ parser.upgrade /\ parser.state \in {"s_start", "s_dead"} => ~exec.running /\ TakenOver

\* The decoder is refined under these.
MapInv == ParserInv /\ LimitInv /\ ReadInv

-----------------------------------------------------------------------------
(* Sequences of bytes *)

\* What the application is told is among the events.
LEMMA Said == {"begin", "field", "headers", "chunk", "chunk end", "complete"} \subseteq Tokens
BY Zenon DEF Tokens

\* So are the bytes of the connection.
LEMMA BytesAreTokens == ASSUME NEW w \in Seq(STRING) PROVE w \in Seq(Tokens)
<1>1. STRING \subseteq Tokens
  BY Zenon DEF Tokens
<1>2. \A i \in 1 .. Len(w) : w[i] \in Tokens
  BY <1>1, ElementOfSeq
<1>3. Len(w) \in Int
  BY LenProperties
<1>4. SubSeq(w, 1, Len(w)) \in Seq(Tokens)
  BY <1>2, <1>3, SubSeqProperties
<1> QED BY <1>4, SubSeqFull

\* The bytes from m to p, and those that follow them.
LEMMA Bytewise ==
  ASSUME NEW w \in Seq(Tokens), NEW p \in Nat, p <= Len(w), NEW m \in 1 .. p + 1
  PROVE  /\ SubSeq(w, m, p) \in Seq(Tokens)
         /\ m = p + 1 => SubSeq(w, m, p) = <<>>
         /\ \A n \in Nat : p + n <= Len(w) =>
              SubSeq(w, m, p + n) = SubSeq(w, m, p) \o SubSeq(w, p + 1, p + n)
         /\ p < Len(w) => SubSeq(w, p + 1, p + 1) = <<w[p + 1]>> /\ w[p + 1] \in Tokens
<1>0. Len(w) \in Nat
  BY LenProperties
<1>1. SubSeq(w, m, p) \in Seq(Tokens)
  <2>1. \A i \in m .. p : w[i] \in Tokens
    BY <1>0, ElementOfSeq
  <2>2. m \in Int /\ p \in Int
    OBVIOUS
  <2> QED BY <2>1, <2>2, SubSeqProperties
<1>2. m = p + 1 => SubSeq(w, m, p) = <<>>
  BY SubSeqEmpty
<1>3. ASSUME NEW n \in Nat, p + n <= Len(w)
      PROVE  SubSeq(w, m, p + n) = SubSeq(w, m, p) \o SubSeq(w, p + 1, p + n)
  <2>1. m \in 1 .. Len(w) + 1 /\ p \in m - 1 .. Len(w) /\ p + n \in p .. Len(w)
    BY <1>0, <1>3
  <2> QED BY <2>1, ConcatAdjacentSubSeq
<1>4. p < Len(w) => SubSeq(w, p + 1, p + 1) = <<w[p + 1]>> /\ w[p + 1] \in Tokens
  <2> SUFFICES ASSUME p < Len(w) PROVE SubSeq(w, p + 1, p + 1) = <<w[p + 1]>> /\ w[p + 1] \in Tokens
    OBVIOUS
  <2>1. p + 1 \in 1 .. Len(w)
    BY <1>0
  <2>2. w[p + 1] \in Tokens
    BY <2>1, ElementOfSeq
  <2>3. SubSeq(w, p + 1, p + 1) = <<w[p + 1]>> \o SubSeq(w, p + 2, p + 1)
    BY <2>1, SubSeqRecursiveFirst
  <2>4. SubSeq(w, p + 2, p + 1) = <<>>
    BY SubSeqEmpty
  <2>5. <<w[p + 1]>> \in Seq(Tokens)
    BY <2>2
  <2> QED BY <2>2, <2>3, <2>4, <2>5, ConcatEmptySeq
<1> QED BY <1>1, <1>2, <1>3, <1>4

\* What the locals x of a call have marked.
Pend(x) == Marked(IF x.value_mark # 0 THEN x.value_mark ELSE x.body_mark, x.p)

\* In a call, what is marked ends at the byte the call is at.
LEMMA PendingFacts ==
  ASSUME MapInv
  PROVE  /\ exec.p \in Nat /\ exec.p <= Len(wire) /\ Len(wire) \in Nat
         /\ wire \in Seq(Tokens) /\ calls \in Seq(Tokens) /\ IsExec(exec) /\ IsParser(parser)
         /\ Pending = Pend(exec) /\ Pending \in Seq(Tokens) /\ calls \o Pending \in Seq(Tokens)
         /\ exec.value_mark = 0 /\ exec.body_mark = 0 => Pending = <<>> /\ calls \o Pending = calls
         /\ \E m \in 1 .. exec.p + 1 : Pending = SubSeq(wire, m, exec.p)
<1>1. /\ exec.p \in Nat /\ exec.p <= Len(wire) /\ Len(wire) \in Nat /\ wire \in Seq(Tokens)
      /\ calls \in Seq(Tokens)
      /\ exec.value_mark \in 0 .. exec.p + 1 /\ exec.body_mark \in 0 .. exec.p + 1
      /\ IsExec(exec) /\ IsParser(parser)
  BY DEF MapInv, ParserInv, Sound, Placed, Framed, LimitInv, ReadInv, IsExec, IsParser
<1> DEFINE m == IF exec.value_mark # 0 THEN exec.value_mark ELSE exec.body_mark
           m1 == IF m = 0 THEN exec.p + 1 ELSE m
<1>2. m \in 0 .. exec.p + 1 /\ m1 \in 1 .. exec.p + 1
  BY <1>1
<1>3. Pending = IF m = 0 THEN <<>> ELSE SubSeq(wire, m, exec.p)
  BY DEF Pending, Marked
<1>4. Pending = SubSeq(wire, m1, exec.p)
  <2>1. CASE m = 0
    <3>1. SubSeq(wire, exec.p + 1, exec.p) = <<>>
      BY <1>1, SubSeqEmpty
    <3> QED BY <1>3, <2>1, <3>1
  <2>2. CASE m # 0
    BY <1>3, <2>2
  <2> QED BY <2>1, <2>2
<1>5. exec.value_mark = 0 /\ exec.body_mark = 0 => Pending = <<>>
  BY <1>3
<1> HIDE DEF m1
<1>6. Pending \in Seq(Tokens)
  BY <1>1, <1>2, <1>4, Bytewise
<1>7. calls \o Pending \in Seq(Tokens)
  BY <1>1, <1>6, ConcatProperties
<1>8. calls \o <<>> = calls
  BY <1>1, ConcatEmptySeq
<1> QED BY <1>1, <1>2, <1>4, <1>5, <1>6, <1>7, <1>8 DEF Pending, Pend

\* What is marked next is what the locals of the next state mark.
LEMMA PendingNext ==
  ASSUME NEW STATE x, exec' = x, UNCHANGED wire
  PROVE  Pending' = Pend(x)
BY DEF Pending, Pend, Marked

\* Without marks nothing is pending.
LEMMA NothingMarked == ASSUME NEW STATE x, x.value_mark = 0, x.body_mark = 0 PROVE Pend(x) = <<>>
BY DEF Pend, Marked

\* What a round leaves the application: a message of another protocol ends it.
Leaves(q) == q.upgrade /\ q.state \in {"s_start", "s_dead"}

\* A round without a callback: what it marks is what the decoder reads.
LEMMA BecomesMaps ==
  ASSUME MapInv, exec.running, NEW STATE q, NEW STATE x, parser' = q, exec' = x, IsParser(q),
         q.errno = "OK", q.type = parser.type, NEW data \in Seq(Tokens), NEW n,
         Consumed(q, x) = Consumed(parser, exec) + n, calls' = calls, Pend(x) = Pending \o data,
         q.state = "s_header_value" => x.value_mark # 0,
         q.state = "s_message_done" => x.p < Len(wire),
         ~Leaves(q), UNCHANGED <<sent, wire, eof>>
  PROVE  Decoder!Becomes(Unpaused(q), data, n) /\ ReadInv'
<1>1. Pending' = Pending \o data
  BY PendingNext
<1>2. (calls \o Pending)' = calls \o (Pending \o data)
  BY <1>1
<1>3. calls \o (Pending \o data) = (calls \o Pending) \o data
  <2>1. calls \in Seq(Tokens) /\ Pending \in Seq(Tokens) /\ data \in Seq(Tokens)
    BY PendingFacts
  <2> HIDE DEF Pending
  <2> QED BY <2>1, ConcatAssociative
<1>4. Consumed(parser, exec)' = Consumed(parser, exec) + n /\ Unpaused(parser)' = Unpaused(q)
  BY DEF Consumed, Unpaused
<1>5. Decoder!Becomes(Unpaused(q), data, n)
  BY <1>2, <1>3, <1>4 DEF Decoder!Becomes
<1>6. ReadInv'
  BY DEF ReadInv, MapInv, Leaves
<1> QED BY <1>5, <1>6

\* A round that ends with a callback, when nothing is marked any more.
LEMMA TellsMaps ==
  ASSUME MapInv, exec.running, NEW STATE q, NEW STATE x, NEW o \in Outcomes, AfterCall(q, x, o),
         IsParser(q), IsExec(x), q.errno = "OK", q.type = parser.type,
         x.value_mark = 0, x.body_mark = 0, NEW said \in Seq(Tokens), NEW n,
         Consumed(q, x) = Consumed(parser, exec) + n, calls' = (calls \o Pending) \o said,
         q.state # "s_header_value", q.state = "s_message_done" => x.p < Len(wire),
         Leaves(q) => ~x.running /\ said = <<"complete">>,
         UNCHANGED <<sent, wire, eof>>
  PROVE  Decoder!Tells(Unpaused(q), said, n) /\ ReadInv'
<1> DEFINE e == [ok |-> "OK", pause |-> "PAUSED", fail |-> "CB"][o]
           d == IF o = "fail" THEN "CB" ELSE "OK"
           y == IF o = "ok" THEN x ELSE Returned(x)
           r == [q EXCEPT !.errno = e]
<1>1. /\ (o = "ok" /\ e = "OK") \/ (o = "pause" /\ e = "PAUSED") \/ (o = "fail" /\ e = "CB")
      /\ d = IF e = "PAUSED" THEN "OK" ELSE e
      /\ d \in {"OK", "CB"}
  BY ParserAssumption
<1>2. parser' = r /\ exec' = y
  BY DEF AfterCall
<1>3. /\ y.p = x.p /\ y.value_mark = 0 /\ y.body_mark = 0 /\ (~x.running => ~y.running)
  BY DEF Returned, IsExec, ExecFields
<1> HIDE DEF e, d, y
<1>4. Unpaused(r) = [Unpaused(q) EXCEPT !.errno = d]
  BY <1>1, UnpausedExcept
<1>5. /\ r.state = q.state /\ r.type = q.type /\ r.upgrade = q.upgrade
  BY DEF IsParser, ParserFields
<1> HIDE DEF r
<1>6. Pending' = <<>>
  BY <1>2, <1>3, PendingNext, NothingMarked
<1>7. calls' \in Seq(Tokens)
  BY PendingFacts, ConcatProperties
<1>8. (calls \o Pending)' = (calls \o Pending) \o said
  BY <1>6, <1>7, ConcatEmptySeq
<1>9. Consumed(parser, exec)' = Consumed(parser, exec) + n
  BY <1>2, <1>3, <1>5 DEF Consumed
<1>10. Unpaused(parser)' = [Unpaused(q) EXCEPT !.errno = d]
  BY <1>2, <1>4 DEF Unpaused
<1>11. Decoder!Becomes([Unpaused(q) EXCEPT !.errno = d], said, n)
  BY <1>8, <1>9, <1>10 DEF Decoder!Becomes
<1>12. Decoder!Tells(Unpaused(q), said, n)
  BY <1>1, <1>11 DEF Decoder!Tells
<1>13. Leaves(q) => TakenOver'
  <2> SUFFICES ASSUME Leaves(q) PROVE TakenOver'
    OBVIOUS
  <2>1. calls' = (calls \o Pending) \o <<"complete">> /\ <<"complete">> \in Seq(Tokens)
    OBVIOUS
  <2>2. /\ Len(calls') = Len(calls \o Pending) + 1 /\ Len(calls \o Pending) \in Nat
        /\ calls'[Len(calls \o Pending) + 1] = "complete"
    BY <2>1, PendingFacts, ConcatProperties, LenProperties
  <2>3. calls' # <<>> /\ calls'[Len(calls')] = "complete"
    BY <2>2
  <2> QED BY <1>2, <1>5, <2>3 DEF TakenOver, Leaves
<1>14. ReadInv'
  BY <1>2, <1>3, <1>5, <1>7, <1>13 DEF ReadInv, MapInv, Leaves
<1> QED BY <1>12, <1>14

\* goto error: what is marked is not reported.
LEMMA StopsMaps ==
  ASSUME MapInv, exec.running, NEW STATE q, NEW e, Fail(q, e), IsParser(q), q.type = parser.type,
         e \notin {"OK", "PAUSED"}, q.state # "s_message_done", parser.state # "s_message_done",
         ~Leaves(q), UNCHANGED <<sent, wire, eof>>
  PROVE  Decoder!Stops(e) /\ ReadInv'
<1> DEFINE r == [q EXCEPT !.errno = e]
           y == Returned(exec)
<1>1. parser' = r /\ exec' = y /\ calls' = calls
  BY DEF Fail
<1>2. /\ r.state = q.state /\ r.type = q.type /\ r.upgrade = q.upgrade
  BY DEF IsParser, ParserFields
<1>3. IsParser(r) /\ r.errno = e
  BY DEF IsParser, ParserFields
<1> HIDE DEF r
<1>4. Unpaused(parser)'.errno = e
  <2>1. Unpaused(r).errno = e
    BY <1>3, UnpausedFields
  <2> QED BY <1>1, <2>1 DEF Unpaused
<1>5. y.p = exec.p /\ y.value_mark = 0 /\ y.body_mark = 0 /\ y.running = FALSE
  BY PendingFacts DEF Returned, IsExec, ExecFields
<1> HIDE DEF y
<1>6. Consumed(parser, exec) = exec.p /\ Consumed(parser, exec)' = exec.p
  BY <1>1, <1>2, <1>5 DEF Consumed
<1>7. (calls \o Pending)' = calls
  BY <1>1, <1>5, PendingNext, NothingMarked, PendingFacts, ConcatEmptySeq
<1>8. PICK m \in 1 .. exec.p + 1 : Pending = SubSeq(wire, m, exec.p)
  BY PendingFacts
<1>9. Decoder!Stops(e)
  BY <1>4, <1>6, <1>7, <1>8 DEF Decoder!Stops
<1>10. ReadInv'
  BY <1>1, <1>2, <1>5 DEF ReadInv, MapInv, Leaves
<1> QED BY <1>9, <1>10

\* A round finds the decoder ready for the same byte.
LEMMA AtMaps ==
  ASSUME MapInv, Reading, parser.state # "s_message_done"
  PROVE  /\ Decoder!Reads /\ Decoder!Byte = Byte /\ Consumed(parser, exec) = exec.p
         /\ exec.p < Len(wire) /\ exec.p \in Nat /\ Byte \in Tokens /\ exec.running
         /\ Takes(parser, Byte) => Decoder!At(parser.state)
         /\ ~Leaves(parser)
<1>1. /\ exec.p \in Nat /\ exec.p < Len(wire) /\ parser.errno = "OK" /\ ~eof /\ exec.running /\ ~Leaves(parser)
  BY PendingFacts DEF Reading, MapInv, ParserInv, Sound, Placed, LimitInv, ReadInv, Leaves
<1>2. IsParser(parser)
  BY PendingFacts
<1>3. Consumed(parser, exec) = exec.p
  BY DEF Consumed
<1>4. Byte \in Tokens
  BY <1>1, PendingFacts, Bytewise DEF Byte
<1>5. Decoder!Byte = Byte
  BY <1>3 DEF Byte, Decoder!Byte
<1>6. /\ Unpaused(parser).errno = "OK" /\ Unpaused(parser).upgrade = parser.upgrade
      /\ Unpaused(parser).state = parser.state
  BY <1>1, <1>2, UnpausedFields
<1>7. Decoder!Reads
  BY <1>1, <1>6 DEF Decoder!Reads, Decoder!Left, Leaves
<1>8. Takes(parser, Byte) => Decoder!Takes(Unpaused(parser), Decoder!Byte)
  BY <1>2, <1>5, SameTakes, UnpausedSame
<1>9. Takes(parser, Byte) => Decoder!At(parser.state)
  BY <1>1, <1>3, <1>6, <1>7, <1>8 DEF Decoder!At
<1> QED BY <1>1, <1>3, <1>4, <1>5, <1>7, <1>9

\* A data callback is made, or there is nothing to report.
LEMMA ReportCalls ==
  ASSUME MapInv, NEW STATE q, NEW STATE x, NEW mark, NEW p, Report(q, mark, p, x), IsParser(q), q.errno = "OK"
  PROVE  \E o \in Outcomes : AfterCall(q, x, o) /\ calls' = calls \o Marked(mark, p)
<1>1. CASE mark = 0
  <2>1. parser' = q /\ exec' = x /\ calls' = calls
    BY <1>1 DEF Report
  <2>2. q = [q EXCEPT !.errno = "OK"]
    BY DEF IsParser, ParserFields
  <2>3. AfterCall(q, x, "ok")
    BY <2>1, <2>2 DEF AfterCall
  <2>4. calls' = calls \o Marked(mark, p)
    BY <1>1, <2>1, PendingFacts, ConcatEmptySeq DEF Marked
  <2> QED BY <2>3, <2>4, ParserAssumption
<1>2. CASE mark # 0
  BY <1>2 DEF Report
<1> QED BY <1>1, <1>2

\* The position of a call's locals after a byte, and where they stay.
LEMMA NextExec ==
  ASSUME MapInv
  PROVE  LET next == [exec EXCEPT !.p = @ + 1, !.reexec = FALSE]
             again == [exec EXCEPT !.reexec = TRUE]
         IN /\ IsExec(next) /\ next.p = exec.p + 1 /\ next.running = exec.running
            /\ next.value_mark = exec.value_mark /\ next.body_mark = exec.body_mark
            /\ IsExec(again) /\ again.p = exec.p /\ again.running = exec.running
            /\ again.value_mark = exec.value_mark /\ again.body_mark = exec.body_mark
BY PendingFacts DEF IsExec, ExecFields

\* What the round leaves in struct http_parser, when it does not fail.
Settled(q) == IsParser(q) /\ q.errno = "OK" /\ q.type = parser.type /\ q.state # "s_header_value"

\* Reading a byte that is not data moves the decoder by one byte.
LEMMA TakeMaps ==
  ASSUME MapInv, Reading, Unmarked(exec), parser.state # "s_message_done", NEW STATE q, Settled(q),
         q.state # "s_message_done", ~Leaves(q), UNCHANGED <<sent, wire, eof>>, Take(q)
  PROVE  Decoder!Becomes(Unpaused(q), <<>>, 1) /\ ReadInv'
<1> DEFINE next == [exec EXCEPT !.p = @ + 1, !.reexec = FALSE]
<1>1. parser' = q /\ exec' = next /\ calls' = calls
  BY DEF Take
<1>2. /\ next.p = exec.p + 1 /\ next.value_mark = 0 /\ next.body_mark = 0
  BY NextExec DEF Unmarked
<1> HIDE DEF next
<1>3. Pending = <<>> /\ Pend(next) = <<>> /\ <<>> \in Seq(Tokens)
  BY <1>2, NothingMarked, PendingFacts DEF Unmarked
<1>4. Pend(next) = Pending \o <<>>
  BY <1>3, ConcatEmptySeq
<1>5. Consumed(q, next) = Consumed(parser, exec) + 1
  BY <1>2 DEF Consumed
<1>6. exec.running
  BY DEF Reading
<1> QED BY <1>1, <1>3, <1>4, <1>5, <1>6, BecomesMaps DEF Settled

\* Looking at a byte again leaves the decoder where it is.
LEMMA ReexecuteMaps ==
  ASSUME MapInv, Reading, Unmarked(exec), parser.state # "s_message_done", NEW STATE q, Settled(q),
         q.state # "s_message_done", ~Leaves(q), UNCHANGED <<sent, wire, eof>>, Reexecute(q)
  PROVE  Decoder!Becomes(Unpaused(q), <<>>, 0) /\ ReadInv'
<1> DEFINE again == [exec EXCEPT !.reexec = TRUE]
<1>1. parser' = q /\ exec' = again /\ calls' = calls
  BY DEF Reexecute
<1>2. /\ again.p = exec.p /\ again.value_mark = 0 /\ again.body_mark = 0
  BY NextExec DEF Unmarked
<1> HIDE DEF again
<1>3. Pending = <<>> /\ Pend(again) = <<>> /\ <<>> \in Seq(Tokens)
  BY <1>2, NothingMarked, PendingFacts DEF Unmarked
<1>4. Pend(again) = Pending \o <<>>
  BY <1>3, ConcatEmptySeq
<1>5. Consumed(q, again) = Consumed(parser, exec) + 0
  BY <1>2, PendingFacts DEF Consumed
<1>6. exec.running
  BY DEF Reading
<1> QED BY <1>1, <1>3, <1>4, <1>5, <1>6, BecomesMaps DEF Settled

\* A callback is told to the decoder's application too, whether it pauses the parser or not.
LEMMA NotifyMaps ==
  ASSUME MapInv, Reading, Unmarked(exec), parser.state # "s_message_done", NEW STATE q, Settled(q),
         q.state # "s_message_done", ~Leaves(q), UNCHANGED <<sent, wire, eof>>,
         NEW what \in Tokens, Notify(q, what)
  PROVE  Decoder!Tells(Unpaused(q), <<what>>, 1) /\ ReadInv'
<1> DEFINE next == [exec EXCEPT !.p = @ + 1, !.reexec = FALSE]
<1>1. PICK o \in Outcomes : AfterCall(q, next, o) /\ calls' = Append(calls, what)
  BY DEF Notify
<1>2. IsExec(next) /\ next.p = exec.p + 1 /\ next.value_mark = 0 /\ next.body_mark = 0
  BY NextExec DEF Unmarked
<1> HIDE DEF next
<1>3. calls \o Pending = calls /\ calls \in Seq(Tokens) /\ <<what>> \in Seq(Tokens)
  BY PendingFacts DEF Unmarked
<1>4. calls' = (calls \o Pending) \o <<what>>
  BY <1>1, <1>3
<1>5. Consumed(q, next) = Consumed(parser, exec) + 1
  BY <1>2 DEF Consumed
<1>6. exec.running
  BY DEF Reading
<1> QED BY <1>1, <1>2, <1>3, <1>4, <1>5, <1>6, TellsMaps DEF Settled

\* Before the end of a message the callback leaves its last byte to s_message_done.
LEMMA NotifyAgainMaps ==
  ASSUME MapInv, Reading, Unmarked(exec), parser.state # "s_message_done", NEW STATE q, Settled(q),
         ~Leaves(q), UNCHANGED <<sent, wire, eof>>, NEW what \in Tokens, NotifyAgain(q, what)
  PROVE  /\ Decoder!Tells(Unpaused(q), <<what>>, IF q.state = "s_message_done" THEN 1 ELSE 0)
         /\ ReadInv'
<1> DEFINE again == [exec EXCEPT !.reexec = TRUE]
           n == IF q.state = "s_message_done" THEN 1 ELSE 0
<1>1. PICK o \in Outcomes : AfterCall(q, again, o) /\ calls' = Append(calls, what)
  BY DEF NotifyAgain
<1>2. IsExec(again) /\ again.p = exec.p /\ again.value_mark = 0 /\ again.body_mark = 0
  BY NextExec DEF Unmarked
<1> HIDE DEF again
<1>3. calls \o Pending = calls /\ calls \in Seq(Tokens) /\ <<what>> \in Seq(Tokens)
  BY PendingFacts DEF Unmarked
<1>4. calls' = (calls \o Pending) \o <<what>>
  BY <1>1, <1>3
<1>5. Consumed(q, again) = Consumed(parser, exec) + n
  BY <1>2, PendingFacts DEF Consumed
<1>6. exec.running /\ exec.p < Len(wire)
  BY AtMaps DEF Reading
<1> HIDE DEF n
<1>7. again.p < Len(wire)
  BY <1>2, <1>6
<1>8. Decoder!Tells(Unpaused(q), <<what>>, n) /\ ReadInv'
  BY <1>1, <1>2, <1>3, <1>4, <1>5, <1>6, <1>7, TellsMaps DEF Settled
<1> QED BY <1>8 DEF n

\* An error stops the decoder, which may keep what was marked to itself.
LEMMA FailMaps ==
  ASSUME MapInv, Reading, parser.state # "s_message_done", NEW STATE q, NEW e, Fail(q, e), IsParser(q),
         q.type = parser.type, e \notin {"OK", "PAUSED"}, q.state # "s_message_done", ~Leaves(q),
         UNCHANGED <<sent, wire, eof>>
  PROVE  Decoder!Stops(e) /\ ReadInv'
BY StopsMaps DEF Reading

\* The rounds leave these to the application.
Others == <<sent, wire, eof>>

\* What a round starts from, for the decoder.
LEMMA RoundFacts ==
  ASSUME MapInv, NEW s, At(s), s # "s_message_done"
  PROVE  /\ Reading /\ parser.state = s /\ IsParser(parser) /\ IsParser(Counted)
         /\ Unpaused(Counted) = Unpaused(parser) /\ Counted.state = s /\ Counted.errno = "OK"
         /\ Counted.type = parser.type /\ Counted.upgrade = parser.upgrade /\ Counted.flags = parser.flags
         /\ Counted.header_state = parser.header_state /\ Counted.line = parser.line
         /\ Counted.content_length = parser.content_length
         /\ ~Leaves(Counted)
         /\ s \notin BodyMarked \cup {"s_header_value"} => Unmarked(exec)
         /\ Decoder!Reads /\ Decoder!Byte = Byte /\ Byte \in Tokens
         /\ Takes(parser, Byte) => Decoder!At(s)
         /\ parser.type \in {"REQUEST", "RESPONSE"}
<1>1. Reading /\ parser.state = s
  BY DEF At
<1>2. IsParser(parser) /\ parser.errno = "OK" /\ parser.type \in {"REQUEST", "RESPONSE"}
  BY <1>1, PendingFacts DEF MapInv, ParserInv, Sound, Placed, Reading, ReadInv
<1>3. s \notin BodyMarked \cup {"s_header_value"} => Unmarked(exec)
  BY <1>1 DEF MapInv, ParserInv, Sound, Placed, Unmarked
<1>4. /\ ~Leaves(parser) /\ Decoder!Reads /\ Decoder!Byte = Byte /\ Byte \in Tokens
      /\ Takes(parser, Byte) => Decoder!At(s)
  BY <1>1, AtMaps
<1>5. ~Leaves(Counted)
  BY <1>2, <1>4, UnpausedCounted DEF Leaves
<1> QED BY <1>1, <1>2, <1>3, <1>4, <1>5, UnpausedCounted

\* In a plain state a parser with another state is settled.
LEMMA SettledGo ==
  ASSUME NEW STATE q, IsParser(q), q.errno = "OK", q.type = parser.type,
         NEW s, s \notin {"s_header_value", "s_start", "s_dead"}
  PROVE  /\ Settled(Go(q, s)) /\ ~Leaves(Go(q, s)) /\ Go(q, s).state = s
         /\ Unpaused(Go(q, s)) = Go(Unpaused(q), s)
<1>1. Go(q, s).type = q.type
  BY DEF Go, IsParser, ParserFields
<1> QED BY <1>1, ParserGo DEF Settled, Leaves

\* On a closed connection, line ends are skipped.
LEMMA DeadMaps == ASSUME MapInv, Dead, UNCHANGED Others PROVE Decoder!Dead /\ ReadInv'
<1>1. At("s_dead") /\ Takes(parser, Byte) /\ Take(Counted)
  BY DEF Dead
<1>2. Settled(Counted) /\ Unmarked(exec) /\ Decoder!At("s_dead")
  BY <1>1, RoundFacts DEF Settled, BodyMarked
<1>3. Decoder!Becomes(Unpaused(parser), <<>>, 1) /\ ReadInv'
  BY <1>1, <1>2, RoundFacts, TakeMaps DEF Others
<1> QED BY <1>2, <1>3 DEF Decoder!Dead

\* A message begins.
LEMMA StartMessageMaps ==
  ASSUME MapInv, StartMessage, UNCHANGED Others PROVE Decoder!StartMessage /\ ReadInv'
<1> DEFINE blank == Byte \in {"CR", "LF"}
           q == [Counted EXCEPT !.flags = {}, !.content_length = MaxU]
           m == [q EXCEPT !.state = "s_header_field_start", !.line = Byte]
           u == [Unpaused(parser) EXCEPT !.flags = {}, !.content_length = MaxU]
           v == [u EXCEPT !.state = "s_header_field_start", !.line = Byte]
<1>1. /\ At("s_start") /\ Takes(parser, Byte)
      /\ IF blank /\ parser.type = "REQUEST" THEN Take(Counted)
         ELSE IF blank THEN Notify(q, "begin") ELSE Notify(m, "begin")
  <2>1. parser.type \in {"REQUEST", "RESPONSE"}
    BY DEF MapInv, ReadInv
  <2> QED BY <2>1 DEF StartMessage
<1>2. /\ Reading /\ parser.state = "s_start" /\ Unmarked(exec) /\ Decoder!At("s_start") /\ Decoder!Byte = Byte
      /\ IsParser(parser) /\ IsParser(Counted)
      /\ Counted.errno = "OK" /\ Counted.type = parser.type /\ Counted.state = "s_start"
      /\ ~Leaves(Counted) /\ Unpaused(Counted) = Unpaused(parser)
  BY <1>1, RoundFacts DEF BodyMarked
<1>3. Unpaused(parser).type = parser.type
  BY <1>2, UnpausedFields
<1>4. IsParser(q) /\ q.errno = "OK" /\ q.type = parser.type /\ q.state = "s_start" /\ q.upgrade = Counted.upgrade
  BY <1>2 DEF IsParser, ParserFields
<1>5. Unpaused(q) = u
  <2> DEFINE q1 == [Counted EXCEPT !.flags = {}]
  <2>1. IsParser(q1) /\ Unpaused(q1) = [Unpaused(parser) EXCEPT !.flags = {}]
    <3>1. IsParser(q1)
      BY <1>2 DEF IsParser, ParserFields
    <3>2. \A f : Unpaused([Counted EXCEPT !.flags = f]) = [Unpaused(Counted) EXCEPT !.flags = f]
      BY <1>2, UnpausedExcept
    <3>3. Unpaused(q1) = [Unpaused(Counted) EXCEPT !.flags = {}]
      BY <3>2
    <3> QED BY <1>2, <3>1, <3>3
  <2> HIDE DEF q1
  <2>2. Unpaused([q1 EXCEPT !.content_length = MaxU]) = [Unpaused(q1) EXCEPT !.content_length = MaxU]
    BY <2>1, UnpausedExcept
  <2> QED BY <2>1, <2>2 DEF q1
<1> HIDE DEF q, u
<1>6. Unpaused(m) = v
  <2> DEFINE q1 == [q EXCEPT !.state = "s_header_field_start"]
  <2>1. IsParser(q1) /\ Unpaused(q1) = [u EXCEPT !.state = "s_header_field_start"]
    <3>1. IsParser(q1)
      BY <1>4 DEF IsParser, ParserFields
    <3> QED BY <1>4, <1>5, <3>1, UnpausedExcept
  <2> HIDE DEF q1
  <2>2. Unpaused([q1 EXCEPT !.line = Byte]) = [Unpaused(q1) EXCEPT !.line = Byte]
    BY <2>1, UnpausedExcept
  <2> QED BY <2>1, <2>2 DEF q1
<1>7. IsParser(m) /\ m.errno = "OK" /\ m.type = parser.type /\ m.state = "s_header_field_start"
  BY <1>4 DEF IsParser, ParserFields
<1>8. CASE blank /\ parser.type = "REQUEST"
  <2>1. Take(Counted)
    BY <1>1, <1>8
  <2>2. Decoder!Becomes(Unpaused(parser), <<>>, 1) /\ ReadInv'
    BY <1>2, <2>1, TakeMaps DEF Others, Settled
  <2> QED BY <1>2, <1>3, <1>8, <2>2 DEF Decoder!StartMessage
<1>9. CASE blank /\ parser.type # "REQUEST"
  <2>1. Notify(q, "begin")
    BY <1>1, <1>9
  <2>2. Settled(q) /\ ~Leaves(q)
    BY <1>2, <1>4 DEF Settled, Leaves
  <2>3. Decoder!Tells(Unpaused(q), <<"begin">>, 1) /\ ReadInv'
    BY <1>2, <1>4, <2>1, <2>2, NotifyMaps, Said DEF Others
  <2>4. Decoder!Tells(u, <<"begin">>, 1)
    BY <1>5, <2>3
  <2> QED BY <1>2, <1>3, <1>9, <2>3, <2>4 DEF Decoder!StartMessage, u
<1>10. CASE ~blank
  <2>1. Notify(m, "begin")
    BY <1>1, <1>10
  <2>2. Settled(m) /\ ~Leaves(m)
    BY <1>7 DEF Settled, Leaves
  <2>3. m.state # "s_message_done"
    BY <1>7
  <2> HIDE DEF m, v
  <2>5. Decoder!Tells(Unpaused(m), <<"begin">>, 1) /\ ReadInv'
    BY <1>2, <2>1, <2>2, <2>3, NotifyMaps, Said DEF Others
  <2>4. Decoder!Tells(v, <<"begin">>, 1)
    BY <1>6, <2>5
  <2> QED BY <1>2, <1>3, <1>10, <2>4, <2>5 DEF Decoder!StartMessage, u, v
<1> QED BY <1>8, <1>9, <1>10

\* A field begins, or the headers end.
LEMMA HeaderFieldStartMaps ==
  ASSUME MapInv, HeaderFieldStart, UNCHANGED Others PROVE Decoder!FieldStart /\ ReadInv'
<1> DEFINE almost == Go(Counted, "s_headers_almost_done")
           m == [Counted EXCEPT !.state = "s_header_value_discard_ws", !.header_state = NameState[Byte]]
           v == [Unpaused(parser) EXCEPT !.state = "s_header_value_discard_ws", !.header_state = NameState[Byte]]
<1>1. /\ At("s_header_field_start") /\ Takes(parser, Byte)
      /\ \/ Byte = "CR" /\ Take(almost)
         \/ Byte = "LF" /\ Reexecute(almost)
         \/ Byte \in HeaderNames /\ Byte \notin {"CR", "LF"} /\ Notify(m, "field")
  BY DEF HeaderFieldStart, Takes, At
<1>2. /\ Reading /\ parser.state = "s_header_field_start" /\ Unmarked(exec) /\ Decoder!Byte = Byte
      /\ Decoder!At("s_header_field_start")
      /\ IsParser(Counted) /\ Counted.errno = "OK" /\ Counted.type = parser.type
      /\ Unpaused(Counted) = Unpaused(parser)
  BY <1>1, RoundFacts DEF BodyMarked
<1>3. /\ Settled(almost) /\ ~Leaves(almost) /\ almost.state = "s_headers_almost_done"
      /\ Unpaused(almost) = Go(Unpaused(parser), "s_headers_almost_done")
  BY <1>2, SettledGo
<1>4. IsParser(m) /\ m.errno = "OK" /\ m.type = parser.type /\ m.state = "s_header_value_discard_ws"
  BY <1>2 DEF IsParser, ParserFields
<1>5. Unpaused(m) = v
  <2> DEFINE q1 == [Counted EXCEPT !.state = "s_header_value_discard_ws"]
  <2>1. IsParser(q1) /\ Unpaused(q1) = [Unpaused(parser) EXCEPT !.state = "s_header_value_discard_ws"]
    <3>1. IsParser(q1)
      BY <1>2 DEF IsParser, ParserFields
    <3> QED BY <1>2, <3>1, UnpausedExcept
  <2> HIDE DEF q1
  <2>2. Unpaused([q1 EXCEPT !.header_state = NameState[Byte]]) = [Unpaused(q1) EXCEPT !.header_state = NameState[Byte]]
    BY <2>1, UnpausedExcept
  <2> QED BY <2>1, <2>2 DEF q1
<1> HIDE DEF almost, m
<1>6. CASE Byte = "CR" /\ Take(almost)
  <2>1. Decoder!Becomes(Unpaused(almost), <<>>, 1) /\ ReadInv'
    BY <1>2, <1>3, <1>6, TakeMaps DEF Others
  <2> QED BY <1>2, <1>3, <1>6, <2>1, SameRules DEF Decoder!FieldStart, HeaderNames
<1>7. CASE Byte = "LF" /\ Reexecute(almost)
  <2>1. Decoder!Becomes(Unpaused(almost), <<>>, 0) /\ ReadInv'
    BY <1>2, <1>3, <1>7, ReexecuteMaps DEF Others
  <2> QED BY <1>2, <1>3, <1>7, <2>1, SameRules DEF Decoder!FieldStart, HeaderNames
<1>8. CASE Byte \in HeaderNames /\ Notify(m, "field")
  <2>1. Settled(m) /\ ~Leaves(m)
    BY <1>4 DEF Settled, Leaves
  <2>2. m.state # "s_message_done"
    BY <1>4
  <2> HIDE DEF v
  <2>3. Decoder!Tells(Unpaused(m), <<"field">>, 1) /\ ReadInv'
    BY <1>2, <1>8, <2>1, <2>2, NotifyMaps, Said DEF Others
  <2>4. Decoder!Tells(v, <<"field">>, 1)
    BY <1>5, <2>3
  <2> QED BY <1>2, <1>8, <2>3, <2>4, SameRules DEF Decoder!FieldStart, v
<1> QED BY <1>1, <1>6, <1>7, <1>8

\* The first byte of a value: it is marked, and is data for the decoder.
LEMMA StartValueMaps ==
  ASSUME MapInv, Reading, Unmarked(exec), parser.state \notin {"s_message_done", "s_start", "s_dead"},
         IsParser(Counted), Counted.errno = "OK", Counted.type = parser.type,
         Unpaused(Counted) = Unpaused(parser),
         UNCHANGED Others, StartValue(Counted)
  PROVE  /\ ReadInv'
         /\ \/ NotANumber(Unpaused(parser), Byte) /\ Decoder!Stops("INVALID_CONTENT_LENGTH")
            \/ /\ ~NotANumber(Unpaused(parser), Byte)
               /\ Decoder!Becomes(FirstByte(Unpaused(parser), Byte), <<Byte>>, 1)
<1>1. NotANumber(Unpaused(parser), Byte) <=> NotANumber(Counted, Byte)
  BY UnpausedSame
<1>2. CASE NotANumber(Counted, Byte)
  <2> DEFINE q == Go(Counted, "s_header_value")
  <2>1. Fail(q, "INVALID_CONTENT_LENGTH")
    BY <1>2 DEF StartValue
  <2>2. IsParser(q) /\ q.state = "s_header_value" /\ q.type = parser.type
    BY ParserGo DEF Go, IsParser, ParserFields
  <2> HIDE DEF q
  <2>3. ~Leaves(q) /\ q.state # "s_message_done"
    BY <2>2 DEF Leaves
  <2>4. Decoder!Stops("INVALID_CONTENT_LENGTH") /\ ReadInv'
    BY <2>1, <2>2, <2>3, FailMaps DEF Others
  <2> QED BY <1>1, <1>2, <2>4
<1>3. CASE ~NotANumber(Counted, Byte)
  <2> DEFINE q == FirstByte(Counted, Byte)
             x == [exec EXCEPT !.p = @ + 1, !.reexec = FALSE, !.value_mark = Mark(@)]
  <2>1. parser' = q /\ exec' = x /\ calls' = calls
    BY <1>3 DEF StartValue
  <2>2. /\ IsParser(q) /\ q.errno = "OK" /\ q.state = "s_header_value"
        /\ Unpaused(q) = FirstByte(Unpaused(parser), Byte)
    BY UnpausedFirstByte
  <2>3. q.type = parser.type
    BY DEF FirstByte, IsParser, ParserFields
  <2>4. x.p = exec.p + 1 /\ x.value_mark = exec.p + 1
    BY PendingFacts DEF IsExec, ExecFields, Mark, Unmarked
  <2> HIDE DEF q, x
  <2>5. /\ exec.p \in Nat /\ exec.p < Len(wire) /\ exec.running /\ Byte \in Tokens
        /\ Consumed(parser, exec) = exec.p
    BY AtMaps
  <2> DEFINE n == exec.p + 1
  <2>n. n \in Nat /\ n # 0 /\ n = exec.p + 1
    BY <2>5
  <2> HIDE DEF n
  <2>6. x.value_mark # 0 /\ Pend(x) = SubSeq(wire, exec.p + 1, exec.p + 1)
    BY <2>4, <2>n DEF Pend, Marked
  <2>7. Pend(x) = <<Byte>> /\ <<Byte>> \in Seq(Tokens)
    <3>1. exec.p + 1 \in 1 .. exec.p + 1 /\ exec.p <= Len(wire)
      BY <2>5
    <3>2. SubSeq(wire, exec.p + 1, exec.p + 1) = <<wire[exec.p + 1]>>
      BY <2>5, <3>1, PendingFacts, Bytewise
    <3>3. Pend(x) = <<Byte>>
      BY <2>6, <3>2, Zenon DEF Byte
    <3>4. <<Byte>> \in Seq(Tokens)
      BY <2>5
    <3> QED BY <3>3, <3>4
  <2>8. Pend(x) = Pending \o <<Byte>>
    <3>1. Pending = <<>>
      BY PendingFacts DEF Unmarked
    <3> QED BY <2>7, <3>1, ConcatEmptySeq
  <2>9. Consumed(q, x) = Consumed(parser, exec) + 1
    BY <2>2, <2>4, <2>5 DEF Consumed
  <2>10. ~Leaves(q) /\ q.state # "s_message_done"
    BY <2>2 DEF Leaves
  <2>11. Decoder!Becomes(Unpaused(q), <<Byte>>, 1) /\ ReadInv'
    BY <2>1, <2>2, <2>3, <2>5, <2>6, <2>7, <2>8, <2>9, <2>10, BecomesMaps DEF Others
  <2> QED BY <1>1, <1>3, <2>2, <2>11
<1> QED BY <1>2, <1>3

\* The first byte of a value, once the blanks before it are read.
LEMMA ValueStartMaps ==
  ASSUME MapInv, Decoder!AtValue, Reading, Unmarked(exec),
         parser.state \notin {"s_message_done", "s_start", "s_dead"},
         IsParser(Counted), Counted.errno = "OK", Counted.type = parser.type,
         Unpaused(Counted) = Unpaused(parser), UNCHANGED Others, StartValue(Counted)
  PROVE  (Decoder!ValueStart \/ Decoder!Error) /\ ReadInv'
<1>1. Decoder!Byte = Byte /\ Decoder!Reads
  BY AtMaps
<1>2. \/ NotANumber(Unpaused(parser), Byte) /\ Decoder!Stops("INVALID_CONTENT_LENGTH")
      \/ /\ ~NotANumber(Unpaused(parser), Byte)
         /\ Decoder!Becomes(FirstByte(Unpaused(parser), Byte), <<Byte>>, 1)
  BY StartValueMaps
<1>3. ReadInv'
  BY StartValueMaps
<1> QED BY <1>1, <1>2, <1>3, SameValue DEF Decoder!ValueStart, Decoder!Error

\* A value begins on a continuation line.
LEMMA HeaderValueStartMaps ==
  ASSUME MapInv, HeaderValueStart, UNCHANGED Others
  PROVE  (Decoder!ValueStart \/ Decoder!Error) /\ ReadInv'
<1>1. At("s_header_value_start") /\ Takes(parser, Byte) /\ StartValue(Counted)
  BY DEF HeaderValueStart, At, Takes
<1>2. /\ Reading /\ parser.state = "s_header_value_start" /\ Unmarked(exec)
      /\ IsParser(Counted) /\ Counted.errno = "OK" /\ Counted.type = parser.type
      /\ Unpaused(Counted) = Unpaused(parser) /\ Decoder!At("s_header_value_start")
  BY <1>1, RoundFacts DEF BodyMarked
<1>3. Decoder!AtValue
  BY <1>2 DEF Decoder!AtValue
<1> QED BY <1>1, <1>2, <1>3, ValueStartMaps

\* Blanks before a value, or its first byte.
LEMMA DiscardWsMaps ==
  ASSUME MapInv, DiscardWs, UNCHANGED Others
  PROVE  (Decoder!Blank \/ Decoder!ValueStart \/ Decoder!Error) /\ ReadInv'
<1> DEFINE blank == " "
           s1 == "s_header_value_discard_ws_almost_done"
           s2 == "s_header_value_discard_lws"
           r1 == Go(Counted, s1)
           r2 == Go(Counted, s2)
<1>1. /\ At("s_header_value_discard_ws") /\ Takes(parser, Byte)
  BY DEF DiscardWs, At, Takes
<1>2. \/ Byte = blank /\ Take(Counted)
      \/ Byte = "CR" /\ Take(r1)
      \/ Byte = "LF" /\ Take(r2)
      \/ Byte \notin {blank, "CR", "LF"} /\ StartValue(Counted)
  BY Zenon DEF DiscardWs
<1>3. /\ Reading /\ parser.state = "s_header_value_discard_ws" /\ Unmarked(exec)
      /\ IsParser(Counted) /\ Counted.errno = "OK" /\ Counted.type = parser.type
      /\ Counted.state = "s_header_value_discard_ws" /\ ~Leaves(Counted)
      /\ Unpaused(Counted) = Unpaused(parser) /\ Decoder!At("s_header_value_discard_ws")
      /\ Decoder!Byte = Byte
  BY <1>1, RoundFacts DEF BodyMarked
<1>4. CASE Byte = blank /\ Take(Counted)
  <2>1. Settled(Counted)
    BY <1>3 DEF Settled
  <2> HIDE DEF blank
  <2>2. Decoder!Becomes(Unpaused(parser), <<>>, 1) /\ ReadInv'
    BY <1>3, <1>4, <2>1, TakeMaps DEF Others
  <2> QED BY <1>3, <1>4, <2>2, Zenon DEF Decoder!Blank, blank
<1>5. CASE Byte = "CR" /\ Take(r1)
  <2>1. Settled(r1) /\ ~Leaves(r1) /\ r1.state = s1 /\ Unpaused(r1) = Go(Unpaused(parser), s1)
    BY <1>3, SettledGo
  <2> HIDE DEF blank, r1
  <2>2. Decoder!Becomes(Unpaused(r1), <<>>, 1) /\ ReadInv'
    BY <1>3, <1>5, <2>1, TakeMaps DEF Others
  <2> QED BY <1>3, <1>5, <2>1, <2>2, SameRules, Zenon DEF Decoder!Blank
<1>6. CASE Byte = "LF" /\ Take(r2)
  <2>1. Settled(r2) /\ ~Leaves(r2) /\ r2.state = s2 /\ Unpaused(r2) = Go(Unpaused(parser), s2)
    BY <1>3, SettledGo
  <2> HIDE DEF blank, r2
  <2>2. Decoder!Becomes(Unpaused(r2), <<>>, 1) /\ ReadInv'
    BY <1>3, <1>6, <2>1, TakeMaps DEF Others
  <2> QED BY <1>3, <1>6, <2>1, <2>2, SameRules, Zenon DEF Decoder!Blank
<1>7. CASE Byte \notin {blank, "CR", "LF"} /\ StartValue(Counted)
  <2>1. Decoder!AtValue
    BY <1>3, <1>7, Zenon DEF Decoder!AtValue
  <2> HIDE DEF blank
  <2> QED BY <1>3, <1>7, <2>1, ValueStartMaps
<1> HIDE DEF blank
<1> QED BY <1>2, <1>4, <1>5, <1>6, <1>7

\* A round without a callback is like one whose callback did not fail.
LEMMA BecomesTells ==
  ASSUME NEW STATE q, IsParser(q), q.errno = "OK", NEW data, NEW n, Decoder!Becomes(Unpaused(q), data, n)
  PROVE  Decoder!Tells(Unpaused(q), data, n)
<1>1. Unpaused(q) = [Unpaused(q) EXCEPT !.errno = "OK"]
  <2>1. q = [q EXCEPT !.errno = "OK"]
    BY DEF IsParser, ParserFields
  <2>2. Unpaused([q EXCEPT !.errno = "OK"]) = [Unpaused(q) EXCEPT !.errno = IF "OK" = "PAUSED" THEN "OK" ELSE "OK"]
    BY UnpausedExcept
  <2> QED BY <2>1, <2>2
<1>2. Decoder!Becomes([Unpaused(q) EXCEPT !.errno = "OK"], data, n)
  BY <1>1
<1> QED BY <1>2 DEF Decoder!Tells

\* The end of the line of a field.
LEMMA HeaderAlmostDoneMaps ==
  ASSUME MapInv, HeaderAlmostDone, UNCHANGED Others PROVE Decoder!Blank /\ ReadInv'
<1> DEFINE r == Go(Counted, "s_header_value_lws")
<1>1. At("s_header_almost_done") /\ Takes(parser, Byte) /\ Take(r)
  BY DEF HeaderAlmostDone, At, Takes
<1>2. /\ Reading /\ parser.state = "s_header_almost_done" /\ Unmarked(exec)
      /\ IsParser(Counted) /\ Counted.errno = "OK" /\ Counted.type = parser.type
      /\ Unpaused(Counted) = Unpaused(parser) /\ Decoder!At("s_header_almost_done")
  BY <1>1, RoundFacts DEF BodyMarked
<1>3. /\ Settled(r) /\ ~Leaves(r) /\ r.state = "s_header_value_lws"
      /\ Unpaused(r) = Go(Unpaused(parser), "s_header_value_lws")
  BY <1>2, SettledGo
<1> HIDE DEF r
<1>4. Decoder!Becomes(Unpaused(r), <<>>, 1) /\ ReadInv'
  BY <1>1, <1>2, <1>3, TakeMaps DEF Others
<1> QED BY <1>2, <1>3, <1>4, SameRules, Zenon DEF Decoder!Blank

\* The end of a line with an empty value.
LEMMA DiscardWsAlmostDoneMaps ==
  ASSUME MapInv, DiscardWsAlmostDone, UNCHANGED Others PROVE Decoder!Blank /\ ReadInv'
<1> DEFINE s == "s_header_value_discard_ws_almost_done"
           r == Go(Counted, "s_header_value_discard_lws")
<1>1. At(s) /\ Takes(parser, Byte) /\ Take(r)
  BY DEF DiscardWsAlmostDone, At, Takes
<1>2. /\ Reading /\ parser.state = s /\ Unmarked(exec)
      /\ IsParser(Counted) /\ Counted.errno = "OK" /\ Counted.type = parser.type
      /\ Unpaused(Counted) = Unpaused(parser) /\ Decoder!At(s)
  BY <1>1, RoundFacts DEF BodyMarked
<1>3. /\ Settled(r) /\ ~Leaves(r) /\ r.state = "s_header_value_discard_lws"
      /\ Unpaused(r) = Go(Unpaused(parser), "s_header_value_discard_lws")
  BY <1>2, SettledGo
<1> HIDE DEF r
<1>4. Decoder!Becomes(Unpaused(r), <<>>, 1) /\ ReadInv'
  BY <1>1, <1>2, <1>3, TakeMaps DEF Others
<1> QED BY <1>2, <1>3, <1>4, SameRules, Zenon DEF Decoder!Blank

\* What a line without a blank makes of the header before it.
LEMMA FieldEnded ==
  ASSUME IsParser(parser), IsParser(Counted), Counted.errno = "OK", Counted.type = parser.type,
         Unpaused(Counted) = Unpaused(parser)
  PROVE  LET r == Go(WithFlag(Counted), "s_header_field_start")
         IN /\ Settled(r) /\ ~Leaves(r) /\ r.state = "s_header_field_start"
            /\ Unpaused(r) = Go(WithFlag(Unpaused(parser)), "s_header_field_start")
<1> DEFINE w == WithFlag(Counted)
<1>1. IsParser(w) /\ w.errno = "OK" /\ Unpaused(w) = WithFlag(Unpaused(parser))
  BY UnpausedWithFlag
<1>2. w.type = parser.type
  BY DEF WithFlag, IsParser, ParserFields
<1> HIDE DEF w
<1>3. /\ Settled(Go(w, "s_header_field_start")) /\ ~Leaves(Go(w, "s_header_field_start"))
      /\ Go(w, "s_header_field_start").state = "s_header_field_start"
      /\ Unpaused(Go(w, "s_header_field_start")) = Go(Unpaused(w), "s_header_field_start")
  BY <1>1, <1>2, SettledGo
<1> QED BY <1>1, <1>3 DEF w

\* The byte after a line: a continuation, or the end of the field.
LEMMA HeaderValueLwsMaps ==
  ASSUME MapInv, HeaderValueLws, UNCHANGED Others
  PROVE  (Decoder!Blank \/ Decoder!FieldEnd) /\ ReadInv'
<1> DEFINE blank == " "
           r1 == Go(Counted, "s_header_value_start")
           r2 == Go(WithFlag(Counted), "s_header_field_start")
<1>1. At("s_header_value_lws") /\ Takes(parser, Byte)
  BY DEF HeaderValueLws, At, Takes
<1>2. \/ Byte = blank /\ Reexecute(r1)
      \/ Byte # blank /\ Reexecute(r2)
  BY Zenon DEF HeaderValueLws
<1>3. /\ Reading /\ parser.state = "s_header_value_lws" /\ Unmarked(exec)
      /\ IsParser(parser) /\ IsParser(Counted) /\ Counted.errno = "OK" /\ Counted.type = parser.type
      /\ Unpaused(Counted) = Unpaused(parser) /\ Decoder!At("s_header_value_lws") /\ Decoder!Byte = Byte
  BY <1>1, RoundFacts DEF BodyMarked
<1>4. CASE Byte = blank /\ Reexecute(r1)
  <2>1. /\ Settled(r1) /\ ~Leaves(r1) /\ r1.state = "s_header_value_start"
        /\ Unpaused(r1) = Go(Unpaused(parser), "s_header_value_start")
    BY <1>3, SettledGo
  <2> HIDE DEF r1, blank
  <2>2. Decoder!Becomes(Unpaused(r1), <<>>, 0) /\ ReadInv'
    BY <1>3, <1>4, <2>1, ReexecuteMaps DEF Others
  <2> QED BY <1>3, <1>4, <2>1, <2>2, SameRules, Zenon DEF Decoder!Blank, blank
<1>5. CASE Byte # blank /\ Reexecute(r2)
  <2>1. /\ Settled(r2) /\ ~Leaves(r2) /\ r2.state = "s_header_field_start"
        /\ Unpaused(r2) = Go(WithFlag(Unpaused(parser)), "s_header_field_start")
    BY <1>3, FieldEnded
  <2> HIDE DEF r2, blank
  <2>2. Decoder!Becomes(Unpaused(r2), <<>>, 0) /\ ReadInv'
    BY <1>3, <1>5, <2>1, ReexecuteMaps DEF Others
  <2>3. Decoder!Tells(Unpaused(r2), <<>>, 0)
    BY <2>1, <2>2, BecomesTells DEF Settled
  <2> QED BY <1>3, <1>5, <2>1, <2>2, <2>3, SameRules, SameValue, Zenon DEF Decoder!FieldEnd, blank
<1> HIDE DEF blank
<1> QED BY <1>2, <1>4, <1>5

\* The byte after a line with an empty value.
LEMMA DiscardLwsMaps ==
  ASSUME MapInv, DiscardLws, UNCHANGED Others
  PROVE  (Decoder!Blank \/ Decoder!FieldEnd) /\ ReadInv'
<1> DEFINE blank == " "
           r1 == Go(Counted, "s_header_value_discard_ws")
           r2 == Go(WithFlag(Counted), "s_header_field_start")
           again == [exec EXCEPT !.reexec = TRUE]
<1>1. At("s_header_value_discard_lws") /\ Takes(parser, Byte)
  BY DEF DiscardLws, At, Takes
<1>2. \/ Byte = blank /\ Take(r1)
      \/ Byte # blank /\ Report(r2, exec.p + 1, exec.p, again)
  BY Zenon DEF DiscardLws
<1>3. /\ Reading /\ parser.state = "s_header_value_discard_lws" /\ Unmarked(exec)
      /\ IsParser(parser) /\ IsParser(Counted) /\ Counted.errno = "OK" /\ Counted.type = parser.type
      /\ Unpaused(Counted) = Unpaused(parser) /\ Decoder!At("s_header_value_discard_lws") /\ Decoder!Byte = Byte
  BY <1>1, RoundFacts DEF BodyMarked
<1>4. CASE Byte = blank /\ Take(r1)
  <2>1. /\ Settled(r1) /\ ~Leaves(r1) /\ r1.state = "s_header_value_discard_ws"
        /\ Unpaused(r1) = Go(Unpaused(parser), "s_header_value_discard_ws")
    BY <1>3, SettledGo
  <2> HIDE DEF r1, blank
  <2>2. Decoder!Becomes(Unpaused(r1), <<>>, 1) /\ ReadInv'
    BY <1>3, <1>4, <2>1, TakeMaps DEF Others
  <2> QED BY <1>3, <1>4, <2>1, <2>2, SameRules, Zenon DEF Decoder!Blank, blank
<1>5. CASE Byte # blank /\ Report(r2, exec.p + 1, exec.p, again)
  <2>1. /\ Settled(r2) /\ ~Leaves(r2) /\ r2.state = "s_header_field_start"
        /\ Unpaused(r2) = Go(WithFlag(Unpaused(parser)), "s_header_field_start")
    BY <1>3, FieldEnded
  <2>2. IsExec(again) /\ again.p = exec.p /\ again.value_mark = 0 /\ again.body_mark = 0
    BY <1>3, NextExec DEF Unmarked
  <2> HIDE DEF r2, blank, again
  <2>3. PICK o \in Outcomes : AfterCall(r2, again, o) /\ calls' = calls \o Marked(exec.p + 1, exec.p)
    BY <1>5, <2>1, ReportCalls DEF Settled
  <2>4. Marked(exec.p + 1, exec.p) = <<>>
    BY PendingFacts, SubSeqEmpty DEF Marked
  <2>5. calls' = (calls \o Pending) \o <<>> /\ <<>> \in Seq(Tokens)
    <3>1. calls \o Pending = calls /\ calls \in Seq(Tokens)
      BY <1>3, PendingFacts DEF Unmarked
    <3> QED BY <2>3, <2>4, <3>1
  <2>6. Consumed(r2, again) = Consumed(parser, exec) + 0
    BY <1>3, <2>1, <2>2, PendingFacts DEF Consumed
  <2>7. Decoder!Tells(Unpaused(r2), <<>>, 0) /\ ReadInv'
    BY <1>3, <2>1, <2>2, <2>3, <2>5, <2>6, TellsMaps DEF Settled, Others, Reading
  <2> QED BY <1>3, <1>5, <2>1, <2>7, SameRules, SameValue, Zenon DEF Decoder!FieldEnd, blank
<1> HIDE DEF blank
<1> QED BY <1>2, <1>4, <1>5

\* A byte the state does not take stops both.
LEMMA RejectMaps == ASSUME MapInv, Reject, UNCHANGED Others PROVE Decoder!Error /\ ReadInv'
<1> DEFINE e == Complaint(parser)
<1>1. /\ Reading /\ ~Takes(parser, Byte) /\ Fail(Counted, e)
  BY DEF Reject
<1>2. IsParser(parser)
  BY PendingFacts
<1>3. parser.state # "s_message_done"
  BY <1>1 DEF Takes
<1>4. /\ Decoder!Reads /\ Decoder!Byte = Byte /\ Consumed(parser, exec) = exec.p /\ exec.p < Len(wire)
      /\ ~Leaves(parser)
  BY <1>1, <1>3, AtMaps
<1>5. /\ IsParser(Counted) /\ Counted.type = parser.type /\ Counted.state = parser.state
      /\ Counted.upgrade = parser.upgrade
  BY <1>2, UnpausedCounted
<1>6. e \notin {"OK", "PAUSED"}
  BY DEF Complaint
<1> HIDE DEF e
<1>7. Decoder!Stops(e) /\ ReadInv'
  BY <1>1, <1>3, <1>4, <1>5, <1>6, FailMaps DEF Leaves, Others
<1>8. ~Decoder!Takes(Unpaused(parser), Decoder!Byte)
  BY <1>1, <1>2, <1>4, SameTakes, UnpausedSame
<1>9. Decoder!Complaint(Unpaused(parser)) = e
  BY <1>2, SameRules, UnpausedSame DEF e
<1> QED BY <1>4, <1>7, <1>8, <1>9 DEF Decoder!Error

\* A header that is too large stops the decoder at some byte of it.
LEMMA HeaderOverflowMaps ==
  ASSUME MapInv, HeaderOverflow, UNCHANGED Others PROVE Decoder!Error /\ ReadInv'
<1>1. Reading /\ Counted.nread > MaxHeader /\ Fail(Counted, "HEADER_OVERFLOW")
  BY DEF HeaderOverflow
<1>2. IsParser(parser) /\ parser.nread \in Nat /\ parser.nread <= MaxHeader
  BY <1>1, PendingFacts DEF MapInv, ParserInv, Sound, Placed, Reading, Framed, Counts
<1>3. PARSING_HEADER(parser.state)
  <2> SUFFICES ASSUME ~PARSING_HEADER(parser.state) PROVE FALSE
    OBVIOUS
  <2>1. Counted = parser
    BY DEF Counted
  <2> QED BY <1>1, <1>2, <2>1, ParserAssumption
<1>4. parser.state # "s_message_done"
  BY <1>3 DEF PARSING_HEADER, BodyStates
<1>5. Decoder!Reads /\ ~Leaves(parser)
  BY <1>1, <1>4, AtMaps
<1>6. /\ IsParser(Counted) /\ Counted.type = parser.type /\ Counted.state = parser.state
      /\ Counted.upgrade = parser.upgrade
  BY <1>2, UnpausedCounted
<1>7. Decoder!Stops("HEADER_OVERFLOW") /\ ReadInv'
  BY <1>1, <1>4, <1>5, <1>6, FailMaps DEF Leaves, Others
<1>8. Decoder!PARSING_HEADER(Unpaused(parser).state)
  BY <1>2, <1>3, SameRules, UnpausedFields
<1> QED BY <1>5, <1>7, <1>8 DEF Decoder!Error

\* What a call that goes on has marked grows by the bytes it reads.
LEMMA Grown ==
  ASSUME MapInv, NEW STATE x, NEW n \in Nat, exec.p + n <= Len(wire), x.p = exec.p + n,
         NEW m \in 1 .. exec.p + 1, (IF x.value_mark # 0 THEN x.value_mark ELSE x.body_mark) = m,
         Pending = SubSeq(wire, m, exec.p)
  PROVE  /\ Pend(x) = Pending \o SubSeq(wire, exec.p + 1, exec.p + n)
         /\ SubSeq(wire, exec.p + 1, exec.p + n) \in Seq(Tokens)
<1>1. exec.p \in Nat /\ exec.p <= Len(wire) /\ wire \in Seq(Tokens)
  BY PendingFacts
<1>2. m # 0
  BY <1>1
<1>3. Pend(x) = SubSeq(wire, m, exec.p + n)
  BY <1>2 DEF Pend, Marked
<1>4. SubSeq(wire, m, exec.p + n) = SubSeq(wire, m, exec.p) \o SubSeq(wire, exec.p + 1, exec.p + n)
  BY <1>1, Bytewise
<1>5. SubSeq(wire, exec.p + 1, exec.p + n) \in Seq(Tokens)
  <2>1. exec.p + n \in Nat /\ exec.p + 1 \in 1 .. (exec.p + n) + 1
    BY <1>1
  <2> QED BY <1>1, <2>1, Bytewise
<1> QED BY <1>3, <1>4, <1>5

\* A call that runs finds the decoder reading.
LEMMA RunningReads ==
  ASSUME MapInv, exec.running
  PROVE  Decoder!Reads /\ ~Leaves(parser) /\ parser.errno = "OK" /\ ~eof
<1>1. parser.errno = "OK" /\ ~eof /\ ~Leaves(parser) /\ IsParser(parser)
  BY PendingFacts DEF MapInv, ParserInv, Sound, Placed, ReadInv, Leaves
<1>2. /\ Unpaused(parser).errno = "OK" /\ Unpaused(parser).upgrade = parser.upgrade
      /\ Unpaused(parser).state = parser.state
  BY <1>1, UnpausedFields
<1> QED BY <1>1, <1>2 DEF Decoder!Reads, Decoder!Left, Leaves

\* A value that is read is marked.
LEMMA ValueMarked ==
  ASSUME MapInv, exec.running, parser.state = "s_header_value"
  PROVE  /\ exec.value_mark \in 1 .. exec.p + 1 /\ exec.value_mark # 0 /\ exec.body_mark = 0
         /\ Pending = SubSeq(wire, exec.value_mark, exec.p)
         /\ Marked(exec.value_mark, exec.p) = Pending
<1>1. /\ exec.value_mark # 0 /\ exec.value_mark \in 0 .. exec.p + 1 /\ exec.p \in Nat /\ exec.body_mark = 0
  BY PendingFacts DEF MapInv, ReadInv, ParserInv, Sound, Placed, BodyMarked
<1>2. exec.value_mark \in 1 .. exec.p + 1
  BY <1>1
<1> QED BY <1>1, <1>2 DEF Pending, Marked

\* A byte of a value changes neither of these.
LEMMA ValueByteType ==
  ASSUME NEW STATE q, IsParser(q), NEW byte
  PROVE  ValueByte(q, byte).type = q.type
<1>2. \A h : [q EXCEPT !.header_state = h].type = q.type
  BY DEF IsParser, ParserFields
<1>3. \A e : [q EXCEPT !.errno = e].type = q.type
  BY DEF IsParser, ParserFields
<1>4. \A n : [q EXCEPT !.content_length = n].type = q.type
  BY DEF IsParser, ParserFields
<1>5. [WithFlag(q) EXCEPT !.header_state = "h_matching_connection_token_start"].type = q.type
  BY DEF IsParser, ParserFields, WithFlag
<1> DEFINE v == ValueByte(q, byte)
           bad == [q EXCEPT !.errno = "INVALID_CONTENT_LENGTH"]
           n == [q EXCEPT !.content_length = Shifted(q.content_length, 10, Digit[byte])]
           w == [WithFlag(q) EXCEPT !.header_state = "h_matching_connection_token_start"]
<1> SUFFICES v.type = q.type
  OBVIOUS
<1>6. CASE q.header_state = "h_content_length"
  <2>1. v = q \/ v = bad \/ v = n
    BY <1>6, Zenon DEF ValueByte
  <2>2. bad.type = q.type /\ n.type = q.type
    BY <1>3, <1>4
  <2> HIDE DEF v, bad, n
  <2> QED BY <2>1, <2>2
<1>7. CASE q.header_state \in {"h_connection_keep_alive", "h_connection_close", "h_connection_upgrade"}
  <2>1. v = q \/ v = w \/ v = [q EXCEPT !.header_state = "h_matching_connection_token"]
    <3>1. v = CASE byte = "," -> w
                [] byte = " " -> q
                [] OTHER -> [q EXCEPT !.header_state = "h_matching_connection_token"]
      BY <1>7, Zenon DEF ValueByte
    <3> HIDE DEF v, w
    <3> QED BY <3>1
  <2> HIDE DEF v, w
  <2> QED BY <1>2, <1>5, <2>1 DEF w
<1>8. CASE q.header_state = "h_matching_connection_token_start"
  BY <1>2, <1>8 DEF ValueByte
<1>9. CASE q.header_state = "h_matching_connection_token"
  BY <1>2, <1>9 DEF ValueByte
<1>10. CASE q.header_state = "h_transfer_encoding_chunked"
  BY <1>2, <1>10 DEF ValueByte
<1>11. CASE q.header_state \notin {"h_content_length", "h_connection_keep_alive", "h_connection_close",
                                   "h_connection_upgrade", "h_matching_connection_token_start",
                                   "h_matching_connection_token", "h_transfer_encoding_chunked"}
  <2>1. v = [q EXCEPT !.header_state = "h_general"]
    BY <1>11 DEF ValueByte
  <2> HIDE DEF v
  <2> QED BY <1>2, <2>1
<1> HIDE DEF v
<1> QED BY <1>6, <1>7, <1>8, <1>9, <1>10, <1>11

\* One byte of a value, which the mark covers.
LEMMA HeaderValueMaps ==
  ASSUME MapInv, HeaderValue, UNCHANGED Others
  PROVE  (Decoder!Value \/ Decoder!Error) /\ ReadInv'
<1> DEFINE q == ValueByte(Counted, Byte)
           x == [exec EXCEPT !.p = @ + 1, !.start = Start]
<1>1. At("s_header_value") /\ Takes(parser, Byte) /\ Byte \notin {"CR", "LF"}
  BY DEF HeaderValue, At, Takes
<1>2. \/ q.errno = "OK" /\ parser' = q /\ exec' = x /\ calls' = calls
      \/ q.errno # "OK" /\ Fail(q, q.errno)
  BY DEF HeaderValue
<1>3. /\ Reading /\ exec.running /\ parser.state = "s_header_value"
      /\ IsParser(Counted) /\ Counted.errno = "OK" /\ Counted.type = parser.type
      /\ Unpaused(Counted) = Unpaused(parser) /\ Decoder!At("s_header_value") /\ Decoder!Byte = Byte
      /\ Decoder!Reads
  BY <1>1, RoundFacts DEF Reading
<1>4. /\ IsParser(q) /\ q.state = "s_header_value" /\ q.errno \in {"OK", "INVALID_CONTENT_LENGTH"}
      /\ q.type = parser.type
  <2>1. Framed(Counted) /\ Counted.state = "s_header_value"
    BY <1>1, <1>3, AtFacts DEF At, MapInv
  <2>2. /\ q = [f \in ParserFields |-> q[f]] /\ q.state = "s_header_value"
        /\ q.errno \in {"OK", "INVALID_CONTENT_LENGTH"}
    BY <1>3, <2>1, ValueByteKeeps
  <2>3. q.type = parser.type
    BY <1>3, ValueByteType
  <2> QED BY <2>2, <2>3 DEF IsParser
<1>5. Unpaused(q) = Decoder!ValueByte(Unpaused(parser), Decoder!Byte)
  BY <1>3, UnpausedValueByte, SameValue
<1> HIDE DEF q
<1>6. Unpaused(q).errno = q.errno
  BY <1>4, UnpausedFields
<1>7. ~Leaves(q) /\ q.state # "s_message_done" /\ parser.state # "s_message_done"
  BY <1>3, <1>4 DEF Leaves
<1>8. CASE q.errno = "OK" /\ parser' = q /\ exec' = x /\ calls' = calls
  <2>1. x.p = exec.p + 1 /\ x.value_mark = exec.value_mark /\ x.body_mark = exec.body_mark
    BY PendingFacts DEF IsExec, ExecFields
  <2> HIDE DEF x
  <2>2. /\ exec.p \in Nat /\ exec.p < Len(wire) /\ Byte \in Tokens /\ Consumed(parser, exec) = exec.p
        /\ wire \in Seq(Tokens) /\ Len(wire) \in Nat
    BY <1>3, <1>7, AtMaps, PendingFacts
  <2>3. /\ Pend(x) = Pending \o SubSeq(wire, exec.p + 1, exec.p + 1)
        /\ SubSeq(wire, exec.p + 1, exec.p + 1) \in Seq(Tokens)
    <3>1. 1 \in Nat /\ exec.p + 1 <= Len(wire)
      BY <2>2
    <3>2. /\ exec.value_mark \in 1 .. exec.p + 1 /\ exec.value_mark # 0
          /\ Pending = SubSeq(wire, exec.value_mark, exec.p)
      BY <1>3, ValueMarked
    <3> QED BY <2>1, <3>1, <3>2, Grown
  <2>4. SubSeq(wire, exec.p + 1, exec.p + 1) = <<Byte>>
    <3>1. exec.p + 1 \in 1 .. exec.p + 1 /\ exec.p <= Len(wire)
      BY <2>2
    <3> QED BY <2>2, <3>1, Bytewise DEF Byte
  <2>5. Consumed(q, x) = Consumed(parser, exec) + 1
    BY <1>7, <2>1, <2>2 DEF Consumed
  <2>6. x.value_mark # 0
    BY <1>3, <2>1, ValueMarked
  <2>7. Pend(x) = Pending \o <<Byte>> /\ <<Byte>> \in Seq(Tokens)
    BY <2>3, <2>4
  <2>8. Decoder!Becomes(Unpaused(q), <<Byte>>, 1) /\ ReadInv'
    BY <1>3, <1>4, <1>7, <1>8, <2>5, <2>6, <2>7, BecomesMaps DEF Others
  <2> QED BY <1>1, <1>3, <1>5, <1>6, <1>8, <2>8 DEF Decoder!Value
<1>9. CASE q.errno # "OK" /\ Fail(q, q.errno)
  <2>1. q.errno = "INVALID_CONTENT_LENGTH"
    BY <1>4, <1>9
  <2>2. Fail(q, "INVALID_CONTENT_LENGTH")
    BY <1>9, <2>1
  <2>3. Decoder!Stops("INVALID_CONTENT_LENGTH") /\ ReadInv'
    BY <1>3, <1>4, <1>7, <2>2, FailMaps DEF Others
  <2> QED BY <1>3, <1>5, <1>6, <1>9, <2>3 DEF Decoder!Error
<1> QED BY <1>2, <1>8, <1>9

\* A round that only counts, or a call of the application, changes nothing for the decoder.
LEMMA Stutters ==
  ASSUME MapInv, NEW STATE q, NEW STATE x, parser' = q, exec' = x, calls' = calls, UNCHANGED Others,
         Unpaused(q) = Unpaused(parser), q.state = parser.state, x.p = exec.p, Pend(x) = Pending
  PROVE  UNCHANGED Decoder!vars
<1>1. Pending' = Pending
  BY PendingNext DEF Others
<1>2. Consumed(parser, exec)' = Consumed(parser, exec)
  BY DEF Consumed
<1>3. Unpaused(parser)' = Unpaused(parser)
  BY DEF Unpaused
<1>4. (calls \o Pending)' = calls \o Pending
  BY <1>1
<1> QED BY <1>2, <1>3, <1>4 DEF Decoder!vars, Others

\* The bytes of the loop are not the decoder's.
LEMMA SizedMaps ==
  ASSUME NEW STATE q, IsParser(q)
  PROVE  /\ IsParser(Sized(q)) /\ Unpaused(Sized(q)) = Unpaused(q) /\ Sized(q).state = q.state
         /\ Sized(q).type = q.type /\ Sized(q).errno = q.errno /\ Sized(q).upgrade = q.upgrade
<1>1. Sized(q) = [q EXCEPT !.nread = q.nread + (exec.p + 1 - Start)]
  BY DEF Sized
<1>2. Unpaused(Sized(q)) = Unpaused(q)
  BY <1>1, UnpausedExcept
<1> QED BY <1>1, <1>2 DEF IsParser, ParserFields

\* The buffer ends in a value: what is marked of it is reported.
LEMMA ValueCutMaps ==
  ASSUME MapInv, ValueCut, UNCHANGED Others
  PROVE  (UNCHANGED Decoder!vars \/ Decoder!Error) /\ ReadInv'
<1> DEFINE q == Sized(parser)
           x == [exec EXCEPT !.start = 0]
<1>1. exec.running /\ exec.start # 0
  BY DEF ValueCut
<1>2. \/ Fail(q, "HEADER_OVERFLOW")
      \/ parser' = q /\ exec' = x /\ calls' = calls
  BY DEF ValueCut
<1>3. parser.state = "s_header_value" /\ IsParser(parser)
  BY <1>1, PendingFacts DEF MapInv, ParserInv, Sound, Placed
<1>4. Decoder!Reads /\ ~Leaves(parser)
  BY <1>1, RunningReads
<1>5. /\ IsParser(q) /\ Unpaused(q) = Unpaused(parser) /\ q.state = parser.state
      /\ q.type = parser.type /\ q.errno = parser.errno /\ q.upgrade = parser.upgrade
  BY <1>3, SizedMaps
<1> HIDE DEF q
<1>6. ~Leaves(q) /\ q.state # "s_message_done" /\ parser.state # "s_message_done"
  BY <1>3, <1>5 DEF Leaves
<1>7. CASE Fail(q, "HEADER_OVERFLOW")
  <2>1. Decoder!Stops("HEADER_OVERFLOW") /\ ReadInv'
    BY <1>1, <1>5, <1>6, <1>7, StopsMaps DEF Others
  <2>2. Decoder!PARSING_HEADER(Unpaused(parser).state)
    BY <1>3, SameRules, UnpausedFields DEF PARSING_HEADER, BodyStates
  <2> QED BY <1>4, <2>1, <2>2 DEF Decoder!Error
<1>8. CASE parser' = q /\ exec' = x /\ calls' = calls
  <2>1. /\ x.p = exec.p /\ x.value_mark = exec.value_mark /\ x.body_mark = exec.body_mark
        /\ x.running = exec.running
    BY PendingFacts DEF IsExec, ExecFields
  <2> HIDE DEF x
  <2>2. Pend(x) = Pending
    BY <2>1 DEF Pend, Pending
  <2>3. UNCHANGED Decoder!vars
    BY <1>5, <1>8, <2>1, <2>2, Stutters
  <2>4. ReadInv'
    BY <1>1, <1>3, <1>5, <1>8, <2>1 DEF ReadInv, MapInv, Others
  <2> QED BY <2>3, <2>4
<1> QED BY <1>2, <1>7, <1>8

\* The value is reported, and then the header turns out to be too large.
LEMMA LateOverflow ==
  ASSUME MapInv, Reading, parser.state = "s_header_value", NEW STATE q, IsParser(q),
         q.state = "s_header_almost_done", q.type = parser.type,
         parser' = [q EXCEPT !.errno = "HEADER_OVERFLOW"], exec' = Returned(exec),
         calls' = calls \o Pending, UNCHANGED Others
  PROVE  Decoder!Stops("HEADER_OVERFLOW") /\ ReadInv'
<1> DEFINE r == [q EXCEPT !.errno = "HEADER_OVERFLOW"]
           y == Returned(exec)
<1>1. /\ IsParser(r) /\ r.errno = "HEADER_OVERFLOW" /\ r.state = "s_header_almost_done"
      /\ r.type = parser.type
  BY DEF IsParser, ParserFields
<1>2. parser' = r /\ exec' = y
  OBVIOUS
<1> HIDE DEF r
<1>3. Unpaused(parser)'.errno = "HEADER_OVERFLOW"
  <2>1. Unpaused(r).errno = "HEADER_OVERFLOW"
    BY <1>1, UnpausedFields
  <2> QED BY <1>2, <2>1 DEF Unpaused
<1>4. y.p = exec.p /\ y.value_mark = 0 /\ y.body_mark = 0 /\ y.running = FALSE
  BY PendingFacts DEF Returned, IsExec, ExecFields
<1> HIDE DEF y
<1>5. Consumed(parser, exec) = exec.p /\ Consumed(parser, exec)' = exec.p
  BY <1>1, <1>2, <1>4 DEF Consumed
<1>6. Pending' = <<>>
  BY <1>2, <1>4, PendingNext, NothingMarked DEF Others
<1>7. calls' \in Seq(Tokens)
  BY PendingFacts
<1>8. (calls \o Pending)' = calls \o Pending
  BY <1>6, <1>7, ConcatEmptySeq
<1>9. exec.p \in Nat
  BY PendingFacts
<1> DEFINE m == exec.p + 1
<1>10. SubSeq(wire, m, exec.p) = <<>> /\ m \in 1 .. exec.p + 1
  BY <1>9, SubSeqEmpty
<1> HIDE DEF m
<1>11. calls \o Pending = (calls \o Pending)' \o SubSeq(wire, m, exec.p)
  BY <1>7, <1>8, <1>10, ConcatEmptySeq
<1>12. Decoder!Stops("HEADER_OVERFLOW")
  BY <1>3, <1>5, <1>10, <1>11 DEF Decoder!Stops, Others
<1>13. ReadInv'
  BY <1>1, <1>2, <1>4, <1>7 DEF ReadInv, MapInv, Others
<1> QED BY <1>12, <1>13

\* The value ends: what this buffer had of it is reported.
LEMMA ValueEndMaps ==
  ASSUME MapInv, ValueEnd, UNCHANGED Others
  PROVE  (Decoder!ValueEnd \/ Decoder!Error) /\ ReadInv'
<1> DEFINE done == Go(Counted, "s_header_almost_done")
           full == Sized(done)
           big == Sized(Counted).nread > MaxHeader
           x == [exec EXCEPT !.value_mark = 0, !.start = 0]
           next == [x EXCEPT !.p = @ + 1]
           again == [x EXCEPT !.reexec = TRUE]
           v == Go(Unpaused(parser), "s_header_almost_done")
<1>1. At("s_header_value") /\ Takes(parser, Byte) /\ Byte \in {"CR", "LF"}
  BY DEF ValueEnd, At, Takes
<1>2. /\ Reading /\ exec.running /\ parser.state = "s_header_value" /\ IsParser(parser)
      /\ IsParser(Counted) /\ Counted.errno = "OK" /\ Counted.type = parser.type
      /\ Unpaused(Counted) = Unpaused(parser) /\ Decoder!At("s_header_value") /\ Decoder!Byte = Byte
      /\ Decoder!Reads
  BY <1>1, RoundFacts DEF Reading
<1>3. Settled(done) /\ ~Leaves(done) /\ done.state = "s_header_almost_done" /\ Unpaused(done) = v
  BY <1>2, SettledGo
<1>4. /\ next.p = exec.p + 1 /\ next.value_mark = 0 /\ next.body_mark = 0 /\ IsExec(next)
      /\ again.p = exec.p /\ again.value_mark = 0 /\ again.body_mark = 0 /\ IsExec(again)
  <2>1. exec.body_mark = 0 /\ IsExec(exec)
    BY <1>2, ValueMarked, PendingFacts
  <2> QED BY <2>1 DEF IsExec, ExecFields
<1>5. \/ /\ Byte = "CR"
         /\ \E o \in Outcomes :
              /\ calls' = calls \o Marked(exec.value_mark, exec.p)
              /\ IF o = "ok" /\ big
                 THEN parser' = [full EXCEPT !.errno = "HEADER_OVERFLOW"] /\ exec' = Returned(exec)
                 ELSE AfterCall(IF o = "ok" THEN full ELSE done, next, o)
      \/ Byte = "LF" /\ Fail(full, "HEADER_OVERFLOW")
      \/ Byte = "LF" /\ Report(full, exec.value_mark, exec.p, again)
  BY <1>1 DEF ValueEnd
<1> HIDE DEF done, next, again, big
<1>6. /\ Settled(full) /\ ~Leaves(full) /\ full.state = "s_header_almost_done" /\ Unpaused(full) = v
  <2>1. /\ IsParser(full) /\ Unpaused(full) = Unpaused(done) /\ full.state = done.state
        /\ full.type = done.type /\ full.errno = done.errno
    BY <1>3, SizedMaps DEF Settled
  <2> HIDE DEF full
  <2> QED BY <1>3, <2>1 DEF Settled, Leaves
<1> HIDE DEF full, v
<1>7. Marked(exec.value_mark, exec.p) = Pending
  BY <1>2, ValueMarked
<1>8. Decoder!PARSING_HEADER(Unpaused(parser).state)
  BY <1>2, SameRules, UnpausedFields DEF PARSING_HEADER, BodyStates
<1>9. Decoder!Go(Unpaused(parser), "s_header_almost_done") = v
  BY SameRules DEF v
<1>10. /\ (calls \o Pending) \o <<>> = calls \o Pending /\ <<>> \in Seq(Tokens)
       /\ exec.p \in Nat
  BY PendingFacts, ConcatEmptySeq
<1>11. ASSUME NEW q, NEW y, NEW n \in {0, 1}, q = done \/ q = full, y.value_mark = 0, y.body_mark = 0, IsExec(y),
              y.p = exec.p + n, NEW o \in Outcomes, AfterCall(q, y, o), calls' = calls \o Pending
       PROVE  Decoder!Tells(v, <<>>, n) /\ ReadInv'
  <2>1. Settled(q) /\ ~Leaves(q) /\ q.state = "s_header_almost_done" /\ Unpaused(q) = v
    BY <1>3, <1>6, <1>11
  <2>2. Consumed(q, y) = Consumed(parser, exec) + n
    BY <1>2, <1>11, <2>1 DEF Consumed
  <2>3. calls' = (calls \o Pending) \o <<>>
    BY <1>10, <1>11
  <2>4. Decoder!Tells(Unpaused(q), <<>>, n) /\ ReadInv'
    BY <1>2, <1>10, <1>11, <2>1, <2>2, <2>3, TellsMaps DEF Settled, Others
  <2> QED BY <2>1, <2>4
<1>12. ASSUME NEW o \in Outcomes, Byte = "CR", calls' = calls \o Pending, ~(o = "ok" /\ big),
              AfterCall(IF o = "ok" THEN full ELSE done, next, o)
       PROVE  Decoder!ValueEnd /\ ReadInv'
  <2>1. next.p = exec.p + 1 /\ 1 \in {0, 1}
    BY <1>4
  <2>2. CASE o = "ok"
    <3>1. AfterCall(full, next, o)
      BY <1>12, <2>2
    <3>2. Decoder!Tells(v, <<>>, 1) /\ ReadInv'
      BY <1>4, <1>11, <1>12, <2>1, <3>1
    <3> QED BY <1>2, <1>9, <1>12, <3>2 DEF Decoder!ValueEnd
  <2>3. CASE o # "ok"
    <3>1. AfterCall(done, next, o)
      BY <1>12, <2>3
    <3>2. Decoder!Tells(v, <<>>, 1) /\ ReadInv'
      BY <1>4, <1>11, <1>12, <2>1, <3>1
    <3> QED BY <1>2, <1>9, <1>12, <3>2 DEF Decoder!ValueEnd
  <2> QED BY <2>2, <2>3
<1>13. ASSUME parser' = [full EXCEPT !.errno = "HEADER_OVERFLOW"], exec' = Returned(exec),
              calls' = calls \o Pending
       PROVE  Decoder!Error /\ ReadInv'
  <2>1. Decoder!Stops("HEADER_OVERFLOW") /\ ReadInv'
    BY <1>2, <1>6, <1>13, LateOverflow DEF Settled
  <2> QED BY <1>2, <1>8, <2>1 DEF Decoder!Error
<1>14. ASSUME Fail(full, "HEADER_OVERFLOW")
       PROVE  Decoder!Error /\ ReadInv'
  <2>1. Decoder!Stops("HEADER_OVERFLOW") /\ ReadInv'
    BY <1>2, <1>6, <1>14, FailMaps DEF Settled, Others
  <2> QED BY <1>2, <1>8, <2>1 DEF Decoder!Error
<1>15. ASSUME Byte = "LF", Report(full, exec.value_mark, exec.p, again)
       PROVE  Decoder!ValueEnd /\ ReadInv'
  <2>1. PICK o \in Outcomes : AfterCall(full, again, o) /\ calls' = calls \o Marked(exec.value_mark, exec.p)
    BY <1>6, <1>15, ReportCalls DEF Settled
  <2>2. again.p = exec.p + 0 /\ 0 \in {0, 1}
    BY <1>4, <1>10
  <2>3. calls' = calls \o Pending
    BY <1>7, <2>1
  <2>4. Decoder!Tells(v, <<>>, 0) /\ ReadInv'
    BY <1>4, <1>11, <2>1, <2>2, <2>3
  <2> QED BY <1>2, <1>9, <1>15, <2>4 DEF Decoder!ValueEnd
<1>16. ASSUME NEW o \in Outcomes, Byte = "CR", calls' = calls \o Marked(exec.value_mark, exec.p),
              IF o = "ok" /\ big
              THEN parser' = [full EXCEPT !.errno = "HEADER_OVERFLOW"] /\ exec' = Returned(exec)
              ELSE AfterCall(IF o = "ok" THEN full ELSE done, next, o)
       PROVE  (Decoder!ValueEnd \/ Decoder!Error) /\ ReadInv'
  <2>1. calls' = calls \o Pending
    BY <1>7, <1>16
  <2>2. CASE o = "ok" /\ big
    BY <1>13, <1>16, <2>1, <2>2
  <2>3. CASE ~(o = "ok" /\ big)
    BY <1>12, <1>16, <2>1, <2>3
  <2> QED BY <2>2, <2>3
<1> QED BY <1>5, <1>14, <1>15, <1>16

\* The trailers of a chunked message end.
LEMMA TrailersEndMaps ==
  ASSUME MapInv, TrailersEnd, UNCHANGED Others PROVE Decoder!TrailersEnd /\ ReadInv'
<1> DEFINE r == Go(Counted, "s_message_done")
           said == "chunk end"
<1>1. /\ At("s_headers_almost_done") /\ Takes(parser, Byte) /\ "TRAILING" \in parser.flags
      /\ NotifyAgain(r, said)
  BY DEF TrailersEnd, At, Takes
<1> HIDE DEF said
<1>2. /\ Reading /\ parser.state = "s_headers_almost_done" /\ Unmarked(exec) /\ IsParser(parser)
      /\ IsParser(Counted) /\ Counted.errno = "OK" /\ Counted.type = parser.type
      /\ Unpaused(Counted) = Unpaused(parser) /\ Decoder!At("s_headers_almost_done")
  BY <1>1, RoundFacts DEF BodyMarked
<1>3. /\ Settled(r) /\ ~Leaves(r) /\ r.state = "s_message_done"
      /\ Unpaused(r) = Go(Unpaused(parser), "s_message_done")
  BY <1>2, SettledGo
<1>4. said \in Tokens
  BY Said DEF said
<1> HIDE DEF r
<1>5. /\ Decoder!Tells(Unpaused(r), <<said>>, IF r.state = "s_message_done" THEN 1 ELSE 0)
      /\ ReadInv'
  BY <1>1, <1>2, <1>3, <1>4, NotifyAgainMaps DEF Others
<1>6. Decoder!Tells(Unpaused(r), <<said>>, 1)
  BY <1>3, <1>5
<1>7. Decoder!Has(Unpaused(parser), "TRAILING")
  BY <1>1, <1>2, SameEnd, UnpausedSame DEF Has
<1> QED BY <1>2, <1>3, <1>5, <1>6, <1>7, SameRules, Zenon DEF Decoder!TrailersEnd, said

\* The messages that have begun are counted alike.
LEMMA SameCurrent ==
  ASSUME MapInv, Unmarked(exec)
  PROVE  Decoder!Current = Current
<1>1. calls \o Pending = calls
  BY PendingFacts DEF Unmarked
<1>2. \A S : Decoder!Cardinality(S) = Cardinality(S)
  BY DEF Decoder!Cardinality, Cardinality
<1> QED BY <1>1, <1>2 DEF Decoder!Current, Current

\* The headers are reported, and the application may skip the body.
LEMMA HeadersAlmostDoneMaps ==
  ASSUME MapInv, HeadersAlmostDone, UNCHANGED Others PROVE Decoder!HeadersEnd /\ ReadInv'
<1> DEFINE u == Unpaused(parser)
           up == {"UPGRADE", "CONNECTION_UPGRADE"} \subseteq parser.flags \/ parser.line = "CONNECT 1.1"
           fl == IF Current.skip THEN parser.flags \cup {"SKIPBODY"} ELSE parser.flags
           q1 == [Counted EXCEPT !.state = "s_headers_done"]
           q2 == [q1 EXCEPT !.upgrade = up]
           q3 == [q2 EXCEPT !.flags = fl]
           u1 == [u EXCEPT !.state = "s_headers_done"]
           u2 == [u1 EXCEPT !.upgrade = up]
           u3 == [u2 EXCEPT !.flags = fl]
           q == [Counted EXCEPT !.state = "s_headers_done",
                                !.upgrade = {"UPGRADE", "CONNECTION_UPGRADE"} \subseteq Counted.flags
                                            \/ Counted.line = "CONNECT 1.1"]
           m == IF Current.skip THEN [q EXCEPT !.flags = @ \cup {"SKIPBODY"}] ELSE q
           v == [u EXCEPT !.state = "s_headers_done",
                          !.upgrade = {"UPGRADE", "CONNECTION_UPGRADE"} \subseteq u.flags
                                      \/ u.line = "CONNECT 1.1",
                          !.flags = IF Current.skip THEN @ \cup {"SKIPBODY"} ELSE @]
<1>1. /\ At("s_headers_almost_done") /\ Takes(parser, Byte) /\ "TRAILING" \notin parser.flags
      /\ NotifyAgain(m, "headers")
  BY DEF HeadersAlmostDone, At, Takes
<1>2. /\ Reading /\ parser.state = "s_headers_almost_done" /\ Unmarked(exec) /\ IsParser(parser)
      /\ IsParser(Counted) /\ Counted.errno = "OK" /\ Counted.type = parser.type
      /\ Counted.flags = parser.flags /\ Counted.line = parser.line
      /\ Unpaused(Counted) = u /\ Decoder!At("s_headers_almost_done")
  BY <1>1, RoundFacts DEF BodyMarked
<1>3. u.flags = parser.flags /\ u.line = parser.line /\ IsParser(u)
  BY <1>2, UnpausedFields DEF IsParser, ParserFields
<1>4. m = q3
  <2>1. q = q2
    BY <1>2 DEF IsParser, ParserFields
  <2>2. /\ q2.flags = parser.flags /\ IsParser(q2)
    BY <1>2 DEF IsParser, ParserFields
  <2> HIDE DEF q, q2
  <2>3. CASE Current.skip
    BY <2>1, <2>2, <2>3
  <2>4. CASE ~Current.skip
    <3>1. m = q2
      BY <2>1, <2>4
    <3>2. q3 = q2
      <4>1. fl = q2.flags
        BY <2>2, <2>4
      <4> HIDE DEF fl
      <4> QED BY <2>2, <4>1 DEF IsParser, ParserFields
    <3> QED BY <3>1, <3>2
  <2> QED BY <2>3, <2>4
<1>5. v = u3
  <2> HIDE DEF u
  <2>1. v = [u EXCEPT !.state = "s_headers_done", !.upgrade = up, !.flags = fl]
    BY <1>3
  <2> HIDE DEF up, fl, v
  <2> QED BY <1>3, <2>1 DEF IsParser, ParserFields
<1> HIDE DEF up, fl, u
<1>6. /\ IsParser(q1) /\ IsParser(q2) /\ IsParser(q3) /\ q3.errno = "OK"
      /\ q3.state = "s_headers_done" /\ q3.type = parser.type
  BY <1>2 DEF IsParser, ParserFields
<1>7. Unpaused(q1) = u1
  BY <1>2, UnpausedExcept
<1> HIDE DEF q1, u1
<1>8. Unpaused(q2) = u2
  BY <1>6, <1>7, UnpausedExcept
<1> HIDE DEF q2, u2
<1>9. Unpaused(q3) = u3
  BY <1>6, <1>8, UnpausedExcept
<1> HIDE DEF q3, u3, m, v
<1>10. Settled(m) /\ ~Leaves(m) /\ Unpaused(m) = v /\ m.state = "s_headers_done"
  BY <1>4, <1>5, <1>6, <1>9 DEF Settled, Leaves
<1>11. /\ Decoder!Tells(Unpaused(m), <<"headers">>, IF m.state = "s_message_done" THEN 1 ELSE 0)
       /\ ReadInv'
  BY <1>1, <1>2, <1>10, NotifyAgainMaps, Said DEF Others
<1>12. Decoder!Tells(v, <<"headers">>, 0)
  BY <1>10, <1>11
<1>13. ~Decoder!Has(u, "TRAILING")
  BY <1>1, <1>2, SameEnd, UnpausedSame DEF Has, u
<1>14. Decoder!Current = Current
  BY <1>2, SameCurrent
<1> QED BY <1>2, <1>11, <1>12, <1>13, <1>14, Zenon DEF Decoder!HeadersEnd, u, v

\* The body begins, or there is none.
LEMMA HeadersDoneMaps ==
  ASSUME MapInv, HeadersDone, UNCHANGED Others PROVE Decoder!HeadersDone /\ ReadInv'
<1> DEFINE q == [Counted EXCEPT !.nread = 0]
           new == Go(q, NEW_MESSAGE(q))
           x == Returned([exec EXCEPT !.p = @ + 1])
<1>1. At("s_headers_done") /\ Takes(parser, Byte) /\ Frame(q)
  BY DEF HeadersDone, At, Takes
<1>2. /\ Reading /\ parser.state = "s_headers_done" /\ Unmarked(exec) /\ IsParser(parser)
      /\ IsParser(Counted) /\ Counted.errno = "OK" /\ Counted.type = parser.type
      /\ Unpaused(Counted) = Unpaused(parser) /\ Decoder!At("s_headers_done") /\ exec.running
  BY <1>1, RoundFacts DEF BodyMarked, Reading
<1>3. IsParser(q) /\ q.errno = "OK" /\ q.type = parser.type
  BY <1>2 DEF IsParser, ParserFields
<1>4. Unpaused(q) = Unpaused(parser)
  BY <1>2, UnpausedExcept
<1>5. \/ /\ Upgraded(q)
         /\ \E o \in Outcomes : AfterCall(new, x, o) /\ calls' = Append(calls, "complete")
      \/ ~Upgraded(q) /\ NoBody(q) /\ Notify(new, "complete")
      \/ ~Upgraded(q) /\ ~NoBody(q) /\ Has(q, "CHUNKED") /\ Take(Go(q, "s_chunk_size_start"))
      \/ /\ ~Upgraded(q) /\ ~NoBody(q) /\ ~Has(q, "CHUNKED") /\ HasLength(q)
         /\ Take(Go(q, "s_body_identity"))
      \/ /\ ~Upgraded(q) /\ ~NoBody(q) /\ ~Has(q, "CHUNKED") /\ ~HasLength(q)
         /\ Take(Go(q, "s_body_identity_eof"))
  BY <1>1 DEF Frame
<1>6. /\ Decoder!Upgraded(Unpaused(parser)) <=> Upgraded(q)
      /\ Decoder!NoBody(Unpaused(parser)) <=> NoBody(q)
      /\ Decoder!Has(Unpaused(parser), "CHUNKED") <=> Has(q, "CHUNKED")
      /\ Decoder!HasLength(Unpaused(parser)) <=> HasLength(q)
      /\ Decoder!NEW_MESSAGE(Unpaused(parser)) = NEW_MESSAGE(q)
  <2> DEFINE u == Unpaused(q)
  <2>1. /\ Upgraded(u) <=> Upgraded(q)
        /\ NoBody(u) <=> NoBody(q)
        /\ Has(u, "CHUNKED") <=> Has(q, "CHUNKED")
        /\ HasLength(u) <=> HasLength(q)
        /\ NEW_MESSAGE(u) = NEW_MESSAGE(q)
    BY <1>3, UnpausedSame
  <2>2. u = Unpaused(parser)
    BY <1>4
  <2> HIDE DEF u, q
  <2> QED BY <2>1, <2>2, SameEnd
<1>7. NEW_MESSAGE(q) \in {"s_start", "s_dead"}
  BY DEF NEW_MESSAGE
<1>8. ~Upgraded(q) /\ NoBody(q) => ~q.upgrade
  <2> HIDE DEF q
  <2>1. ~Has(q, "SKIPBODY") /\ NoBody(q) => ~Has(q, "CHUNKED") /\ ~HasLength(q)
    <3>1. ~Has(q, "SKIPBODY") /\ NoBody(q) =>
            ~Has(q, "CHUNKED") /\ (q.content_length = 0 \/ q.content_length = MaxU)
      BY Zenon DEF NoBody
    <3> QED BY <3>1 DEF HasLength
  <2> QED BY <2>1, Zenon DEF Upgraded
<1>9. /\ IsParser(new) /\ Unpaused(new) = Go(Unpaused(parser), NEW_MESSAGE(q))
      /\ new.state \in {"s_start", "s_dead"} /\ new.errno = "OK" /\ new.upgrade = q.upgrade
      /\ new.type = parser.type
  <2>1. /\ IsParser(new) /\ Unpaused(new) = Go(Unpaused(q), NEW_MESSAGE(q)) /\ new.state = NEW_MESSAGE(q)
        /\ new.errno = q.errno
    BY <1>3, ParserGo
  <2>2. new.upgrade = q.upgrade /\ new.type = q.type
    BY <1>3 DEF Go, IsParser, ParserFields
  <2> QED BY <1>3, <1>4, <1>7, <2>1, <2>2
<1> HIDE DEF q, new
<1>10. CASE Upgraded(q) /\ \E o \in Outcomes : AfterCall(new, x, o) /\ calls' = Append(calls, "complete")
  <2>1. PICK o \in Outcomes : AfterCall(new, x, o) /\ calls' = Append(calls, "complete")
    BY <1>10
  <2>2. /\ IsExec(x) /\ x.p = exec.p + 1 /\ x.value_mark = 0 /\ x.body_mark = 0 /\ ~x.running
    BY PendingFacts DEF Returned, IsExec, ExecFields
  <2> HIDE DEF x
  <2>3. calls' = (calls \o Pending) \o <<"complete">> /\ <<"complete">> \in Seq(Tokens)
    <3>1. calls \o Pending = calls /\ calls \in Seq(Tokens)
      BY <1>2, PendingFacts DEF Unmarked
    <3>2. "complete" \in Tokens
      BY Said
    <3> QED BY <2>1, <3>1, <3>2
  <2>4. Consumed(new, x) = Consumed(parser, exec) + 1
    BY <1>2, <1>9, <2>2 DEF Consumed
  <2>5. new.state # "s_header_value" /\ new.state # "s_message_done"
    BY <1>9
  <2>6. Decoder!Tells(Unpaused(new), <<"complete">>, 1) /\ ReadInv'
    BY <1>2, <1>9, <2>1, <2>2, <2>3, <2>4, <2>5, TellsMaps DEF Others
  <2> QED BY <1>2, <1>6, <1>9, <1>10, <2>6, SameRules DEF Decoder!HeadersDone
<1>11. CASE ~Upgraded(q) /\ NoBody(q) /\ Notify(new, "complete")
  <2>1. Settled(new) /\ ~Leaves(new) /\ new.state # "s_message_done"
    BY <1>8, <1>9, <1>11 DEF Settled, Leaves
  <2>2. Decoder!Tells(Unpaused(new), <<"complete">>, 1) /\ ReadInv'
    BY <1>2, <1>11, <2>1, NotifyMaps, Said DEF Others
  <2> QED BY <1>2, <1>6, <1>9, <1>11, <2>2, SameRules DEF Decoder!HeadersDone
<1>12. ASSUME NEW s \in {"s_chunk_size_start", "s_body_identity", "s_body_identity_eof"}, Take(Go(q, s))
       PROVE  Decoder!Becomes(Decoder!Go(Unpaused(parser), s), <<>>, 1) /\ ReadInv'
  <2> DEFINE r == Go(q, s)
  <2>1. Settled(r) /\ ~Leaves(r) /\ r.state = s /\ Unpaused(r) = Go(Unpaused(parser), s)
    BY <1>3, <1>4, <1>12, SettledGo
  <2> HIDE DEF r
  <2>2. Take(r) /\ r.state # "s_message_done" /\ parser.state # "s_message_done"
    BY <1>2, <1>12, <2>1 DEF r
  <2>3. Decoder!Becomes(Unpaused(r), <<>>, 1) /\ ReadInv'
    BY <1>2, <2>1, <2>2, TakeMaps DEF Others
  <2> QED BY <2>1, <2>3, SameRules
<1>13. CASE ~Upgraded(q) /\ ~NoBody(q) /\ Has(q, "CHUNKED") /\ Take(Go(q, "s_chunk_size_start"))
  BY <1>2, <1>6, <1>12, <1>13 DEF Decoder!HeadersDone, Decoder!BodyState
<1>14. CASE ~Upgraded(q) /\ ~NoBody(q) /\ ~Has(q, "CHUNKED") /\ HasLength(q) /\ Take(Go(q, "s_body_identity"))
  BY <1>2, <1>6, <1>12, <1>14 DEF Decoder!HeadersDone, Decoder!BodyState
<1>15. CASE ~Upgraded(q) /\ ~NoBody(q) /\ ~Has(q, "CHUNKED") /\ ~HasLength(q) /\ Take(Go(q, "s_body_identity_eof"))
  BY <1>2, <1>6, <1>12, <1>15 DEF Decoder!HeadersDone, Decoder!BodyState
<1> QED BY <1>5, <1>10, <1>11, <1>13, <1>14, <1>15

\* A round in a state that reads data, for the decoder.
LEMMA BodyFacts ==
  ASSUME MapInv, NEW s \in BodyMarked, At(s), Takes(parser, Byte)
  PROVE  /\ Reading /\ exec.running /\ parser.state = s /\ s # "s_message_done"
         /\ IsParser(parser) /\ parser.errno = "OK" /\ IsExec(exec)
         /\ Decoder!At(s) /\ Decoder!Byte = Byte /\ Consumed(parser, exec) = exec.p
         /\ exec.p \in Nat /\ exec.limit \in Nat /\ exec.limit <= Len(wire) /\ Len(wire) \in Nat
         /\ exec.value_mark = 0 /\ exec.body_mark \in 0 .. exec.p + 1
         /\ Mark(exec.body_mark) \in 1 .. exec.p + 1
         /\ Pending = SubSeq(wire, Mark(exec.body_mark), exec.p)
         /\ Marked(exec.body_mark, exec.p) = Pending
         /\ calls \in Seq(Tokens) /\ Pending \in Seq(Tokens) /\ calls \o Pending \in Seq(Tokens)
<1>1. Reading /\ exec.running /\ parser.state = s /\ s # "s_message_done"
  BY DEF At, Reading, BodyMarked
<1>2. Decoder!At(s) /\ Decoder!Byte = Byte /\ Consumed(parser, exec) = exec.p
  BY <1>1, AtMaps
<1>3. /\ exec.p \in Nat /\ exec.limit \in Nat /\ exec.value_mark = 0
      /\ exec.body_mark \in 0 .. exec.p + 1 /\ Mark(exec.body_mark) \in 1 .. exec.p + 1
      /\ parser.errno = "OK"
  BY <1>1, InBody DEF MapInv
<1>4. exec.limit <= Len(wire) /\ Len(wire) \in Nat
  BY DEF MapInv, LimitInv
<1>5. Pending = Marked(exec.body_mark, exec.p)
  BY <1>3 DEF Pending
<1>6. Pending = SubSeq(wire, Mark(exec.body_mark), exec.p)
  <2>1. CASE exec.body_mark = 0
    BY <1>3, <1>5, <2>1, SubSeqEmpty DEF Marked, Mark
  <2>2. CASE exec.body_mark # 0
    BY <1>5, <2>2 DEF Marked, Mark
  <2> QED BY <2>1, <2>2
<1> QED BY <1>1, <1>2, <1>3, <1>4, <1>5, <1>6, PendingFacts

\* The bytes a round reads of a body are marked, and are data for the decoder.
LEMMA BodyRead ==
  ASSUME MapInv, NEW s \in BodyMarked, At(s), Takes(parser, Byte), NEW STATE x,
         NEW n \in 1 .. exec.limit - exec.p,
         x.p = exec.p + n, x.value_mark = 0, x.body_mark = Mark(exec.body_mark)
  PROVE  /\ n \in Decoder!Ahead /\ Decoder!Coming(n) \in Seq(Tokens)
         /\ Pend(x) = Pending \o Decoder!Coming(n)
         /\ Marked(x.body_mark, x.p) = Pend(x)
         /\ exec.p + n <= Len(wire) /\ n \in Nat
<1>1. /\ Consumed(parser, exec) = exec.p /\ exec.p \in Nat /\ exec.limit \in Nat
      /\ exec.limit <= Len(wire) /\ Len(wire) \in Nat /\ Mark(exec.body_mark) \in 1 .. exec.p + 1
      /\ Pending = SubSeq(wire, Mark(exec.body_mark), exec.p)
  BY BodyFacts
<1>2. /\ n \in Nat /\ exec.p + n <= Len(wire) /\ n \in 1 .. Len(wire) - exec.p
  BY <1>1
<1>3. n \in Decoder!Ahead
  BY <1>1, <1>2 DEF Decoder!Ahead
<1>4. Decoder!Coming(n) = SubSeq(wire, exec.p + 1, exec.p + n)
  BY <1>1 DEF Decoder!Coming
<1> DEFINE m == Mark(exec.body_mark)
<1>5. (IF x.value_mark # 0 THEN x.value_mark ELSE x.body_mark) = m
  OBVIOUS
<1>6. m \in 1 .. exec.p + 1 /\ Pending = SubSeq(wire, m, exec.p)
  BY <1>1
<1> HIDE DEF m
<1>7. /\ Pend(x) = Pending \o SubSeq(wire, exec.p + 1, exec.p + n)
      /\ SubSeq(wire, exec.p + 1, exec.p + n) \in Seq(Tokens)
  BY <1>2, <1>5, <1>6, Grown
<1>8. Marked(x.body_mark, x.p) = Pend(x)
  BY DEF Pend
<1> QED BY <1>2, <1>3, <1>4, <1>7, <1>8

\* What is left of a body when some of it is read.
LEMMA WithoutMaps ==
  ASSUME IsParser(parser), parser.errno = "OK", NEW n
  PROVE  LET q == [parser EXCEPT !.content_length = @ - n]
         IN /\ IsParser(q) /\ q.errno = "OK" /\ q.state = parser.state /\ q.type = parser.type
            /\ q.upgrade = parser.upgrade /\ q.content_length = parser.content_length - n
            /\ Unpaused(q) = Decoder!Without(n)
<1> DEFINE q == [parser EXCEPT !.content_length = parser.content_length - n]
<1>1. /\ IsParser(q) /\ q.errno = "OK" /\ q.state = parser.state /\ q.type = parser.type
      /\ q.upgrade = parser.upgrade /\ q.content_length = parser.content_length - n
  BY DEF IsParser, ParserFields
<1>2. \A k : Unpaused([parser EXCEPT !.content_length = k]) = [Unpaused(parser) EXCEPT !.content_length = k]
  BY UnpausedExcept
<1>3. Unpaused(q) = [Unpaused(parser) EXCEPT !.content_length = parser.content_length - n]
  BY <1>2
<1>4. Unpaused(parser).content_length = parser.content_length
  BY UnpausedFields
<1>5. Decoder!Without(n) = [Unpaused(parser) EXCEPT !.content_length = parser.content_length - n]
  BY <1>4 DEF Decoder!Without
<1> QED BY <1>1, <1>3, <1>5

\* The next bytes of a body of known length; the mark covers them until the last.
LEMMA BodyIdentityMaps ==
  ASSUME MapInv, BodyIdentity, UNCHANGED Others PROVE Decoder!Body /\ ReadInv'
<1> DEFINE n == ToRead
           q == [parser EXCEPT !.content_length = @ - ToRead]
           g == Go(q, "s_message_done")
           x == [exec EXCEPT !.body_mark = Mark(@), !.p = @ + ToRead]
           y == [x EXCEPT !.p = @ - 1, !.reexec = TRUE, !.body_mark = 0]
           data == Decoder!Coming(n)
<1>1. At("s_body_identity") /\ Takes(parser, Byte) /\ "s_body_identity" \in BodyMarked
  BY DEF BodyIdentity, At, Takes, BodyMarked
<1>2. /\ Reading /\ exec.running /\ parser.state = "s_body_identity"
      /\ IsParser(parser) /\ parser.errno = "OK" /\ IsExec(exec)
      /\ Decoder!At("s_body_identity") /\ Consumed(parser, exec) = exec.p
      /\ exec.p \in Nat /\ Len(wire) \in Nat /\ exec.value_mark = 0
      /\ calls \in Seq(Tokens) /\ Pending \in Seq(Tokens)
  BY <1>1, BodyFacts
<1>3. n \in 1 .. parser.content_length /\ n \in 1 .. exec.limit - exec.p
      /\ parser.content_length \in Nat
  BY <1>2, ToReadIn, ParserAssumption DEF MapInv, LengthStates
<1>4. /\ IsParser(q) /\ q.errno = "OK" /\ q.state = "s_body_identity" /\ q.type = parser.type
      /\ q.content_length = parser.content_length - n /\ Unpaused(q) = Decoder!Without(n)
  BY <1>2, WithoutMaps
<1>5. /\ x.p = exec.p + n /\ x.value_mark = 0 /\ x.body_mark = Mark(exec.body_mark) /\ IsExec(x)
  BY <1>2 DEF IsExec, ExecFields
<1>6. \/ q.content_length = 0 /\ Report(g, x.body_mark, x.p, y)
      \/ q.content_length # 0 /\ parser' = q /\ exec' = x /\ calls' = calls
  BY DEF BodyIdentity
<1>7. Unpaused(parser).content_length = parser.content_length
  BY <1>2, UnpausedFields
<1> HIDE DEF n, q, x
<1>8. /\ n \in Decoder!Ahead /\ data \in Seq(Tokens) /\ Pend(x) = Pending \o data
      /\ Marked(x.body_mark, x.p) = Pend(x) /\ exec.p + n <= Len(wire) /\ n \in Nat /\ n >= 1
  BY <1>1, <1>3, <1>5, BodyRead
<1>9. CASE q.content_length = 0 /\ Report(g, x.body_mark, x.p, y)
  <2>1. /\ Settled(g) /\ ~Leaves(g) /\ g.state = "s_message_done"
        /\ Unpaused(g) = Decoder!Go(Decoder!Without(n), "s_message_done")
    BY <1>4, SettledGo, SameRules
  <2>2. /\ y.p = x.p - 1 /\ y.value_mark = 0 /\ y.body_mark = 0 /\ IsExec(y)
    BY <1>5 DEF IsExec, ExecFields
  <2> HIDE DEF g, y
  <2>3. PICK o \in Outcomes : AfterCall(g, y, o) /\ calls' = calls \o Marked(x.body_mark, x.p)
    BY <1>9, <2>1, ReportCalls DEF Settled
  <2> HIDE DEF data
  <2>4. calls' = (calls \o Pending) \o data
    <3>1. calls' = calls \o (Pending \o data)
      BY <1>8, <2>3
    <3>2. calls \o (Pending \o data) = (calls \o Pending) \o data
      <4>1. calls \in Seq(Tokens) /\ Pending \in Seq(Tokens) /\ data \in Seq(Tokens)
        BY <1>2, <1>8
      <4> QED BY <4>1, ConcatAssociative
    <3> QED BY <3>1, <3>2
  <2>5. Consumed(g, y) = Consumed(parser, exec) + n /\ y.p < Len(wire)
    BY <1>2, <1>5, <1>8, <2>1, <2>2 DEF Consumed
  <2>6. Decoder!Tells(Unpaused(g), data, n) /\ ReadInv'
    BY <1>2, <1>8, <2>1, <2>2, <2>3, <2>4, <2>5, TellsMaps DEF Settled, Others
  <2>7. n = Unpaused(parser).content_length
    BY <1>3, <1>4, <1>7, <1>9
  <2>8. Decoder!Tells(Decoder!Go(Decoder!Without(n), "s_message_done"), data, n)
    BY <2>1, <2>6
  <2> QED BY <1>2, <1>8, <2>6, <2>7, <2>8 DEF Decoder!Body, data
<1>10. CASE q.content_length # 0 /\ parser' = q /\ exec' = x /\ calls' = calls
  <2>1. Consumed(q, x) = Consumed(parser, exec) + n
    BY <1>2, <1>4, <1>5 DEF Consumed
  <2>2. ~Leaves(q)
    BY <1>4 DEF Leaves
  <2> HIDE DEF data
  <2>3. Decoder!Becomes(Unpaused(q), data, n) /\ ReadInv'
    BY <1>2, <1>4, <1>8, <1>10, <2>1, <2>2, BecomesMaps DEF Others
  <2>4. n < Unpaused(parser).content_length
    BY <1>3, <1>4, <1>7, <1>10
  <2> QED BY <1>2, <1>4, <1>8, <2>3, <2>4 DEF Decoder!Body, data
<1> QED BY <1>6, <1>9, <1>10

\* The next bytes of a body that ends with the connection.
LEMMA BodyIdentityEofMaps ==
  ASSUME MapInv, BodyIdentityEof, UNCHANGED Others PROVE Decoder!BodyEof /\ ReadInv'
<1> DEFINE n == exec.limit - exec.p
           x == [exec EXCEPT !.body_mark = Mark(@), !.p = exec.limit]
           data == Decoder!Coming(n)
<1>1. At("s_body_identity_eof") /\ Takes(parser, Byte) /\ "s_body_identity_eof" \in BodyMarked
  BY DEF BodyIdentityEof, At, Takes, BodyMarked
<1>2. /\ Reading /\ exec.running /\ parser.state = "s_body_identity_eof"
      /\ IsParser(parser) /\ parser.errno = "OK" /\ IsExec(exec)
      /\ Decoder!At("s_body_identity_eof") /\ Consumed(parser, exec) = exec.p
      /\ exec.p \in Nat /\ exec.limit \in Nat /\ exec.value_mark = 0
  BY <1>1, BodyFacts
<1>3. n \in 1 .. exec.limit - exec.p
  BY <1>2 DEF Reading
<1>4. /\ x.p = exec.limit /\ x.value_mark = 0 /\ x.body_mark = Mark(exec.body_mark)
  BY <1>2 DEF IsExec, ExecFields
<1>5. exec' = x /\ parser' = parser /\ calls' = calls
  BY DEF BodyIdentityEof
<1>6. exec.limit = exec.p + n
  BY <1>2
<1> HIDE DEF n, x
<1>7. n \in Decoder!Ahead /\ data \in Seq(Tokens) /\ Pend(x) = Pending \o data
  BY <1>1, <1>3, <1>4, <1>6, BodyRead
<1>8. Consumed(parser, x) = Consumed(parser, exec) + n
  BY <1>2, <1>4, <1>6 DEF Consumed
<1>9. ~Leaves(parser)
  BY <1>2 DEF Leaves
<1> HIDE DEF data
<1>10. Decoder!Becomes(Unpaused(parser), data, n) /\ ReadInv'
  BY <1>2, <1>5, <1>7, <1>8, <1>9, BecomesMaps DEF Others
<1> QED BY <1>2, <1>7, <1>10 DEF Decoder!BodyEof, data

\* A message is complete; its last byte is read already.
LEMMA MessageDoneMaps ==
  ASSUME MapInv, MessageDone, UNCHANGED Others PROVE Decoder!MessageDone /\ ReadInv'
<1> DEFINE q == Go(parser, NEW_MESSAGE(parser))
           x == [exec EXCEPT !.p = @ + 1, !.reexec = FALSE]
           z == IF parser.upgrade THEN Returned(x) ELSE x
<1>1. Reading /\ parser.state = "s_message_done" /\ exec.running
  BY DEF MessageDone, At, Reading
<1>2. /\ IsParser(parser) /\ parser.errno = "OK" /\ exec.value_mark = 0 /\ exec.body_mark = 0
      /\ IsExec(exec) /\ exec.p \in Nat /\ calls \in Seq(Tokens)
  BY <1>1, PendingFacts DEF MapInv, ParserInv, Sound, Placed, BodyMarked
<1>3. PICK o \in Outcomes : AfterCall(q, z, o) /\ calls' = Append(calls, "complete")
  BY DEF MessageDone
<1>4. NEW_MESSAGE(parser) \in {"s_start", "s_dead"}
  BY DEF NEW_MESSAGE
<1>5. /\ IsParser(q) /\ Unpaused(q) = Go(Unpaused(parser), NEW_MESSAGE(parser))
      /\ q.state \in {"s_start", "s_dead"} /\ q.errno = "OK"
  BY <1>2, <1>4, ParserGo
<1>6. q.upgrade = parser.upgrade /\ q.type = parser.type
  BY <1>2 DEF Go, IsParser, ParserFields
<1>7. /\ IsExec(z) /\ z.p = exec.p + 1 /\ z.value_mark = 0 /\ z.body_mark = 0
      /\ parser.upgrade => ~z.running
  <2>1. IsExec(x) /\ x.p = exec.p + 1 /\ x.value_mark = 0 /\ x.body_mark = 0
    BY <1>2 DEF IsExec, ExecFields
  <2> HIDE DEF x
  <2>2. /\ IsExec(Returned(x)) /\ Returned(x).p = x.p /\ Returned(x).value_mark = 0
        /\ Returned(x).body_mark = 0 /\ ~Returned(x).running
    BY <2>1 DEF Returned, IsExec, ExecFields
  <2> QED BY <2>1, <2>2
<1> HIDE DEF q, z
<1>8. calls' = (calls \o Pending) \o <<"complete">> /\ <<"complete">> \in Seq(Tokens)
  <2>1. calls \o Pending = calls
    BY <1>2, PendingFacts
  <2>2. "complete" \in Tokens
    BY Said
  <2> QED BY <1>2, <1>3, <2>1, <2>2
<1>9. Consumed(q, z) = Consumed(parser, exec) + 0
  BY <1>1, <1>2, <1>5, <1>7 DEF Consumed
<1>10. Leaves(q) => ~z.running
  BY <1>6, <1>7 DEF Leaves
<1>11. q.state # "s_header_value" /\ q.state # "s_message_done"
  BY <1>5
<1>12. Decoder!Tells(Unpaused(q), <<"complete">>, 0) /\ ReadInv'
  BY <1>1, <1>3, <1>5, <1>6, <1>7, <1>8, <1>9, <1>10, <1>11, TellsMaps DEF Others
<1>13. Decoder!NEW_MESSAGE(Unpaused(parser)) = NEW_MESSAGE(parser)
  BY <1>2, UnpausedSame, SameEnd
<1>14. Decoder!Reads /\ Unpaused(parser).state = "s_message_done"
  BY <1>1, <1>2, RunningReads, UnpausedFields
<1>15. Decoder!Go(Unpaused(parser), NEW_MESSAGE(parser)) = Unpaused(q)
  BY <1>5, SameRules
<1> QED BY <1>12, <1>13, <1>14, <1>15 DEF Decoder!MessageDone

\* A round of a chunk state in which nothing is marked.
LEMMA ChunkFacts ==
  ASSUME MapInv, NEW s \in DigitStates \cup {"s_chunk_size_start", "s_chunk_data_done"}, At(s),
         Takes(parser, Byte)
  PROVE  /\ Reading /\ parser.state = s /\ Unmarked(exec) /\ IsParser(parser)
         /\ IsParser(Counted) /\ Counted.errno = "OK" /\ Counted.type = parser.type /\ Counted.state = s
         /\ Unpaused(Counted) = Unpaused(parser) /\ Decoder!At(s) /\ Decoder!Byte = Byte /\ Decoder!Reads
         /\ Counted.content_length = parser.content_length
         /\ Unpaused(parser).content_length = parser.content_length
         /\ s # "s_message_done" /\ s # "s_header_value" /\ s # "s_start" /\ s # "s_dead"
<1>1. s # "s_message_done" /\ s \notin BodyMarked \cup {"s_header_value"}
  BY DEF DigitStates, BodyMarked
<1>2. s # "s_start" /\ s # "s_dead"
  BY DEF DigitStates
<1>3. IsParser(parser)
  BY PendingFacts
<1>4. Unpaused(parser).content_length = parser.content_length
  BY <1>3, UnpausedFields
<1> QED BY <1>1, <1>2, <1>3, <1>4, RoundFacts

\* The first digit of the size of a chunk.
LEMMA ChunkSizeStartMaps ==
  ASSUME MapInv, ChunkSizeStart, UNCHANGED Others PROVE Decoder!ChunkSize /\ ReadInv'
<1> DEFINE d == Digit[Byte]
           q1 == [Counted EXCEPT !.state = "s_chunk_size"]
           q2 == [q1 EXCEPT !.content_length = d]
           q == [Counted EXCEPT !.state = "s_chunk_size", !.content_length = Digit[Byte]]
           u1 == [Unpaused(parser) EXCEPT !.state = "s_chunk_size"]
           u2 == [u1 EXCEPT !.content_length = d]
           v == [Unpaused(parser) EXCEPT !.state = "s_chunk_size", !.content_length = Digit[Byte]]
<1>1. At("s_chunk_size_start") /\ Takes(parser, Byte) /\ Take(q)
  BY DEF ChunkSizeStart
<1>2. /\ Reading /\ parser.state = "s_chunk_size_start" /\ Unmarked(exec)
      /\ IsParser(parser) /\ IsParser(Counted) /\ Counted.errno = "OK" /\ Counted.type = parser.type
      /\ Unpaused(Counted) = Unpaused(parser) /\ Decoder!At("s_chunk_size_start") /\ Decoder!Byte = Byte
  BY <1>1, ChunkFacts
<1>3. q = q2
  BY <1>2 DEF IsParser, ParserFields
<1>4. v = u2
  BY <1>2, UnpausedFields DEF ParserFields
<1> HIDE DEF d, q, v
<1>5. /\ IsParser(q1) /\ IsParser(q2) /\ q2.errno = "OK" /\ q2.type = parser.type /\ q2.state = "s_chunk_size"
  BY <1>2 DEF IsParser, ParserFields
<1>6. Unpaused(q1) = u1
  BY <1>2, UnpausedExcept
<1> HIDE DEF q1, u1
<1>7. Unpaused(q2) = u2
  BY <1>5, <1>6, UnpausedExcept
<1> HIDE DEF q2, u2
<1>8. Settled(q) /\ ~Leaves(q) /\ q.state # "s_message_done"
  BY <1>3, <1>5 DEF Settled, Leaves
<1>9. Decoder!Becomes(Unpaused(q), <<>>, 1) /\ ReadInv'
  BY <1>1, <1>2, <1>8, TakeMaps DEF Others
<1>10. Decoder!Becomes(v, <<>>, 1)
  BY <1>3, <1>4, <1>7, <1>9
<1> QED BY <1>2, <1>9, <1>10, SameDigits, Zenon DEF Decoder!ChunkSize, v

\* Its other digits, or what ends them.
LEMMA ChunkSizeMaps ==
  ASSUME MapInv, ChunkSize, UNCHANGED Others
  PROVE  (Decoder!ChunkSize \/ Decoder!Error) /\ ReadInv'
<1> DEFINE blank == " "
           n == Shifted(parser.content_length, 16, Digit[Byte])
           r1 == Go(Counted, "s_chunk_size_almost_done")
           r2 == Go(Counted, "s_chunk_parameters")
           r3 == [Counted EXCEPT !.content_length = n]
           v == [Unpaused(parser) EXCEPT !.content_length = n]
           over == overflows(parser.content_length, 16)
<1>1. At("s_chunk_size") /\ Takes(parser, Byte) /\ "s_chunk_size" \in DigitStates
  BY DEF ChunkSize, DigitStates
<1>2. /\ Reading /\ parser.state = "s_chunk_size" /\ Unmarked(exec)
      /\ IsParser(parser) /\ IsParser(Counted) /\ Counted.errno = "OK" /\ Counted.type = parser.type
      /\ Counted.state = "s_chunk_size" /\ Decoder!Reads
      /\ Unpaused(Counted) = Unpaused(parser) /\ Decoder!At("s_chunk_size") /\ Decoder!Byte = Byte
      /\ Counted.content_length = parser.content_length
      /\ Unpaused(parser).content_length = parser.content_length
  BY <1>1, ChunkFacts
<1>3. \/ Byte = "CR" /\ Take(r1)
      \/ Byte # "CR" /\ Byte \in {";", blank} /\ Take(r2)
      \/ Byte \notin {"CR", ";", blank} /\ over /\ Fail(Counted, "INVALID_CONTENT_LENGTH")
      \/ Byte \notin {"CR", ";", blank} /\ ~over /\ Take(r3)
  <2>1. [Counted EXCEPT !.content_length = Shifted(@, 16, Digit[Byte])] = r3
    BY <1>2
  <2> HIDE DEF r1, r2, r3, over
  <2> QED BY <2>1, Zenon DEF ChunkSize, r1, r2, over
<1> HIDE DEF blank, n, over
<1>4. /\ Decoder!overflows(Unpaused(parser).content_length, 16) <=> over
      /\ Decoder!Shifted(Unpaused(parser).content_length, 16, Decoder!Digit[Decoder!Byte]) = n
  BY <1>2, SameValue, SameDigits DEF n, over
<1>5. CASE Byte = "CR" /\ Take(r1)
  <2>1. /\ Settled(r1) /\ ~Leaves(r1) /\ r1.state = "s_chunk_size_almost_done"
        /\ Unpaused(r1) = Go(Unpaused(parser), "s_chunk_size_almost_done")
    BY <1>2, SettledGo
  <2> HIDE DEF r1
  <2>2. Decoder!Becomes(Unpaused(r1), <<>>, 1) /\ ReadInv'
    BY <1>2, <1>5, <2>1, TakeMaps DEF Others
  <2> QED BY <1>2, <1>5, <2>1, <2>2, SameRules, Zenon DEF Decoder!ChunkSize
<1>6. CASE Byte # "CR" /\ Byte \in {";", blank} /\ Take(r2)
  <2>1. /\ Settled(r2) /\ ~Leaves(r2) /\ r2.state = "s_chunk_parameters"
        /\ Unpaused(r2) = Go(Unpaused(parser), "s_chunk_parameters")
    BY <1>2, SettledGo
  <2> HIDE DEF r2
  <2>2. Decoder!Becomes(Unpaused(r2), <<>>, 1) /\ ReadInv'
    BY <1>2, <1>6, <2>1, TakeMaps DEF Others
  <2> QED BY <1>2, <1>6, <2>1, <2>2, SameRules, Zenon DEF Decoder!ChunkSize, blank
<1>7. CASE Byte \notin {"CR", ";", blank} /\ over /\ Fail(Counted, "INVALID_CONTENT_LENGTH")
  <2>1. ~Leaves(Counted)
    BY <1>2 DEF Leaves
  <2>2. Decoder!Stops("INVALID_CONTENT_LENGTH") /\ ReadInv'
    BY <1>2, <1>7, <2>1, FailMaps DEF Others
  <2> QED BY <1>2, <1>4, <1>7, <2>2 DEF Decoder!Error
<1>8. CASE Byte \notin {"CR", ";", blank} /\ ~over /\ Take(r3)
  <2>1. /\ IsParser(r3) /\ r3.errno = "OK" /\ r3.type = parser.type /\ r3.state = "s_chunk_size"
    BY <1>2 DEF IsParser, ParserFields
  <2>2. Unpaused(r3) = v
    BY <1>2, UnpausedExcept
  <2> HIDE DEF r3
  <2>3. Settled(r3) /\ ~Leaves(r3) /\ r3.state # "s_message_done"
    BY <2>1 DEF Settled, Leaves
  <2>4. Decoder!Becomes(Unpaused(r3), <<>>, 1) /\ ReadInv'
    BY <1>2, <1>8, <2>3, TakeMaps DEF Others
  <2>5. v = [Unpaused(parser) EXCEPT !.content_length = Decoder!Shifted(@, 16, Decoder!Digit[Decoder!Byte])]
    BY <1>4
  <2> HIDE DEF v
  <2>6. Decoder!Becomes(v, <<>>, 1)
    BY <2>2, <2>4
  <2> QED BY <1>2, <1>4, <1>8, <2>4, <2>5, <2>6, Zenon DEF Decoder!ChunkSize, blank
<1> QED BY <1>3, <1>5, <1>6, <1>7, <1>8

\* The parameters of a chunk.
LEMMA ChunkParametersMaps ==
  ASSUME MapInv, ChunkParameters, UNCHANGED Others PROVE Decoder!ChunkSize /\ ReadInv'
<1> DEFINE r1 == Go(Counted, "s_chunk_size_almost_done")
<1>1. At("s_chunk_parameters") /\ Takes(parser, Byte) /\ "s_chunk_parameters" \in DigitStates
  BY DEF ChunkParameters, DigitStates, At, Takes
<1>2. /\ Reading /\ parser.state = "s_chunk_parameters" /\ Unmarked(exec)
      /\ IsParser(parser) /\ IsParser(Counted) /\ Counted.errno = "OK" /\ Counted.type = parser.type
      /\ Counted.state = "s_chunk_parameters"
      /\ Unpaused(Counted) = Unpaused(parser) /\ Decoder!At("s_chunk_parameters") /\ Decoder!Byte = Byte
  BY <1>1, ChunkFacts
<1>3. \/ Byte = "CR" /\ Take(r1)
      \/ Byte # "CR" /\ Take(Counted)
  BY DEF ChunkParameters
<1>4. CASE Byte = "CR" /\ Take(r1)
  <2>1. /\ Settled(r1) /\ ~Leaves(r1) /\ r1.state = "s_chunk_size_almost_done"
        /\ Unpaused(r1) = Go(Unpaused(parser), "s_chunk_size_almost_done")
    BY <1>2, SettledGo
  <2> HIDE DEF r1
  <2>2. Decoder!Becomes(Unpaused(r1), <<>>, 1) /\ ReadInv'
    BY <1>2, <1>4, <2>1, TakeMaps DEF Others
  <2> QED BY <1>2, <1>4, <2>1, <2>2, SameRules, Zenon DEF Decoder!ChunkSize
<1>5. CASE Byte # "CR" /\ Take(Counted)
  <2>1. Settled(Counted) /\ ~Leaves(Counted)
    BY <1>2 DEF Settled, Leaves
  <2>2. Decoder!Becomes(Unpaused(parser), <<>>, 1) /\ ReadInv'
    BY <1>2, <1>5, <2>1, TakeMaps DEF Others
  <2> QED BY <1>2, <1>5, <2>2, Zenon DEF Decoder!ChunkSize
<1> QED BY <1>3, <1>4, <1>5

\* The data of a chunk begins, or the trailers do.
LEMMA ChunkSizeAlmostDoneMaps ==
  ASSUME MapInv, ChunkSizeAlmostDone, UNCHANGED Others PROVE Decoder!ChunkStart /\ ReadInv'
<1> DEFINE s == "s_chunk_size_almost_done"
           q == [Counted EXCEPT !.nread = 0]
           fl == parser.flags \cup {"TRAILING"}
           m1 == [q EXCEPT !.flags = fl]
           m2 == [m1 EXCEPT !.state = "s_header_field_start"]
           m == [q EXCEPT !.flags = @ \cup {"TRAILING"}, !.state = "s_header_field_start"]
           g == Go(q, "s_chunk_data")
           u == Unpaused(parser)
           u1 == [u EXCEPT !.flags = fl]
           u2 == [u1 EXCEPT !.state = "s_header_field_start"]
           v == [u EXCEPT !.flags = @ \cup {"TRAILING"}, !.state = "s_header_field_start"]
<1>1. At(s) /\ Takes(parser, Byte) /\ s \in DigitStates
  BY DEF ChunkSizeAlmostDone, DigitStates, At, Takes
<1>2. /\ Reading /\ parser.state = s /\ Unmarked(exec)
      /\ IsParser(parser) /\ IsParser(Counted) /\ Counted.errno = "OK" /\ Counted.type = parser.type
      /\ Unpaused(Counted) = u /\ Decoder!At(s) /\ s # "s_message_done"
      /\ Counted.content_length = parser.content_length /\ u.content_length = parser.content_length
  BY <1>1, ChunkFacts
<1>3. Counted.flags = parser.flags /\ u.flags = parser.flags
  BY <1>2, UnpausedCounted, UnpausedFields
<1>4. /\ IsParser(q) /\ q.errno = "OK" /\ q.type = parser.type /\ q.content_length = parser.content_length
      /\ q.flags = parser.flags
  BY <1>2, <1>3 DEF IsParser, ParserFields
<1>5. Unpaused(q) = u
  BY <1>2, UnpausedExcept
<1>6. Notify(IF q.content_length = 0 THEN m ELSE g, "chunk")
  BY DEF ChunkSizeAlmostDone
<1> HIDE DEF q
<1>7. m = m2
  BY <1>4 DEF IsParser, ParserFields
<1>8. v = u2
  BY <1>2, <1>3, UnpausedFields DEF ParserFields
<1> HIDE DEF m, v, fl, u
<1>9. IsParser(m1) /\ IsParser(m2) /\ m2.errno = "OK" /\ m2.type = parser.type /\ m2.state = "s_header_field_start"
  BY <1>4 DEF IsParser, ParserFields
<1>10. Unpaused(m1) = u1
  BY <1>4, <1>5, UnpausedExcept
<1> HIDE DEF m1, u1
<1>11. Unpaused(m2) = u2
  BY <1>9, <1>10, UnpausedExcept
<1> HIDE DEF m2, u2
<1>12. CASE q.content_length = 0
  <2>1. Settled(m) /\ ~Leaves(m) /\ m.state # "s_message_done" /\ Unpaused(m) = v
    BY <1>7, <1>8, <1>9, <1>11 DEF Settled, Leaves
  <2>2. Notify(m, "chunk")
    BY <1>6, <1>12
  <2>3. Decoder!Tells(Unpaused(m), <<"chunk">>, 1) /\ ReadInv'
    BY <1>2, <2>1, <2>2, NotifyMaps, Said DEF Others
  <2>4. Decoder!Tells(v, <<"chunk">>, 1)
    BY <2>1, <2>3
  <2>5. u.content_length = 0
    BY <1>2, <1>4, <1>12
  <2> QED BY <1>2, <2>3, <2>4, <2>5, Zenon DEF Decoder!ChunkStart, u, v
<1>13. CASE q.content_length # 0
  <2>1. Settled(g) /\ ~Leaves(g) /\ g.state = "s_chunk_data" /\ Unpaused(g) = Go(u, "s_chunk_data")
    BY <1>4, <1>5, SettledGo
  <2> HIDE DEF g
  <2>2. Notify(g, "chunk")
    BY <1>6, <1>13
  <2>3. Decoder!Tells(Unpaused(g), <<"chunk">>, 1) /\ ReadInv'
    BY <1>2, <2>1, <2>2, NotifyMaps, Said DEF Others
  <2>4. u.content_length # 0
    BY <1>2, <1>4, <1>13
  <2> QED BY <1>2, <2>1, <2>3, <2>4, SameRules, Zenon DEF Decoder!ChunkStart, u
<1> QED BY <1>12, <1>13

\* The next bytes of the data of a chunk.
LEMMA ChunkDataMaps ==
  ASSUME MapInv, ChunkData, UNCHANGED Others PROVE Decoder!ChunkData /\ ReadInv'
<1> DEFINE n == ToRead
           q == [parser EXCEPT !.content_length = @ - ToRead]
           g == Go(q, "s_chunk_data_almost_done")
           x == [exec EXCEPT !.body_mark = Mark(@), !.p = @ + ToRead]
           data == Decoder!Coming(n)
<1>1. At("s_chunk_data") /\ Takes(parser, Byte) /\ "s_chunk_data" \in BodyMarked
  BY DEF ChunkData, At, Takes, BodyMarked
<1>2. /\ Reading /\ exec.running /\ parser.state = "s_chunk_data"
      /\ IsParser(parser) /\ parser.errno = "OK" /\ IsExec(exec)
      /\ Decoder!At("s_chunk_data") /\ Consumed(parser, exec) = exec.p
      /\ exec.p \in Nat /\ exec.value_mark = 0
  BY <1>1, BodyFacts
<1>3. n \in 1 .. parser.content_length /\ n \in 1 .. exec.limit - exec.p
      /\ parser.content_length \in Nat
  BY <1>2, ToReadIn, ParserAssumption DEF MapInv, LengthStates
<1>4. /\ IsParser(q) /\ q.errno = "OK" /\ q.state = "s_chunk_data" /\ q.type = parser.type
      /\ q.content_length = parser.content_length - n /\ Unpaused(q) = Decoder!Without(n)
  BY <1>2, WithoutMaps
<1>5. x.p = exec.p + n /\ x.value_mark = 0 /\ x.body_mark = Mark(exec.body_mark)
  BY <1>2 DEF IsExec, ExecFields
<1>6. /\ (q.content_length = 0 /\ parser' = g) \/ (q.content_length # 0 /\ parser' = q)
      /\ exec' = x /\ calls' = calls
  BY DEF ChunkData
<1>7. Unpaused(parser).content_length = parser.content_length
  BY <1>2, UnpausedFields
<1> HIDE DEF n, q, x
<1>8. n \in Decoder!Ahead /\ data \in Seq(Tokens) /\ Pend(x) = Pending \o data
  BY <1>1, <1>3, <1>5, BodyRead
<1> HIDE DEF data
<1>9. CASE q.content_length = 0 /\ parser' = g
  <2>1. /\ Settled(g) /\ ~Leaves(g) /\ g.state = "s_chunk_data_almost_done"
        /\ Unpaused(g) = Decoder!Go(Decoder!Without(n), "s_chunk_data_almost_done")
    BY <1>4, SettledGo, SameRules
  <2> HIDE DEF g
  <2>2. Consumed(g, x) = Consumed(parser, exec) + n
    BY <1>2, <1>5, <2>1 DEF Consumed
  <2>3. Decoder!Becomes(Unpaused(g), data, n) /\ ReadInv'
    BY <1>2, <1>6, <1>8, <1>9, <2>1, <2>2, BecomesMaps DEF Settled, Others
  <2>4. n = Unpaused(parser).content_length
    BY <1>3, <1>4, <1>7, <1>9
  <2>5. Decoder!Becomes(Decoder!Go(Decoder!Without(n), "s_chunk_data_almost_done"), data, n)
    BY <2>1, <2>3
  <2> QED BY <1>2, <1>8, <2>3, <2>4, <2>5 DEF Decoder!ChunkData, data
<1>10. CASE q.content_length # 0 /\ parser' = q
  <2>1. Consumed(q, x) = Consumed(parser, exec) + n
    BY <1>2, <1>4, <1>5 DEF Consumed
  <2>2. ~Leaves(q)
    BY <1>4 DEF Leaves
  <2>3. Decoder!Becomes(Unpaused(q), data, n) /\ ReadInv'
    BY <1>2, <1>4, <1>6, <1>8, <1>10, <2>1, <2>2, BecomesMaps DEF Others
  <2>4. n < Unpaused(parser).content_length
    BY <1>3, <1>4, <1>7, <1>10
  <2> QED BY <1>2, <1>4, <1>8, <2>3, <2>4 DEF Decoder!ChunkData, data
<1> QED BY <1>6, <1>9, <1>10

\* The data of a chunk is over: what this buffer had of it is reported.
LEMMA ChunkDataAlmostDoneMaps ==
  ASSUME MapInv, ChunkDataAlmostDone, UNCHANGED Others PROVE Decoder!ChunkEnd /\ ReadInv'
<1> DEFINE q == Go(parser, "s_chunk_data_done")
           x == [exec EXCEPT !.p = @ + 1, !.body_mark = 0]
<1>1. /\ At("s_chunk_data_almost_done") /\ Takes(parser, Byte) /\ "s_chunk_data_almost_done" \in BodyMarked
      /\ Report(q, exec.body_mark, exec.p, x)
  BY DEF ChunkDataAlmostDone, At, Takes, BodyMarked
<1>2. /\ Reading /\ exec.running /\ parser.state = "s_chunk_data_almost_done"
      /\ IsParser(parser) /\ parser.errno = "OK" /\ IsExec(exec)
      /\ Decoder!At("s_chunk_data_almost_done") /\ Consumed(parser, exec) = exec.p
      /\ exec.p \in Nat /\ exec.value_mark = 0
      /\ Marked(exec.body_mark, exec.p) = Pending
      /\ calls \in Seq(Tokens) /\ Pending \in Seq(Tokens) /\ calls \o Pending \in Seq(Tokens)
  BY <1>1, BodyFacts
<1>3. /\ Settled(q) /\ ~Leaves(q) /\ q.state = "s_chunk_data_done"
      /\ Unpaused(q) = Decoder!Go(Unpaused(parser), "s_chunk_data_done")
  BY <1>2, SettledGo, SameRules
<1>4. /\ IsExec(x) /\ x.p = exec.p + 1 /\ x.value_mark = 0 /\ x.body_mark = 0
  BY <1>2 DEF IsExec, ExecFields
<1> HIDE DEF q, x
<1>5. PICK o \in Outcomes : AfterCall(q, x, o) /\ calls' = calls \o Marked(exec.body_mark, exec.p)
  BY <1>1, <1>3, ReportCalls DEF Settled
<1>6. calls' = (calls \o Pending) \o <<>> /\ <<>> \in Seq(Tokens)
  BY <1>2, <1>5, ConcatEmptySeq
<1>7. Consumed(q, x) = Consumed(parser, exec) + 1
  BY <1>2, <1>3, <1>4 DEF Consumed
<1>8. Decoder!Tells(Unpaused(q), <<>>, 1) /\ ReadInv'
  BY <1>2, <1>3, <1>4, <1>5, <1>6, <1>7, TellsMaps DEF Settled, Others
<1> QED BY <1>2, <1>3, <1>8, Zenon DEF Decoder!ChunkEnd

\* A chunk is over.
LEMMA ChunkDataDoneMaps ==
  ASSUME MapInv, ChunkDataDone, UNCHANGED Others PROVE Decoder!ChunkEnd /\ ReadInv'
<1> DEFINE said == "chunk end"
           q1 == [parser EXCEPT !.nread = 0]
           q2 == Go(q1, "s_chunk_size_start")
           q == [parser EXCEPT !.nread = 0, !.state = "s_chunk_size_start"]
<1>1. /\ At("s_chunk_data_done") /\ Takes(parser, Byte) /\ Notify(q, said)
  BY DEF ChunkDataDone, At, Takes
<1> HIDE DEF said
<1>2. /\ Reading /\ parser.state = "s_chunk_data_done" /\ Unmarked(exec)
      /\ IsParser(parser) /\ Decoder!At("s_chunk_data_done") /\ parser.errno = "OK"
  <2>1. /\ Reading /\ parser.state = "s_chunk_data_done" /\ Unmarked(exec)
        /\ IsParser(parser) /\ Decoder!At("s_chunk_data_done")
    BY <1>1, ChunkFacts
  <2>2. parser.errno = "OK"
    BY <2>1, RunningReads DEF Reading
  <2> QED BY <2>1, <2>2
<1>3. q = q2
  BY <1>2 DEF IsParser, ParserFields, Go
<1>4. IsParser(q1) /\ q1.errno = "OK" /\ q1.type = parser.type
  BY <1>2 DEF IsParser, ParserFields
<1>5. Unpaused(q1) = Unpaused(parser)
  BY <1>2, UnpausedExcept
<1> HIDE DEF q1, q
<1>6. Settled(q2) /\ ~Leaves(q2) /\ q2.state = "s_chunk_size_start"
      /\ Unpaused(q2) = Go(Unpaused(parser), "s_chunk_size_start")
  BY <1>4, <1>5, SettledGo
<1> HIDE DEF q2
<1>7. said \in Tokens
  BY Said DEF said
<1>8. Decoder!Tells(Unpaused(q), <<said>>, 1) /\ ReadInv'
  BY <1>1, <1>2, <1>3, <1>6, <1>7, NotifyMaps DEF Others
<1>9. Decoder!Tells(Decoder!Go(Unpaused(parser), "s_chunk_size_start"), <<said>>, 1)
  BY <1>3, <1>6, <1>8, SameRules
<1> QED BY <1>2, <1>8, <1>9, Zenon DEF Decoder!ChunkEnd, said

\* A call that ends with its buffer reports what it has marked, and changes nothing for the
\* decoder unless the callback fails.
LEMMA EndOfBufferMaps ==
  ASSUME MapInv, EndOfBuffer, UNCHANGED Others
  PROVE  (UNCHANGED Decoder!vars \/ Decoder!Refuse) /\ ReadInv'
<1> DEFINE mark == IF exec.value_mark # 0 THEN exec.value_mark ELSE exec.body_mark
           x == Returned(exec)
<1>1. exec.running /\ Report(parser, mark, exec.p, x)
  BY DEF EndOfBuffer
<1>2. /\ IsParser(parser) /\ IsExec(exec) /\ exec.p \in Nat /\ calls \in Seq(Tokens)
      /\ calls \o Pending \in Seq(Tokens)
      /\ mark # 0 => parser.state \in BodyMarked \cup {"s_header_value"}
  BY PendingFacts DEF MapInv, ParserInv, Sound, Placed
<1>3. Decoder!Reads /\ ~Leaves(parser) /\ parser.errno = "OK"
  BY <1>1, RunningReads
<1>4. x.p = exec.p /\ x.value_mark = 0 /\ x.body_mark = 0 /\ ~x.running
  BY <1>2 DEF Returned, IsExec, ExecFields
<1>5. Pending = Marked(mark, exec.p)
  BY DEF Pending
<1> HIDE DEF mark, x
<1>6. Pend(x) = <<>>
  BY <1>4, NothingMarked
<1>7. ASSUME exec' = x PROVE Pending' = <<>>
  BY <1>6, <1>7, PendingNext DEF Others
<1>8. CASE mark = 0
  <2>1. parser' = parser /\ exec' = x /\ calls' = calls
    BY <1>1, <1>8 DEF Report
  <2>2. Pending = <<>>
    BY <1>5, <1>8 DEF Marked
  <2>3. UNCHANGED Decoder!vars
    BY <1>4, <1>6, <2>1, <2>2, Stutters
  <2>4. ReadInv'
    BY <1>3, <1>4, <2>1 DEF ReadInv, MapInv, Others, Leaves
  <2> QED BY <2>3, <2>4
<1>9. CASE mark # 0
  <2>1. PICK o \in Outcomes : AfterCall(parser, x, o) /\ calls' = calls \o Marked(mark, exec.p)
    BY <1>1, <1>9 DEF Report
  <2> DEFINE e == [ok |-> "OK", pause |-> "PAUSED", fail |-> "CB"][o]
             r == [parser EXCEPT !.errno = e]
  <2>2. e \in {"OK", "PAUSED", "CB"}
    BY ParserAssumption
  <2>3. parser' = r /\ exec' = IF o = "ok" THEN x ELSE Returned(x)
    BY <2>1 DEF AfterCall
  <2> HIDE DEF e
  <2>4. exec' = x
    <3>1. Returned(x) = x
      BY <1>2 DEF Returned, IsExec, ExecFields, x
    <3> QED BY <2>3, <3>1
  <2>5. /\ r.state = parser.state /\ r.type = parser.type /\ r.upgrade = parser.upgrade
    BY <1>2 DEF IsParser, ParserFields
  <2>6. Unpaused(r) = [Unpaused(parser) EXCEPT !.errno = IF e = "PAUSED" THEN "OK" ELSE e]
    BY <1>2, UnpausedExcept
  <2> HIDE DEF r
  <2>7. (calls \o Pending)' = (calls \o Pending) \o <<>> /\ (calls \o Pending)' = calls \o Pending
    <3>1. calls' = calls \o Pending
      BY <1>5, <2>1
    <3>2. (calls \o Pending)' = calls' \o <<>>
      BY <1>7, <2>4
    <3> QED BY <1>2, <3>1, <3>2, ConcatEmptySeq
  <2>8. Consumed(parser, exec)' = Consumed(parser, exec) /\ Consumed(parser, exec) \in Int
    BY <1>2, <1>4, <2>3, <2>4, <2>5 DEF Consumed
  <2>9. Unpaused(parser)' = Unpaused(r)
    BY <2>3 DEF Unpaused
  <2>10. calls' \in Seq(Tokens)
    BY <1>2, <1>5, <2>1
  <2>11. ReadInv'
    BY <1>3, <1>4, <2>3, <2>4, <2>5, <2>10 DEF ReadInv, MapInv, Others, Leaves
  <2>12. CASE e # "CB"
    <3>1. Unpaused(r) = Unpaused(parser)
      <4>1. Unpaused(r) = [Unpaused(parser) EXCEPT !.errno = "OK"]
        BY <2>2, <2>6, <2>12
      <4>2. Unpaused([parser EXCEPT !.errno = "OK"]) = [Unpaused(parser) EXCEPT !.errno = IF "OK" = "PAUSED" THEN "OK" ELSE "OK"]
        BY <1>2, UnpausedExcept
      <4>3. [parser EXCEPT !.errno = "OK"] = parser
        BY <1>2, <1>3 DEF IsParser, ParserFields
      <4> QED BY <4>1, <4>2, <4>3
    <3>2. UNCHANGED Decoder!vars
      BY <2>7, <2>8, <2>9, <3>1 DEF Decoder!vars, Others
    <3> QED BY <2>11, <3>2
  <2>13. CASE e = "CB"
    <3>1. Unpaused(parser)' = [Unpaused(parser) EXCEPT !.errno = "CB"]
      BY <2>6, <2>9, <2>13
    <3>2. Decoder!Becomes([Unpaused(parser) EXCEPT !.errno = "CB"], <<>>, 0)
      BY <2>7, <2>8, <3>1 DEF Decoder!Becomes, Others
    <3>3. Unpaused(parser).state \in Decoder!DataStates
      BY <1>2, <1>9, UnpausedFields DEF BodyMarked, Decoder!DataStates
    <3>4. Decoder!Refuse
      BY <1>3, <3>2, <3>3 DEF Decoder!Refuse
    <3> QED BY <2>11, <3>4
  <2> QED BY <2>12, <2>13
<1> QED BY <1>8, <1>9

\* What the application finds between calls.
LEMMA Between ==
  ASSUME MapInv, ~exec.running
  PROVE  /\ exec.value_mark = 0 /\ exec.body_mark = 0 /\ Pending = <<>>
         /\ exec.p \in Nat /\ IsParser(parser) /\ IsExec(exec) /\ calls \in Seq(Tokens)
         /\ calls \o Pending = calls
<1>1. exec.value_mark = 0 /\ exec.body_mark = 0
  BY DEF MapInv, ParserInv, Sound, Placed
<1> QED BY <1>1, PendingFacts

\* A call with the next buffer changes nothing for the decoder: it marks where it is.
LEMMA ExecuteMaps ==
  ASSUME MapInv, NEW n, Execute(n)
  PROVE  UNCHANGED Decoder!vars /\ ReadInv'
<1> DEFINE m == IF parser.state = "s_header_value" THEN exec.p + 1 ELSE 0
           x == [exec EXCEPT !.limit = exec.p + n, !.running = TRUE, !.value_mark = m]
<1>1. /\ ~exec.running /\ ~eof /\ ~TakenOver /\ parser' = parser /\ exec' = x /\ calls' = calls
      /\ UNCHANGED Others
  BY DEF Execute, Others
<1>2. /\ exec.value_mark = 0 /\ exec.body_mark = 0 /\ Pending = <<>> /\ exec.p \in Nat /\ IsExec(exec)
  BY <1>1, Between
<1>3. m \in Nat /\ (m # 0 => m = exec.p + 1) /\ (parser.state = "s_header_value" => m # 0)
  BY <1>2
<1> HIDE DEF m
<1>4. x.p = exec.p /\ x.value_mark = m /\ x.body_mark = 0
  BY <1>2 DEF IsExec, ExecFields
<1> HIDE DEF x
<1>5. Pend(x) = <<>>
  <2>1. CASE m = 0
    BY <1>4, <2>1, NothingMarked
  <2>2. CASE m # 0
    <3>1. Pend(x) = SubSeq(wire, exec.p + 1, exec.p)
      BY <1>3, <1>4, <2>2 DEF Pend, Marked
    <3> QED BY <1>2, <3>1, SubSeqEmpty
  <2> QED BY <2>1, <2>2
<1>6. UNCHANGED Decoder!vars
  BY <1>1, <1>2, <1>4, <1>5, Stutters
<1>7. ReadInv'
  BY <1>1, <1>3, <1>4 DEF ReadInv, MapInv, Others
<1> QED BY <1>6, <1>7

\* Nor does a resumed parser.
LEMMA UnpauseMaps == ASSUME MapInv, Unpause PROVE UNCHANGED Decoder!vars /\ ReadInv'
<1> DEFINE r == [parser EXCEPT !.errno = "OK"]
<1>1. /\ ~exec.running /\ parser.errno = "PAUSED" /\ parser' = r /\ exec' = exec /\ calls' = calls
      /\ UNCHANGED Others
  BY DEF Unpause, Others
<1>2. IsParser(parser)
  BY PendingFacts
<1>3. /\ r.state = parser.state /\ r.type = parser.type /\ r.upgrade = parser.upgrade
  BY <1>2 DEF IsParser, ParserFields
<1>4. Unpaused(r) = Unpaused(parser)
  <2>1. Unpaused(r) = [r EXCEPT !.nread = 0]
    BY <1>2 DEF Unpaused, IsParser, ParserFields
  <2>2. Unpaused(parser) = [[parser EXCEPT !.errno = "OK"] EXCEPT !.nread = 0]
    BY <1>1, <1>2 DEF Unpaused, IsParser, ParserFields
  <2> QED BY <2>1, <2>2
<1> HIDE DEF r
<1>5. Pend(exec) = Pending
  BY PendingFacts
<1>6. UNCHANGED Decoder!vars
  BY <1>1, <1>3, <1>4, <1>5, Stutters
<1>7. ReadInv'
  <2>1. TakenOver' = TakenOver
    BY <1>1, <1>3 DEF TakenOver
  <2> QED BY <1>1, <1>3, <2>1 DEF ReadInv, MapInv, Others
<1> QED BY <1>6, <1>7

\* The end of the input ends the decoder's.
LEMMA EofMaps == ASSUME MapInv, Eof PROVE Decoder!End /\ ReadInv'
<1>1. /\ ~exec.running /\ parser.errno = "OK" /\ ~eof /\ ~TakenOver /\ exec.p = Len(wire) /\ eof' = TRUE
      /\ UNCHANGED <<sent, wire>>
  BY DEF Eof
<1>2. /\ exec.value_mark = 0 /\ exec.body_mark = 0 /\ Pending = <<>> /\ exec.p \in Nat
      /\ IsParser(parser) /\ IsExec(exec) /\ calls \in Seq(Tokens) /\ calls \o Pending = calls
  BY <1>1, Between
<1>3. parser.state # "s_message_done" /\ ~Leaves(parser)
  BY <1>1, <1>2 DEF MapInv, ReadInv, Leaves
<1>4. Consumed(parser, exec) = Len(wire)
  BY <1>1, <1>3 DEF Consumed
<1>5. /\ Unpaused(parser).errno = "OK" /\ Unpaused(parser).upgrade = parser.upgrade
      /\ Unpaused(parser).state = parser.state
  BY <1>1, <1>2, UnpausedFields
<1>6. Decoder!Reads
  BY <1>1, <1>3, <1>5 DEF Decoder!Reads, Decoder!Left, Leaves
<1>7. \A e : /\ [parser EXCEPT !.errno = e].state = parser.state
             /\ [parser EXCEPT !.errno = e].type = parser.type
             /\ [parser EXCEPT !.errno = e].upgrade = parser.upgrade
  BY <1>2 DEF IsParser, ParserFields
<1>8. \A e : Unpaused([parser EXCEPT !.errno = e])
               = [Unpaused(parser) EXCEPT !.errno = IF e = "PAUSED" THEN "OK" ELSE e]
  BY <1>2, UnpausedExcept
<1>9. CASE parser.state = "s_body_identity_eof"
  <2> DEFINE x == Returned(exec)
  <2>1. PICK o \in Outcomes : AfterCall(parser, exec, o) /\ exec' = x /\ calls' = Append(calls, "complete")
    BY <1>9 DEF Eof
  <2> DEFINE e == [ok |-> "OK", pause |-> "PAUSED", fail |-> "CB"][o]
             d == IF e = "PAUSED" THEN "OK" ELSE e
  <2>2. d \in {"OK", "CB"}
    BY ParserAssumption
  <2>3. parser' = [parser EXCEPT !.errno = e]
    BY <2>1 DEF AfterCall
  <2> HIDE DEF e
  <2>4. x.p = exec.p /\ x.value_mark = 0 /\ x.body_mark = 0 /\ ~x.running
    BY <1>2 DEF Returned, IsExec, ExecFields
  <2> HIDE DEF x
  <2>5. Pending' = <<>>
    BY <1>1, <2>1, <2>4, PendingNext, NothingMarked
  <2>6. "complete" \in Tokens
    BY Said
  <2>7. Append(calls, "complete") \in Seq(Tokens)
    BY <1>2, <2>6, AppendProperties
  <2>8. (calls \o Pending)' = Append(calls \o Pending, "complete")
    BY <1>2, <2>1, <2>5, <2>7, ConcatEmptySeq
  <2>9. parser'.state = parser.state /\ parser'.type = parser.type /\ parser'.upgrade = parser.upgrade
    BY <1>7, <2>3
  <2>10. Unpaused(parser)' = [Unpaused(parser) EXCEPT !.errno = d]
    <3>1. Unpaused(parser)' = Unpaused([parser EXCEPT !.errno = e])
      BY <2>3 DEF Unpaused
    <3> QED BY <1>8, <3>1
  <2>11. Consumed(parser, exec)' = Consumed(parser, exec)
    BY <2>1, <2>4, <2>9 DEF Consumed
  <2> HIDE DEF d
  <2>12. Decoder!End
    BY <1>1, <1>3, <1>4, <1>5, <1>6, <1>9, <2>2, <2>8, <2>10, <2>11 DEF Decoder!End
  <2>13. ReadInv'
    BY <1>1, <1>9, <2>1, <2>4, <2>7, <2>9 DEF ReadInv, MapInv
  <2> QED BY <2>12, <2>13
<1>10. CASE parser.state # "s_body_identity_eof"
  <2> DEFINE e == IF parser.state \in {"s_dead", "s_start"} THEN "OK" ELSE "INVALID_EOF_STATE"
  <2>1. parser' = [parser EXCEPT !.errno = e] /\ exec' = exec /\ calls' = calls
    BY <1>10 DEF Eof
  <2>2. e # "PAUSED"
    OBVIOUS
  <2>3. e = IF Unpaused(parser).state \in {"s_dead", "s_start"} THEN "OK" ELSE "INVALID_EOF_STATE"
    BY <1>5
  <2> HIDE DEF e
  <2>4. parser'.state = parser.state /\ parser'.type = parser.type /\ parser'.upgrade = parser.upgrade
    BY <1>7, <2>1
  <2>5. Pending' = Pending
    BY <1>1, <2>1 DEF Pending, Marked
  <2>6. (calls \o Pending)' = calls \o Pending
    BY <2>1, <2>5
  <2>7. Unpaused(parser)' = [Unpaused(parser) EXCEPT !.errno = e]
    <3>1. Unpaused(parser)' = Unpaused([parser EXCEPT !.errno = e])
      BY <2>1 DEF Unpaused
    <3> QED BY <1>8, <2>2, <3>1
  <2>8. Consumed(parser, exec)' = Consumed(parser, exec)
    BY <2>1, <2>4 DEF Consumed
  <2>9. Decoder!End
    BY <1>1, <1>3, <1>4, <1>5, <1>6, <1>10, <2>3, <2>6, <2>7, <2>8 DEF Decoder!End
  <2>10. ReadInv'
    BY <1>1, <1>3, <2>1, <2>4 DEF ReadInv, MapInv, Leaves
  <2> QED BY <2>9, <2>10
<1> QED BY <1>9, <1>10

-----------------------------------------------------------------------------
(* The parser implements the decoder *)

\* The parser begins as the decoder does.
LEMMA DecoderInit == ASSUME Init PROVE Decoder!Init /\ LimitInv /\ ReadInv
<1> DEFINE t == IF sent[1].line \in Requests THEN "REQUEST" ELSE "RESPONSE"
<1>1. /\ wire \in Seq(STRING) /\ parser = http_parser_init(t) /\ calls = <<>> /\ eof = FALSE
      /\ exec.p = 0 /\ exec.limit = 0 /\ exec.running = FALSE /\ exec.value_mark = 0 /\ exec.body_mark = 0
  BY ParserAssumption DEF Init
<1>2. t \in {"REQUEST", "RESPONSE"}
  OBVIOUS
<1> HIDE DEF t
<1>3. wire \in Seq(Tokens)
  BY <1>1, BytesAreTokens
<1>4. /\ parser.type = t /\ parser.state = "s_start" /\ parser.upgrade = FALSE
  BY <1>1 DEF http_parser_init
<1>5. Unpaused(parser) = Decoder!http_parser_init(t)
  <2>1. Unpaused(parser) = http_parser_init(t)
    <3>1. /\ parser = [f \in ParserFields |-> parser[f]] /\ parser.nread = 0 /\ parser.errno = "OK"
      BY <1>1 DEF http_parser_init, ParserFields
    <3>2. Unpaused(parser) = parser
      BY <3>1 DEF Unpaused, ParserFields
    <3> QED BY <1>1, <3>2
  <2> QED BY <2>1, SameRules
<1>6. LimitInv
  BY <1>1, LenProperties DEF LimitInv
<1>7. ReadInv
  BY <1>1, <1>2, <1>3, <1>4 DEF ReadInv
<1>8. calls \o Pending = <<>>
  <2>1. Pending = <<>>
    BY <1>1, NothingMarked DEF Pending, Marked
  <2> QED BY <1>1, <2>1
<1>9. Consumed(parser, exec) = 0
  BY <1>1, <1>4 DEF Consumed
<1>10. Decoder!Init
  BY <1>1, <1>2, <1>5, <1>8, <1>9 DEF Decoder!Init
<1> QED BY <1>6, <1>7, <1>10

\* Every step of the parser is a step of the decoder, or changes nothing for it.
LEMMA DecoderStep == ASSUME MapInv, [Next]_vars PROVE [Decoder!Next]_(Decoder!vars) /\ ReadInv'
<1>1. CASE Round
  <2>1. UNCHANGED Others
    BY <1>1 DEF Round, Others
  <2>2. CASE Dead \/ StartMessage \/ HeaderFieldStart \/ DiscardWs \/ HeaderValueStart \/ HeaderValue
    BY <2>1, <2>2, DeadMaps, StartMessageMaps, HeaderFieldStartMaps, DiscardWsMaps,
       HeaderValueStartMaps, HeaderValueMaps DEF Decoder!Next
  <2>3. CASE ValueEnd \/ ValueCut \/ HeaderAlmostDone \/ HeaderValueLws \/ DiscardWsAlmostDone \/ DiscardLws
    BY <2>1, <2>3, ValueEndMaps, ValueCutMaps, HeaderAlmostDoneMaps, HeaderValueLwsMaps,
       DiscardWsAlmostDoneMaps, DiscardLwsMaps DEF Decoder!Next
  <2>4. CASE HeadersDone \/ BodyIdentity \/ BodyIdentityEof \/ MessageDone
    BY <2>1, <2>4, HeadersDoneMaps, BodyIdentityMaps, BodyIdentityEofMaps, MessageDoneMaps
       DEF Decoder!Next
  <2>5. CASE ChunkSizeStart \/ ChunkSize \/ ChunkParameters \/ ChunkSizeAlmostDone
    BY <2>1, <2>5, ChunkSizeStartMaps, ChunkSizeMaps, ChunkParametersMaps, ChunkSizeAlmostDoneMaps
       DEF Decoder!Next
  <2>6. CASE ChunkData \/ ChunkDataAlmostDone \/ ChunkDataDone \/ EndOfBuffer
    BY <2>1, <2>6, ChunkDataMaps, ChunkDataAlmostDoneMaps, ChunkDataDoneMaps, EndOfBufferMaps
       DEF Decoder!Next
  <2> QED BY <1>1, <2>2, <2>3, <2>4, <2>5, <2>6 DEF Round
<1>2. CASE (Reject \/ HeaderOverflow \/ TrailersEnd \/ HeadersAlmostDone) /\ UNCHANGED <<sent, wire, eof>>
  BY <1>2, RejectMaps, HeaderOverflowMaps, TrailersEndMaps, HeadersAlmostDoneMaps DEF Decoder!Next, Others
<1>3. ASSUME NEW n \in 1 .. Len(wire), Execute(n)
      PROVE  UNCHANGED Decoder!vars /\ ReadInv'
  BY <1>3, ExecuteMaps
<1>4. CASE Eof
  BY <1>4, EofMaps DEF Decoder!Next
<1>5. CASE Unpause
  BY <1>5, UnpauseMaps
<1>6. CASE UNCHANGED vars
  <2>1. UNCHANGED Decoder!vars
    BY <1>6 DEF vars, Decoder!vars, Unpaused, Consumed, Pending, Marked
  <2>2. ReadInv'
    BY <1>6 DEF vars, ReadInv, MapInv, TakenOver
  <2> QED BY <2>1, <2>2
<1> QED BY <1>1, <1>2, <1>3, <1>4, <1>5, <1>6 DEF Next, Step

\* Refinement: however a connection is cut into buffers, and wherever a callback pauses
\* http_parser_execute, the parser does what the decoder does that reads the connection as one
\* sequence of bytes.  The marks of a call cover the data it has read and not reported, a byte
\* that is looked at twice is told once, and a value or a body that ends exactly with a buffer
\* is neither lost nor reported twice.
THEOREM ParserImplementsDecoder == Spec => ImplementsDecoder
<1>1. Init => MapInv /\ Decoder!Init
  BY ParserInit, DecoderInit DEF MapInv
<1>2. MapInv /\ [Next]_vars => MapInv'
  BY ParserStep, OnwardNext, DecoderStep DEF MapInv
<1>3. MapInv /\ [Next]_vars => [Decoder!Next]_(Decoder!vars)
  BY DecoderStep
<1> QED BY <1>1, <1>2, <1>3, PTL DEF Spec, ImplementsDecoder, Decoder!Spec
===============================================================================
