------------------------------ MODULE HttpParser ------------------------------
(***************************************************************************)
(* http_parser_execute (utils/http_parser.cpp): the state machine that     *)
(* finds the headers, the body and the end of each HTTP/1 message, while   *)
(* the application hands it the connection's bytes in buffers of any       *)
(* length and pauses it, or fails, in any callback.                        *)
(*                                                                         *)
(* `parser' is struct http_parser.  `exec' holds the locals of a call of   *)
(* http_parser_execute: the read position p (bytes of the connection       *)
(* before it are consumed), the end of the buffer, the marks of the data   *)
(* that is still to be reported (0 is a null mark), whether the switch     *)
(* runs again on a byte that was counted already (goto reexecute), and the *)
(* start of the loop over a header value (0 outside it).  A step is one    *)
(* round of the switch, or of that loop.  The letters of start lines,      *)
(* header names and words of header values are HttpHead's.                 *)
(***************************************************************************)
EXTENDS HttpFraming, FiniteSets

CONSTANTS
  Connections,  \* the sequences of messages a sender may send on a connection
  MaxHeader,    \* HTTP_MAX_HEADER_SIZE, in tokens
  Outcomes,     \* how a callback may return: "ok", "pause" or "fail"
  DocumentedTest  \* does the application test upgrade alone whenever a call returns, as
                  \* http_parser.h:232-236 tells it to, or wait for on_message_complete?

\* The bytes of a connection that carries the messages ms.
WireOf(ms) == Concat(Wire, ms)

ASSUME ParserAssumption ==
  /\ \A ms \in Connections : WireOf(ms) \in Seq(STRING)
  /\ MaxU \in Nat /\ MaxU > 16
  /\ MaxHeader \in Nat
  /\ Outcomes \subseteq {"ok", "pause", "fail"} /\ "ok" \in Outcomes
  /\ DocumentedTest \in BOOLEAN

VARIABLES
  parser,    \* struct http_parser
  exec,      \* the locals of http_parser_execute
  sent,      \* the messages of this connection
  wire,      \* the bytes of the connection
  calls,     \* history: the callbacks made
  eof        \* has the application announced the end of the input (len == 0)?

vars == <<parser, exec, sent, wire, calls, eof>>

\* http_parser_init, with the type of the messages that will come.
Init ==
  /\ sent \in Connections
  /\ wire = WireOf(sent)
  /\ parser = http_parser_init(IF sent[1].line \in Requests THEN "REQUEST" ELSE "RESPONSE")
  /\ exec = [p |-> 0, limit |-> 0, running |-> FALSE, reexec |-> FALSE,
             value_mark |-> 0, body_mark |-> 0, start |-> 0]
  /\ calls = <<>> /\ eof = FALSE

-----------------------------------------------------------------------------
(* How a round of the switch ends *)

Reading == exec.running /\ exec.p < exec.limit
Byte == wire[exec.p + 1]

\* The parser as the switch sees it: the byte is counted if it is a header's; the
\* loop over a value counts its bytes when it ends.
Counted ==
  IF PARSING_HEADER(parser.state) /\ ~exec.reexec /\ exec.start = 0
  THEN [parser EXCEPT !.nread = @ + 1] ELSE parser

\* A round in state s, on a byte that does not make the header too large.
At(s) == Reading /\ parser.state = s /\ Counted.nread <= MaxHeader

Returned(x) == [x EXCEPT !.running = FALSE, !.reexec = FALSE, !.value_mark = 0, !.body_mark = 0,
                              !.start = 0]

\* break: the byte is consumed.
Take(q) ==
  /\ parser' = q
  /\ exec' = [exec EXCEPT !.p = @ + 1, !.reexec = FALSE]
  /\ UNCHANGED calls

\* goto reexecute: the switch runs again on the same byte.
Reexecute(q) ==
  /\ parser' = q
  /\ exec' = [exec EXCEPT !.reexec = TRUE]
  /\ UNCHANGED calls

\* goto error.
Fail(q, e) ==
  /\ parser' = [q EXCEPT !.errno = e]
  /\ exec' = Returned(exec)
  /\ UNCHANGED calls

\* The application may pause the parser in a callback (http_parser_pause), or
\* return an error; the call returns then.
AfterCall(q, x, o) ==
  /\ parser' = [q EXCEPT !.errno = [ok |-> "OK", pause |-> "PAUSED", fail |-> "CB"][o]]
  /\ exec' = IF o = "ok" THEN x ELSE Returned(x)

\* CALLBACK_NOTIFY: the byte is consumed.
Notify(q, what) ==
  \E o \in Outcomes :
    /\ AfterCall(q, [exec EXCEPT !.p = @ + 1, !.reexec = FALSE], o)
    /\ calls' = Append(calls, what)

\* CALLBACK_NOTIFY_NOADVANCE and goto reexecute.
NotifyAgain(q, what) ==
  \E o \in Outcomes :
    /\ AfterCall(q, [exec EXCEPT !.reexec = TRUE], o)
    /\ calls' = Append(calls, what)

\* The tokens from mark up to and without p.
Marked(mark, p) == IF mark = 0 THEN <<>> ELSE SubSeq(wire, mark, p)

\* A data callback with the tokens from mark to p; x are the locals after it.
Report(q, mark, p, x) ==
  IF mark = 0 THEN parser' = q /\ exec' = x /\ UNCHANGED calls
  ELSE \E o \in Outcomes : AfterCall(q, x, o) /\ calls' = calls \o Marked(mark, p)

\* MARK: the mark is set unless it is set already.
Mark(mark) == IF mark = 0 THEN exec.p + 1 ELSE mark

-----------------------------------------------------------------------------
(* Bytes a state does not take *)

Reject ==
  /\ Reading /\ Counted.nread <= MaxHeader /\ ~Takes(parser, Byte)
  /\ Fail(Counted, Complaint(parser))

\* COUNT_HEADER_SIZE
HeaderOverflow ==
  /\ Reading /\ Counted.nread > MaxHeader
  /\ Fail(Counted, "HEADER_OVERFLOW")

-----------------------------------------------------------------------------
(* Between messages, and the start line *)

Dead == At("s_dead") /\ Takes(parser, Byte) /\ Take(Counted)

\* s_start_req and s_start_res.  A line end before a response begins a message as well.
StartMessage ==
  /\ At("s_start") /\ Takes(parser, Byte)
  /\ LET blank == Byte \in {"CR", "LF"}
         q == [Counted EXCEPT !.flags = {}, !.content_length = MaxU]
     IN CASE blank /\ parser.type = "REQUEST" -> Take(Counted)
          [] blank /\ parser.type = "RESPONSE" -> Notify(q, "begin")
          [] OTHER -> Notify([q EXCEPT !.state = "s_header_field_start", !.line = Byte], "begin")

-----------------------------------------------------------------------------
(* Header fields *)

HeaderFieldStart ==
  /\ At("s_header_field_start") /\ Takes(parser, Byte)
  /\ CASE Byte = "CR" -> Take(Go(Counted, "s_headers_almost_done"))
       [] Byte = "LF" -> Reexecute(Go(Counted, "s_headers_almost_done"))
       [] OTHER -> Notify([Counted EXCEPT !.state = "s_header_value_discard_ws",
                                          !.header_state = NameState[Byte]],
                          "field")

\* s_header_value_start: the value is marked where it begins.
StartValue(q) ==
  IF NotANumber(q, Byte) THEN Fail(Go(q, "s_header_value"), "INVALID_CONTENT_LENGTH")
  ELSE
    /\ parser' = FirstByte(q, Byte)
    /\ exec' = [exec EXCEPT !.p = @ + 1, !.reexec = FALSE, !.value_mark = Mark(@)]
    /\ UNCHANGED calls

DiscardWs ==
  /\ At("s_header_value_discard_ws")
  /\ CASE Byte = " " -> Take(Counted)
       [] Byte = "CR" -> Take(Go(Counted, "s_header_value_discard_ws_almost_done"))
       [] Byte = "LF" -> Take(Go(Counted, "s_header_value_discard_lws"))
       [] OTHER -> StartValue(Counted)

HeaderValueStart == At("s_header_value_start") /\ StartValue(Counted)

\* Where the loop over the value began, in this round or an earlier one.
Start == IF exec.start = 0 THEN exec.p + 1 ELSE exec.start

\* COUNT_HEADER_SIZE(p - start)
Sized(q) == [q EXCEPT !.nread = @ + (exec.p + 1 - Start)]

\* A round of the loop over a value: its bytes up to CR, LF or the end of the buffer.
HeaderValue ==
  /\ At("s_header_value") /\ Byte \notin {"CR", "LF"}
  /\ LET q == ValueByte(Counted, Byte)
     IN IF q.errno = "OK"
        THEN parser' = q /\ exec' = [exec EXCEPT !.p = @ + 1, !.start = Start] /\ UNCHANGED calls
        ELSE Fail(q, q.errno)

\* CR or LF ends the value.  The bytes of the loop are counted after the callback when
\* CR ends it, before it when LF does.
ValueEnd ==
  /\ At("s_header_value") /\ Byte \in {"CR", "LF"}
  /\ LET done == Go(Counted, "s_header_almost_done")
         big == Sized(Counted).nread > MaxHeader
         x == [exec EXCEPT !.value_mark = 0, !.start = 0]
     IN IF Byte = "CR"
        THEN \E o \in Outcomes :
               /\ calls' = calls \o Marked(exec.value_mark, exec.p)
               /\ IF o = "ok" /\ big
                  THEN /\ parser' = [Sized(done) EXCEPT !.errno = "HEADER_OVERFLOW"]
                       /\ exec' = Returned(exec)
                  ELSE AfterCall(IF o = "ok" THEN Sized(done) ELSE done, [x EXCEPT !.p = @ + 1], o)
        ELSE IF big THEN Fail(Sized(done), "HEADER_OVERFLOW")
             ELSE Report(Sized(done), exec.value_mark, exec.p, [x EXCEPT !.reexec = TRUE])

\* The buffer ends within the value.
ValueCut ==
  /\ exec.running /\ exec.start # 0 /\ exec.p = exec.limit
  /\ IF Sized(parser).nread > MaxHeader THEN Fail(Sized(parser), "HEADER_OVERFLOW")
     ELSE parser' = Sized(parser) /\ exec' = [exec EXCEPT !.start = 0] /\ UNCHANGED calls

HeaderAlmostDone ==
  At("s_header_almost_done") /\ Byte = "LF" /\ Take(Go(Counted, "s_header_value_lws"))

\* Mutation: the switch runs again without a new state.
HeaderValueLwsStuck ==
  /\ At("s_header_value_lws")
  /\ Reexecute(IF Byte = " " THEN Go(Counted, "s_header_value_start") ELSE WithFlag(Counted))

\* After the line end of a value: a blank continues it, anything else ends the header.
HeaderValueLws ==
  /\ At("s_header_value_lws")
  /\ Reexecute(IF Byte = " " THEN Go(Counted, "s_header_value_start")
               ELSE Go(WithFlag(Counted), "s_header_field_start"))

DiscardWsAlmostDone ==
  /\ At("s_header_value_discard_ws_almost_done") /\ Byte = "LF"
  /\ Take(Go(Counted, "s_header_value_discard_lws"))

\* The value is empty: its callback gets no bytes.
DiscardLws ==
  /\ At("s_header_value_discard_lws")
  /\ IF Byte = " " THEN Take(Go(Counted, "s_header_value_discard_ws"))
     ELSE Report(Go(WithFlag(Counted), "s_header_field_start"), exec.p + 1, exec.p,
                 [exec EXCEPT !.reexec = TRUE])

-----------------------------------------------------------------------------
(* The end of the headers *)

\* The message the application is at.
Current == sent[Cardinality({i \in DOMAIN calls : calls[i] = "begin"})]

\* The end of a chunked message's trailers.
TrailersEnd ==
  /\ At("s_headers_almost_done") /\ Byte = "LF" /\ "TRAILING" \in parser.flags
  /\ NotifyAgain(Go(Counted, "s_message_done"), "chunk end")

\* on_headers_complete: 1 as its result says that no body follows.
HeadersAlmostDone ==
  /\ At("s_headers_almost_done") /\ Byte = "LF" /\ "TRAILING" \notin parser.flags
  /\ LET q == [Counted EXCEPT
                 !.state = "s_headers_done",
                 !.upgrade = {"UPGRADE", "CONNECTION_UPGRADE"} \subseteq Counted.flags
                             \/ Counted.line = "CONNECT 1.1"]
     IN NotifyAgain(IF Current.skip THEN [q EXCEPT !.flags = @ \cup {"SKIPBODY"}] ELSE q, "headers")

\* s_headers_done: how the body is framed, with q what the parser counted so far.
\* After an upgrade the call returns.
Frame(q) ==
  CASE Upgraded(q) ->
         \E o \in Outcomes :
           /\ AfterCall(Go(q, NEW_MESSAGE(q)), Returned([exec EXCEPT !.p = @ + 1]), o)
           /\ calls' = Append(calls, "complete")
    [] ~Upgraded(q) /\ NoBody(q) -> Notify(Go(q, NEW_MESSAGE(q)), "complete")
    [] ~Upgraded(q) /\ ~NoBody(q) /\ Has(q, "CHUNKED") -> Take(Go(q, "s_chunk_size_start"))
    [] ~Upgraded(q) /\ ~NoBody(q) /\ ~Has(q, "CHUNKED") /\ HasLength(q) ->
         Take(Go(q, "s_body_identity"))
    [] OTHER -> Take(Go(q, "s_body_identity_eof"))

\* Mutation: the count of the header bytes is not reset.
HeadersDoneCounting == At("s_headers_done") /\ Byte = "LF" /\ Frame(Counted)

HeadersDone == At("s_headers_done") /\ Byte = "LF" /\ Frame([Counted EXCEPT !.nread = 0])

-----------------------------------------------------------------------------
(* Bodies *)

Least(a, b) == IF a < b THEN a ELSE b

\* What the buffer holds of a body or a chunk.
ToRead == Least(parser.content_length, exec.limit - exec.p)

\* Mutation: the mark is not reset, so the end of the buffer reports it again.
BodyIdentityMarked ==
  /\ At("s_body_identity")
  /\ LET q == [parser EXCEPT !.content_length = @ - ToRead]
         x == [exec EXCEPT !.body_mark = Mark(@), !.p = @ + ToRead]
     IN IF q.content_length = 0
        THEN Report(Go(q, "s_message_done"), x.body_mark, x.p, [x EXCEPT !.p = @ - 1, !.reexec = TRUE])
        ELSE parser' = q /\ exec' = x /\ UNCHANGED calls

\* The last byte is left for s_message_done to consume.
BodyIdentity ==
  /\ At("s_body_identity")
  /\ LET q == [parser EXCEPT !.content_length = @ - ToRead]
         x == [exec EXCEPT !.body_mark = Mark(@), !.p = @ + ToRead]
     IN IF q.content_length = 0
        THEN Report(Go(q, "s_message_done"), x.body_mark, x.p,
                    [x EXCEPT !.p = @ - 1, !.reexec = TRUE, !.body_mark = 0])
        ELSE parser' = q /\ exec' = x /\ UNCHANGED calls

BodyIdentityEof ==
  /\ At("s_body_identity_eof")
  /\ exec' = [exec EXCEPT !.body_mark = Mark(@), !.p = exec.limit]
  /\ UNCHANGED <<parser, calls>>

MessageDone ==
  /\ At("s_message_done")
  /\ \E o \in Outcomes :
       LET x == [exec EXCEPT !.p = @ + 1, !.reexec = FALSE]
       IN AfterCall(Go(parser, NEW_MESSAGE(parser)), IF parser.upgrade THEN Returned(x) ELSE x, o)
  /\ calls' = Append(calls, "complete")

ChunkSizeStart ==
  /\ At("s_chunk_size_start") /\ Takes(parser, Byte)
  /\ Take([Counted EXCEPT !.state = "s_chunk_size", !.content_length = Digit[Byte]])

ChunkSize ==
  /\ At("s_chunk_size") /\ Takes(parser, Byte)
  /\ CASE Byte = "CR" -> Take(Go(Counted, "s_chunk_size_almost_done"))
       [] Byte \in {";", " "} -> Take(Go(Counted, "s_chunk_parameters"))
       [] OTHER ->
            IF overflows(parser.content_length, 16) THEN Fail(Counted, "INVALID_CONTENT_LENGTH")
            ELSE Take([Counted EXCEPT !.content_length = Shifted(@, 16, Digit[Byte])])

ChunkParameters ==
  /\ At("s_chunk_parameters")
  /\ Take(IF Byte = "CR" THEN Go(Counted, "s_chunk_size_almost_done") ELSE Counted)

ChunkSizeAlmostDone ==
  /\ At("s_chunk_size_almost_done") /\ Byte = "LF"
  /\ LET q == [Counted EXCEPT !.nread = 0]
     IN Notify(IF q.content_length = 0
               THEN [q EXCEPT !.flags = @ \cup {"TRAILING"}, !.state = "s_header_field_start"]
               ELSE Go(q, "s_chunk_data"),
               "chunk")

ChunkData ==
  /\ At("s_chunk_data")
  /\ LET q == [parser EXCEPT !.content_length = @ - ToRead]
     IN parser' = IF q.content_length = 0 THEN Go(q, "s_chunk_data_almost_done") ELSE q
  /\ exec' = [exec EXCEPT !.body_mark = Mark(@), !.p = @ + ToRead]
  /\ UNCHANGED calls

ChunkDataAlmostDone ==
  /\ At("s_chunk_data_almost_done") /\ Byte = "CR"
  /\ Report(Go(parser, "s_chunk_data_done"), exec.body_mark, exec.p,
            [exec EXCEPT !.p = @ + 1, !.body_mark = 0])

ChunkDataDone ==
  /\ At("s_chunk_data_done") /\ Byte = "LF"
  /\ Notify([parser EXCEPT !.nread = 0, !.state = "s_chunk_size_start"], "chunk end")

-----------------------------------------------------------------------------
(* The end of the buffer, and the application *)

\* At most one mark is set (AssertsHold); what it covers is reported.
EndOfBuffer ==
  /\ exec.running /\ exec.p = exec.limit /\ exec.start = 0
  /\ Report(parser, IF exec.value_mark # 0 THEN exec.value_mark ELSE exec.body_mark, exec.p,
            Returned(exec))

\* The application takes an upgraded connection over: at once when it finds upgrade set,
\* or when it was also told that the message is complete.
TakenOver ==
  /\ parser.upgrade
  /\ DocumentedTest \/ (calls # <<>> /\ calls[Len(calls)] = "complete")

\* Mutation: the rest of a value that an earlier buffer began is not marked.
ExecuteUnmarked(n) ==
  /\ ~exec.running /\ parser.errno = "OK" /\ ~eof /\ ~TakenOver
  /\ exec.p + n <= Len(wire)
  /\ exec' = [exec EXCEPT !.limit = exec.p + n, !.running = TRUE]
  /\ UNCHANGED <<parser, sent, wire, calls, eof>>

\* The application calls http_parser_execute with the next n bytes.
Execute(n) ==
  /\ ~exec.running /\ parser.errno = "OK" /\ ~eof /\ ~TakenOver
  /\ exec.p + n <= Len(wire)
  /\ exec' = [exec EXCEPT !.limit = exec.p + n, !.running = TRUE,
                          !.value_mark = IF parser.state = "s_header_value" THEN exec.p + 1 ELSE 0]
  /\ UNCHANGED <<parser, sent, wire, calls, eof>>

\* http_parser_execute with len == 0.
Eof ==
  /\ ~exec.running /\ parser.errno = "OK" /\ ~eof /\ ~TakenOver
  /\ exec.p = Len(wire)
  /\ eof' = TRUE
  /\ IF parser.state = "s_body_identity_eof"
     THEN \E o \in Outcomes : AfterCall(parser, exec, o) /\ exec' = Returned(exec)
                              /\ calls' = Append(calls, "complete")
     ELSE /\ parser' = [parser EXCEPT !.errno = IF parser.state \in {"s_dead", "s_start"}
                                                THEN "OK" ELSE "INVALID_EOF_STATE"]
          /\ UNCHANGED <<exec, calls>>
  /\ UNCHANGED <<sent, wire>>

\* http_parser_pause(parser, 0)
Unpause ==
  /\ ~exec.running /\ parser.errno = "PAUSED"
  /\ parser' = [parser EXCEPT !.errno = "OK"]
  /\ UNCHANGED <<exec, sent, wire, calls, eof>>

-----------------------------------------------------------------------------
(* Specification *)

\* The rounds that neither refuse a byte nor end a header.
Round ==
  /\ \/ Dead \/ StartMessage
     \/ HeaderFieldStart \/ DiscardWs \/ HeaderValueStart \/ HeaderValue \/ ValueEnd \/ ValueCut
     \/ HeaderAlmostDone \/ HeaderValueLws \/ DiscardWsAlmostDone \/ DiscardLws
     \/ HeadersDone \/ BodyIdentity \/ BodyIdentityEof \/ MessageDone
     \/ ChunkSizeStart \/ ChunkSize \/ ChunkParameters \/ ChunkSizeAlmostDone
     \/ ChunkData \/ ChunkDataAlmostDone \/ ChunkDataDone
     \/ EndOfBuffer
  /\ UNCHANGED <<sent, wire, eof>>

Step ==
  \/ Round
  \/ (Reject \/ HeaderOverflow \/ TrailersEnd \/ HeadersAlmostDone) /\ UNCHANGED <<sent, wire, eof>>

Next ==
  \/ Step
  \/ \E n \in 1 .. Len(wire) : Execute(n)
  \/ Eof
  \/ Unpause

\* The application feeds the parser until it has nothing more for it.
Spec == Init /\ [][Next]_vars /\ WF_vars(Next)

-----------------------------------------------------------------------------
(* Properties *)

Finished ==
  /\ ~exec.running /\ parser.errno # "PAUSED"
  /\ parser.errno # "OK" \/ eof \/ TakenOver

\* The messages a receiver gets to see, and the callbacks they should cause.
Visible == SubSeq(sent, 1, Seen(sent))
Expected == Concat(Calls, Visible)

\* The application gets the callbacks of the messages that were sent, each once, in
\* order and with their data, wherever the buffers are cut and whatever callbacks
\* pause the parser: no byte is reported twice, or as part of something else, when a
\* call resumes on a byte it has already looked at (the NOADVANCE callbacks).
Transparent == IsPrefix(calls, Expected)

\* When the input is used up every callback was made; a malformed message stops the
\* parser with its errno, bytes after the last message with CLOSED_CONNECTION, and an
\* upgrade on the first byte of the other protocol.  The run's application waits for
\* on_message_complete before it takes the connection over (DocumentedTest = FALSE);
\* UpgradeHasExited is about one that follows http_parser.h:232-236.
NothingLost ==
  Finished /\ parser.errno # "CB" =>
    LET last == Visible[Len(Visible)]
    IN IF IsBad(last)
       THEN parser.errno = last.after /\ calls # Expected
       ELSE /\ calls = Expected
            /\ parser.errno = IF last.after = "close" /\ Len(Visible) < Len(sent)
                              THEN "CLOSED_CONNECTION" ELSE "OK"
            /\ last.after = "upgrade" => exec.p = Len(Concat(Wire, Visible))

\* http_parser.h:232-236 says of upgrade "1 = Upgrade header was present and the parser
\* has exited because of that. [...] Should be checked when http_parser_execute() returns
\* in addition to error checking": when a call without an error returns with upgrade set
\* the message is over and the next byte is the other protocol's.  http_parser.cpp:1817
\* sets it when the header ends, also when a body is still to be read (1859-1865).
UpgradeHasExited ==
  ~exec.running /\ parser.errno = "OK" /\ TakenOver =>
    calls = Expected /\ exec.p = Len(Concat(Wire, Visible))

\* The assertions of http_parser_execute: the nread of a chunk's first byte, the
\* lengths and flags of the body states (1904-1905, 1953-2064), one mark at most
\* when the buffer ends (2088-2092), no callback after an error.
AssertsHold ==
  /\ At("s_chunk_size_start") => Counted.nread = 1
  /\ parser.state \in {"s_body_identity", "s_chunk_data"} => HasLength(parser)
  /\ parser.state \in {"s_chunk_size_start", "s_chunk_size", "s_chunk_parameters",
                       "s_chunk_size_almost_done", "s_chunk_data", "s_chunk_data_almost_done",
                       "s_chunk_data_done"} => Has(parser, "CHUNKED")
  /\ parser.state = "s_chunk_data_almost_done" => parser.content_length = 0
  /\ exec.value_mark = 0 \/ exec.body_mark = 0
  /\ exec.running => parser.errno = "OK"

\* However often callbacks pause it, the parser gets to the end of the input: a
\* resumed call does not make the same callback again.
Ends == <>Finished

\* What is marked and not reported yet.
Pending == Marked(IF exec.value_mark # 0 THEN exec.value_mark ELSE exec.body_mark, exec.p)

\* The parser apart from the buffers: what it counts to limit the header, and whether
\* it is paused.
Unpaused(q) == [q EXCEPT !.nread = 0, !.errno = IF @ = "PAUSED" THEN "OK" ELSE @]

\* The last byte of a message is read, though it is left for s_message_done to consume.
Consumed(q, x) == IF q.state = "s_message_done" THEN x.p + 1 ELSE x.p

Decoder == INSTANCE HttpDecoder WITH
  reader <- Unpaused(parser), p <- Consumed(parser, exec), events <- calls \o Pending, ended <- eof

\* However the connection is cut into buffers, and wherever a callback pauses the parser,
\* it does what the decoder of the connection as one sequence of bytes does: a data
\* callback reports the bytes its marks cover, no callback is made twice or left out when
\* a call resumes on a byte it has looked at, and nothing else depends on the cuts but
\* the byte at which a header that is too large is refused.
ImplementsDecoder == Decoder!Spec

\* "Don't allow the total size of the HTTP headers (including the status line) to exceed
\* HTTP_MAX_HEADER_SIZE." (http_parser.cpp:142-143): what was read of a message whose
\* headers are complete.
HeaderBounded ==
  parser.state = "s_headers_done" =>
    LET n == Cardinality({i \in DOMAIN calls : calls[i] = "begin"})
    IN exec.p + 1 - Len(Concat(Wire, SubSeq(sent, 1, n - 1))) <= MaxHeader
===============================================================================
