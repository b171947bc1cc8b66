------------------------------ MODULE HttpDecoder ------------------------------
(***************************************************************************)
(* What http_parser_execute makes of a connection looked at as one         *)
(* sequence of bytes: there are no buffers and no marks, no byte is looked *)
(* at twice, and a callback that pauses the parser changes nothing.        *)
(* `events' are the callbacks, with the bytes of data callbacks as they    *)
(* are read; a message's header is refused for its size at some byte.      *)
(***************************************************************************)
EXTENDS HttpFraming, FiniteSets, Sequences

VARIABLES
  reader,  \* struct http_parser, without nread
  p,       \* the bytes read
  sent,    \* the messages of the connection
  wire,    \* its bytes
  events,  \* what the application was told
  ended    \* is the end of the input announced?

vars == <<reader, p, sent, wire, events, ended>>

Init ==
  /\ reader \in {http_parser_init(type) : type \in {"REQUEST", "RESPONSE"}}
  /\ wire \in Seq(STRING)
  /\ p = 0 /\ events = <<>> /\ ended = FALSE

-----------------------------------------------------------------------------
(* How a step ends *)

\* The application has taken the connection over.
Left == reader.upgrade /\ reader.state \in {"s_start", "s_dead"}

Reads == reader.errno = "OK" /\ ~ended /\ ~Left

Byte == wire[p + 1]

\* A step in state s, on a byte the state takes.
At(s) == Reads /\ reader.state = s /\ p < Len(wire) /\ Takes(reader, Byte)

\* The next n bytes are read, and some of them are data.
Becomes(r, data, n) ==
  /\ reader' = r /\ p' = p + n /\ events' = events \o data
  /\ UNCHANGED <<sent, wire, ended>>

\* A callback that ends the step may fail.
Tells(r, said, n) ==
  \E e \in {"OK", "CB"} : Becomes([r EXCEPT !.errno = e], said, n)

\* The parser stops, and may not have reported the field it was in from byte m on.
Stops(e) ==
  /\ reader'.errno = e /\ p' = p
  /\ \E m \in 1 .. p + 1 : events = events' \o SubSeq(wire, m, p)
  /\ UNCHANGED <<sent, wire, ended>>

-----------------------------------------------------------------------------
(* Headers *)

Dead == At("s_dead") /\ Becomes(reader, <<>>, 1)

StartMessage ==
  /\ At("s_start")
  /\ LET blank == Byte \in {"CR", "LF"}
         r == [reader EXCEPT !.flags = {}, !.content_length = MaxU]
     IN IF blank /\ reader.type = "REQUEST" THEN Becomes(reader, <<>>, 1)
        ELSE Tells(IF blank THEN r ELSE [r EXCEPT !.state = "s_header_field_start", !.line = Byte],
                   <<"begin">>, 1)

FieldStart ==
  /\ At("s_header_field_start")
  /\ IF Byte \in HeaderNames
     THEN Tells([reader EXCEPT !.state = "s_header_value_discard_ws", !.header_state = NameState[Byte]],
                <<"field">>, 1)
     ELSE Becomes(Go(reader, "s_headers_almost_done"), <<>>, IF Byte = "CR" THEN 1 ELSE 0)

\* The first byte of a value is data already.
AtValue ==
  \/ At("s_header_value_start")
  \/ At("s_header_value_discard_ws") /\ Byte \notin {" ", "CR", "LF"}

ValueStart ==
  AtValue /\ ~NotANumber(reader, Byte) /\ Becomes(FirstByte(reader, Byte), <<Byte>>, 1)

Value ==
  /\ At("s_header_value") /\ Byte \notin {"CR", "LF"}
  /\ LET r == ValueByte(reader, Byte) IN r.errno = "OK" /\ Becomes(r, <<Byte>>, 1)

ValueEnd ==
  /\ At("s_header_value") /\ Byte \in {"CR", "LF"}
  /\ Tells(Go(reader, "s_header_almost_done"), <<>>, IF Byte = "CR" THEN 1 ELSE 0)

\* Blanks and line ends, between a value and what follows it.
Blank ==
  \/ /\ At("s_header_value_discard_ws") /\ Byte \in {" ", "CR", "LF"}
     /\ Becomes(CASE Byte = " " -> reader
                  [] Byte = "CR" -> Go(reader, "s_header_value_discard_ws_almost_done")
                  [] Byte = "LF" -> Go(reader, "s_header_value_discard_lws"), <<>>, 1)
  \/ /\ At("s_header_value_discard_ws_almost_done")
     /\ Becomes(Go(reader, "s_header_value_discard_lws"), <<>>, 1)
  \/ /\ At("s_header_value_discard_lws") /\ Byte = " "
     /\ Becomes(Go(reader, "s_header_value_discard_ws"), <<>>, 1)
  \/ At("s_header_almost_done") /\ Becomes(Go(reader, "s_header_value_lws"), <<>>, 1)
  \/ At("s_header_value_lws") /\ Byte = " " /\ Becomes(Go(reader, "s_header_value_start"), <<>>, 0)

\* A line that does not begin with a blank ends the field before it; an empty value is
\* reported then.
FieldEnd ==
  /\ At("s_header_value_lws") \/ At("s_header_value_discard_lws")
  /\ Byte # " "
  /\ Tells(Go(WithFlag(reader), "s_header_field_start"), <<>>, 0)

TrailersEnd ==
  /\ At("s_headers_almost_done") /\ Has(reader, "TRAILING")
  /\ Tells(Go(reader, "s_message_done"), <<"chunk end">>, 1)

\* The message the application is at.
Current == sent[Cardinality({i \in DOMAIN events : events[i] = "begin"})]

HeadersEnd ==
  /\ At("s_headers_almost_done") /\ ~Has(reader, "TRAILING")
  /\ Tells([reader EXCEPT
              !.state = "s_headers_done",
              !.upgrade = {"UPGRADE", "CONNECTION_UPGRADE"} \subseteq reader.flags
                          \/ reader.line = "CONNECT 1.1",
              !.flags = IF Current.skip THEN @ \cup {"SKIPBODY"} ELSE @],
           <<"headers">>, 0)

-----------------------------------------------------------------------------
(* Bodies *)

\* The state a message with a body goes on in.
BodyState ==
  IF Has(reader, "CHUNKED") THEN "s_chunk_size_start"
  ELSE IF HasLength(reader) THEN "s_body_identity" ELSE "s_body_identity_eof"

HeadersDone ==
  /\ At("s_headers_done")
  /\ IF Upgraded(reader) \/ NoBody(reader)
     THEN Tells(Go(reader, NEW_MESSAGE(reader)), <<"complete">>, 1)
     ELSE Becomes(Go(reader, BodyState), <<>>, 1)

\* The next n bytes are data.
Coming(n) == SubSeq(wire, p + 1, p + n)

\* The numbers of bytes that can be read.
Ahead == 1 .. Len(wire) - p

Without(n) == [reader EXCEPT !.content_length = @ - n]

\* The body is reported when it is complete.
Body ==
  /\ At("s_body_identity")
  /\ \E n \in Ahead :
       \/ n < reader.content_length /\ Becomes(Without(n), Coming(n), n)
       \/ n = reader.content_length /\ Tells(Go(Without(n), "s_message_done"), Coming(n), n)

BodyEof == At("s_body_identity_eof") /\ \E n \in Ahead : Becomes(reader, Coming(n), n)

\* The last byte of the message is read when it is complete.
MessageDone ==
  /\ Reads /\ reader.state = "s_message_done"
  /\ Tells(Go(reader, NEW_MESSAGE(reader)), <<"complete">>, 0)

ChunkSize ==
  \/ /\ At("s_chunk_size_start")
     /\ Becomes([reader EXCEPT !.state = "s_chunk_size", !.content_length = Digit[Byte]], <<>>, 1)
  \/ /\ At("s_chunk_size") /\ Byte \notin {"CR", ";", " "} /\ ~overflows(reader.content_length, 16)
     /\ Becomes([reader EXCEPT !.content_length = Shifted(@, 16, Digit[Byte])], <<>>, 1)
  \/ /\ At("s_chunk_size") /\ Byte \in {";", " "}
     /\ Becomes(Go(reader, "s_chunk_parameters"), <<>>, 1)
  \/ At("s_chunk_parameters") /\ Byte # "CR" /\ Becomes(reader, <<>>, 1)
  \/ /\ At("s_chunk_size") \/ At("s_chunk_parameters")
     /\ Byte = "CR" /\ Becomes(Go(reader, "s_chunk_size_almost_done"), <<>>, 1)

ChunkStart ==
  /\ At("s_chunk_size_almost_done")
  /\ Tells(IF reader.content_length = 0
           THEN [reader EXCEPT !.flags = @ \cup {"TRAILING"}, !.state = "s_header_field_start"]
           ELSE Go(reader, "s_chunk_data"),
           <<"chunk">>, 1)

ChunkData ==
  /\ At("s_chunk_data")
  /\ \E n \in Ahead :
       \/ n < reader.content_length /\ Becomes(Without(n), Coming(n), n)
       \/ n = reader.content_length /\ Becomes(Go(Without(n), "s_chunk_data_almost_done"), Coming(n), n)

ChunkEnd ==
  \/ At("s_chunk_data_almost_done") /\ Tells(Go(reader, "s_chunk_data_done"), <<>>, 1)
  \/ At("s_chunk_data_done") /\ Tells(Go(reader, "s_chunk_size_start"), <<"chunk end">>, 1)

-----------------------------------------------------------------------------
(* Errors, and the end of the input *)

\* A data callback made at the end of a buffer fails.
DataStates == {"s_header_value", "s_body_identity", "s_body_identity_eof", "s_chunk_data",
               "s_chunk_data_almost_done"}

Refuse == Reads /\ reader.state \in DataStates /\ Becomes([reader EXCEPT !.errno = "CB"], <<>>, 0)

\* A byte the state does not take, or that makes a length no length.
Error ==
  /\ Reads
  /\ \/ /\ p < Len(wire) /\ ~Takes(reader, Byte)
        /\ Stops(Complaint(reader))
     \/ /\ \/ AtValue /\ NotANumber(reader, Byte)
           \/ At("s_header_value") /\ ValueByte(reader, Byte).errno # "OK"
           \/ At("s_chunk_size") /\ overflows(reader.content_length, 16)
        /\ Stops("INVALID_CONTENT_LENGTH")
     \/ PARSING_HEADER(reader.state) /\ Stops("HEADER_OVERFLOW")

End ==
  /\ Reads /\ p = Len(wire) /\ reader.state # "s_message_done"
  /\ ended' = TRUE
  /\ IF reader.state = "s_body_identity_eof"
     THEN events' = Append(events, "complete") /\ \E e \in {"OK", "CB"} : reader' = [reader EXCEPT !.errno = e]
     ELSE /\ reader' = [reader EXCEPT !.errno = IF reader.state \in {"s_dead", "s_start"}
                                                THEN "OK" ELSE "INVALID_EOF_STATE"]
          /\ UNCHANGED events
  /\ UNCHANGED <<p, sent, wire>>

-----------------------------------------------------------------------------
Next ==
  \/ Dead \/ StartMessage \/ FieldStart \/ ValueStart \/ Value \/ ValueEnd \/ Blank \/ FieldEnd
  \/ TrailersEnd \/ HeadersEnd \/ HeadersDone \/ Body \/ BodyEof \/ MessageDone
  \/ ChunkSize \/ ChunkStart \/ ChunkData \/ ChunkEnd
  \/ Refuse \/ Error \/ End

Spec == Init /\ [][Next]_vars
===============================================================================
