------------------------------ MODULE HttpFraming ------------------------------
(***************************************************************************)
(* How the bytes of an HTTP/1 message change struct http_parser            *)
(* (utils/http_parser.cpp), apart from where in which buffer they are: the *)
(* bytes a state takes, what header fields say of the message, and how its *)
(* body is framed.  HttpParser reads buffers by these rules, HttpDecoder   *)
(* the connection as a whole.                                              *)
(***************************************************************************)
EXTENDS HttpMessages

CONSTANT MaxU  \* ULLONG_MAX; as content_length it means that there is none

BodyStates == {"s_chunk_data", "s_chunk_data_almost_done", "s_chunk_data_done",
               "s_body_identity", "s_body_identity_eof", "s_message_done"}
PARSING_HEADER(s) == s \notin BodyStates

\* What a start line says: request or response, http_major.http_minor > 1.0,
\* the CONNECT method, a status without a body (1xx, 204, 304).
Requests == {"GET 1.1", "GET 1.0", "CONNECT 1.1"}
Bodiless == {"204 1.1"}
Responses == {"200 1.1", "200 1.0"} \cup Bodiless
Http11 == {"GET 1.1", "CONNECT 1.1", "200 1.1", "204 1.1"}

http_parser_init(type) ==
  [type |-> type, state |-> "s_start", header_state |-> "h_general", flags |-> {}, content_length |-> 0,
   line |-> "none", nread |-> 0, upgrade |-> FALSE, errno |-> "OK"]

Go(q, s) == [q EXCEPT !.state = s]

-----------------------------------------------------------------------------
(* http_message_needs_eof, http_should_keep_alive and NEW_MESSAGE *)

http_message_needs_eof(q) ==
  /\ q.line \in Responses \ Bodiless
  /\ "SKIPBODY" \notin q.flags /\ "CHUNKED" \notin q.flags
  /\ q.content_length = MaxU

http_should_keep_alive(q) ==
  /\ IF q.line \in Http11 THEN "CLOSE" \notin q.flags ELSE "KEEP_ALIVE" \in q.flags
  /\ ~http_message_needs_eof(q)

NEW_MESSAGE(q) == IF http_should_keep_alive(q) THEN "s_start" ELSE "s_dead"

-----------------------------------------------------------------------------
(* Bytes a state does not take *)

HeaderNames == {"content-length", "transfer-encoding", "connection", "upgrade", "x-other"}

Takes(q, byte) ==
  CASE q.state = "s_dead" -> byte \in {"CR", "LF"}
    [] q.state = "s_start" -> byte \in {"CR", "LF"} \cup IF q.type = "REQUEST" THEN Requests ELSE Responses
    [] q.state = "s_header_field_start" -> byte \in {"CR", "LF"} \cup HeaderNames
    [] q.state \in {"s_header_almost_done", "s_header_value_discard_ws_almost_done",
                    "s_headers_almost_done", "s_headers_done", "s_chunk_size_almost_done",
                    "s_chunk_data_done"} -> byte = "LF"
    [] q.state = "s_chunk_data_almost_done" -> byte = "CR"
    [] q.state = "s_chunk_size_start" -> byte \in DOMAIN Digit
    [] q.state = "s_chunk_size" -> byte \in {"CR", ";", " "} \cup DOMAIN Digit
    [] OTHER -> TRUE

Complaint(q) ==
  CASE q.state = "s_dead" -> "CLOSED_CONNECTION"
    [] q.state = "s_start" -> IF q.type = "REQUEST" THEN "INVALID_METHOD" ELSE "INVALID_CONSTANT"
    [] q.state = "s_header_field_start" -> "INVALID_HEADER_TOKEN"
    [] q.state \in {"s_chunk_size_start", "s_chunk_size"} -> "INVALID_CHUNK_SIZE"
    [] OTHER -> "STRICT"

-----------------------------------------------------------------------------
(* Header fields *)

NameState ==
  [name \in HeaderNames |->
     CASE name = "content-length" -> "h_content_length"
       [] name = "transfer-encoding" -> "h_transfer_encoding"
       [] name = "connection" -> "h_connection"
       [] name = "upgrade" -> "h_upgrade"
       [] OTHER -> "h_general"]

\* The words of a Connection header.
ConnectionState(word) ==
  CASE word = "keep-alive" -> "h_connection_keep_alive"
    [] word = "close" -> "h_connection_close"
    [] word = "upgrade" -> "h_connection_upgrade"
    [] OTHER -> "h_matching_connection_token"

Flag ==
  [h \in {"h_connection_keep_alive", "h_connection_close", "h_connection_upgrade",
          "h_transfer_encoding_chunked"} |->
     CASE h = "h_connection_keep_alive" -> "KEEP_ALIVE"
       [] h = "h_connection_close" -> "CLOSE"
       [] h = "h_connection_upgrade" -> "CONNECTION_UPGRADE"
       [] h = "h_transfer_encoding_chunked" -> "CHUNKED"]

\* The flag a finished header value sets, if it sets one.
WithFlag(q) ==
  IF q.header_state \in DOMAIN Flag THEN [q EXCEPT !.flags = @ \cup {Flag[q.header_state]}] ELSE q

\* A Content-Length that does not begin with a digit.
NotANumber(q, byte) == q.header_state = "h_content_length" /\ byte \notin {Digits[i] : i \in 1 .. 10}

\* s_header_value_start, on the first byte of a value.
FirstByte(q, byte) ==
  [q EXCEPT !.state = "s_header_value",
            !.flags = IF q.header_state = "h_upgrade" THEN @ \cup {"UPGRADE"} ELSE @,
            !.content_length = IF q.header_state = "h_content_length" THEN Digit[byte] ELSE @,
            !.header_state =
              CASE @ \in {"h_content_length", "h_matching_connection_token_start"} -> @
                [] @ = "h_transfer_encoding" /\ byte = "chunked" -> "h_transfer_encoding_chunked"
                [] @ = "h_connection" -> ConnectionState(byte)
                [] OTHER -> "h_general"]

\* t *= base; t += digit in uint64_t, and the overflow test beside it.
Shifted(length, base, d) == (length * base + d) % (MaxU + 1)

\* Mutation: the test looks at the wrapped result.
overflows_late(length, base) == (length * base) % (MaxU + 1) > MaxU - base

overflows(length, base) == (MaxU - base) \div base < length

\* One byte of the inner loop of s_header_value.
ValueByte(q, byte) ==
  CASE q.header_state = "h_content_length" ->
         IF byte = " " THEN q
         ELSE IF byte \notin {Digits[i] : i \in 1 .. 10} \/ overflows(q.content_length, 10)
         THEN [q EXCEPT !.errno = "INVALID_CONTENT_LENGTH"]
         ELSE [q EXCEPT !.content_length = Shifted(@, 10, Digit[byte])]
    [] q.header_state = "h_matching_connection_token_start" ->
         IF byte = " " THEN q
         ELSE [q EXCEPT !.header_state = IF byte = "," THEN "h_general" ELSE ConnectionState(byte)]
    [] q.header_state = "h_matching_connection_token" ->
         IF byte = "," THEN [q EXCEPT !.header_state = "h_matching_connection_token_start"] ELSE q
    [] q.header_state = "h_transfer_encoding_chunked" ->
         IF byte = " " THEN q ELSE [q EXCEPT !.header_state = "h_general"]
    [] q.header_state \in {"h_connection_keep_alive", "h_connection_close", "h_connection_upgrade"} ->
        (CASE byte = "," -> [WithFlag(q) EXCEPT !.header_state = "h_matching_connection_token_start"]
           [] byte = " " -> q
           [] OTHER -> [q EXCEPT !.header_state = "h_matching_connection_token"])
    [] OTHER -> [q EXCEPT !.header_state = "h_general"]

-----------------------------------------------------------------------------
(* The end of the headers *)

Has(q, flag) == flag \in q.flags
HasLength(q) == q.content_length > 0 /\ q.content_length # MaxU

\* Does the parser leave the rest of the connection to another protocol?
Upgraded(q) ==
  q.upgrade /\ (q.line = "CONNECT 1.1" \/ Has(q, "SKIPBODY") \/ ~(Has(q, "CHUNKED") \/ HasLength(q)))

\* Is the message complete with its headers?
NoBody(q) ==
  \/ Has(q, "SKIPBODY")
  \/ /\ ~Has(q, "CHUNKED")
     /\ q.content_length = 0 \/ (q.content_length = MaxU /\ ~http_message_needs_eof(q))
===============================================================================
