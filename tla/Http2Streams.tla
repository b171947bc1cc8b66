----------------------------- MODULE Http2Streams -----------------------------
(***************************************************************************)
(* The streams of an http2_session: stream_map_ and the nghttp2 callbacks  *)
(* that keep it in step with nghttp2's own streams (http2_session.cpp),    *)
(* make_stream, find_stream and destroy_stream (http2_session.hpp) and the *)
(* calls the http2_stream objects get.                                     *)
(*                                                                         *)
(* nghttp2 is modelled by the callbacks it makes, in the order it makes    *)
(* them: for a stream, the frames of a request (HEADERS, DATA, trailing    *)
(* HEADERS), a reset from either side, and the end of the response.        *)
(***************************************************************************)
EXTENDS Naturals, Sequences, FiniteSets

CONSTANTS
  StreamIds,     \* the request streams the peer may open
  MaxStreams,    \* MAX_CONCURRENT_STREAMS
  MaxData        \* bound on the data chunks of a stream

ASSUME StreamsAssumption ==
  /\ StreamIds \subseteq Nat /\ IsFiniteSet(StreamIds)
  /\ MaxStreams \in Nat \ {0} /\ MaxData \in Nat

VARIABLES
  stream_map,    \* the keys of stream_map_
  allocated,     \* allocated[id]: http2_stream objects of id not yet deleted
  calls,         \* calls[id]: the calls made to objects of id
  remote,        \* nghttp2: how far the peer's half of a stream has got
  local_end,     \* nghttp2: the streams whose response is complete
  resetting,     \* nghttp2: the streams with a RST_STREAM queued
  unsent,        \* history: the streams whose response headers were not sent
  trailers,      \* history: the streams that ended with trailing HEADERS
  writing,       \* the connection's writing_: is a write of its buffer outstanding?
  destroyed      \* has the session been destroyed?

vars == <<stream_map, allocated, calls, remote, local_end, resetting, unsent, trailers, writing, destroyed>>

Remote == {"idle", "headers", "rejected", "open", "trailers", "ended", "closed"}

Open == {id \in StreamIds : remote[id] \notin {"idle", "closed"}}

Init ==
  /\ stream_map = {}
  /\ allocated = [id \in StreamIds |-> 0]
  /\ calls = [id \in StreamIds |-> <<>>]
  /\ remote = [id \in StreamIds |-> "idle"]
  /\ local_end = {} /\ resetting = {} /\ unsent = {} /\ trailers = {}
  /\ writing = FALSE /\ destroyed = FALSE

-----------------------------------------------------------------------------
(* The session's operations on its streams *)

make_stream(id) ==
  /\ stream_map' = stream_map \cup {id}
  /\ allocated' = [allocated EXCEPT ![id] = @ + 1]

\* A call to the object of id, if find_stream finds one.
call(id, what) ==
  calls' = IF id \in stream_map THEN [calls EXCEPT ![id] = Append(@, what)] ELSE calls

\* Mutation: the object is not deleted.
destroy_leaking(id) ==
  /\ stream_map' = stream_map \ {id}
  /\ UNCHANGED allocated

destroy_stream(id) ==
  /\ stream_map' = stream_map \ {id}
  /\ allocated' = IF id \in stream_map THEN [allocated EXCEPT ![id] = @ - 1] ELSE allocated

\* Mutation: a closed stream stays in the map.
close_forgotten(id) ==
  /\ remote' = [remote EXCEPT ![id] = "closed"]
  /\ resetting' = resetting \ {id}
  /\ call(id, "close")
  /\ UNCHANGED <<stream_map, allocated>>

\* nghttp2 closes a stream: on_stream_close_callback.
close(id) ==
  /\ remote' = [remote EXCEPT ![id] = "closed"]
  /\ resetting' = resetting \ {id}
  /\ call(id, "close")
  /\ destroy_stream(id)

-----------------------------------------------------------------------------
(* Frames received *)

\* on_begin_headers_callback of a request: stream ids increase, and nghttp2
\* refuses a stream beyond the announced maximum.
BeginRequest(id) ==
  /\ ~destroyed
  /\ remote[id] = "idle" /\ \A other \in StreamIds : other > id => remote[other] = "idle"
  /\ Cardinality(Open) < MaxStreams
  /\ remote' = [remote EXCEPT ![id] = "headers"]
  /\ make_stream(id)
  /\ UNCHANGED <<calls, local_end, resetting, unsent, trailers, writing, destroyed>>

\* nghttp2 refuses a header field (on_header_callback refuses none): it does not report
\* the frame, and queues a RST_STREAM.
HeadersRejected(id) ==
  /\ ~destroyed
  /\ remote[id] \in {"headers", "trailers"}
  /\ remote' = [remote EXCEPT ![id] = "rejected"]
  /\ resetting' = resetting \cup {id}
  /\ UNCHANGED <<stream_map, allocated, calls, local_end, unsent, trailers, writing, destroyed>>

\* on_frame_recv_callback of the request's HEADERS
RequestReceived(id, end_stream) ==
  /\ ~destroyed
  /\ remote[id] = "headers"
  /\ remote' = [remote EXCEPT ![id] = IF end_stream THEN "ended" ELSE "open"]
  /\ IF end_stream THEN call(id, "end") ELSE UNCHANGED calls
  /\ UNCHANGED <<stream_map, allocated, local_end, resetting, unsent, trailers, writing, destroyed>>

\* on_data_chunk_recv_callback
DataChunk(id) ==
  /\ ~destroyed
  /\ remote[id] = "open" /\ Len(calls[id]) < MaxData
  /\ call(id, "data")
  /\ UNCHANGED <<stream_map, allocated, remote, local_end, resetting, unsent, trailers, writing, destroyed>>

\* The peer's half ends; nghttp2 closes the stream if the response is complete too.
RemoteEnds(id, what) ==
  IF id \in local_end
  THEN /\ remote' = [remote EXCEPT ![id] = "closed"]
       /\ resetting' = resetting \ {id}
       /\ calls' = IF id \in stream_map THEN [calls EXCEPT ![id] = @ \o what \o <<"close">>] ELSE calls
       /\ destroy_stream(id)
  ELSE /\ remote' = [remote EXCEPT ![id] = "ended"]
       /\ calls' = IF id \in stream_map THEN [calls EXCEPT ![id] = @ \o what] ELSE calls
       /\ UNCHANGED <<stream_map, allocated, resetting>>

\* Mutation: the end of the data is not reported.
LastDataSilent(id) ==
  /\ ~destroyed
  /\ remote[id] = "open"
  /\ RemoteEnds(id, <<>>)
  /\ UNCHANGED <<local_end, unsent, trailers, writing, destroyed>>

\* on_frame_recv_callback of a DATA frame with END_STREAM
LastData(id) ==
  /\ ~destroyed
  /\ remote[id] = "open"
  /\ RemoteEnds(id, <<"end">>)
  /\ UNCHANGED <<local_end, unsent, trailers, writing, destroyed>>

\* on_begin_headers_callback of trailers: not a request, so nothing is made.
BeginTrailers(id) ==
  /\ ~destroyed
  /\ remote[id] = "open"
  /\ remote' = [remote EXCEPT ![id] = "trailers"]
  /\ UNCHANGED <<stream_map, allocated, calls, local_end, resetting, unsent, trailers, writing, destroyed>>

\* Mutation: the end of the trailers is reported twice.
TrailersTwice(id) ==
  /\ ~destroyed
  /\ remote[id] = "trailers"
  /\ RemoteEnds(id, <<"end", "end">>)
  /\ trailers' = trailers \cup {id}
  /\ UNCHANGED <<local_end, unsent, writing, destroyed>>

\* on_frame_recv_callback of trailers, which end the stream: their category
\* is not REQUEST, so end_of_stream is not called.
TrailersReceived(id) ==
  /\ ~destroyed
  /\ remote[id] = "trailers"
  /\ RemoteEnds(id, <<>>)
  /\ trailers' = trailers \cup {id}
  /\ UNCHANGED <<local_end, unsent, writing, destroyed>>

\* A RST_STREAM is received.
ResetReceived(id) ==
  /\ ~destroyed
  /\ id \in Open /\ remote[id] \notin {"headers", "trailers"}
  /\ close(id)
  /\ UNCHANGED <<local_end, unsent, trailers, writing, destroyed>>

-----------------------------------------------------------------------------
(* Frames sent: on_write takes them from nghttp2, while no write is outstanding. *)

\* write_data hands what on_write has taken to the socket.
WriteBegins ==
  /\ ~destroyed /\ ~writing /\ writing' = TRUE
  /\ UNCHANGED <<stream_map, allocated, calls, remote, local_end, resetting, unsent, trailers, destroyed>>

\* The peer has taken what was written.  It may never do so: the one deadline moves with
\* every read, so a peer that goes on sending is not timed out.  After an error writing_
\* stays set and the connection is stopped.
WriteEnds ==
  /\ ~destroyed /\ writing /\ writing' = FALSE
  /\ UNCHANGED <<stream_map, allocated, calls, remote, local_end, resetting, unsent, trailers, destroyed>>

\* The response is complete.
ResponseSent(id) ==
  /\ ~destroyed /\ ~writing
  /\ remote[id] \in {"open", "trailers", "ended"} /\ id \notin local_end /\ id \notin resetting
  /\ local_end' = local_end \cup {id}
  /\ IF remote[id] = "ended"
     THEN close(id)
     ELSE UNCHANGED <<stream_map, allocated, calls, remote, resetting>>
  /\ UNCHANGED <<unsent, trailers, writing, destroyed>>

\* Mutation: no RST_STREAM is submitted.
HeadersLost(id) ==
  /\ ~destroyed /\ ~writing
  /\ remote[id] \in {"open", "trailers", "ended"} /\ id \notin local_end
  /\ unsent' = unsent \cup {id}
  /\ UNCHANGED <<stream_map, allocated, calls, remote, local_end, resetting, trailers, writing, destroyed>>

\* on_frame_not_send_callback: response HEADERS could not be sent.
HeadersNotSent(id) ==
  /\ ~destroyed /\ ~writing
  /\ remote[id] \in {"open", "trailers", "ended"} /\ id \notin local_end
  /\ unsent' = unsent \cup {id}
  /\ resetting' = resetting \cup {id}
  /\ UNCHANGED <<stream_map, allocated, calls, remote, local_end, trailers, writing, destroyed>>

\* A queued RST_STREAM is sent, which closes the stream.
ResetSent(id) ==
  /\ ~destroyed /\ ~writing
  /\ id \in resetting
  /\ close(id)
  /\ UNCHANGED <<local_end, unsent, trailers, writing, destroyed>>

\* Mutation: the destructor deletes the objects of closed streams again.
DestroyTwice ==
  /\ ~destroyed /\ destroyed' = TRUE
  /\ stream_map' = {}
  /\ allocated' = [id \in StreamIds |-> IF remote[id] # "idle" THEN allocated[id] - 1 ELSE allocated[id]]
  /\ UNCHANGED <<calls, remote, local_end, resetting, unsent, trailers, writing>>

\* ~http2_session deletes the streams left; nghttp2's session is not deleted,
\* so on_stream_close_callback is not called for them.
Destroy ==
  /\ ~destroyed /\ destroyed' = TRUE
  /\ stream_map' = {}
  /\ allocated' = [id \in StreamIds |->
                     IF id \in stream_map THEN allocated[id] - 1 ELSE allocated[id]]
  /\ UNCHANGED <<calls, remote, local_end, resetting, unsent, trailers, writing>>

-----------------------------------------------------------------------------
Next ==
  \/ \E id \in StreamIds :
       \/ BeginRequest(id) \/ HeadersRejected(id) \/ DataChunk(id) \/ LastData(id)
       \/ \E end_stream \in BOOLEAN : RequestReceived(id, end_stream)
       \/ BeginTrailers(id) \/ TrailersReceived(id) \/ ResetReceived(id)
       \/ ResponseSent(id) \/ HeadersNotSent(id) \/ ResetSent(id)
  \/ WriteBegins \/ WriteEnds \/ Destroy

\* Between two writes a queued RST_STREAM is sent, unless the connection was stopped and
\* the session goes with it.
Served(id) == ~writing /\ (ResetSent(id) \/ (id \in resetting /\ Destroy))

\* write_data runs after each read and each write, and on_write asks nghttp2 for more until
\* there is no more (http2_session.hpp:74-93).  Other writes may come first, so the fairness
\* is strong; that any of them ends is not assumed here.
Fairness == \A id \in StreamIds : SF_vars(Served(id))

Spec == Init /\ [][Next]_vars /\ Fairness

-----------------------------------------------------------------------------
TypeOK ==
  /\ stream_map \subseteq StreamIds
  /\ allocated \in [StreamIds -> Nat]
  /\ calls \in [StreamIds -> Seq({"data", "end", "close"})]
  /\ remote \in [StreamIds -> Remote]
  /\ local_end \subseteq StreamIds /\ resetting \subseteq StreamIds
  /\ unsent \subseteq StreamIds /\ trailers \subseteq StreamIds
  /\ writing \in BOOLEAN /\ destroyed \in BOOLEAN

\* The map holds the streams nghttp2 has open, never more than announced: a
\* stream refused or reset at any point leaves nothing behind.
MapIsOpenStreams == ~destroyed => stream_map = Open /\ Cardinality(stream_map) <= MaxStreams

\* Every http2_stream is deleted exactly once: by the close of its stream or
\* by the destructor of the session.
NoLeak == \A id \in StreamIds : allocated[id] = IF id \in stream_map THEN 1 ELSE 0

\* A stream sees data, then at most one end, then at most one close, and
\* nothing after that (on_frame_recv, on_data_chunk_recv, on_stream_close).
CallsInOrder ==
  \A id \in StreamIds : \A m, n \in DOMAIN calls[id] : m < n =>
    /\ calls[id][m] # "close"
    /\ calls[id][m] = "end" => calls[id][n] = "close"

\* A stream whose request came to its end has been told so, unless the
\* request ended with trailers, whose end the session does not report.
EndReported ==
  \A id \in StreamIds : remote[id] = "ended" /\ id \notin trailers
                        => \E n \in DOMAIN calls[id] : calls[id][n] = "end"

\* If writes complete, a stream whose response headers cannot be sent does not stay open:
\* on_frame_not_send_callback has queued a reset, and neither the frames nor the resets
\* that other streams send first keep it back (http2_session.cpp:197-218).
NotSentCloses ==
  []<>~writing => \A id \in StreamIds : id \in unsent ~> (remote[id] = "closed" \/ destroyed)
=============================================================================
