-------------------------- MODULE Http2StreamsProofs --------------------------
(***************************************************************************)
(* Proofs about Http2Streams, for every set of streams and every bound.    *)
(***************************************************************************)
EXTENDS Http2Streams, FiniteSetTheorems, TLAPS

Events == {"data", "end", "close"}

\* The calls to one object so far are data only; are in order; are not closed; are ended.
AllData(s) == \A n \in DOMAIN s : s[n] = "data"
Ordered(s) == \A m, n \in DOMAIN s : m < n => s[m] # "close" /\ (s[m] = "end" => s[n] = "close")
NotClosed(s) == \A n \in DOMAIN s : s[n] # "close"
Ended(s) == \E n \in DOMAIN s : s[n] = "end"

\* What an object was told fits r, how far the peer's half of its stream has got; t: has
\* the request ended with trailers?
Told(s, r, t) ==
  /\ s \in Seq(Events) /\ Ordered(s)
  /\ r \notin {"ended", "closed"} => AllData(s)
  /\ r = "ended" => NotClosed(s) /\ (Ended(s) \/ t)

\* The inductive invariant: the type invariant, the map beside nghttp2's streams, the
\* objects beside the map, and what each object was told beside its stream.
StreamInv ==
  /\ TypeOK
  /\ stream_map = IF destroyed THEN {} ELSE Open
  /\ Cardinality(stream_map) <= MaxStreams
  /\ NoLeak
  /\ \A id \in StreamIds : Told(calls[id], remote[id], id \in trailers)

-----------------------------------------------------------------------------
(* What a call adds to a sequence of calls *)

\* Another chunk of data.
LEMMA AddData ==
  ASSUME NEW s \in Seq(Events), AllData(s)
  PROVE  Append(s, "data") \in Seq(Events) /\ AllData(Append(s, "data"))
BY DEF AllData, Events

\* Data only is in order, and open.
LEMMA DataIsOrdered ==
  ASSUME NEW s \in Seq(Events), AllData(s)
  PROVE  Ordered(s) /\ NotClosed(s)
BY DEF AllData, Ordered, NotClosed

\* The end of the data.
LEMMA AddEnd ==
  ASSUME NEW s \in Seq(Events), AllData(s)
  PROVE  LET t == Append(s, "end")
         IN  t \in Seq(Events) /\ Ordered(t) /\ NotClosed(t) /\ Ended(t)
<1> DEFINE t == Append(s, "end")
<1>1. t \in Seq(Events) /\ Len(t) = Len(s) + 1 /\ t[Len(s) + 1] = "end"
      /\ \A n \in 1 .. Len(s) : t[n] = "data"
  BY DEF AllData, Events
<1> HIDE DEF t
<1>2. DOMAIN t = 1 .. Len(s) + 1 /\ Len(s) \in Nat
  BY <1>1
<1>3. Ordered(t) /\ NotClosed(t)
  BY <1>1, <1>2 DEF Ordered, NotClosed
<1>4. Ended(t)
  BY <1>1, <1>2 DEF Ended
<1> QED  BY <1>1, <1>3, <1>4 DEF t

\* The close.
LEMMA AddClose ==
  ASSUME NEW s \in Seq(Events), Ordered(s), NotClosed(s)
  PROVE  Append(s, "close") \in Seq(Events) /\ Ordered(Append(s, "close"))
<1> DEFINE t == Append(s, "close")
<1>1. t \in Seq(Events) /\ Len(t) = Len(s) + 1 /\ t[Len(s) + 1] = "close"
      /\ \A n \in 1 .. Len(s) : t[n] = s[n]
  BY DEF Events
<1> HIDE DEF t
<1>2. DOMAIN t = 1 .. Len(s) + 1 /\ DOMAIN s = 1 .. Len(s) /\ Len(s) \in Nat
  BY <1>1
<1>3. Ordered(t)
  BY <1>1, <1>2 DEF Ordered, NotClosed
<1> QED  BY <1>1, <1>3 DEF t

\* Calls added as a sequence, as RemoteEnds does.
LEMMA AddedCalls ==
  ASSUME NEW s \in Seq(Events), NEW c \in Events
  PROVE  s \o <<c>> = Append(s, c) /\ s \o <<>> = s
OBVIOUS

-----------------------------------------------------------------------------
(* A step of one stream *)

\* id goes from remote[id] to r, and its object has been told s.
Moves(id, r, s) ==
  /\ remote' = [remote EXCEPT ![id] = r]
  /\ calls' = [calls EXCEPT ![id] = s]
  /\ UNCHANGED destroyed

\* The variables that a step of a stream leaves in their types.
Sides == /\ local_end' \subseteq StreamIds /\ resetting' \subseteq StreamIds
         /\ unsent' \subseteq StreamIds /\ trailers' \subseteq StreamIds /\ writing' \in BOOLEAN

\* A stream that is and stays open.
LEMMA StaysOpen ==
  ASSUME StreamInv, Sides, ~destroyed, NEW id \in StreamIds, id \in Open,
         NEW r \in Remote \ {"idle", "closed"}, NEW s, Moves(id, r, s),
         Told(s, r, id \in trailers'), trailers \subseteq trailers',
         UNCHANGED <<stream_map, allocated>>
  PROVE  StreamInv'
<1>1. TypeOK'
  BY DEF StreamInv, TypeOK, Sides, Moves, Told, Events
<1>2. Open' = Open
  BY DEF StreamInv, TypeOK, Open, Moves
<1>3. \A i \in StreamIds : Told(calls'[i], remote'[i], i \in trailers')
  BY DEF StreamInv, TypeOK, Told, Moves
<1> QED  BY <1>1, <1>2, <1>3 DEF StreamInv, NoLeak, Moves

\* A stream that closes: on_stream_close_callback has deleted its object.
LEMMA Closes ==
  ASSUME StreamInv, Sides, ~destroyed, NEW id \in StreamIds,
         NEW s, Moves(id, "closed", s), Told(s, "closed", id \in trailers'),
         trailers \subseteq trailers', destroy_stream(id)
  PROVE  StreamInv'
<1>1. stream_map' = stream_map \ {id} /\ stream_map = Open
  BY DEF StreamInv, destroy_stream
<1>2. allocated' \in [StreamIds -> Nat] /\ NoLeak'
  BY <1>1 DEF StreamInv, TypeOK, NoLeak, destroy_stream
<1>3. TypeOK'
  BY <1>1, <1>2 DEF StreamInv, TypeOK, Sides, Moves, Told, Events, Remote
<1>4. Open' = Open \ {id}
  BY DEF StreamInv, TypeOK, Open, Moves
<1>5. Cardinality(stream_map') <= MaxStreams
  <2>1. IsFiniteSet(stream_map)
    BY StreamsAssumption, FS_Subset DEF StreamInv, TypeOK
  <2>2. Cardinality(stream_map') <= Cardinality(stream_map) /\ IsFiniteSet(stream_map')
    BY <1>1, <2>1, FS_Subset
  <2>3. Cardinality(stream_map) \in Nat /\ Cardinality(stream_map') \in Nat
    BY <2>1, <2>2, FS_CardinalityType
  <2> QED  BY <2>2, <2>3, StreamsAssumption DEF StreamInv
<1>6. \A i \in StreamIds : Told(calls'[i], remote'[i], i \in trailers')
  BY DEF StreamInv, TypeOK, Told, Moves
<1> QED  BY <1>1, <1>2, <1>3, <1>4, <1>5, <1>6 DEF StreamInv, Moves

\* The close of a stream, told to its object if it has one.
LEMMA CloseKeeps ==
  ASSUME StreamInv, ~destroyed, NEW id \in StreamIds, close(id),
         local_end' \subseteq StreamIds, UNCHANGED <<unsent, trailers, writing, destroyed>>
  PROVE  StreamInv'
<1> DEFINE s == IF id \in stream_map THEN Append(calls[id], "close") ELSE calls[id]
<1>1. calls[id] \in Seq(Events) /\ Told(calls[id], remote[id], id \in trailers)
      /\ calls \in [StreamIds -> Seq(Events)]
  BY DEF StreamInv, TypeOK, Events
<1>2. Moves(id, "closed", s)
  BY <1>1 DEF close, call, Moves
<1>3. Sides
  BY DEF StreamInv, TypeOK, close, Sides
<1>4. Told(s, "closed", id \in trailers)
  <2>1. CASE id \in stream_map
    <3>1. remote[id] # "closed"
      BY <2>1 DEF StreamInv, Open
    <3>2. Ordered(calls[id]) /\ NotClosed(calls[id])
      BY <1>1, <3>1, DataIsOrdered DEF Told
    <3> QED  BY <1>1, <2>1, <3>2, AddClose DEF Told
  <2>2. CASE id \notin stream_map
    BY <1>1, <2>2 DEF Told
  <2> QED  BY <2>1, <2>2
<1> HIDE DEF s
<1> QED  BY <1>2, <1>3, <1>4, Closes DEF close

\* The end of the peer's half: told as what, and the close after it if the response was
\* complete.
LEMMA RemoteEndKeeps ==
  ASSUME StreamInv, ~destroyed, NEW id \in StreamIds, remote[id] \in {"open", "trailers"},
         NEW what \in {<<>>, <<"end">>}, RemoteEnds(id, what),
         trailers' \in {trailers, trailers \cup {id}},
         what = <<>> => id \in trailers', UNCHANGED <<local_end, unsent, writing, destroyed>>
  PROVE  StreamInv'
<1> DEFINE s == calls[id] \o what
<1>1. /\ calls \in [StreamIds -> Seq(Events)] /\ calls[id] \in Seq(Events) /\ AllData(calls[id])
      /\ id \in Open /\ stream_map = Open
  BY DEF StreamInv, TypeOK, Events, Told, Open
<1>2. Sides /\ trailers \subseteq trailers'
  BY DEF StreamInv, TypeOK, Sides, RemoteEnds
<1>3. s \in Seq(Events) /\ Ordered(s) /\ NotClosed(s) /\ (Ended(s) \/ id \in trailers')
  <2>1. CASE what = <<>>
    BY <1>1, <2>1, AddedCalls, DataIsOrdered DEF Events
  <2>2. CASE what = <<"end">>
    BY <1>1, <2>2, AddedCalls, AddEnd DEF Events
  <2> QED  BY <2>1, <2>2
<1> HIDE DEF s
<1>4. CASE id \in local_end
  <2>1. s \o <<"close">> = Append(s, "close")
    BY <1>3, AddedCalls DEF Events
  <2>2. Told(Append(s, "close"), "closed", id \in trailers')
    BY <1>3, AddClose DEF Told
  <2>3. Moves(id, "closed", Append(s, "close")) /\ destroy_stream(id)
    BY <1>1, <1>4, <2>1 DEF RemoteEnds, Moves, s
  <2> QED  BY <1>2, <2>2, <2>3, Closes
<1>5. CASE id \notin local_end
  <2>1. Moves(id, "ended", s) /\ UNCHANGED <<stream_map, allocated>>
    BY <1>1, <1>5 DEF RemoteEnds, Moves, s
  <2>2. Told(s, "ended", id \in trailers')
    BY <1>3 DEF Told
  <2> QED  BY <1>1, <1>2, <2>1, <2>2, StaysOpen DEF Remote
<1> QED  BY <1>4, <1>5

-----------------------------------------------------------------------------
\* A new session has no streams.
LEMMA InitStreams == Init => StreamInv
<1> SUFFICES ASSUME Init PROVE StreamInv
  OBVIOUS
<1>1. TypeOK
  <2>1. <<>> \in Seq({"data", "end", "close"})
    OBVIOUS
  <2>2. calls \in [StreamIds -> Seq({"data", "end", "close"})]
    BY <2>1 DEF Init
  <2> QED  BY <2>2 DEF Init, TypeOK, Remote
<1>2. Open = {} /\ stream_map = {} /\ Cardinality(stream_map) <= MaxStreams
  BY FS_EmptySet, StreamsAssumption DEF Init, Open
<1>3. \A id \in StreamIds : Told(calls[id], remote[id], id \in trailers)
  BY DEF Init, Told, Ordered, AllData
<1> QED  BY <1>1, <1>2, <1>3 DEF StreamInv, NoLeak, Init

\* A request begins: there is room for it in the map.
LEMMA BeginKeeps ==
  ASSUME StreamInv, NEW id \in StreamIds, BeginRequest(id)
  PROVE  StreamInv'
<1>1. stream_map = Open /\ id \notin stream_map /\ stream_map' = stream_map \cup {id}
  BY DEF StreamInv, BeginRequest, make_stream, Open
<1>2. Open' = Open \cup {id}
  BY DEF StreamInv, TypeOK, BeginRequest, Open
<1>3. Cardinality(stream_map') <= MaxStreams
  <2>1. IsFiniteSet(stream_map)
    BY StreamsAssumption, FS_Subset DEF StreamInv, TypeOK
  <2>2. Cardinality(stream_map') = Cardinality(stream_map) + 1 /\ Cardinality(stream_map) \in Nat
    BY <1>1, <2>1, FS_AddElement, FS_CardinalityType
  <2> QED  BY <1>1, <2>2, StreamsAssumption DEF BeginRequest
<1>4. TypeOK' /\ NoLeak'
  BY <1>1 DEF StreamInv, TypeOK, NoLeak, BeginRequest, make_stream, Remote
<1>5. \A i \in StreamIds : Told(calls'[i], remote'[i], i \in trailers')
  BY DEF StreamInv, TypeOK, BeginRequest, Told
<1> QED  BY <1>1, <1>2, <1>3, <1>4, <1>5 DEF StreamInv, BeginRequest

\* The destructor deletes what is in the map.
LEMMA DestroyKeeps ==
  ASSUME StreamInv, Destroy
  PROVE  StreamInv'
<1>1. TypeOK' /\ NoLeak'
  BY DEF StreamInv, TypeOK, NoLeak, Destroy
<1>2. stream_map' = {} /\ Cardinality(stream_map') <= MaxStreams
  BY FS_EmptySet, StreamsAssumption DEF Destroy
<1> QED  BY <1>1, <1>2 DEF StreamInv, Destroy

\* Every step keeps the invariant.
LEMMA NextStreams == StreamInv /\ [Next]_vars => StreamInv'
<1> SUFFICES ASSUME StreamInv, [Next]_vars PROVE StreamInv'
  OBVIOUS
<1>1. ASSUME NEW id \in StreamIds, HeadersRejected(id)
      PROVE  StreamInv'
  <2>1. id \in Open /\ Sides /\ UNCHANGED <<stream_map, allocated>> /\ ~destroyed
    BY <1>1 DEF StreamInv, TypeOK, HeadersRejected, Open, Sides
  <2>2. Moves(id, "rejected", calls[id])
    BY <1>1 DEF StreamInv, TypeOK, HeadersRejected, Moves
  <2>3. Told(calls[id], "rejected", id \in trailers')
    BY <1>1 DEF StreamInv, HeadersRejected, Told
  <2> QED  BY <1>1, <2>1, <2>2, <2>3, StaysOpen DEF HeadersRejected, Remote
<1>2. ASSUME NEW id \in StreamIds, NEW end_stream \in BOOLEAN, RequestReceived(id, end_stream)
      PROVE  StreamInv'
  <2> DEFINE r == IF end_stream THEN "ended" ELSE "open"
             s == IF end_stream THEN Append(calls[id], "end") ELSE calls[id]
  <2>1. id \in Open /\ id \in stream_map /\ Sides /\ UNCHANGED <<stream_map, allocated>> /\ ~destroyed
    BY <1>2 DEF StreamInv, TypeOK, RequestReceived, Open, Sides
  <2>2. Moves(id, r, s)
    BY <1>2, <2>1 DEF StreamInv, TypeOK, RequestReceived, call, Moves
  <2>3. calls[id] \in Seq(Events) /\ AllData(calls[id])
    BY <1>2 DEF StreamInv, RequestReceived, Told
  <2>4. Told(s, r, id \in trailers')
    BY <2>3, AddEnd, DataIsOrdered DEF Told
  <2> HIDE DEF s
  <2> QED  BY <1>2, <2>1, <2>2, <2>4, StaysOpen DEF RequestReceived, Remote
<1>3. ASSUME NEW id \in StreamIds, DataChunk(id)
      PROVE  StreamInv'
  <2>1. id \in Open /\ id \in stream_map /\ Sides /\ UNCHANGED <<stream_map, allocated>> /\ ~destroyed
    BY <1>3 DEF StreamInv, TypeOK, DataChunk, Open, Sides
  <2>2. Moves(id, "open", Append(calls[id], "data"))
    BY <1>3, <2>1 DEF StreamInv, TypeOK, DataChunk, call, Moves
  <2>3. calls[id] \in Seq(Events) /\ AllData(calls[id])
    BY <1>3 DEF StreamInv, DataChunk, Told
  <2>4. Told(Append(calls[id], "data"), "open", id \in trailers')
    BY <2>3, AddData, DataIsOrdered DEF Told
  <2> QED  BY <1>3, <2>1, <2>2, <2>4, StaysOpen DEF DataChunk, Remote
<1>4. ASSUME NEW id \in StreamIds, LastData(id)
      PROVE  StreamInv'
  BY <1>4, RemoteEndKeeps DEF LastData
<1>5. ASSUME NEW id \in StreamIds, BeginTrailers(id)
      PROVE  StreamInv'
  <2>1. id \in Open /\ Sides /\ UNCHANGED <<stream_map, allocated>> /\ ~destroyed
    BY <1>5 DEF StreamInv, TypeOK, BeginTrailers, Open, Sides
  <2>2. Moves(id, "trailers", calls[id])
    BY <1>5 DEF StreamInv, TypeOK, BeginTrailers, Moves
  <2>3. Told(calls[id], "trailers", id \in trailers')
    BY <1>5 DEF StreamInv, BeginTrailers, Told
  <2> QED  BY <1>5, <2>1, <2>2, <2>3, StaysOpen DEF BeginTrailers, Remote
<1>6. ASSUME NEW id \in StreamIds, TrailersReceived(id)
      PROVE  StreamInv'
  BY <1>6, RemoteEndKeeps DEF TrailersReceived
<1>7. ASSUME NEW id \in StreamIds, ResetReceived(id) \/ ResetSent(id)
      PROVE  StreamInv'
  BY <1>7, CloseKeeps DEF ResetReceived, ResetSent, StreamInv, TypeOK
<1>8. ASSUME NEW id \in StreamIds, ResponseSent(id)
      PROVE  StreamInv'
  <2>1. CASE remote[id] = "ended"
    BY <1>8, <2>1, CloseKeeps DEF ResponseSent, StreamInv, TypeOK
  <2>2. CASE remote[id] # "ended"
    BY <1>8, <2>2 DEF ResponseSent, StreamInv, TypeOK, Open, NoLeak, Told
  <2> QED  BY <2>1, <2>2
<1>9. ASSUME NEW id \in StreamIds, HeadersNotSent(id)
      PROVE  StreamInv'
  BY <1>9 DEF HeadersNotSent, StreamInv, TypeOK, Open, NoLeak, Told
<1>10. CASE WriteBegins \/ WriteEnds
  <2>1. /\ UNCHANGED <<stream_map, allocated, calls, remote, local_end, resetting>>
        /\ UNCHANGED <<unsent, trailers, destroyed>>
        /\ writing' \in BOOLEAN
    BY <1>10 DEF WriteBegins, WriteEnds
  <2>2. TypeOK'
    BY <2>1 DEF StreamInv, TypeOK
  <2>3. Open' = Open /\ NoLeak'
    BY <2>1 DEF StreamInv, Open, NoLeak
  <2> QED  BY <2>1, <2>2, <2>3 DEF StreamInv, Told
<1>11. CASE UNCHANGED vars
  BY <1>11 DEF vars, StreamInv, TypeOK, Open, NoLeak, Told
<1> QED  BY <1>1, <1>2, <1>3, <1>4, <1>5, <1>6, <1>7, <1>8, <1>9, <1>10, <1>11, BeginKeeps, DestroyKeeps DEF Next

\* The inductive invariant holds of every session: what on_begin_headers, on_frame_recv
\* and on_stream_close do to stream_map_ keeps it in step with nghttp2's streams
\* (http2_session.cpp:37-157).
THEOREM StreamsInvariant == Spec => []StreamInv
<1> QED  BY InitStreams, NextStreams, PTL DEF Spec

\* Every variable has its type: no object is deleted that was not made.
THEOREM StreamTypes == Spec => []TypeOK
<1>1. StreamInv => TypeOK
  BY DEF StreamInv
<1> QED  BY <1>1, StreamsInvariant, PTL

\* stream_map_ holds the open streams, MAX_CONCURRENT_STREAMS of them at most
\* (http2_session.hpp, make_stream and destroy_stream).
THEOREM MapFollowsStreams == Spec => []MapIsOpenStreams
<1>1. StreamInv => MapIsOpenStreams
  BY DEF StreamInv, MapIsOpenStreams
<1> QED  BY <1>1, StreamsInvariant, PTL

\* Each http2_stream is deleted once, by its close or by the destructor.
THEOREM NothingLeaks == Spec => []NoLeak
<1>1. StreamInv => NoLeak
  BY DEF StreamInv
<1> QED  BY <1>1, StreamsInvariant, PTL

\* A stream is told data, then at most one end, then at most one close, whatever the
\* order in which requests, trailers, resets and responses end.
THEOREM CallsAreOrdered == Spec => []CallsInOrder
<1>1. StreamInv => CallsInOrder
  BY DEF StreamInv, CallsInOrder, Told, Ordered
<1> QED  BY <1>1, StreamsInvariant, PTL

\* A request that ends without trailers is told to its stream.
THEOREM EndsAreReported == Spec => []EndReported
<1>1. StreamInv => EndReported
  BY DEF StreamInv, EndReported, Told, Ended
<1> QED  BY <1>1, StreamsInvariant, PTL
===============================================================================
