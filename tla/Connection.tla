------------------------------ MODULE Connection ------------------------------
(***************************************************************************)
(* One accepted connection: connection<Server, Socket> (connection.hpp)    *)
(* driving its handler, an http2_session (http2_session.hpp/.cpp), and the *)
(* accept handlers of server.hpp that start it.                            *)
(*                                                                         *)
(* Two threads touch a connection.  The accept handler runs on the         *)
(* acceptor's io_service and starts the deadline and, without TLS, the     *)
(* connection; every other handler runs on the connection's own            *)
(* io_service, which a single thread of the pool runs, so that handlers    *)
(* are executed one at a time.  "stack" is the call stack of that thread,  *)
(* innermost call first: handlers call write_data, write_data calls        *)
(* on_write, and nghttp2 calls back into the session from inside on_read   *)
(* and on_write.                                                           *)
(*                                                                         *)
(* nghttp2, boost::asio, the kernel and the peer are not in this           *)
(* repository; they are modelled by the calls the code makes to them.      *)
(* Bytes are numbered in the order in which nghttp2 serialises them.       *)
(***************************************************************************)
EXTENDS Naturals, Sequences

CONSTANTS
  ReadTimeout,       \* read_timeout_, in clock ticks
  HandshakeTimeout,  \* tls_handshake_timeout_, in clock ticks
  BufSize,           \* size of write_buffer_ (65536 bytes in the code)
  MaxChunk,          \* the most one nghttp2_session_mem_send call returns
  MaxBytes,          \* bound on the bytes nghttp2 ever queues for output
  PartialWrites      \* may async_write_some transmit less than it was given?

ASSUME ConnectionAssumption ==
  /\ ReadTimeout \in Nat \ {0}
  /\ HandshakeTimeout \in Nat \ {0}
  /\ BufSize \in Nat \ {0}
  /\ MaxChunk \in 1..BufSize
  /\ MaxBytes \in Nat \ {0}
  /\ PartialWrites \in BOOLEAN

VARIABLES
  tls,              \* is this a TLS connection (start_accept_tls)?
  phase,            \* how far the accept / handshake handlers have got
  stopped,          \* stopped_
  writing,          \* writing_
  stack,            \* calls in progress on the connection's thread
  write_buffer,     \* the bytes of write_buffer_ in use
  callback_inside,  \* callback_inside_
  output_data,      \* the bytes output_data_/output_size_ point to
  produced,         \* nghttp2: bytes queued for output so far
  taken,            \* nghttp2: bytes returned by mem_send so far
  term_at,          \* nghttp2: last byte of the terminating GOAWAY, 0 if none
  goaway,           \* nghttp2: has a GOAWAY been received?
  active,           \* nghttp2: is any stream open?
  hs, rd, wr,       \* the outstanding async handshake, read and write
  left,             \* ticks until deadline_ expires, or Never
  waiting,          \* async_waits pending on deadline_
  fired,            \* timeout_handler calls queued on the io_service
  wire,             \* history: the bytes the kernel accepted for the peer
  idle,             \* history: ticks since the last progress (ReadTimeout caps it)
  why               \* history: what stopped the connection

sessVars  == <<callback_inside, output_data, produced, taken, term_at, goaway, active>>
timerVars == <<left, waiting, fired>>
ioVars    == <<hs, rd, wr>>
vars == <<tls, phase, stopped, writing, stack, write_buffer, sessVars,
          ioVars, timerVars, wire, idle, why>>

Never == ReadTimeout + HandshakeTimeout + 1    \* pos_infin

Phases  == {"accepted", "armed", "ready", "handshake", "running", "failed"}
Ops     == {"none", "pending", "ok", "err"}
Reasons == {"none", "io", "session", "timeout", "drained", "tls"}

\* Every call stack the connection's thread can have between two steps.
Stacks == { <<>>, <<"on_read", "read_tail">>, <<"write_data", "read_tail">>,
            <<"on_write", "read_tail">>, <<"write_out", "read_tail">>,
            <<"read_tail">>, <<"write_data">>, <<"on_write">>, <<"write_out">> }

Running(f) == stack # <<>> /\ Head(stack) = f
Bytes(a, b) == [i \in 1..(b - a) |-> a + i]      \* bytes a+1 .. b

-----------------------------------------------------------------------------
(* nghttp2 *)

\* After the terminating GOAWAY has been handed out and mem_send was called again.
TermSent  == term_at > 0 /\ term_at <= taken - Len(output_data)
WantRead  == ~TermSent /\ (active \/ ~goaway)
WantWrite == ~TermSent /\ (taken < produced \/ output_data # <<>>)

\* Mutation: a session whose peer has gone away is over only after an error.
should_stop_fatal == TermSent

\* http2_session::should_stop
should_stop == ~WantRead /\ ~WantWrite

-----------------------------------------------------------------------------
(* Helpers of the connection *)

Aborted(op) == IF op = "pending" THEN "err" ELSE op

\* deadline_.expires_from_now(t): pending waits are cancelled, which queues
\* their handlers, and the expiry moves.
ExpiresFromNow(t) ==
  /\ left' = t
  /\ waiting' = 0
  /\ fired' = fired + waiting

\* deadline_.async_wait(timeout_handler)
AsyncWait == waiting' = waiting + 1

\* connection::stop, from a handler that leaves the read, write and handshake
\* operations as r, w and h.
stop(reason, h, r, w) ==
  IF stopped
  THEN /\ hs' = h /\ rd' = r /\ wr' = w
       /\ UNCHANGED <<stopped, why, timerVars>>
  ELSE /\ stopped' = TRUE
       /\ why' = reason
       /\ hs' = Aborted(h) /\ rd' = Aborted(r) /\ wr' = Aborted(w)
       /\ waiting' = 0
       /\ fired' = fired + waiting
       /\ UNCHANGED left

\* connection::read_data; a closed socket fails the read at once.
read_data ==
  /\ ExpiresFromNow(ReadTimeout)
  /\ rd' = IF stopped THEN "err" ELSE "pending"

\* The handlers bound to outstanding operations keep the object alive.
Alive == \/ phase \notin {"running", "failed"}
         \/ stack # <<>>
         \/ {hs, rd, wr} # {"none"}
         \/ waiting + fired > 0

\* Mutation: the guard does not set the flag.
no_guard(inside) == UNCHANGED callback_inside

\* The constructor and the destructor of callback_guard.
callback_guard(inside) == callback_inside' = inside

Call(f)   == stack' = <<f>> \o stack
Become(f) == stack' = <<f>> \o Tail(stack)     \* return, and go on with f
Return    == stack' = Tail(stack)

\* nghttp2 queues n more bytes for output.
Queue(n) == produced + n <= MaxBytes /\ produced' = produced + n

Limit == IF tls /\ phase \in {"armed", "handshake"} THEN HandshakeTimeout ELSE ReadTimeout

Init ==
  /\ tls \in BOOLEAN /\ phase = "accepted"
  /\ stopped = FALSE /\ writing = FALSE /\ stack = <<>> /\ write_buffer = <<>>
  /\ callback_inside = FALSE /\ output_data = <<>>
  /\ produced = 0 /\ taken = 0 /\ term_at = 0 /\ goaway = FALSE /\ active = FALSE
  /\ hs = "none" /\ rd = "none" /\ wr = "none"
  /\ left = Never /\ waiting = 0 /\ fired = 0
  /\ wire = <<>> /\ idle = 0 /\ why = "none"

-----------------------------------------------------------------------------
(* The accept handler, on the acceptor's thread *)

\* start_read_timeout or start_handshake_timeout
Arm ==
  /\ phase = "accepted"
  /\ phase' = "armed"
  /\ left' = IF tls THEN HandshakeTimeout ELSE ReadTimeout
  /\ AsyncWait
  /\ idle' = 0
  /\ UNCHANGED <<tls, stopped, writing, stack, write_buffer, sessVars, ioVars, fired, wire, why>>

\* socket().async_handshake; the deadline may have closed the socket already.
BeginHandshake ==
  /\ tls /\ phase = "armed"
  /\ phase' = "handshake"
  /\ hs' = IF stopped THEN "err" ELSE "pending"
  /\ UNCHANGED <<tls, stopped, writing, stack, write_buffer, sessVars, rd, wr,
                 timerVars, wire, idle, why>>

\* start(), handler_->start() failing
SessionFails(h) ==
  /\ stop("session", h, rd, wr)
  /\ phase' = "failed"
  /\ UNCHANGED <<tls, writing, stack, write_buffer, sessVars, wire, idle>>

\* start(), without TLS: handler_->start() queues the SETTINGS frame.
StartSession ==
  /\ ~tls /\ phase = "armed"
  /\ \/ SessionFails(hs)
     \/ /\ Queue(1)
        /\ phase' = "ready"
        /\ UNCHANGED <<tls, stopped, writing, stack, write_buffer, callback_inside,
             output_data, taken, term_at, goaway, active, ioVars, timerVars, wire, idle, why>>

\* start(), without TLS: the read_data call that ends it
FirstRead ==
  /\ phase = "ready"
  /\ phase' = "running"
  /\ read_data
  /\ idle' = 0
  /\ UNCHANGED <<tls, stopped, writing, stack, write_buffer, sessVars, hs, wr, wire, why>>

-----------------------------------------------------------------------------
(* Handlers run by the connection's thread *)

\* The handshake failed, or did not negotiate h2.
HandshakeRefused ==
  /\ stack = <<>> /\ hs \in {"ok", "err"}
  /\ phase' = "failed"
  /\ stop("tls", "none", rd, wr)
  /\ UNCHANGED <<tls, writing, stack, write_buffer, sessVars, wire, idle>>

\* The handshake succeeded: start(), which does not look at stopped_.
HandshakeDone ==
  /\ stack = <<>> /\ hs = "ok"
  /\ \/ SessionFails("none")
     \/ /\ Queue(1)
        /\ phase' = "running"
        /\ hs' = "none"
        /\ read_data
        /\ idle' = 0
        /\ UNCHANGED <<tls, stopped, writing, stack, write_buffer, callback_inside,
             output_data, taken, term_at, goaway, active, wr, wire, why>>

\* The read handler: enters on_read, or stops on an error.
ReadHandler ==
  /\ stack = <<>> /\ rd \in {"ok", "err"}
  /\ \/ /\ rd = "err"
        /\ stop("io", hs, "none", wr)
        /\ UNCHANGED <<stack, callback_inside, idle>>
     \/ /\ rd = "ok"
        /\ rd' = "none"
        /\ stack' = <<"on_read", "read_tail">>
        /\ callback_guard(TRUE)
        /\ idle' = 0
        /\ UNCHANGED <<stopped, why, hs, wr, timerVars>>
  /\ UNCHANGED <<tls, phase, writing, write_buffer, output_data, produced, taken,
                 term_at, goaway, active, wire>>

\* The write handler: an error stops the connection and leaves writing_ set.
WriteFailed ==
  /\ stack = <<>> /\ wr = "err"
  /\ stop("io", hs, rd, "none")
  /\ UNCHANGED <<tls, phase, writing, stack, write_buffer, sessVars, wire, idle>>

\* Mutation: the write handler does not go on writing.
WriteDoneIdles ==
  /\ stack = <<>> /\ wr = "ok"
  /\ wr' = "none" /\ writing' = FALSE
  /\ UNCHANGED <<tls, phase, stopped, stack, write_buffer, sessVars, hs, rd, timerVars, wire, idle, why>>

\* Mutation: writing_ stays set.
WriteDoneBusy ==
  /\ stack = <<>> /\ wr = "ok"
  /\ wr' = "none" /\ Call("write_data")
  /\ UNCHANGED <<tls, phase, stopped, writing, write_buffer, sessVars, hs, rd, timerVars, wire, idle, why>>

\* The write handler: clears writing_ and calls write_data.
WriteDone ==
  /\ stack = <<>> /\ wr = "ok"
  /\ wr' = "none" /\ writing' = FALSE
  /\ Call("write_data")
  /\ UNCHANGED <<tls, phase, stopped, write_buffer, sessVars, hs, rd, timerVars, wire, idle, why>>

\* timeout_handler runs when the deadline expires and for every wait that
\* expires_from_now or cancel has cancelled: it takes no error code.
notTimeout == <<tls, phase, writing, stack, write_buffer, sessVars, wire, idle>>

\* Mutation: a stopped connection waits again.
TimeoutRewaits ==
  /\ stack = <<>> /\ fired > 0 /\ stopped
  /\ fired' = fired - 1
  /\ AsyncWait
  /\ UNCHANGED <<notTimeout, stopped, why, ioVars, left>>

TimeoutIgnored ==
  /\ stack = <<>> /\ fired > 0 /\ stopped
  /\ fired' = fired - 1
  /\ UNCHANGED <<notTimeout, stopped, why, ioVars, left, waiting>>

\* stop(), then the deadline is put off for ever.
Expire ==
  /\ stack = <<>> /\ fired > 0 /\ ~stopped
  /\ stopped' = TRUE /\ why' = "timeout"
  /\ hs' = Aborted(hs) /\ rd' = Aborted(rd) /\ wr' = Aborted(wr)
  /\ left' = Never
  /\ waiting' = 0
  /\ fired' = fired - 1 + waiting
  /\ UNCHANGED notTimeout

TimeoutExpired == left = 0 /\ Expire

\* Mutation: the handler of a cancelled wait does not wait again.
TimeoutForgets ==
  /\ stack = <<>> /\ fired > 0 /\ ~stopped /\ left > 0
  /\ fired' = fired - 1
  /\ UNCHANGED <<notTimeout, stopped, why, ioVars, left, waiting>>

\* The deadline has moved: wait again.
TimeoutMoved ==
  /\ stack = <<>> /\ fired > 0 /\ ~stopped /\ left > 0
  /\ fired' = fired - 1
  /\ AsyncWait
  /\ UNCHANGED <<notTimeout, stopped, why, ioVars, left>>

\* Code outside the callbacks queues n bytes and calls signal_write.
Signal(n) ==
  /\ stack = <<>> /\ phase = "running" /\ Alive
  /\ Queue(n)
  /\ IF callback_inside THEN UNCHANGED stack ELSE Call("write_data")
  /\ UNCHANGED <<tls, phase, stopped, writing, write_buffer, callback_inside, output_data,
       taken, term_at, goaway, active, ioVars, timerVars, wire, idle, why>>

-----------------------------------------------------------------------------
(* Inside http2_session::on_read and on_write *)

notSession == <<tls, phase, stopped, writing, write_buffer, ioVars, timerVars, wire, idle, why>>

\* nghttp2 answers what it has read (SETTINGS, PING, WINDOW_UPDATE...).
RecvReply(n) ==
  /\ Running("on_read") /\ term_at = 0
  /\ Queue(n)
  /\ UNCHANGED <<notSession, stack, callback_inside, output_data, taken, term_at, goaway, active>>

\* Streams open or close.
RecvStream(open) ==
  /\ Running("on_read") /\ term_at = 0
  /\ active' = open
  /\ UNCHANGED <<notSession, stack, callback_inside, output_data, produced, taken, term_at, goaway>>

RecvGoAway ==
  /\ Running("on_read") /\ term_at = 0
  /\ goaway' = TRUE
  /\ UNCHANGED <<notSession, stack, callback_inside, output_data, produced, taken, term_at, active>>

\* A connection error: nghttp2 queues its terminating GOAWAY and ignores further input.
RecvFatal ==
  /\ Running("on_read") /\ term_at = 0
  /\ Queue(1)
  /\ term_at' = produced'
  /\ UNCHANGED <<notSession, stack, callback_inside, output_data, taken, goaway, active>>

\* A callback queues output and calls signal_write.
CallbackSignal(n) ==
  /\ Running("on_read") \/ Running("on_write")
  /\ Queue(n)
  /\ IF callback_inside THEN UNCHANGED stack ELSE Call("write_data")
  /\ UNCHANGED <<notSession, callback_inside, output_data, taken, term_at, goaway, active>>

\* on_read returns: true, and the read handler calls write_data; or false, and it stops.
OnReadReturns ==
  /\ Running("on_read")
  /\ callback_guard(FALSE)
  /\ \/ /\ Become("write_data")
        /\ UNCHANGED <<stopped, why, ioVars, timerVars>>
     \/ /\ stack' = <<>>
        /\ stop("session", hs, rd, wr)
  /\ UNCHANGED <<tls, phase, writing, write_buffer, output_data, produced, taken,
                 term_at, goaway, active, wire, idle>>

\* Sending the END_STREAM of the last open stream closes it.
StreamClosedOnSend ==
  /\ Running("on_write") /\ active
  /\ active' = FALSE
  /\ UNCHANGED <<notSession, stack, callback_inside, output_data, produced, taken, term_at, goaway>>

\* on_frame_not_send_callback: a RST_STREAM is queued for headers that cannot be sent.
FrameNotSent ==
  /\ Running("on_write")
  /\ Queue(1)
  /\ UNCHANGED <<notSession, stack, callback_inside, output_data, taken, term_at, goaway, active>>

-----------------------------------------------------------------------------
(* connection::write_data, in its steps *)

\* A write is in progress: its handler will call write_data again.
WriteBusy ==
  /\ Running("write_data") /\ writing
  /\ Return
  /\ UNCHANGED <<tls, phase, stopped, writing, write_buffer, sessVars, ioVars, timerVars,
                 wire, idle, why>>

\* on_write starts with the bytes the last one had no room for; keep is what
\* it leaves of them for the next one.
BeginOnWrite(keep) ==
  /\ Running("write_data")
  /\ Become("on_write")
  /\ callback_guard(TRUE)
  /\ write_buffer' = output_data
  /\ output_data' = keep
  /\ UNCHANGED <<tls, phase, stopped, writing, produced, taken, term_at, goaway, active,
                 ioVars, timerVars, wire, idle, why>>

\* Mutation: write_data does not look at writing_.
EnterUnguarded == BeginOnWrite(<<>>)

\* Mutation: output_data_ is not reset.
EnterKeeping == ~writing /\ BeginOnWrite(output_data)

EnterOnWrite == ~writing /\ BeginOnWrite(<<>>)

\* Mutation: bytes that do not fit are dropped.
MemSendDrops(n) ==
  /\ Running("on_write")
  /\ taken + n <= produced
  /\ taken' = taken + n
  /\ write_buffer' = IF Len(write_buffer) + n <= BufSize
                     THEN write_buffer \o Bytes(taken, taken + n) ELSE write_buffer
  /\ UNCHANGED <<tls, phase, stopped, writing, stack, callback_inside, output_data, produced,
                 term_at, goaway, active, ioVars, timerVars, wire, idle, why>>

\* One mem_send that returns n bytes: copied if they fit, else kept for the next on_write.
MemSend(n) ==
  /\ Running("on_write")
  /\ taken + n <= produced
  /\ taken' = taken + n
  /\ \/ /\ Len(write_buffer) + n <= BufSize
        /\ write_buffer' = write_buffer \o Bytes(taken, taken + n)
        /\ UNCHANGED <<stack, output_data, callback_inside>>
     \/ /\ Len(write_buffer) + n > BufSize
        /\ output_data' = Bytes(taken, taken + n)
        /\ callback_guard(FALSE)
        /\ Become("write_out")
        /\ UNCHANGED write_buffer
  /\ UNCHANGED <<tls, phase, stopped, writing, produced, term_at, goaway, active,
                 ioVars, timerVars, wire, idle, why>>

\* mem_send has nothing left (on_write returns true) or fails (write_data stops).
OnWriteReturns ==
  /\ Running("on_write")
  /\ callback_guard(FALSE)
  /\ \/ /\ taken = produced
        /\ Become("write_out")
        /\ UNCHANGED <<stopped, why, ioVars, timerVars>>
     \/ /\ Return
        /\ stop("session", hs, rd, wr)
  /\ UNCHANGED <<tls, phase, writing, write_buffer, output_data, produced, taken,
                 term_at, goaway, active, wire, idle>>

\* The rest of write_data: starts the write, or stops a session with nothing left to do.
write_out ==
  /\ Running("write_out")
  /\ Return
  /\ \/ /\ write_buffer = <<>> /\ should_stop
        /\ stop("drained", hs, rd, wr)
        /\ UNCHANGED <<writing, idle>>
     \/ /\ write_buffer = <<>> /\ ~should_stop
        /\ UNCHANGED <<stopped, why, ioVars, timerVars, writing, idle>>
     \/ /\ write_buffer # <<>>
        /\ writing' = TRUE
        /\ ExpiresFromNow(ReadTimeout)
        /\ wr' = IF stopped THEN "err" ELSE "pending"
        /\ idle' = 0
        /\ UNCHANGED <<stopped, why, hs, rd>>
  /\ UNCHANGED <<tls, phase, write_buffer, sessVars, wire>>

\* The end of the read handler; over: the session is to be stopped, again: it is to read on.
ReadTail(over, again) ==
  /\ Running("read_tail")
  /\ Return
  /\ \/ /\ over
        /\ stop("drained", hs, rd, wr)
     \/ /\ ~over /\ again
        /\ read_data
        /\ UNCHANGED <<stopped, why, hs, wr>>
     \/ /\ ~over /\ ~again
        /\ UNCHANGED <<stopped, why, ioVars, timerVars>>
  /\ UNCHANGED <<tls, phase, writing, write_buffer, sessVars, wire, idle>>

\* Mutation: stops although a write is in progress.
read_tail_hasty == ReadTail(should_stop, TRUE)

\* Mutation: does not read while a write is in progress.
read_tail_shy == ReadTail(~writing /\ should_stop, ~writing)

\* The rest of the read handler: stops a session with nothing left to do, or reads on.
read_tail == ReadTail(~writing /\ should_stop, TRUE)

-----------------------------------------------------------------------------
(* The peer, the kernel and the clock *)

HandshakeEnds(result) ==
  /\ hs = "pending"
  /\ hs' = result
  /\ UNCHANGED <<tls, phase, stopped, writing, stack, write_buffer, sessVars, rd, wr,
                 timerVars, wire, idle, why>>

PeerSends ==
  /\ rd = "pending"
  /\ rd' = "ok"
  /\ UNCHANGED <<tls, phase, stopped, writing, stack, write_buffer, sessVars, hs, wr,
                 timerVars, wire, idle, why>>

PeerCloses ==
  /\ rd = "pending"
  /\ rd' = "err"
  /\ UNCHANGED <<tls, phase, stopped, writing, stack, write_buffer, sessVars, hs, wr,
                 timerVars, wire, idle, why>>

\* async_write_some transmits the first k bytes it was given.
WriteAccepted(k) ==
  /\ wr = "pending"
  /\ IF PartialWrites THEN k \in 1..Len(write_buffer) ELSE k = Len(write_buffer)
  /\ wr' = "ok"
  /\ wire' = wire \o SubSeq(write_buffer, 1, k)
  /\ UNCHANGED <<tls, phase, stopped, writing, stack, write_buffer, sessVars, hs, rd,
                 timerVars, idle, why>>

WriteFails ==
  /\ wr = "pending"
  /\ wr' = "err"
  /\ UNCHANGED <<tls, phase, stopped, writing, stack, write_buffer, sessVars, hs, rd,
                 timerVars, wire, idle, why>>

Tick ==
  /\ left > 0 /\ left # Never
  /\ left' = left - 1
  /\ idle' = IF idle < Limit THEN idle + 1 ELSE idle
  /\ UNCHANGED <<tls, phase, stopped, writing, stack, write_buffer, sessVars, ioVars,
                 waiting, fired, wire, why>>

TimerFires ==
  /\ left = 0 /\ waiting > 0
  /\ fired' = fired + waiting
  /\ waiting' = 0
  /\ UNCHANGED <<tls, phase, stopped, writing, stack, write_buffer, sessVars, ioVars,
                 left, wire, idle, why>>

-----------------------------------------------------------------------------
AcceptThread == Arm \/ BeginHandshake \/ StartSession \/ FirstRead

Handlers == HandshakeRefused \/ HandshakeDone \/ ReadHandler \/ WriteFailed \/ WriteDone
            \/ TimeoutIgnored \/ TimeoutExpired \/ TimeoutMoved

App == \E n \in 0..1 : Signal(n) \/ CallbackSignal(n)

Nghttp2 == \/ \E n \in 1..2 : RecvReply(n)
           \/ \E open \in BOOLEAN : RecvStream(open)
           \/ RecvGoAway \/ RecvFatal \/ StreamClosedOnSend \/ FrameNotSent

Calls == \/ OnReadReturns \/ OnWriteReturns \/ WriteBusy \/ EnterOnWrite
         \/ write_out \/ read_tail
         \/ \E n \in 1..MaxChunk : MemSend(n)

Environment == \/ \E result \in {"ok", "err"} : HandshakeEnds(result)
               \/ PeerSends \/ PeerCloses \/ WriteFails
               \/ \E k \in 1..BufSize : WriteAccepted(k)

Clock == Tick \/ TimerFires

Next == AcceptThread \/ Handlers \/ App \/ Nghttp2 \/ Calls \/ Environment \/ Clock

\* The threads keep running and time passes; a thread's io_service is a FIFO
\* queue, so a queued handler is reached however many others are queued.
\* Nothing is assumed of the peer, of the kernel or of the application.
Fairness ==
  /\ WF_vars(AcceptThread) /\ WF_vars(Calls) /\ WF_vars(Tick) /\ WF_vars(TimerFires)
  /\ SF_vars(HandshakeRefused \/ HandshakeDone)
  /\ SF_vars(ReadHandler) /\ SF_vars(WriteFailed \/ WriteDone)
  /\ SF_vars(TimeoutIgnored \/ TimeoutExpired \/ TimeoutMoved)

Spec == Init /\ [][Next]_vars

FairSpec == Spec /\ Fairness

-----------------------------------------------------------------------------
TypeConn ==
  /\ tls \in BOOLEAN /\ phase \in Phases
  /\ stopped \in BOOLEAN /\ writing \in BOOLEAN /\ stack \in Stacks
  /\ callback_inside \in BOOLEAN /\ goaway \in BOOLEAN /\ active \in BOOLEAN
  /\ hs \in Ops /\ rd \in Ops /\ wr \in Ops
  /\ why \in Reasons

TypeBytes ==
  /\ write_buffer \in Seq(Nat) /\ output_data \in Seq(Nat) /\ wire \in Seq(Nat)
  /\ produced \in 0..MaxBytes /\ taken \in 0..produced /\ term_at \in 0..produced

TypeTimer == left \in 0..Never /\ waiting \in Nat /\ fired \in Nat /\ idle \in Nat

\* Every variable has its type; in particular the connection's thread has one
\* of the listed call stacks, and nghttp2 never returns a byte it was not given.
TypeOK == TypeConn /\ TypeBytes /\ TypeTimer

\* writing_ is set while a write is outstanding, and on an open connection
\* only then: no second write is started on a busy socket, and none is
\* withheld from an idle one (write_data, connection.hpp:148-186).
WriteSerial == /\ wr # "none" => writing
               /\ ~stopped => (writing => wr # "none")

\* write_buffer_ is not touched while the kernel reads it: the buffer is
\* refilled only by on_write, which only an idle write_data calls.
BufferStable == [][wr = "pending" => write_buffer' = write_buffer]_vars

\* callback_inside_ is set exactly while the session is inside on_read or
\* on_write, so nghttp2 is never re-entered through signal_write
\* (http2_session.hpp:105-109, 141-153).
NoReentry == callback_inside <=> (Running("on_read") \/ Running("on_write"))

\* Bytes kept for the next on_write, which point into nghttp2's memory, are
\* copied out before mem_send is called again (http2_session.hpp:67-89), and
\* wait only for the write that had no room for them.
StashValid == output_data # <<>> => /\ ~Running("on_write")
                                    /\ writing \/ Running("write_out") \/ Running("write_data")

\* On an open connection, output waits only for the write in progress.  The
\* exception is the SETTINGS frame of start(), which calls no write_data.
NoLostWrite == stack = <<>> /\ phase = "running" /\ ~stopped /\ ~writing /\ WantWrite
               => taken = 0

\* A connection whose session is over is stopped at once, not left to its deadline.
NoLinger == stack = <<>> /\ phase = "running" /\ ~stopped /\ ~writing
            => WantRead \/ WantWrite

\* A connection with nothing more to do is closed only after everything
\* nghttp2 queued was handed to the socket and the socket is done with it.
DrainedStop ==
  [][why' # why /\ why' = "drained" => taken = produced /\ output_data = <<>> /\ wr = "none"]_vars

\* Until the connection is stopped exactly one timeout_handler is due: every
\* expires_from_now cancels a wait, and the cancelled handler waits again.
TimerArmed == phase # "accepted" /\ ~stopped => waiting + fired = 1

\* An open connection always reads, with one read at a time: there is one
\* outstanding except while its handler runs.
ReadPosted == phase = "running" /\ ~stopped
              => (rd = "none" <=> \E i \in DOMAIN stack : stack[i] = "read_tail")

\* The deadline closes a connection only after a whole time limit without a
\* received block of data or the start of a write, in spite of the handlers
\* of cancelled waits, which run with no error code to tell them apart.
NoEarlyTimeout == [][why' # why /\ why' = "timeout" => idle >= Limit]_vars

\* Bytes reach the peer in the order in which nghttp2 produced them, none twice.
WireInOrder == \A i, j \in DOMAIN wire : i < j => wire[i] < wire[j]

\* No byte is left out: the peer receives a prefix of what nghttp2 produced.
WireGapFree == \A i \in DOMAIN wire : wire[i] = i

\* A connection whose peer falls silent is stopped.
SilentPeerDropped == []<><<PeerSends>>_vars \/ <>stopped

\* Stopping a connection releases it: every outstanding operation completes,
\* and the last handler drops the last reference to it.
StopReleases == stopped ~> ~Alive

\* If writes complete, everything queued after the first write is sent, unless
\* the connection is stopped.
EverythingSent == []<>(wr # "pending") =>
  \A n \in 1..MaxBytes : (taken > 0 /\ produced >= n) ~> (Len(wire) >= n \/ stopped)

\* The inductive invariant behind the proofs: the write buffer is filled only
\* while no write is in progress, a handshake is awaited in its phase only,
\* and nothing waits on the deadline of a connection not yet accepted.
Coupling ==
  /\ Running("on_write") \/ Running("write_out") => ~writing
  /\ hs # "none" => phase = "handshake"
  /\ phase = "accepted" => waiting = 0 /\ fired = 0
ConnInv == TypeOK /\ NoReentry /\ Coupling /\ WriteSerial /\ TimerArmed

\* The connection implements OutputStream: what nghttp2 serialises is what is
\* queued, and stop() closes the stream.
Stream == INSTANCE OutputStream WITH queued <- produced, out <- wire, closed <- stopped
ImplementsStream == Stream!Spec
=============================================================================
