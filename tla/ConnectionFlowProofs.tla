------------------------- MODULE ConnectionFlowProofs -------------------------
(***************************************************************************)
(* Proofs about Connection, for every value of its constants: reading, the *)
(* deadline, and the way of a byte from nghttp2 to the peer.               *)
(***************************************************************************)
EXTENDS ConnectionProofs

\* The connection's thread is in the read handler.
InRead == stack \in { <<"on_read", "read_tail">>, <<"write_data", "read_tail">>,
                      <<"on_write", "read_tail">>, <<"write_out", "read_tail">>,
                      <<"read_tail">> }

\* Nothing is read, written or serialised before the session has started.
Quiet == phase # "running" =>
  /\ stack = <<>> /\ ~writing /\ rd = "none" /\ wr = "none"
  /\ taken = 0 /\ term_at = 0 /\ ~goaway /\ ~active
  /\ write_buffer = <<>> /\ output_data = <<>> /\ wire = <<>>
  /\ phase = "failed" => stopped

\* An open connection has a read outstanding, or is in the read handler.
Reading == phase = "running" /\ ~stopped => (rd = "none" <=> InRead)

\* The deadline leaves what is left of the limit; the read handler, which has
\* received something, has yet to move it.
Deadline == phase # "accepted" /\ ~stopped /\ ~InRead => left + idle >= Limit

\* The read handler's tail is at the bottom of the call stack.
LEMMA ReadStack ==
  ASSUME stack \in Stacks
  PROVE  (\E i \in DOMAIN stack : stack[i] = "read_tail") <=> InRead
BY DEF Stacks, InRead

\* What a step inside a call does to the call stack.
LEMMA BecomeKeepsRead ==
  ASSUME stack \in Stacks, NEW g \in WriteCalls, Become(g),
         \E f \in WriteCalls \cup {"on_read"} : Running(f)
  PROVE  InRead' <=> InRead
<1>1. stack # <<>> /\ stack # <<"read_tail">>
  BY DEF Running, WriteCalls
<1>2. PICK f \in WriteCalls \cup {"on_read"} : stack \in {<<f>>, <<f, "read_tail">>}
  BY <1>1 DEF Stacks, WriteCalls
<1>3. CASE stack = <<f>>
  <2>1. stack' = <<g>> /\ f \in WriteCalls
    BY <1>2, <1>3, StackReturn, StackCall DEF Become, Stacks, WriteCalls
  <2> QED  BY <1>3, <2>1 DEF InRead, WriteCalls
<1>4. CASE stack = <<f, "read_tail">>
  <2>1. stack' = <<g, "read_tail">>
    BY <1>4, StackReturn, StackCall DEF Become
  <2> QED  BY <1>4, <2>1 DEF InRead, WriteCalls
<1> QED  BY <1>2, <1>3, <1>4

\* A call inside write_data that returns leaves the read handler, or nothing.
LEMMA ReturnKeepsRead ==
  ASSUME stack \in Stacks, Return, NEW f \in WriteCalls, Running(f)
  PROVE  stack' = IF InRead THEN <<"read_tail">> ELSE <<>>
<1>1. stack \in {<<f>>, <<f, "read_tail">>}
  BY StackCases DEF WriteCalls
<1>2. CASE stack = <<f>>
  BY <1>2, StackReturn DEF Return, InRead, WriteCalls
<1>3. CASE stack = <<f, "read_tail">>
  BY <1>3, StackReturn DEF Return, InRead, WriteCalls
<1> QED  BY <1>1, <1>2, <1>3

\* A call inside write_data that returns leaves the read handler, if any, running.
LEMMA ReturnSame ==
  ASSUME stack \in Stacks, Return, NEW f \in WriteCalls, Running(f)
  PROVE  InRead' <=> InRead
<1>1. CASE InRead
  <2>1. stack' = <<"read_tail">>
    BY <1>1, ReturnKeepsRead
  <2> QED  BY <1>1, <2>1 DEF InRead
<1>2. CASE ~InRead
  <2>1. stack' = <<>>
    BY <1>2, ReturnKeepsRead
  <2>2. ~InRead'
    BY <2>1 DEF InRead
  <2> QED  BY <1>2, <2>2
<1> QED  BY <1>1, <1>2

\* The stacks the handlers and the application start from and leave.
LEMMA ReadStacks ==
  /\ stack = <<>> => ~InRead
  /\ stack = <<"write_data">> => ~InRead
  /\ stack = <<"read_tail">> => InRead
  /\ stack = <<"on_read", "read_tail">> => InRead
BY DEF InRead

\* The session's calls are made once it has started.
LEMMA QuietStep ==
  ASSUME ConnInv, Quiet, [Next]_vars
  PROVE  Quiet'
<1> USE DEF ConnInv, TypeOK, TypeConn, Coupling, WriteSerial, Quiet, Running, sessVars, timerVars, ioVars
<1>1. CASE AcceptThread
  BY <1>1 DEF AcceptThread, Arm, BeginHandshake, StartSession, SessionFails, stop, FirstRead, Aborted
<1>2. CASE HandshakeRefused
  BY <1>2 DEF HandshakeRefused, stop, Aborted
<1>3. CASE HandshakeDone
  BY <1>3 DEF HandshakeDone, SessionFails, stop, Aborted
<1>4. CASE ReadHandler
  BY <1>4 DEF ReadHandler
<1>5. CASE WriteFailed \/ WriteDone
  BY <1>5 DEF WriteFailed, WriteDone
<1>6. CASE TimeoutIgnored \/ TimeoutExpired \/ TimeoutMoved
  BY <1>6 DEF TimeoutIgnored, TimeoutExpired, Expire, TimeoutMoved, notTimeout, Aborted
<1>7. CASE App
  BY <1>7 DEF App, Signal, CallbackSignal, notSession
<1>8. CASE Nghttp2
  BY <1>8 DEF Nghttp2, RecvReply, RecvStream, RecvGoAway, RecvFatal, StreamClosedOnSend,
              FrameNotSent, notSession
<1>9. CASE Calls
  BY <1>9 DEF Calls, OnReadReturns, OnWriteReturns, WriteBusy, EnterOnWrite, BeginOnWrite,
              write_out, read_tail, ReadTail, MemSend
<1>10. CASE Environment
  BY <1>10 DEF Environment, HandshakeEnds, PeerSends, PeerCloses, WriteFails, WriteAccepted
<1>11. CASE Clock
  BY <1>11 DEF Clock, Tick, TimerFires
<1>12. CASE UNCHANGED vars
  BY <1>12 DEF vars
<1> QED  BY <1>1, <1>2, <1>3, <1>4, <1>5, <1>6, <1>7, <1>8, <1>9, <1>10, <1>11, <1>12
         DEF Next, Handlers

\* Every step of an open connection leaves a read outstanding or in its handler.
LEMMA ReadingStep ==
  ASSUME ConnInv, Quiet, Reading, [Next]_vars
  PROVE  Reading'
<1> USE DEF ConnInv, TypeOK, TypeConn, Quiet, Reading, sessVars, timerVars, ioVars
<1>1. CASE AcceptThread
  <2>1. stack' = stack
    BY <1>1 DEF AcceptThread, Arm, BeginHandshake, StartSession, SessionFails, FirstRead
  <2> QED  BY <1>1, <2>1, ReadStacks DEF InRead, AcceptThread, Arm, BeginHandshake, StartSession,
                                SessionFails, FirstRead, read_data, Phases
<1>2. CASE HandshakeRefused
  BY <1>2 DEF HandshakeRefused
<1>3. CASE HandshakeDone
  BY <1>3, ReadStacks DEF HandshakeDone, SessionFails, read_data, InRead
<1>4. CASE ReadHandler
  BY <1>4 DEF ReadHandler, stop, InRead
<1>5. CASE WriteFailed
  BY <1>5 DEF WriteFailed, stop, InRead
<1>6. CASE WriteDone
  <2>1. stack' = <<"write_data">> /\ stack = <<>>
    BY <1>6, CallStep DEF WriteDone
  <2> QED  BY <1>6, <2>1 DEF WriteDone, InRead
<1>7. CASE TimeoutIgnored \/ TimeoutExpired \/ TimeoutMoved
  BY <1>7 DEF TimeoutIgnored, TimeoutExpired, Expire, TimeoutMoved, notTimeout, InRead
<1>8. ASSUME NEW n \in 0..1, Signal(n)  PROVE Reading'
  <2>1. stack = <<>> /\ stack' \in {<<>>, <<"write_data">>}
    BY <1>8, CallStep DEF Signal
  <2>2. ~InRead
    BY <2>1 DEF InRead
  <2>4. ~InRead'
    <3>1. CASE stack' = <<>>
      BY <3>1 DEF InRead
    <3>2. CASE stack' = <<"write_data">>
      BY <3>2 DEF InRead
    <3> QED  BY <2>1, <3>1, <3>2
  <2>3. UNCHANGED <<phase, stopped, rd>>
    BY <1>8 DEF Signal
  <2> QED  BY <2>2, <2>3, <2>4
<1>9. ASSUME NEW n \in 0..1, CallbackSignal(n)  PROVE Reading'
  BY <1>9 DEF CallbackSignal, NoReentry, notSession, InRead
<1>10. CASE Nghttp2
  BY <1>10 DEF Nghttp2, RecvReply, RecvStream, RecvGoAway, RecvFatal, StreamClosedOnSend,
               FrameNotSent, notSession, InRead
<1>11. CASE OnReadReturns
  <2>1. CASE Become("write_data")
    <3>1. InRead' <=> InRead
      BY <1>11, <2>1, BecomeKeepsRead DEF OnReadReturns, WriteCalls
    <3> QED  BY <1>11, <2>1, <3>1 DEF OnReadReturns, stop
  <2> QED  BY <1>11, <2>1 DEF OnReadReturns, stop
<1>12. CASE OnWriteReturns
  <2>1. CASE Become("write_out")
    <3>1. InRead' <=> InRead
      BY <1>12, <2>1, BecomeKeepsRead DEF OnWriteReturns, WriteCalls
    <3> QED  BY <1>12, <2>1, <3>1 DEF OnWriteReturns, stop
  <2> QED  BY <1>12, <2>1 DEF OnWriteReturns, stop
<1>13. CASE WriteBusy
  <2>1. InRead' <=> InRead
    <3>1. Running("write_data") /\ Return
      BY <1>13 DEF WriteBusy
    <3> QED  BY <3>1, ReturnSame DEF WriteCalls
  <2> QED  BY <1>13, <2>1 DEF WriteBusy
<1>14. CASE EnterOnWrite
  <2>1. InRead' <=> InRead
    BY <1>14, BecomeKeepsRead DEF EnterOnWrite, BeginOnWrite, WriteCalls
  <2> QED  BY <1>14, <2>1 DEF EnterOnWrite, BeginOnWrite
<1>15. CASE write_out
  <2>1. InRead' <=> InRead
    <3>1. Running("write_out") /\ Return
      BY <1>15 DEF write_out
    <3> QED  BY <3>1, ReturnSame DEF WriteCalls
  <2> QED  BY <1>15, <2>1 DEF write_out, stop
<1>16. CASE read_tail
  <2>1. stack' = <<>>
    BY <1>16, ReturnStep DEF read_tail, ReadTail
  <2> QED  BY <1>16, <2>1 DEF read_tail, ReadTail, stop, read_data, InRead
<1>17. ASSUME NEW n \in 1..MaxChunk, MemSend(n)  PROVE Reading'
  <2>1. InRead' <=> InRead
    <3>1. CASE Become("write_out")
      BY <1>17, <3>1, BecomeKeepsRead DEF MemSend, WriteCalls
    <3> QED  BY <1>17, <3>1 DEF MemSend, InRead
  <2> QED  BY <1>17, <2>1 DEF MemSend
<1>18. CASE Environment
  BY <1>18 DEF Environment, HandshakeEnds, PeerSends, PeerCloses, WriteFails, WriteAccepted, InRead
<1>19. CASE Clock
  BY <1>19 DEF Clock, Tick, TimerFires, InRead
<1>20. CASE UNCHANGED vars
  BY <1>20 DEF vars, InRead
<1> QED  BY <1>1, <1>2, <1>3, <1>4, <1>5, <1>6, <1>7, <1>8, <1>9, <1>10, <1>11, <1>12, <1>13,
            <1>14, <1>15, <1>16, <1>17, <1>18, <1>19, <1>20
         DEF Next, Handlers, App, Calls

\* Every step leaves the deadline what is left of the limit.
LEMMA DeadlineStep ==
  ASSUME ConnInv, Quiet, Deadline, [Next]_vars
  PROVE  Deadline'
<1> USE DEF ConnInv, TypeOK, TypeConn, TypeTimer, Quiet, Deadline, sessVars, timerVars, ioVars
<1>0. ReadTimeout \in Nat /\ HandshakeTimeout \in Nat /\ Never \in Nat
      /\ left \in Nat /\ idle \in Nat /\ Limit \in Nat /\ Never >= Limit
  BY ConnectionAssumption DEF Never, Limit
<1>1. CASE AcceptThread
  <2>1. stack' = stack /\ tls' = tls
    BY <1>1 DEF AcceptThread, Arm, BeginHandshake, StartSession, SessionFails, FirstRead
  <2>2. CASE Arm
    BY <1>0, <2>1, <2>2 DEF Arm, Limit
  <2>3. CASE BeginHandshake
    BY <2>1, <2>3 DEF BeginHandshake, Limit, InRead
  <2>4. CASE StartSession
    BY <2>1, <2>4 DEF StartSession, SessionFails, stop, Limit, InRead
  <2>5. CASE FirstRead
    BY <1>0, <2>1, <2>5 DEF FirstRead, read_data, ExpiresFromNow, Limit
  <2> QED  BY <1>1, <2>2, <2>3, <2>4, <2>5 DEF AcceptThread
<1>2. CASE HandshakeRefused
  BY <1>2 DEF HandshakeRefused, stop
<1>3. CASE HandshakeDone
  BY <1>0, <1>3 DEF HandshakeDone, SessionFails, read_data, ExpiresFromNow, Limit, stop
<1>4. CASE ReadHandler
  BY <1>4 DEF ReadHandler, stop, InRead
<1>5. CASE WriteFailed
  BY <1>5 DEF WriteFailed, stop
<1>6. CASE WriteDone
  <2>1. stack = <<>> /\ ~InRead
    BY <1>6 DEF WriteDone, InRead
  <2> QED  BY <1>6, <2>1 DEF WriteDone, Limit
<1>7. CASE TimeoutIgnored \/ TimeoutExpired \/ TimeoutMoved
  BY <1>7 DEF TimeoutIgnored, TimeoutExpired, Expire, TimeoutMoved, notTimeout, InRead, Limit
<1>8. ASSUME NEW n \in 0..1, Signal(n)  PROVE Deadline'
  <2>1. stack = <<>> /\ ~InRead
    BY <1>8 DEF Signal, InRead
  <2> QED  BY <1>8, <2>1 DEF Signal, Limit
<1>9. ASSUME NEW n \in 0..1, CallbackSignal(n)  PROVE Deadline'
  BY <1>9 DEF CallbackSignal, NoReentry, notSession, InRead, Limit
<1>10. CASE Nghttp2
  BY <1>10 DEF Nghttp2, RecvReply, RecvStream, RecvGoAway, RecvFatal, StreamClosedOnSend,
               FrameNotSent, notSession, InRead, Limit
<1>11. CASE OnReadReturns
  <2>1. CASE Become("write_data")
    <3>1. InRead' <=> InRead
      BY <1>11, <2>1, BecomeKeepsRead DEF OnReadReturns, WriteCalls
    <3> QED  BY <1>11, <2>1, <3>1 DEF OnReadReturns, stop, Limit
  <2> QED  BY <1>11, <2>1 DEF OnReadReturns, stop
<1>12. CASE OnWriteReturns
  <2>1. CASE Become("write_out")
    <3>1. InRead' <=> InRead
      BY <1>12, <2>1, BecomeKeepsRead DEF OnWriteReturns, WriteCalls
    <3> QED  BY <1>12, <2>1, <3>1 DEF OnWriteReturns, stop, Limit
  <2> QED  BY <1>12, <2>1 DEF OnWriteReturns, stop
<1>13. CASE WriteBusy
  <2>1. InRead' <=> InRead
    <3>1. Running("write_data") /\ Return
      BY <1>13 DEF WriteBusy
    <3> QED  BY <3>1, ReturnSame DEF WriteCalls
  <2> QED  BY <1>13, <2>1 DEF WriteBusy, Limit
<1>14. CASE EnterOnWrite
  <2>1. InRead' <=> InRead
    BY <1>14, BecomeKeepsRead DEF EnterOnWrite, BeginOnWrite, WriteCalls
  <2> QED  BY <1>14, <2>1 DEF EnterOnWrite, BeginOnWrite, Limit
<1>15. CASE write_out
  <2>1. InRead' <=> InRead
    <3>1. Running("write_out") /\ Return
      BY <1>15 DEF write_out
    <3> QED  BY <3>1, ReturnSame DEF WriteCalls
  <2>2. phase = "running"
    BY <1>15 DEF write_out, Running
  <2> QED  BY <1>0, <1>15, <2>1, <2>2 DEF write_out, stop, ExpiresFromNow, Limit
<1>16. CASE read_tail
  <2>1. phase = "running"
    BY <1>16 DEF read_tail, ReadTail, Running
  <2> QED  BY <1>0, <1>16, <2>1 DEF read_tail, ReadTail, stop, read_data, ExpiresFromNow, Limit
<1>17. ASSUME NEW n \in 1..MaxChunk, MemSend(n)  PROVE Deadline'
  <2>1. InRead' <=> InRead
    <3>1. CASE Become("write_out")
      BY <1>17, <3>1, BecomeKeepsRead DEF MemSend, WriteCalls
    <3> QED  BY <1>17, <3>1 DEF MemSend, InRead
  <2> QED  BY <1>17, <2>1 DEF MemSend, Limit
<1>18. CASE Environment
  BY <1>18 DEF Environment, HandshakeEnds, PeerSends, PeerCloses, WriteFails, WriteAccepted,
               InRead, Limit
<1>19. CASE Tick
  BY <1>0, <1>19 DEF Tick, InRead, Limit
<1>20. CASE TimerFires
  BY <1>20 DEF TimerFires, InRead, Limit
<1>21. CASE UNCHANGED vars
  BY <1>21 DEF vars, InRead, Limit
<1> QED  BY <1>1, <1>2, <1>3, <1>4, <1>5, <1>6, <1>7, <1>8, <1>9, <1>10, <1>11, <1>12, <1>13,
            <1>14, <1>15, <1>16, <1>17, <1>18, <1>19, <1>20, <1>21
         DEF Next, Handlers, App, Calls, Clock

-----------------------------------------------------------------------------
(* The session's output: nothing is held back, nothing ends too early *)

\* Between two handlers, with no write in progress, on an open connection.
Idle == stack = <<>> /\ phase = "running" /\ ~stopped /\ ~writing

\* What is kept back waits for a write; an idle connection keeps nothing back
\* and is not over.
Kept ==
  /\ Len(write_buffer) <= BufSize /\ Len(output_data) <= BufSize
  /\ output_data # <<>> => /\ ~Running("on_write")
                           /\ writing \/ Running("write_out") \/ Running("write_data")
  /\ Running("write_out") => \/ output_data # <<>> /\ write_buffer # <<>>
                             \/ output_data = <<>> /\ taken = produced
  /\ Running("read_tail") /\ ~writing /\ ~stopped => taken = produced
  /\ Idle => (taken = 0 \/ taken = produced) /\ ~should_stop

\* Every step keeps the kept chunk for the next on_write, and leaves an idle
\* connection with nothing to send and something to wait for.
LEMMA KeptStep ==
  ASSUME ConnInv, Quiet, Kept, [Next]_vars
  PROVE  Kept'
<1> USE DEF ConnInv, TypeOK, TypeConn, TypeBytes, WriteSerial, Coupling, Quiet, Kept, Idle,
            sessVars, timerVars, ioVars
<1>0. /\ BufSize \in Nat /\ MaxChunk \in 1..BufSize
      /\ Len(write_buffer) \in Nat /\ Len(output_data) \in Nat
  BY ConnectionAssumption
<1>1. CASE AcceptThread
  <2>1. stack' = <<>> /\ stack = <<>> /\ output_data' = <<>> /\ write_buffer' = <<>>
        /\ taken' = 0 /\ term_at' = 0 /\ ~goaway' /\ output_data = <<>>
    BY <1>1 DEF AcceptThread, Arm, BeginHandshake, StartSession, SessionFails, FirstRead
  <2>2. ~should_stop'
    BY <2>1 DEF should_stop, WantRead, TermSent
  <2> QED  BY <1>0, <2>1, <2>2 DEF Running
<1>2. CASE HandshakeRefused \/ HandshakeDone
  <2>1. stack' = <<>> /\ stack = <<>> /\ output_data' = <<>> /\ write_buffer' = <<>>
        /\ taken' = 0 /\ term_at' = 0 /\ ~goaway' /\ output_data = <<>>
    BY <1>2 DEF HandshakeRefused, HandshakeDone, SessionFails
  <2>2. ~should_stop'
    BY <2>1 DEF should_stop, WantRead, TermSent
  <2> QED  BY <1>0, <2>1, <2>2 DEF Running
<1>3. CASE UNCHANGED <<stack, write_buffer, output_data, taken, produced, writing, term_at, goaway,
                       active, phase>> /\ (stopped => stopped')
  BY <1>3 DEF Running, should_stop, WantRead, WantWrite, TermSent
<1>4. CASE ReadHandler
  <2>1. CASE rd = "err"
    BY <1>3, <1>4, <2>1 DEF ReadHandler, stop
  <2>2. CASE rd = "ok"
    <3>1. stack = <<>> /\ stack' = <<"on_read", "read_tail">>
          /\ UNCHANGED <<writing, write_buffer, output_data>>
      BY <1>4, <2>2 DEF ReadHandler
    <3> QED  BY <3>1 DEF Running
  <2> QED  BY <1>4, <2>1, <2>2 DEF ReadHandler
<1>5. CASE WriteFailed
  BY <1>3, <1>5 DEF WriteFailed, stop
<1>6. CASE WriteDone
  <2>1. stack' = <<"write_data">> /\ stack = <<>>
    BY <1>6, CallStep DEF WriteDone
  <2> QED  BY <1>6, <2>1 DEF WriteDone, Running
<1>7. CASE TimeoutIgnored \/ TimeoutExpired \/ TimeoutMoved
  BY <1>3, <1>7 DEF TimeoutIgnored, TimeoutExpired, Expire, TimeoutMoved, notTimeout
<1>8. ASSUME NEW n \in 0..1, Signal(n)  PROVE Kept'
  <2>1. stack = <<>> /\ stack' = <<"write_data">>
    BY <1>8, CallStep DEF Signal, NoReentry, Running
  <2> QED  BY <1>8, <2>1 DEF Signal, Running
<1>9. ASSUME NEW n \in 0..1, CallbackSignal(n)  PROVE Kept'
  BY <1>9 DEF CallbackSignal, NoReentry, notSession, Running
<1>10. CASE Nghttp2
  BY <1>10 DEF Nghttp2, RecvReply, RecvStream, RecvGoAway, RecvFatal, StreamClosedOnSend,
               FrameNotSent, notSession, Running
<1>11. CASE OnReadReturns
  <2>1. CASE Become("write_data")
    <3>1. Running("write_data")'
      BY <1>11, <2>1, BecomeStep DEF OnReadReturns, WriteCalls
    <3> QED  BY <1>11, <3>1 DEF OnReadReturns, Running
  <2>2. CASE stack' = <<>> /\ stop("session", hs, rd, wr)
    BY <1>11, <2>2 DEF OnReadReturns, stop, Running
  <2> QED  BY <1>11, <2>1, <2>2 DEF OnReadReturns
<1>12. CASE OnWriteReturns
  <2>1. CASE Become("write_out") /\ taken = produced
    <3>1. Running("write_out")'
      BY <1>12, <2>1, BecomeStep DEF OnWriteReturns, WriteCalls
    <3> QED  BY <1>12, <2>1, <3>1 DEF OnWriteReturns, Running
  <2>2. CASE Return /\ stop("session", hs, rd, wr)
    <3>1. stopped' /\ output_data' = <<>> /\ output_data = <<>>
      BY <1>12, <2>2 DEF OnWriteReturns, stop
    <3>2. stack' \in {<<>>, <<"read_tail">>}
      BY <1>12, <2>2, ReturnStep DEF OnWriteReturns, WriteCalls
    <3> QED  BY <1>12, <3>1, <3>2 DEF OnWriteReturns, Running
  <2> QED  BY <1>12, <2>1, <2>2 DEF OnWriteReturns
<1>13. CASE WriteBusy
  <2>1. stack' \in {<<>>, <<"read_tail">>}
    BY <1>13, ReturnStep DEF WriteBusy, WriteCalls
  <2> QED  BY <1>13, <2>1 DEF WriteBusy, Running
<1>14. CASE EnterOnWrite
  <2>1. Running("on_write")' /\ output_data' = <<>> /\ write_buffer' = output_data
    BY <1>14, BecomeStep DEF EnterOnWrite, BeginOnWrite, WriteCalls
  <2>2. Len(<<>>) = 0 /\ Len(output_data') <= BufSize /\ Len(write_buffer') <= BufSize
    BY <1>0, <2>1
  <2>3. ~Running("write_out")' /\ ~Running("read_tail")' /\ ~Idle'
    BY <2>1 DEF Running
  <2> QED  BY <2>1, <2>2, <2>3
<1>15. CASE write_out
  <2>1. stack' \in {<<>>, <<"read_tail">>}
    BY <1>15, ReturnStep DEF write_out, WriteCalls
  <2>2. UNCHANGED <<phase, write_buffer, output_data, taken, produced, term_at, goaway, active>>
        /\ Running("write_out")
    BY <1>15 DEF write_out
  <2>3. CASE write_buffer = <<>>
    <3>1. taken = produced /\ output_data = <<>>
      BY <2>2, <2>3
    <3>2. stopped' \/ ~should_stop'
      BY <1>15, <2>2, <2>3 DEF write_out, stop, should_stop, WantRead, WantWrite, TermSent
    <3> QED  BY <2>1, <2>2, <3>1, <3>2 DEF Running
  <2>4. CASE write_buffer # <<>>
    <3>1. writing'
      BY <1>15, <2>4 DEF write_out
    <3> QED  BY <2>1, <2>2, <3>1 DEF Running
  <2> QED  BY <2>3, <2>4
<1>16. CASE read_tail
  <2>1. stack' = <<>> /\ Running("read_tail")
    BY <1>16, ReturnStep DEF read_tail, ReadTail
  <2>2. UNCHANGED <<phase, writing, write_buffer, output_data, taken, produced, term_at, goaway, active>>
    BY <1>16 DEF read_tail, ReadTail
  <2>3. stopped' \/ writing \/ ~should_stop'
    BY <1>16, <2>2 DEF read_tail, ReadTail, stop, should_stop, WantRead, WantWrite, TermSent
  <2>4. stopped => stopped'
    BY <1>16 DEF read_tail, ReadTail, stop
  <2> QED  BY <2>1, <2>2, <2>3, <2>4 DEF Running
<1>17. ASSUME NEW n \in 1..MaxChunk, MemSend(n)  PROVE Kept'
  <2>0. n \in Nat /\ taken \in Nat /\ n <= BufSize /\ n > 0
    BY <1>0
  <2>1. Bytes(taken, taken + n) \in Seq(Nat) /\ Len(Bytes(taken, taken + n)) = n
    BY <2>0, BytesType
  <2>2. CASE Len(write_buffer) + n <= BufSize
    <3>0. ~(Len(write_buffer) + n > BufSize)
      BY <1>0, <2>0, <2>2
    <3>1. stack' = stack /\ output_data' = output_data /\ Running("on_write")
          /\ write_buffer' = write_buffer \o Bytes(taken, taken + n)
      BY <1>17, <3>0 DEF MemSend
    <3>2. Len(write_buffer') = Len(write_buffer) + n
      BY <2>1, <3>1, ConcatProperties
    <3>3. ~Running("write_out")' /\ ~Running("read_tail")' /\ ~Idle'
      BY <3>1 DEF Running
    <3> QED  BY <2>2, <3>1, <3>2, <3>3 DEF Running
  <2>3. CASE Len(write_buffer) + n > BufSize
    <3>0. ~(Len(write_buffer) + n <= BufSize)
      BY <1>0, <2>0, <2>3
    <3>1. Become("write_out") /\ Running("on_write") /\ write_buffer' = write_buffer
          /\ output_data' = Bytes(taken, taken + n)
      BY <1>17, <3>0 DEF MemSend
    <3>2. Running("write_out")'
      BY <3>1, BecomeStep DEF WriteCalls
    <3>3. output_data' # <<>> /\ write_buffer # <<>>
      BY <1>0, <2>0, <2>1, <2>3, <3>1
    <3>4. Len(output_data') <= BufSize
      BY <2>0, <2>1, <3>1
    <3> QED  BY <3>1, <3>2, <3>3, <3>4 DEF Running
  <2> QED  BY <1>0, <2>0, <2>2, <2>3
<1>18. CASE Environment
  BY <1>3, <1>18 DEF Environment, HandshakeEnds, PeerSends, PeerCloses, WriteFails, WriteAccepted
<1>19. CASE Clock
  BY <1>3, <1>19 DEF Clock, Tick, TimerFires
<1>20. CASE UNCHANGED vars
  BY <1>3, <1>20 DEF vars
<1> QED  BY <1>1, <1>2, <1>4, <1>5, <1>6, <1>7, <1>8, <1>9, <1>10, <1>11, <1>12, <1>13,
            <1>14, <1>15, <1>16, <1>17, <1>18, <1>19, <1>20
         DEF Next, Handlers, App, Calls
-----------------------------------------------------------------------------
(* The way of a byte: nghttp2, the kept chunk, the write buffer, the wire *)

\* How many bytes have got as far as the write buffer.
Given == taken - Len(output_data)

\* The write buffer holds bytes that are to be transmitted.
Live == Running("on_write") \/ Running("write_out") \/ wr = "pending"

\* The kept chunk, the write buffer and the wire follow each other without overlap.
Flow ==
  /\ Len(output_data) <= taken
  /\ \A i \in 1..Len(output_data) : output_data[i] = Given + i
  /\ Live => /\ Len(write_buffer) <= Given
             /\ \A i \in 1..Len(write_buffer) : write_buffer[i] = Given - Len(write_buffer) + i
             /\ \A i \in 1..Len(wire) : wire[i] <= Given - Len(write_buffer)
  /\ \A i \in 1..Len(wire) : wire[i] <= Given
  /\ \A i, j \in 1..Len(wire) : i < j => wire[i] < wire[j]
  /\ stopped => wr # "pending"

\* The bytes move when on_write begins, takes a chunk, or the kernel accepts a
\* write; any other step can only leave the write buffer empty or unused.
LEMMA FlowMoves ==
  ASSUME ConnInv, [Next]_vars
  PROVE  \/ EnterOnWrite
         \/ \E n \in 1..MaxChunk : MemSend(n)
         \/ \E k \in 1..BufSize : WriteAccepted(k)
         \/ UNCHANGED <<taken, output_data, write_buffer, wire>> /\ (Live' => Live)
            /\ (stopped /\ wr # "pending" => wr' # "pending")
            /\ (stopped' /\ ~stopped => wr' # "pending")
            /\ (stopped => stopped')
            /\ (~stopped' /\ ~Live' /\ wr' # "err" => (Live /\ write_buffer = <<>>) \/ (~Live /\ wr # "err"))
<1> DEFINE Still == /\ UNCHANGED <<taken, output_data, write_buffer, wire>> /\ (Live' => Live)
                    /\ (stopped /\ wr # "pending" => wr' # "pending")
                    /\ (stopped' /\ ~stopped => wr' # "pending")
                    /\ (stopped => stopped')
                    /\ (~stopped' /\ ~Live' /\ wr' # "err" => (Live /\ write_buffer = <<>>) \/ (~Live /\ wr # "err"))
<1> USE DEF ConnInv, TypeOK, TypeConn, Live, Running, sessVars, timerVars, ioVars
<1>1. CASE AcceptThread
  BY <1>1 DEF AcceptThread, Arm, BeginHandshake, StartSession, SessionFails, stop, FirstRead, Aborted
<1>2. CASE HandshakeRefused
  BY <1>2 DEF HandshakeRefused, stop, Aborted
<1>3. CASE HandshakeDone
  BY <1>3 DEF HandshakeDone, SessionFails, stop, Aborted
<1>4. CASE ReadHandler
  <2>1. CASE rd = "err"
    BY <1>4, <2>1 DEF ReadHandler, stop, Aborted
  <2>2. CASE rd = "ok"
    <3>1. stack = <<>> /\ stack' = <<"on_read", "read_tail">> /\ wr' = wr /\ stopped' = stopped
          /\ UNCHANGED <<taken, output_data, write_buffer, wire>>
      BY <1>4, <2>2 DEF ReadHandler
    <3>2. (Live' <=> wr = "pending") /\ (Live <=> wr = "pending")
      BY <3>1
    <3> QED  BY <3>1, <3>2
  <2> QED  BY <1>4, <2>1, <2>2 DEF ReadHandler
<1>5. CASE WriteFailed
  BY <1>5 DEF WriteFailed, stop, Aborted
<1>6. CASE WriteDone
  BY <1>6, CallStep DEF WriteDone
<1>7. CASE TimeoutIgnored \/ TimeoutExpired \/ TimeoutMoved
  BY <1>7 DEF TimeoutIgnored, TimeoutExpired, Expire, TimeoutMoved, notTimeout, Aborted
<1>8. ASSUME NEW n \in 0..1, Signal(n)  PROVE Still
  BY <1>8, CallStep DEF Signal
<1>9. ASSUME NEW n \in 0..1, CallbackSignal(n)  PROVE Still
  BY <1>9 DEF CallbackSignal, NoReentry, notSession
<1>10. CASE Nghttp2
  BY <1>10 DEF Nghttp2, RecvReply, RecvStream, RecvGoAway, RecvFatal, StreamClosedOnSend,
               FrameNotSent, notSession
<1>11. CASE OnReadReturns
  <2>1. CASE Become("write_data")
    <3>1. Running("write_data")'
      BY <1>11, <2>1, BecomeStep DEF OnReadReturns, WriteCalls
    <3> QED  BY <1>11, <3>1 DEF OnReadReturns, stop, Aborted
  <2>2. CASE stack' = <<>>
    BY <1>11, <2>2 DEF OnReadReturns, stop, Aborted
  <2> QED  BY <1>11, <2>1, <2>2 DEF OnReadReturns
<1>12. CASE OnWriteReturns
  <2>1. CASE Become("write_out") /\ taken = produced
    <3>1. Running("write_out")'
      BY <1>12, <2>1, BecomeStep DEF OnWriteReturns, WriteCalls
    <3> QED  BY <1>12, <3>1 DEF OnWriteReturns, stop, Aborted
  <2>2. CASE Return /\ stop("session", hs, rd, wr)
    BY <1>12, <2>2 DEF OnWriteReturns, stop, Aborted
  <2> QED  BY <1>12, <2>1, <2>2 DEF OnWriteReturns
<1>13. CASE WriteBusy
  <2>1. stack' \in {<<>>, <<"read_tail">>}
    BY <1>13, ReturnStep DEF WriteBusy, WriteCalls
  <2> QED  BY <1>13, <2>1 DEF WriteBusy
<1>14. CASE write_out
  BY <1>14 DEF write_out, stop, Aborted
<1>15. CASE read_tail
  <2>1. stack' = <<>>
    BY <1>15, ReturnStep DEF read_tail, ReadTail
  <2> QED  BY <1>15, <2>1 DEF read_tail, ReadTail, read_data, stop, Aborted
<1>16. CASE Environment
  BY <1>16 DEF Environment, HandshakeEnds, PeerSends, PeerCloses, WriteFails
<1>17. CASE Clock
  BY <1>17 DEF Clock, Tick, TimerFires
<1>18. CASE UNCHANGED vars
  BY <1>18 DEF vars
<1> QED  BY <1>1, <1>2, <1>3, <1>4, <1>5, <1>6, <1>7, <1>8, <1>9, <1>10, <1>11, <1>12, <1>13,
            <1>14, <1>15, <1>16, <1>17, <1>18
         DEF Next, Handlers, App, Calls
\* A chunk appended to a sequence of byte numbers.
LEMMA Appended ==
  ASSUME NEW s \in Seq(Nat), NEW t \in Seq(Nat)
  PROVE  /\ s \o t \in Seq(Nat) /\ Len(s \o t) = Len(s) + Len(t)
         /\ \A i \in 1..Len(s \o t) :
              (s \o t)[i] = IF i <= Len(s) THEN s[i] ELSE t[i - Len(s)]
BY ConcatProperties

\* Every step keeps the bytes in their order.
LEMMA FlowStep ==
  ASSUME ConnInv, Kept, Flow, [Next]_vars
  PROVE  Flow'
<1>0. /\ output_data \in Seq(Nat) /\ write_buffer \in Seq(Nat) /\ wire \in Seq(Nat)
      /\ taken \in Nat /\ Len(output_data) \in Nat /\ Len(write_buffer) \in Nat /\ Len(wire) \in Nat
      /\ BufSize \in Nat /\ MaxChunk \in 1..BufSize
  BY ConnectionAssumption DEF ConnInv, TypeOK, TypeBytes
<1>a. /\ \A i \in 1..Len(output_data) : output_data[i] \in Nat
      /\ \A i \in 1..Len(write_buffer) : write_buffer[i] \in Nat
      /\ \A i \in 1..Len(wire) : wire[i] \in Nat
  BY <1>0, ElementOfSeq
<1>1. CASE EnterOnWrite
  <2>1. /\ write_buffer' = output_data /\ output_data' = <<>> /\ Len(output_data') = 0
        /\ UNCHANGED <<taken, wire, wr, stopped>>
    BY <1>1 DEF EnterOnWrite, BeginOnWrite, ioVars
  <2> QED  BY <1>0, <1>a, <2>1 DEF Flow, Given
<1>2. ASSUME NEW n \in 1..MaxChunk, MemSend(n)  PROVE Flow'
  <2>0. n \in Nat /\ taken' = taken + n /\ UNCHANGED <<wire, wr, stopped>>
    BY <1>0, <1>2 DEF MemSend, ioVars
  <2>1. output_data = <<>> /\ Len(output_data) = 0 /\ Live /\ wr = "none"
    BY <1>2 DEF MemSend, Kept, Live, ConnInv, Coupling, WriteSerial
  <2>2. /\ Bytes(taken, taken + n) \in Seq(Nat) /\ Len(Bytes(taken, taken + n)) = n
        /\ \A i \in 1..n : Bytes(taken, taken + n)[i] = taken + i
    BY <1>0, <2>0, BytesType
  <2> DEFINE b == Bytes(taken, taken + n)
  <2>b. b \in Seq(Nat) /\ Len(b) = n /\ \A i \in 1..n : b[i] = taken + i
    BY <2>2
  <2> HIDE DEF b
  <2>3. CASE Len(write_buffer) + n <= BufSize
    <3>1. ~(Len(write_buffer) + n > BufSize)
      BY <1>0, <2>0, <2>3
    <3>2. write_buffer' = write_buffer \o b /\ output_data' = output_data
      BY <1>2, <3>1 DEF MemSend, b
    <3>3. /\ Len(write_buffer') = Len(write_buffer) + n
          /\ \A i \in 1..Len(write_buffer') :
               write_buffer'[i] = IF i <= Len(write_buffer) THEN write_buffer[i] ELSE b[i - Len(write_buffer)]
      BY <1>0, <2>b, <3>2, Appended
    <3>4. Given = taken /\ Given' = taken + n
      BY <1>0, <2>0, <2>1, <3>2 DEF Given
    <3>5. \A i \in 1..Len(write_buffer') : write_buffer'[i] = Given' - Len(write_buffer') + i
      <4> SUFFICES ASSUME NEW i \in 1..Len(write_buffer')
                   PROVE  write_buffer'[i] = taken - Len(write_buffer) + i
        BY <1>0, <2>0, <3>3, <3>4
      <4>1. CASE i <= Len(write_buffer)
        BY <1>0, <2>1, <3>3, <3>4, <4>1 DEF Flow
      <4>2. CASE i > Len(write_buffer)
        <5>1. i - Len(write_buffer) \in 1..n
          BY <1>0, <2>0, <3>3, <4>2
        <5>2. write_buffer'[i] = b[i - Len(write_buffer)]
          BY <1>0, <3>3, <4>2
        <5>3. b[i - Len(write_buffer)] = taken + (i - Len(write_buffer))
          BY <2>b, <5>1
        <5> QED  BY <1>0, <5>2, <5>3
      <4> QED  BY <1>0, <4>1, <4>2
    <3> QED  BY <1>0, <1>a, <2>0, <2>1, <3>2, <3>3, <3>4, <3>5 DEF Flow
  <2>4. CASE Len(write_buffer) + n > BufSize
    <3>1. ~(Len(write_buffer) + n <= BufSize)
      BY <1>0, <2>0, <2>4
    <3>2. write_buffer' = write_buffer /\ output_data' = b
      BY <1>2, <3>1 DEF MemSend, b
    <3>3. Given = taken /\ Given' = taken /\ Len(output_data') = n
      <4>1. Len(output_data') = n
        BY <2>b, <3>2
      <4> QED  BY <1>0, <2>0, <2>1, <4>1 DEF Given
    <3>4. \A i \in 1..Len(output_data') : output_data'[i] = Given' + i
      BY <2>b, <3>2, <3>3
    <3> QED  BY <1>0, <1>a, <2>0, <2>1, <3>2, <3>3, <3>4 DEF Flow
  <2> QED  BY <1>0, <2>0, <2>3, <2>4
<1>3. ASSUME NEW k \in 1..BufSize, WriteAccepted(k)  PROVE Flow'
  <2>0. /\ wr = "pending" /\ wr' = "ok" /\ k \in 1..Len(write_buffer)
        /\ wire' = wire \o SubSeq(write_buffer, 1, k)
        /\ UNCHANGED <<stack, taken, output_data, write_buffer, stopped>>
    BY <1>0, <1>3 DEF WriteAccepted, sessVars
  <2>1. Live /\ ~Live'
    BY <2>0 DEF Live, ConnInv, Coupling, WriteSerial, Running
  <2> DEFINE b == SubSeq(write_buffer, 1, k)
  <2>2. b \in Seq(Nat) /\ Len(b) = k /\ \A i \in 1..k : b[i] = write_buffer[i]
    BY <1>0, <2>0, SubSeqProperties
  <2> HIDE DEF b
  <2>3. /\ wire' = wire \o b /\ Len(wire') = Len(wire) + k
        /\ \A i \in 1..Len(wire') : wire'[i] = IF i <= Len(wire) THEN wire[i] ELSE b[i - Len(wire)]
    BY <1>0, <2>0, <2>2, Appended DEF b
  <2>4. Given' = Given /\ Given \in Int
    BY <1>0, <2>0 DEF Given
  <2>5. \A i \in Len(wire) + 1 .. Len(wire') :
          wire'[i] = Given - Len(write_buffer) + (i - Len(wire)) /\ i - Len(wire) \in 1..Len(write_buffer)
    <3> SUFFICES ASSUME NEW i \in Len(wire) + 1 .. Len(wire')
                 PROVE  wire'[i] = Given - Len(write_buffer) + (i - Len(wire))
                        /\ i - Len(wire) \in 1..Len(write_buffer)
      OBVIOUS
    <3>1. i - Len(wire) \in 1..k /\ ~(i <= Len(wire)) /\ i \in 1..Len(wire')
      BY <1>0, <2>0, <2>3
    <3>2. i - Len(wire) \in 1..Len(write_buffer)
      BY <1>0, <2>0, <3>1
    <3>3. wire'[i] = write_buffer[i - Len(wire)]
      BY <2>2, <2>3, <3>1
    <3> QED  BY <2>1, <3>2, <3>3 DEF Flow
  <2>6. \A i \in 1..Len(wire) : i \in 1..Len(wire') /\ wire'[i] = wire[i]
    BY <1>0, <2>0, <2>3
  <2>7. \A i \in 1..Len(wire) : wire[i] <= Given - Len(write_buffer)
    BY <2>1 DEF Flow
  <2>8. \A i \in 1..Len(wire') : wire'[i] <= Given
    <3> SUFFICES ASSUME NEW i \in 1..Len(wire')
                 PROVE  wire'[i] <= Given
      OBVIOUS
    <3>1. CASE i <= Len(wire)
      <4>1. i \in 1..Len(wire)
        BY <1>0, <3>1
      <4> QED  BY <2>6, <4>1 DEF Flow
    <3>2. CASE i > Len(wire)
      <4>1. i \in Len(wire) + 1 .. Len(wire') /\ i \in Int
        BY <1>0, <2>3, <3>2
      <4>2. wire'[i] = Given - Len(write_buffer) + (i - Len(wire)) /\ i - Len(wire) <= Len(write_buffer)
        BY <2>5, <4>1
      <4> QED  BY <1>0, <2>4, <4>1, <4>2
    <3> QED  BY <1>0, <3>1, <3>2
  <2>9. \A i, j \in 1..Len(wire') : i < j => wire'[i] < wire'[j]
    <3> SUFFICES ASSUME NEW i \in 1..Len(wire'), NEW j \in 1..Len(wire'), i < j
                 PROVE  wire'[i] < wire'[j]
      OBVIOUS
    <3>1. CASE j <= Len(wire)
      <4>1. i \in 1..Len(wire) /\ j \in 1..Len(wire)
        BY <1>0, <3>1
      <4> QED  BY <2>6, <4>1 DEF Flow
    <3>2. CASE i <= Len(wire) /\ j > Len(wire)
      BY <1>0, <1>a, <2>3, <2>4, <2>5, <2>6, <2>7, <3>2
    <3>3. CASE i > Len(wire)
      BY <1>0, <2>3, <2>4, <2>5, <3>3
    <3> QED  BY <1>0, <3>1, <3>2, <3>3
  <2> QED  BY <2>0, <2>1, <2>4, <2>8, <2>9 DEF Flow, Given
<1>4. CASE /\ UNCHANGED <<taken, output_data, write_buffer, wire>> /\ (Live' => Live)
           /\ (stopped /\ wr # "pending" => wr' # "pending")
           /\ (stopped' /\ ~stopped => wr' # "pending")
           /\ (stopped => stopped')
  BY <1>4 DEF Flow, Given
<1> QED  BY <1>1, <1>2, <1>3, <1>4, FlowMoves

-----------------------------------------------------------------------------
(* The wire, when every write takes the whole buffer *)

\* Nothing is left out of the wire.
Whole ==
  ~PartialWrites =>
    /\ \A i \in 1..Len(wire) : wire[i] = i
    /\ Len(wire) <= Given
    /\ ~stopped /\ Live => Len(wire) = Given - Len(write_buffer)
    /\ ~stopped /\ ~Live /\ wr # "err" => Len(wire) = Given
\* Every step leaves the wire whole.
LEMMA WholeStep ==
  ASSUME ConnInv, Kept, Flow, Whole, [Next]_vars
  PROVE  Whole'
<1> SUFFICES ASSUME ~PartialWrites  PROVE Whole'
  BY DEF Whole
<1>0. /\ output_data \in Seq(Nat) /\ write_buffer \in Seq(Nat) /\ wire \in Seq(Nat)
      /\ taken \in Nat /\ Len(output_data) \in Nat /\ Len(write_buffer) \in Nat /\ Len(wire) \in Nat
      /\ BufSize \in Nat /\ MaxChunk \in 1..BufSize
  BY ConnectionAssumption DEF ConnInv, TypeOK, TypeBytes
<1>1. CASE EnterOnWrite
  <2>1. /\ write_buffer' = output_data /\ output_data' = <<>> /\ Len(output_data') = 0
        /\ UNCHANGED <<taken, wire, wr, stopped>> /\ Running("write_data") /\ ~writing
    BY <1>1 DEF EnterOnWrite, BeginOnWrite, ioVars
  <2>2. wr = "none" /\ ~Live
    BY <2>1 DEF ConnInv, WriteSerial, Live, Running
  <2>3. ~stopped => Len(wire) = taken - Len(output_data)
    BY <2>2 DEF Whole, Given
  <2>4. Running("on_write")'
    BY <1>1, BecomeStep DEF ConnInv, TypeOK, TypeConn, EnterOnWrite, BeginOnWrite, WriteCalls
  <2> QED  BY <1>0, <2>1, <2>3, <2>4 DEF Whole, Given, Live, Flow
<1>2. ASSUME NEW n \in 1..MaxChunk, MemSend(n)  PROVE Whole'
  <2>0. n \in Nat /\ taken' = taken + n /\ UNCHANGED <<wire, wr, stopped>>
    BY <1>0, <1>2 DEF MemSend, ioVars
  <2>1. output_data = <<>> /\ Len(output_data) = 0 /\ Live /\ wr = "none"
    BY <1>2 DEF MemSend, Kept, Live, ConnInv, Coupling, WriteSerial
  <2>2. Bytes(taken, taken + n) \in Seq(Nat) /\ Len(Bytes(taken, taken + n)) = n
    BY <1>0, <2>0, BytesType
  <2>3. Live'
    <3>1. CASE stack' = stack
      BY <1>2, <3>1 DEF MemSend, Live, Running
    <3>2. CASE Become("write_out")
      BY <1>2, <3>2, BecomeStep DEF ConnInv, TypeOK, TypeConn, MemSend, WriteCalls, Live
    <3> QED  BY <1>2, <3>1, <3>2 DEF MemSend
  <2>4. Given' - Len(write_buffer') = Given - Len(write_buffer) /\ Given' >= Given
    <3>1. CASE Len(write_buffer) + n <= BufSize
      <4>1. ~(Len(write_buffer) + n > BufSize)
        BY <1>0, <2>0, <3>1
      <4>2. write_buffer' = write_buffer \o Bytes(taken, taken + n) /\ output_data' = output_data
        BY <1>2, <4>1 DEF MemSend
      <4>3. Len(write_buffer') = Len(write_buffer) + n
        BY <1>0, <2>2, <4>2, Appended
      <4>4. Given = taken /\ Given' = taken + n
        BY <1>0, <2>0, <2>1, <4>2 DEF Given
      <4> QED  BY <1>0, <2>0, <4>3, <4>4
    <3>2. CASE Len(write_buffer) + n > BufSize
      <4>1. ~(Len(write_buffer) + n <= BufSize)
        BY <1>0, <2>0, <3>2
      <4>2. write_buffer' = write_buffer /\ output_data' = Bytes(taken, taken + n)
        BY <1>2, <4>1 DEF MemSend
      <4>3. Len(output_data') = n
        BY <2>2, <4>2
      <4> QED  BY <1>0, <2>0, <2>1, <4>2, <4>3 DEF Given
    <3> QED  BY <1>0, <2>0, <3>1, <3>2
  <2>5. Given \in Int /\ Given' \in Int
    <3>1. Given \in Int
      BY <1>0 DEF Given
    <3>2. Len(write_buffer') \in Int
      <4>1. write_buffer' \in Seq(Nat)
        BY <1>0, <1>2, <2>2, Appended DEF MemSend
      <4> QED  BY <4>1, LenProperties
    <3>3. output_data' \in Seq(Nat)
      BY <1>0, <1>2, <2>2 DEF MemSend
    <3> QED  BY <1>0, <2>0, <3>1, <3>3, LenProperties DEF Given
  <2> QED  BY <1>0, <2>0, <2>1, <2>3, <2>4, <2>5 DEF Whole
<1>3. ASSUME NEW k \in 1..BufSize, WriteAccepted(k)  PROVE Whole'
  <2>0. /\ wr = "pending" /\ wr' = "ok" /\ k = Len(write_buffer) /\ k >= 1
        /\ wire' = wire \o SubSeq(write_buffer, 1, k)
        /\ UNCHANGED <<stack, taken, output_data, write_buffer, stopped>>
    BY <1>0, <1>3 DEF WriteAccepted, sessVars
  <2>1. Live /\ ~Live'
    BY <2>0 DEF Live, ConnInv, Coupling, WriteSerial, Running
  <2>2. ~stopped
    BY <2>0 DEF Flow
  <2> DEFINE b == SubSeq(write_buffer, 1, k)
  <2>3. b \in Seq(Nat) /\ Len(b) = k /\ \A i \in 1..k : b[i] = write_buffer[i]
    BY <1>0, <2>0, SubSeqProperties
  <2> HIDE DEF b
  <2>4. /\ wire' = wire \o b /\ Len(wire') = Len(wire) + k
        /\ \A i \in 1..Len(wire') : wire'[i] = IF i <= Len(wire) THEN wire[i] ELSE b[i - Len(wire)]
    BY <1>0, <2>0, <2>3, Appended DEF b
  <2>5. Given' = Given /\ Given \in Int /\ Len(wire) = Given - Len(write_buffer)
    BY <1>0, <2>0, <2>1, <2>2 DEF Given, Whole
  <2>6. \A i \in 1..Len(wire') : wire'[i] = i
    <3> SUFFICES ASSUME NEW i \in 1..Len(wire')
                 PROVE  wire'[i] = i
      OBVIOUS
    <3>1. CASE i <= Len(wire)
      <4>1. i \in 1..Len(wire)
        BY <1>0, <3>1
      <4> QED  BY <2>4, <3>1, <4>1 DEF Whole
    <3>2. CASE i > Len(wire)
      <4>1. i - Len(wire) \in 1..k /\ ~(i <= Len(wire)) /\ i \in Int
        BY <1>0, <2>0, <2>4, <3>2
      <4>2. wire'[i] = write_buffer[i - Len(wire)]
        BY <2>3, <2>4, <4>1
      <4>3. write_buffer[i - Len(wire)] = Given - Len(write_buffer) + (i - Len(wire))
        BY <2>0, <2>1, <4>1 DEF Flow
      <4> QED  BY <1>0, <2>5, <4>1, <4>2, <4>3
    <3> QED  BY <1>0, <3>1, <3>2
  <2>7. Len(wire') = Given
    BY <1>0, <2>0, <2>4, <2>5
  <2> QED  BY <2>1, <2>5, <2>6, <2>7 DEF Whole
<1>4. CASE /\ UNCHANGED <<taken, output_data, write_buffer, wire>> /\ (Live' => Live)
           /\ (stopped => stopped')
           /\ (~stopped' /\ ~Live' /\ wr' # "err" => (Live /\ write_buffer = <<>>) \/ (~Live /\ wr # "err"))
  <2>1. Given' = Given /\ Given \in Int
    BY <1>0, <1>4 DEF Given
  <2>2. CASE write_buffer = <<>>
    <3>1. Len(write_buffer) = 0
      BY <2>2
    <3> QED  BY <1>0, <1>4, <2>1, <3>1 DEF Whole
  <2>3. CASE write_buffer # <<>>
    BY <1>4, <2>1, <2>3 DEF Whole
  <2> QED  BY <2>2, <2>3
<1> QED  BY <1>1, <1>2, <1>3, <1>4, FlowMoves
-----------------------------------------------------------------------------
(* The theorems *)

\* The inductive invariant of the flow proofs.
FlowInv == ConnInv /\ Quiet /\ Reading /\ Deadline /\ Kept /\ Flow /\ Whole

\* It holds of a new connection.
LEMMA InitFlow == Init => FlowInv
<1> SUFFICES ASSUME Init  PROVE FlowInv
  OBVIOUS
<1>1. ConnInv
  BY InitInv
<1>2. stack = <<>> /\ Len(<<>>) = 0 /\ ~Live /\ Given = 0 /\ ~Idle
  <2>1. stack = <<>> /\ ~Live /\ ~Idle
    BY DEF Init, Live, Running, Idle
  <2>2. Len(<<>>) = 0 /\ taken = 0 /\ output_data = <<>>
    BY DEF Init
  <2>3. Given = 0
    <3>1. Len(output_data) = 0 /\ taken = 0
      BY <2>2
    <3> QED  BY <3>1 DEF Given
  <2> QED  BY <2>1, <2>2, <2>3
<1>3. Quiet /\ Reading /\ Deadline
  BY DEF Init, Quiet, Reading, Deadline
<1>4. Kept
  BY <1>2, ConnectionAssumption DEF Init, Kept, Running
<1>5. Flow /\ Whole
  BY <1>2 DEF Init, Flow, Whole
<1> QED  BY <1>1, <1>3, <1>4, <1>5 DEF FlowInv

\* The flow of bytes keeps its invariant in every behaviour.
THEOREM FlowInvariant == Spec => []FlowInv
<1>1. FlowInv /\ [Next]_vars => FlowInv'
  BY TypeStep, InvStep, QuietStep, ReadingStep, DeadlineStep, KeptStep, FlowStep, WholeStep
     DEF FlowInv, ConnInv
<1> QED  BY InitFlow, <1>1, PTL DEF Spec

\* The bytes kept for the next on_write are copied out before mem_send is
\* called again, and wait only for the write that had no room for them.
THEOREM StashIsValid == Spec => []StashValid
<1>1. FlowInv => StashValid
  BY DEF FlowInv, Kept, StashValid
<1> QED  BY FlowInvariant, <1>1, PTL

\* An open connection always reads, with one read at a time.
THEOREM ReadIsPosted == Spec => []ReadPosted
<1>1. FlowInv => ReadPosted
  BY ReadStack DEF FlowInv, ConnInv, TypeOK, TypeConn, Reading, ReadPosted
<1> QED  BY FlowInvariant, <1>1, PTL

\* Output waits only for the write in progress.
THEOREM NoWriteIsLost == Spec => []NoLostWrite
<1>1. FlowInv => NoLostWrite
  BY DEF FlowInv, Kept, Idle, NoLostWrite, WantWrite, Running, ConnInv, TypeOK, TypeBytes
<1> QED  BY FlowInvariant, <1>1, PTL

\* A connection whose session is over is stopped at once.
THEOREM NothingLingers == Spec => []NoLinger
<1>1. FlowInv => NoLinger
  BY DEF FlowInv, Kept, Idle, NoLinger, should_stop
<1> QED  BY FlowInvariant, <1>1, PTL

\* Bytes reach the peer in the order in which nghttp2 produced them, none twice,
\* however much of each write the kernel takes.
THEOREM WireIsInOrder == Spec => []WireInOrder
<1>1. FlowInv => WireInOrder
  <2>1. FlowInv => DOMAIN wire = 1..Len(wire)
    BY LenProperties DEF FlowInv, ConnInv, TypeOK, TypeBytes
  <2> QED  BY <2>1 DEF FlowInv, Flow, WireInOrder
<1> QED  BY FlowInvariant, <1>1, PTL

\* If every write takes the whole buffer, no byte is left out of the wire.
THEOREM WireHasNoGap == Spec => [](~PartialWrites => WireGapFree)
<1>1. FlowInv => (~PartialWrites => WireGapFree)
  <2>1. FlowInv => DOMAIN wire = 1..Len(wire)
    BY LenProperties DEF FlowInv, ConnInv, TypeOK, TypeBytes
  <2> QED  BY <2>1 DEF FlowInv, Whole, WireGapFree
<1> QED  BY FlowInvariant, <1>1, PTL

\* What stops a connection, and on what ground.
LEMMA WhyMoves ==
  ASSUME ConnInv, [Next]_vars, why' # why
  PROVE  /\ why' = "drained" => \/ write_out /\ write_buffer = <<>>
                                \/ read_tail /\ ~writing /\ ~stopped
         /\ why' = "timeout" => TimeoutExpired
<1> USE DEF Running, sessVars, timerVars, ioVars
<1>1. CASE AcceptThread
  BY <1>1 DEF AcceptThread, Arm, BeginHandshake, StartSession, SessionFails, stop, FirstRead
<1>2. CASE HandshakeRefused \/ HandshakeDone \/ ReadHandler \/ WriteFailed \/ WriteDone
  BY <1>2 DEF HandshakeRefused, HandshakeDone, SessionFails, stop, ReadHandler, WriteFailed, WriteDone
<1>3. CASE TimeoutIgnored \/ TimeoutExpired \/ TimeoutMoved
  BY <1>3 DEF TimeoutIgnored, TimeoutExpired, Expire, TimeoutMoved, notTimeout
<1>4. CASE App
  BY <1>4 DEF App, Signal, CallbackSignal, notSession
<1>5. CASE Nghttp2
  BY <1>5 DEF Nghttp2, RecvReply, RecvStream, RecvGoAway, RecvFatal, StreamClosedOnSend,
              FrameNotSent, notSession
<1>6. CASE OnReadReturns \/ OnWriteReturns \/ WriteBusy \/ EnterOnWrite \/ \E n \in 1..MaxChunk : MemSend(n)
  BY <1>6 DEF OnReadReturns, OnWriteReturns, WriteBusy, EnterOnWrite, BeginOnWrite, MemSend, stop
<1>7. CASE write_out
  BY <1>7 DEF write_out, stop
<1>8. CASE read_tail
  BY <1>8 DEF read_tail, ReadTail, stop
<1>9. CASE Environment
  BY <1>9 DEF Environment, HandshakeEnds, PeerSends, PeerCloses, WriteFails, WriteAccepted
<1>10. CASE Clock
  BY <1>10 DEF Clock, Tick, TimerFires
<1>11. CASE UNCHANGED vars
  BY <1>11 DEF vars
<1> QED  BY <1>1, <1>2, <1>3, <1>4, <1>5, <1>6, <1>7, <1>8, <1>9, <1>10, <1>11
         DEF Next, Handlers, Calls

\* A connection with nothing more to do is closed only after everything
\* nghttp2 queued was handed to the socket and the socket is done with it.
THEOREM StopsDrained == Spec => DrainedStop
<1> DEFINE Drained == why' # why /\ why' = "drained"
                      => taken = produced /\ output_data = <<>> /\ wr = "none"
<1>1. ASSUME FlowInv, [Next]_vars PROVE Drained
  <2> SUFFICES ASSUME why' # why, why' = "drained"
               PROVE  taken = produced /\ output_data = <<>> /\ wr = "none"
    OBVIOUS
  <2>1. \/ write_out /\ write_buffer = <<>>
        \/ read_tail /\ ~writing /\ ~stopped
    BY <1>1, WhyMoves DEF FlowInv
  <2>2. CASE write_out /\ write_buffer = <<>>
    BY <1>1, <2>2 DEF FlowInv, ConnInv, Coupling, WriteSerial, Kept, write_out
  <2>3. CASE read_tail /\ ~writing /\ ~stopped
    BY <1>1, <2>3 DEF FlowInv, ConnInv, WriteSerial, Kept, read_tail, ReadTail, Running
  <2> QED  BY <2>1, <2>2, <2>3
<1>2. FlowInv /\ [Next]_vars => [Drained]_vars
  BY <1>1
<1> QED  BY FlowInvariant, <1>2, PTL DEF Spec, DrainedStop

\* The deadline closes a connection only after a whole time limit without progress.
THEOREM TimeoutIsNotEarly == Spec => NoEarlyTimeout
<1> DEFINE Late == why' # why /\ why' = "timeout" => idle >= Limit
<1>1. ASSUME FlowInv, [Next]_vars PROVE Late
  <2> SUFFICES ASSUME why' # why, why' = "timeout"  PROVE idle >= Limit
    OBVIOUS
  <2>1. left = 0 /\ stack = <<>> /\ ~stopped /\ fired > 0
    BY <1>1, WhyMoves DEF FlowInv, TimeoutExpired, Expire
  <2>2. phase # "accepted" /\ ~InRead
    BY <1>1, <2>1, ReadStacks DEF FlowInv, ConnInv, Coupling
  <2>3. left + idle >= Limit
    BY <1>1, <2>1, <2>2 DEF FlowInv, Deadline
  <2> QED  BY <1>1, <2>1, <2>3 DEF FlowInv, ConnInv, TypeOK, TypeTimer
<1>2. FlowInv /\ [Next]_vars => [Late]_vars
  BY <1>1
<1> QED  BY FlowInvariant, <1>2, PTL DEF Spec, NoEarlyTimeout

-----------------------------------------------------------------------------
(* The refinement *)

\* A step sends, queues, closes, or does nothing to the stream.
LEMMA StreamMoves ==
  ASSUME ConnInv, [Next]_vars
  PROVE  \/ \E k \in 1..BufSize : WriteAccepted(k)
         \/ wire' = wire /\ produced' \in Nat /\ produced' > produced /\ stopped' = stopped
         \/ wire' = wire /\ produced' = produced /\ (stopped => stopped')
<1> DEFINE Off == \/ wire' = wire /\ produced' \in Nat /\ produced' > produced /\ stopped' = stopped
                  \/ wire' = wire /\ produced' = produced /\ (stopped => stopped')
<1> USE DEF sessVars, timerVars, ioVars
<1>0. produced \in Nat /\ MaxBytes \in Nat /\ stopped \in BOOLEAN
  BY ConnectionAssumption DEF ConnInv, TypeOK, TypeConn, TypeBytes
<1>1. CASE AcceptThread
  BY <1>0, <1>1 DEF AcceptThread, Arm, BeginHandshake, StartSession, SessionFails, Queue, stop, FirstRead
<1>2. CASE HandshakeRefused \/ ReadHandler \/ WriteFailed \/ WriteDone
  BY <1>0, <1>2 DEF HandshakeRefused, stop, ReadHandler, WriteFailed, WriteDone
<1>3. CASE HandshakeDone
  BY <1>0, <1>3 DEF HandshakeDone, SessionFails, Queue, stop
<1>4. CASE TimeoutIgnored \/ TimeoutExpired \/ TimeoutMoved
  BY <1>0, <1>4 DEF TimeoutIgnored, TimeoutExpired, Expire, TimeoutMoved, notTimeout
<1>5. CASE App
  BY <1>0, <1>5 DEF App, Signal, CallbackSignal, Queue, notSession
<1>6. CASE Nghttp2
  BY <1>0, <1>6 DEF Nghttp2, RecvReply, RecvStream, RecvGoAway, RecvFatal, StreamClosedOnSend,
              FrameNotSent, Queue, notSession
<1>7. CASE OnReadReturns \/ OnWriteReturns \/ WriteBusy \/ EnterOnWrite \/ \E n \in 1..MaxChunk : MemSend(n)
  BY <1>0, <1>7 DEF OnReadReturns, OnWriteReturns, WriteBusy, EnterOnWrite, BeginOnWrite, MemSend, stop
<1>8. CASE write_out \/ read_tail
  BY <1>0, <1>8 DEF write_out, read_tail, ReadTail, stop
<1>9. CASE Environment
  BY <1>0, <1>9 DEF Environment, HandshakeEnds, PeerSends, PeerCloses, WriteFails
<1>10. CASE Clock \/ UNCHANGED vars
  BY <1>0, <1>10 DEF Clock, Tick, TimerFires, vars
<1> QED  BY <1>1, <1>2, <1>3, <1>4, <1>5, <1>6, <1>7, <1>8, <1>9, <1>10
         DEF Next, Handlers, Calls

\* If every write takes the whole buffer, the connection implements
\* OutputStream: what nghttp2 queues reaches the peer in order and without
\* gaps until stop(), after which nothing is sent.
THEOREM ConnectionImplementsStream == ~PartialWrites /\ Spec => ImplementsStream
<1>1. Init => Stream!Init
  BY DEF Init, Stream!Init
<1>2. ASSUME ~PartialWrites, FlowInv, FlowInv', [Next]_vars
      PROVE  [Stream!Next]_(Stream!vars)
  <2>1. ASSUME NEW k \in 1..BufSize, WriteAccepted(k)
        PROVE  Stream!Deliver
    <3>1. wr = "pending" /\ UNCHANGED <<produced, stopped, output_data, taken>>
          /\ k \in 1..Len(write_buffer) /\ wire' = wire \o SubSeq(write_buffer, 1, k)
      BY <1>2, <2>1, ConnectionAssumption DEF WriteAccepted, sessVars
    <3>2. ~stopped
      BY <1>2, <3>1 DEF FlowInv, Flow
    <3>3. wire' \in Seq(Nat) /\ wire \in Seq(Nat) /\ write_buffer \in Seq(Nat)
      BY <1>2 DEF FlowInv, ConnInv, TypeOK, TypeBytes
    <3>4. Len(wire') > Len(wire) /\ Len(wire') \in Nat /\ Len(wire) \in Nat
      <4>1. SubSeq(write_buffer, 1, k) \in Seq(Nat) /\ Len(SubSeq(write_buffer, 1, k)) = k
        BY <3>1, <3>3, SubSeqProperties, ElementOfSeq
      <4>2. Len(wire') = Len(wire) + k
        BY <3>1, <3>3, <4>1, Appended
      <4> QED  BY <3>1, <3>3, <4>2
    <3>5. Len(wire') <= produced
      <4>1. Len(wire') <= Given'
        BY <1>2 DEF FlowInv, Whole
      <4>2. Given' <= produced
        BY <1>2, <3>1 DEF FlowInv, ConnInv, TypeOK, TypeBytes, Given
      <4>3. Given' \in Int /\ produced \in Int
        BY <1>2, <3>1 DEF FlowInv, ConnInv, TypeOK, TypeBytes, Given
      <4> QED  BY <3>4, <4>1, <4>2, <4>3
    <3>6. wire' = [i \in 1..Len(wire') |-> i]
      BY <1>2, <3>3 DEF FlowInv, Whole
    <3>7. produced \in Nat
      BY <1>2, ConnectionAssumption DEF FlowInv, ConnInv, TypeOK, TypeBytes
    <3>8. Len(wire') \in Len(wire) + 1 .. produced
      BY <3>4, <3>5, <3>7
    <3> QED  BY <3>1, <3>2, <3>6, <3>8 DEF Stream!Deliver
  <2>2. CASE wire' = wire /\ produced' \in Nat /\ produced' > produced /\ stopped' = stopped
    BY <2>2 DEF Stream!Next, Stream!Enqueue
  <2>3. CASE wire' = wire /\ produced' = produced /\ (stopped => stopped')
    <3>1. stopped \in BOOLEAN /\ stopped' \in BOOLEAN
      BY <1>2 DEF FlowInv, ConnInv, TypeOK, TypeConn
    <3> QED  BY <2>3, <3>1 DEF Stream!Next, Stream!Close, Stream!vars
  <2> QED  BY <1>2, <2>1, <2>2, <2>3, StreamMoves DEF FlowInv, Stream!Next
<1>3. ~PartialWrites /\ FlowInv /\ FlowInv' /\ [Next]_vars => [Stream!Next]_(Stream!vars)
  BY <1>2
<1>4. CASE PartialWrites
  BY <1>4
<1>5. CASE ~PartialWrites
  <2>1. FlowInv /\ FlowInv' /\ [Next]_vars => [Stream!Next]_(Stream!vars)
    BY <1>3, <1>5
  <2> QED  BY FlowInvariant, <1>1, <2>1, PTL DEF Spec, ImplementsStream, Stream!Spec
<1> QED  BY <1>4, <1>5
===============================================================================
