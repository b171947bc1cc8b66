--------------------------- MODULE ConnectionProofs ---------------------------
(***************************************************************************)
(* Proofs about Connection, for every value of its constants.              *)
(***************************************************************************)
EXTENDS Connection, SequenceTheorems, TLAPS

\* What the connection's thread can be running, and what each call returns to.
LEMMA StackCases ==
  ASSUME stack \in Stacks
  PROVE  /\ Running("on_read")    => stack = <<"on_read", "read_tail">>
         /\ Running("write_data") => stack \in {<<"write_data">>, <<"write_data", "read_tail">>}
         /\ Running("on_write")   => stack \in {<<"on_write">>, <<"on_write", "read_tail">>}
         /\ Running("write_out")  => stack \in {<<"write_out">>, <<"write_out", "read_tail">>}
         /\ Running("read_tail")  => stack = <<"read_tail">>
BY SMT DEF Stacks, Running

\* What is left of a call stack when its innermost call returns.
LEMMA StackReturn ==
  ASSUME NEW f
  PROVE  /\ Tail(<<f>>) = <<>>
         /\ Tail(<<f, "read_tail">>) = <<"read_tail">>
<1>1. <<f>> \in Seq({f, "read_tail"}) /\ <<f, "read_tail">> \in Seq({f, "read_tail"})
  OBVIOUS
<1>2. Tail(<<f>>) = <<>>
  <2>1. Tail(<<f>>) \in Seq({f, "read_tail"}) /\ Len(Tail(<<f>>)) = 0
    BY <1>1, HeadTailProperties
  <2> QED  BY <2>1, EmptySeq
<1>3. Tail(<<f, "read_tail">>) = <<"read_tail">>
  <2> DEFINE t == Tail(<<f, "read_tail">>)
  <2>1. /\ t \in Seq({f, "read_tail"}) /\ Len(t) = 1
        /\ t[1] = "read_tail"
    BY <1>1, HeadTailProperties
  <2>2. <<"read_tail">> \in Seq({f, "read_tail"})
    OBVIOUS
  <2> HIDE DEF t
  <2>3. t = <<"read_tail">>
    BY <2>1, <2>2, SeqEqual
  <2> QED  BY <2>3 DEF t
<1> QED  BY <1>2, <1>3

\* The call stack when f is called with nothing else running, or by the read handler.
LEMMA StackCall ==
  ASSUME NEW f
  PROVE  /\ <<f>> \o <<>> = <<f>>
         /\ <<f>> \o <<"read_tail">> = <<f, "read_tail">>
<1>1. <<f>> \in Seq({f, "read_tail"}) /\ <<"read_tail">> \in Seq({f, "read_tail"})
      /\ <<f, "read_tail">> \in Seq({f, "read_tail"})
  OBVIOUS
<1>2. <<f>> \o <<>> = <<f>>
  BY <1>1, ConcatEmptySeq
<1>3. <<f>> \o <<"read_tail">> = <<f, "read_tail">>
  <2> DEFINE t == <<f>> \o <<"read_tail">>
  <2>1. /\ t \in Seq({f, "read_tail"}) /\ Len(t) = 2
        /\ t[1] = f /\ t[2] = "read_tail"
    BY <1>1, ConcatProperties
  <2> HIDE DEF t
  <2>2. t = <<f, "read_tail">>
    BY <1>1, <2>1, SeqEqual
  <2> QED  BY <2>2 DEF t
<1> QED  BY <1>2, <1>3

\* The calls that make up write_data.
WriteCalls == {"write_data", "on_write", "write_out"}

\* Going on with g inside write_data, or from on_read, keeps the call stack legal.
LEMMA BecomeStep ==
  ASSUME stack \in Stacks, NEW g \in WriteCalls, Become(g),
         \E f \in WriteCalls \cup {"on_read"} : Running(f)
  PROVE  stack' \in Stacks /\ Running(g)'
<1>1. stack # <<>> /\ stack # <<"read_tail">>
  BY DEF Running, WriteCalls
<1>2. PICK f \in WriteCalls \cup {"on_read"} : stack \in {<<f>>, <<f, "read_tail">>}
  BY <1>1 DEF Stacks, WriteCalls
<1>3. Tail(stack) \in {<<>>, <<"read_tail">>} /\ (f = "on_read" => Tail(stack) = <<"read_tail">>)
  <2>1. f = "on_read" => stack = <<f, "read_tail">>
    BY <1>2 DEF Stacks, WriteCalls
  <2> QED  BY <1>2, <2>1, StackReturn
<1>4. stack' \in {<<g>>, <<g, "read_tail">>}
  BY <1>3, StackCall DEF Become
<1> QED  BY <1>4 DEF Stacks, Running, WriteCalls

\* write_data returns to the read handler, or ends the handler.
LEMMA ReturnStep ==
  ASSUME stack \in Stacks, Return
  PROVE  /\ \A f \in WriteCalls : Running(f) => stack' \in {<<>>, <<"read_tail">>}
         /\ Running("read_tail") => stack' = <<>>
<1>1. ASSUME NEW f \in WriteCalls, Running(f)
      PROVE  stack' \in {<<>>, <<"read_tail">>}
  <2>1. stack \in {<<f>>, <<f, "read_tail">>}
    BY <1>1, StackCases DEF WriteCalls
  <2> QED  BY <2>1, StackReturn DEF Return
<1>2. ASSUME Running("read_tail")
      PROVE  stack' = <<>>
  BY <1>2, StackCases, StackReturn DEF Return
<1> QED  BY <1>1, <1>2

\* With nothing else running, calling write_data leaves only that call.
LEMMA CallStep ==
  ASSUME stack = <<>>, Call("write_data")
  PROVE  stack' = <<"write_data">>
BY StackCall DEF Call

-----------------------------------------------------------------------------
\* A chunk of output is a sequence of byte numbers.
LEMMA BytesType ==
  ASSUME NEW a \in Nat, NEW n \in Nat
  PROVE  /\ Bytes(a, a + n) \in Seq(Nat)
         /\ Len(Bytes(a, a + n)) = n
         /\ \A i \in 1..n : Bytes(a, a + n)[i] = a + i
<1>1. Bytes(a, a + n) = [i \in 1..n |-> a + i]
  BY DEF Bytes
<1>2. \A i \in 1..n : a + i \in Nat
  OBVIOUS
<1> QED  BY <1>1, <1>2

\* What stop leaves behind: every variable it assigns keeps its type.
StopType == /\ stopped' \in BOOLEAN /\ why' \in Reasons
            /\ hs' \in Ops /\ rd' \in Ops /\ wr' \in Ops
            /\ left' \in 0..Never /\ waiting' \in Nat /\ fired' \in Nat

\* connection::stop keeps the types of what it touches.
LEMMA StopKeepsTypes ==
  ASSUME TypeOK, NEW reason \in Reasons, NEW h \in Ops, NEW r \in Ops, NEW w \in Ops,
         stop(reason, h, r, w)
  PROVE  StopType
<1>1. CASE stopped
  BY <1>1 DEF TypeOK, TypeConn, TypeTimer, stop, StopType, timerVars
<1>2. CASE ~stopped
  <2>1. \A op \in Ops : Aborted(op) \in Ops
    BY DEF Aborted, Ops
  <2> QED  BY <1>2, <2>1 DEF TypeOK, TypeConn, TypeTimer, stop, StopType
<1> QED  BY <1>1, <1>2 DEF TypeOK, TypeConn

\* A new connection has its types, and is outside the session's callbacks.
LEMMA InitType == Init => TypeOK /\ NoReentry
<1> SUFFICES ASSUME Init PROVE TypeOK /\ NoReentry
  OBVIOUS
<1>1. <<>> \in Stacks
  BY DEF Stacks
<1>2. <<>> \in Seq(Nat)
  OBVIOUS
<1>3. Never \in 0..Never /\ 0 \in 0..MaxBytes /\ 0 \in 0..0
  BY ConnectionAssumption DEF Never
<1>4. NoReentry
  BY DEF Init, NoReentry, Running
<1> QED  BY <1>1, <1>2, <1>3, <1>4 DEF Init, TypeOK, TypeConn, TypeBytes, TypeTimer, Phases, Ops, Reasons

\* Every step preserves the type invariant and the absence of re-entry.
LEMMA TypeStep ==
  ASSUME TypeOK, NoReentry, [Next]_vars
  PROVE  TypeOK'
<1> USE DEF TypeOK, TypeConn, TypeBytes, TypeTimer, Phases, Ops, Reasons, sessVars, timerVars, ioVars
<1>0. /\ {ReadTimeout, HandshakeTimeout, Never} \subseteq 0..Never
      /\ MaxBytes \in Nat /\ BufSize \in Nat /\ MaxChunk \in 1..BufSize
      /\ ReadTimeout \in Nat /\ HandshakeTimeout \in Nat
  BY ConnectionAssumption DEF Never
<1>1. CASE Arm
  BY <1>0, <1>1 DEF Arm, AsyncWait
<1>2. CASE BeginHandshake
  BY <1>2 DEF BeginHandshake
<1>3. CASE StartSession
  <2>1. CASE SessionFails(hs)
    BY <2>1, StopKeepsTypes DEF SessionFails, StopType
  <2>2. CASE ~SessionFails(hs)
    <3>1. produced' \in 0..MaxBytes /\ produced' >= produced /\ phase' \in Phases
      BY <1>0, <1>3, <2>2 DEF StartSession, Queue
    <3>2. UNCHANGED <<tls, stopped, writing, stack, write_buffer, callback_inside, output_data,
                      taken, term_at, goaway, active, ioVars, timerVars, wire, idle, why>>
      BY <1>3, <2>2 DEF StartSession
    <3> QED  BY <3>1, <3>2
  <2> QED  BY <1>3, <2>1, <2>2 DEF StartSession
<1>4. CASE FirstRead
  BY <1>0, <1>4 DEF FirstRead, read_data, ExpiresFromNow
<1>5. CASE HandshakeRefused
  BY <1>5, StopKeepsTypes DEF HandshakeRefused, StopType
<1>6. CASE HandshakeDone
  <2>1. CASE SessionFails("none")
    <3>1. StopType
      BY <2>1, StopKeepsTypes DEF SessionFails, StopType
    <3> QED  BY <2>1, <3>1 DEF SessionFails, StopType
  <2>2. CASE ~SessionFails("none")
    <3>1. produced' \in 0..MaxBytes /\ produced' >= produced
      BY <1>0, <1>6, <2>2 DEF HandshakeDone, Queue
    <3>2. rd' \in Ops /\ hs' \in Ops /\ phase' \in Phases
      BY <1>6, <2>2 DEF HandshakeDone, read_data
    <3>3. left' \in 0..Never /\ waiting' \in Nat /\ fired' \in Nat /\ idle' \in Nat
      BY <1>0, <1>6, <2>2 DEF HandshakeDone, read_data, ExpiresFromNow
    <3>4. UNCHANGED <<tls, stopped, writing, stack, write_buffer, callback_inside, output_data,
                      taken, term_at, goaway, active, wr, wire, why>>
      BY <1>6, <2>2 DEF HandshakeDone
    <3>5. TypeConn'
      BY <3>2, <3>4
    <3>6. TypeBytes'
      BY <3>1, <3>4
    <3> QED  BY <3>3, <3>5, <3>6
  <2> QED  BY <1>6, <2>1, <2>2
<1>7. CASE ReadHandler
  <2>1. CASE rd = "err"
    BY <1>7, <2>1, StopKeepsTypes DEF ReadHandler, StopType
  <2>2. CASE rd = "ok"
    <3>1. <<"on_read", "read_tail">> \in Stacks
      BY DEF Stacks
    <3>2. TypeConn'
      <4>1. stack' \in Stacks
        BY <1>7, <2>2, <3>1 DEF ReadHandler
      <4>2. callback_inside' \in BOOLEAN
        BY <1>7, <2>2 DEF ReadHandler, callback_guard
      <4>3. rd' \in Ops /\ UNCHANGED <<tls, phase, stopped, writing, hs, wr, goaway, active, why>>
        BY <1>7, <2>2 DEF ReadHandler
      <4> QED  BY <4>1, <4>2, <4>3
    <3>3. TypeBytes'
      BY <1>7, <2>2, <3>1 DEF ReadHandler, callback_guard
    <3>4. TypeTimer'
      BY <1>7, <2>2, <3>1 DEF ReadHandler, callback_guard
    <3> QED  BY <3>2, <3>3, <3>4
  <2> QED  BY <1>7, <2>1, <2>2 DEF ReadHandler
<1>8. CASE WriteFailed
  BY <1>8, StopKeepsTypes DEF WriteFailed, StopType
<1>9. CASE WriteDone
  <2>1. stack' = <<"write_data">>
    BY <1>9, CallStep DEF WriteDone
  <2>2. stack' \in Stacks
    BY <2>1 DEF Stacks
  <2>3. hs' \in Ops /\ rd' \in Ops /\ wr' \in Ops
    BY <1>9 DEF WriteDone
  <2>4. UNCHANGED <<tls, phase, stopped, sessVars, why>> /\ writing' \in BOOLEAN
    BY <1>9 DEF WriteDone
  <2>5. TypeConn'
    BY <2>2, <2>3, <2>4
  <2>6. TypeBytes' /\ TypeTimer'
    BY <1>9 DEF WriteDone
  <2> QED  BY <2>5, <2>6
<1>10. CASE TimeoutIgnored
  BY <1>10 DEF TimeoutIgnored, notTimeout
<1>11. CASE TimeoutExpired
  BY <1>0, <1>11 DEF TimeoutExpired, Expire, notTimeout, Aborted
<1>12. CASE TimeoutMoved
  BY <1>12 DEF TimeoutMoved, notTimeout, AsyncWait
<1>13. ASSUME NEW n \in 0..1, Signal(n)
       PROVE TypeOK'
  BY <1>0, <1>13, CallStep DEF Signal, Queue, Stacks, NoReentry, Running
<1>14. ASSUME NEW n \in 0..1, CallbackSignal(n)
       PROVE TypeOK'
  BY <1>0, <1>14 DEF CallbackSignal, Queue, NoReentry, notSession
<1>15. ASSUME NEW n \in 1..2, RecvReply(n)
       PROVE TypeOK'
  BY <1>0, <1>15 DEF RecvReply, Queue, notSession
<1>16. ASSUME NEW open \in BOOLEAN, RecvStream(open)
       PROVE TypeOK'
  BY <1>16 DEF RecvStream, notSession
<1>17. CASE RecvGoAway
  BY <1>17 DEF RecvGoAway, notSession
<1>18. CASE RecvFatal
  BY <1>0, <1>18 DEF RecvFatal, Queue, notSession
<1>19. CASE StreamClosedOnSend
  <2>1. active' \in BOOLEAN
    BY <1>19 DEF StreamClosedOnSend
  <2> QED  BY <1>19, <2>1 DEF StreamClosedOnSend, notSession
<1>20. CASE FrameNotSent
  BY <1>0, <1>20 DEF FrameNotSent, Queue, notSession
<1>21. CASE OnReadReturns
  <2>1. stack' \in Stacks
    <3>1. CASE Become("write_data")
      BY <1>21, <3>1, BecomeStep DEF OnReadReturns, WriteCalls
    <3>2. CASE stack' = <<>>
      BY <3>2 DEF Stacks
    <3> QED  BY <1>21, <3>1, <3>2 DEF OnReadReturns
  <2>2. StopType
    BY <1>21, StopKeepsTypes DEF OnReadReturns, StopType
  <2> QED  BY <1>21, <2>1, <2>2 DEF OnReadReturns, callback_guard, StopType
<1>22. CASE OnWriteReturns
  <2>1. stack' \in Stacks
    <3>1. CASE Become("write_out")
      BY <1>22, <3>1, BecomeStep DEF OnWriteReturns, WriteCalls
    <3>2. CASE Return
      BY <1>22, <3>2, ReturnStep DEF OnWriteReturns, WriteCalls, Stacks
    <3> QED  BY <1>22, <3>1, <3>2 DEF OnWriteReturns
  <2>2. StopType
    BY <1>22, StopKeepsTypes DEF OnWriteReturns, StopType
  <2> QED  BY <1>22, <2>1, <2>2 DEF OnWriteReturns, callback_guard, StopType
<1>23. CASE WriteBusy
  BY <1>23, ReturnStep DEF WriteBusy, WriteCalls, Stacks
<1>24. CASE EnterOnWrite
  BY <1>24, BecomeStep DEF EnterOnWrite, BeginOnWrite, callback_guard, WriteCalls
<1>25. CASE write_out
  <2>1. stack' \in Stacks
    BY <1>25, ReturnStep DEF write_out, WriteCalls, Stacks
  <2>2. StopType
    BY <1>0, <1>25, StopKeepsTypes DEF write_out, StopType, ExpiresFromNow
  <2>3. TypeConn'
    BY <1>0, <1>25, <2>1, <2>2 DEF write_out, StopType
  <2>4. TypeBytes'
    BY <1>0, <1>25, <2>1, <2>2 DEF write_out, StopType
  <2>5. TypeTimer'
    BY <1>0, <1>25, <2>1, <2>2 DEF write_out, StopType
  <2> QED  BY <2>3, <2>4, <2>5
<1>26. CASE read_tail
  BY <1>0, <1>26, ReturnStep, StopKeepsTypes DEF read_tail, ReadTail, read_data, StopType, ExpiresFromNow, Stacks
<1>27. ASSUME NEW n \in 1..MaxChunk, MemSend(n)
       PROVE TypeOK'
  <2>1. stack' \in Stacks
    BY <1>27, BecomeStep DEF MemSend, WriteCalls
  <2>2. Bytes(taken, taken + n) \in Seq(Nat)
    BY <1>0, <1>27, BytesType
  <2>3. write_buffer' \in Seq(Nat) /\ output_data' \in Seq(Nat)
    BY <1>0, <1>27, <2>2, ConcatProperties DEF MemSend
  <2>4. taken' \in 0..produced
    BY <1>0, <1>27 DEF MemSend
  <2> callback_inside' \in BOOLEAN
    BY <1>27 DEF MemSend, callback_guard
  <2>5. TypeConn'
    BY <1>27, <2>1 DEF MemSend
  <2>6. TypeBytes'
    BY <1>27, <2>1, <2>3, <2>4 DEF MemSend, callback_guard
  <2>7. TypeTimer'
    BY <1>27, <2>1, <2>3, <2>4 DEF MemSend, callback_guard
  <2> QED  BY <2>5, <2>6, <2>7
<1>28. ASSUME NEW result \in {"ok", "err"}, HandshakeEnds(result)
       PROVE TypeOK'
  BY <1>28 DEF HandshakeEnds
<1>29. CASE PeerSends
  BY <1>29 DEF PeerSends
<1>30. CASE PeerCloses
  BY <1>30 DEF PeerCloses
<1>31. CASE WriteFails
  BY <1>31 DEF WriteFails
<1>32. ASSUME NEW k \in 1..BufSize, WriteAccepted(k)
       PROVE TypeOK'
  BY <1>32 DEF WriteAccepted
<1>33. CASE Tick
  BY <1>0, <1>33 DEF Tick, Limit
<1>34. CASE TimerFires
  BY <1>34 DEF TimerFires
<1>35. CASE UNCHANGED vars
  BY <1>35 DEF vars
<1> QED  BY <1>1, <1>2, <1>3, <1>4, <1>5, <1>6, <1>7, <1>8, <1>9, <1>10, <1>11, <1>12, <1>13,
            <1>14, <1>15, <1>16, <1>17, <1>18, <1>19, <1>20, <1>21, <1>22, <1>23, <1>24, <1>25,
            <1>26, <1>27, <1>28, <1>29, <1>30, <1>31, <1>32, <1>33, <1>34, <1>35
         DEF Next, AcceptThread, Handlers, App, Nghttp2, Calls, Environment, Clock

\* Every step preserves the rest of the inductive invariant: the guard flag
\* follows the call stack, a write is outstanding exactly while writing_ is
\* set, and one timeout_handler is due.
LEMMA InvStep ==
  ASSUME ConnInv, [Next]_vars
  PROVE  (NoReentry /\ Coupling /\ WriteSerial /\ TimerArmed)'
<1> USE DEF ConnInv, TypeOK, TypeConn, TypeTimer, NoReentry, Coupling, WriteSerial, TimerArmed,
            Running, sessVars, timerVars, ioVars
<1>1. CASE Arm
  BY <1>1 DEF Arm, AsyncWait
<1>2. CASE BeginHandshake
  BY <1>2 DEF BeginHandshake
<1>3. CASE StartSession
  BY <1>3 DEF StartSession, SessionFails, stop, Aborted
<1>4. CASE FirstRead
  BY <1>4 DEF FirstRead, read_data, ExpiresFromNow
<1>5. CASE HandshakeRefused
  BY <1>5 DEF HandshakeRefused, stop, Aborted
<1>6. CASE HandshakeDone
  BY <1>6 DEF HandshakeDone, SessionFails, stop, Aborted, read_data, ExpiresFromNow
<1>7. CASE ReadHandler
  <2>1. CASE rd = "err"
    BY <1>7, <2>1 DEF ReadHandler, stop, Aborted
  <2>2. CASE rd = "ok"
    <3>1. Head(<<"on_read", "read_tail">>) = "on_read"
      OBVIOUS
    <3>2. stack' = <<"on_read", "read_tail">>
      BY <1>7, <2>2 DEF ReadHandler
    <3>3. callback_inside' = TRUE
      BY <1>7, <2>2 DEF ReadHandler, callback_guard
    <3>4. Running("on_read")' /\ ~Running("on_write")' /\ ~Running("write_out")'
      BY <3>1, <3>2
    <3>5. UNCHANGED <<phase, stopped, writing, hs, wr, timerVars>>
      BY <1>7, <2>2 DEF ReadHandler
    <3> QED  BY <3>3, <3>4, <3>5
  <2> QED  BY <1>7, <2>1, <2>2 DEF ReadHandler
<1>8. CASE WriteFailed
  BY <1>8 DEF WriteFailed, stop, Aborted
<1>9. CASE WriteDone
  BY <1>9, CallStep DEF WriteDone
<1>10. CASE TimeoutIgnored
  BY <1>10 DEF TimeoutIgnored, notTimeout
<1>11. CASE TimeoutExpired
  BY <1>11 DEF TimeoutExpired, Expire, notTimeout, Aborted
<1>12. CASE TimeoutMoved
  BY <1>12 DEF TimeoutMoved, notTimeout, AsyncWait
<1>13. ASSUME NEW n \in 0..1, Signal(n)
       PROVE (NoReentry /\ Coupling /\ WriteSerial /\ TimerArmed)'
  BY <1>13, CallStep DEF Signal
<1>14. ASSUME NEW n \in 0..1, CallbackSignal(n)
       PROVE (NoReentry /\ Coupling /\ WriteSerial /\ TimerArmed)'
  BY <1>14 DEF CallbackSignal, notSession
<1>15. ASSUME NEW n \in 1..2, RecvReply(n)
       PROVE (NoReentry /\ Coupling /\ WriteSerial /\ TimerArmed)'
  BY <1>15 DEF RecvReply, notSession
<1>16. ASSUME NEW open \in BOOLEAN, RecvStream(open)
       PROVE (NoReentry /\ Coupling /\ WriteSerial /\ TimerArmed)'
  BY <1>16 DEF RecvStream, notSession
<1>17. CASE RecvGoAway
  BY <1>17 DEF RecvGoAway, notSession
<1>18. CASE RecvFatal
  BY <1>18 DEF RecvFatal, notSession
<1>19. CASE StreamClosedOnSend
  BY <1>19 DEF StreamClosedOnSend, notSession
<1>20. CASE FrameNotSent
  BY <1>20 DEF FrameNotSent, notSession
<1>21. CASE OnReadReturns
  BY <1>21, BecomeStep DEF OnReadReturns, callback_guard, stop, Aborted, WriteCalls
<1>22. CASE OnWriteReturns
  BY <1>22, BecomeStep, ReturnStep DEF OnWriteReturns, callback_guard, stop, Aborted, WriteCalls
<1>23. CASE WriteBusy
  BY <1>23, ReturnStep DEF WriteBusy, WriteCalls
<1>24. CASE EnterOnWrite
  BY <1>24, BecomeStep DEF EnterOnWrite, BeginOnWrite, callback_guard, WriteCalls
<1>25. CASE write_out
  BY <1>25, ReturnStep DEF write_out, stop, Aborted, ExpiresFromNow, WriteCalls
<1>26. CASE read_tail
  BY <1>26, ReturnStep DEF read_tail, ReadTail, read_data, stop, Aborted, ExpiresFromNow
<1>27. ASSUME NEW n \in 1..MaxChunk, MemSend(n)
       PROVE (NoReentry /\ Coupling /\ WriteSerial /\ TimerArmed)'
  BY <1>27, BecomeStep DEF MemSend, callback_guard, WriteCalls
<1>28. ASSUME NEW result \in {"ok", "err"}, HandshakeEnds(result)
       PROVE (NoReentry /\ Coupling /\ WriteSerial /\ TimerArmed)'
  BY <1>28 DEF HandshakeEnds
<1>29. CASE PeerSends
  BY <1>29 DEF PeerSends
<1>30. CASE PeerCloses
  BY <1>30 DEF PeerCloses
<1>31. CASE WriteFails
  BY <1>31 DEF WriteFails
<1>32. ASSUME NEW k \in 1..BufSize, WriteAccepted(k)
       PROVE (NoReentry /\ Coupling /\ WriteSerial /\ TimerArmed)'
  BY <1>32 DEF WriteAccepted
<1>33. CASE Tick
  BY <1>33 DEF Tick
<1>34. CASE TimerFires
  BY <1>34 DEF TimerFires
<1>35. CASE UNCHANGED vars
  BY <1>35 DEF vars
<1> QED  BY <1>1, <1>2, <1>3, <1>4, <1>5, <1>6, <1>7, <1>8, <1>9, <1>10, <1>11, <1>12, <1>13,
            <1>14, <1>15, <1>16, <1>17, <1>18, <1>19, <1>20, <1>21, <1>22, <1>23, <1>24, <1>25,
            <1>26, <1>27, <1>28, <1>29, <1>30, <1>31, <1>32, <1>33, <1>34, <1>35
         DEF Next, AcceptThread, Handlers, App, Nghttp2, Calls, Environment, Clock

\* The inductive invariant holds of a new connection.
LEMMA InitInv == Init => ConnInv
<1> SUFFICES ASSUME Init PROVE ConnInv
  OBVIOUS
<1>1. TypeOK /\ NoReentry
  BY InitType
<1>2. ~Running("on_write") /\ ~Running("write_out")
  BY DEF Init, Running
<1> QED  BY <1>1, <1>2 DEF Init, ConnInv, Coupling, WriteSerial, TimerArmed

\* The inductive invariant holds in every state of every behaviour.
THEOREM ConnectionInvariant == Spec => []ConnInv
<1>1. ConnInv /\ [Next]_vars => ConnInv'
  BY TypeStep, InvStep DEF ConnInv
<1> QED  BY InitInv, <1>1, PTL DEF Spec

\* Every variable keeps its type; in particular the calls of the connection's
\* thread nest in the nine ways listed in Stacks only.
THEOREM TypeCorrect == Spec => []TypeOK
<1>1. ConnInv => TypeOK
  BY DEF ConnInv
<1> QED  BY ConnectionInvariant, <1>1, PTL

\* nghttp2 is never re-entered: the guard flag is set exactly inside on_read and on_write.
THEOREM NoReentryHolds == Spec => []NoReentry
<1>1. ConnInv => NoReentry
  BY DEF ConnInv
<1> QED  BY ConnectionInvariant, <1>1, PTL

\* At most one write is outstanding, and writing_ tells whether there is one.
THEOREM WritesAreSerial == Spec => []WriteSerial
<1>1. ConnInv => WriteSerial
  BY DEF ConnInv
<1> QED  BY ConnectionInvariant, <1>1, PTL

\* Until it is stopped, a connection always has exactly one timeout_handler due.
THEOREM DeadlineIsArmed == Spec => []TimerArmed
<1>1. ConnInv => TimerArmed
  BY DEF ConnInv
<1> QED  BY ConnectionInvariant, <1>1, PTL

\* Only on_write assigns to write_buffer_.
LEMMA BufferWriters ==
  [Next]_vars => UNCHANGED write_buffer \/ EnterOnWrite \/ \E n \in 1..MaxChunk : MemSend(n)
<1>1. AcceptThread => UNCHANGED write_buffer
  BY DEF AcceptThread, Arm, BeginHandshake, StartSession, SessionFails, FirstRead
<1>2. Handlers => UNCHANGED write_buffer
  BY DEF Handlers, HandshakeRefused, HandshakeDone, SessionFails, ReadHandler, WriteFailed,
         WriteDone, TimeoutIgnored, TimeoutExpired, Expire, TimeoutMoved, notTimeout
<1>3. App \/ Nghttp2 => UNCHANGED write_buffer
  BY DEF App, Signal, CallbackSignal, Nghttp2, RecvReply, RecvStream, RecvGoAway, RecvFatal,
         StreamClosedOnSend, FrameNotSent, notSession
<1>4. Calls => UNCHANGED write_buffer \/ EnterOnWrite \/ \E n \in 1..MaxChunk : MemSend(n)
  BY DEF Calls, OnReadReturns, OnWriteReturns, WriteBusy, write_out, read_tail, ReadTail
<1>5. Environment \/ Clock => UNCHANGED write_buffer
  BY DEF Environment, HandshakeEnds, PeerSends, PeerCloses, WriteFails, WriteAccepted,
         Clock, Tick, TimerFires
<1>6. UNCHANGED vars => UNCHANGED write_buffer
  BY DEF vars
<1> QED  BY <1>1, <1>2, <1>3, <1>4, <1>5, <1>6 DEF Next

\* The buffer the kernel is reading is never written: on_write runs only when
\* no write is outstanding.
THEOREM BufferIsStable == Spec => BufferStable
<1> DEFINE Stable == wr = "pending" => write_buffer' = write_buffer
<1>1. ASSUME ConnInv, [Next]_vars PROVE Stable
  <2>1. CASE EnterOnWrite
    BY <1>1, <2>1 DEF ConnInv, WriteSerial, EnterOnWrite
  <2>2. ASSUME NEW n \in 1..MaxChunk, MemSend(n) PROVE Stable
    BY <1>1, <2>2 DEF ConnInv, WriteSerial, Coupling, MemSend
  <2> QED  BY <1>1, <2>1, <2>2, BufferWriters
<1>2. ConnInv /\ [Next]_vars => [Stable]_vars
  BY <1>1
<1> QED  BY ConnectionInvariant, <1>2, PTL DEF Spec, BufferStable
=============================================================================
