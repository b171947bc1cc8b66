-------------------------- MODULE ServerOwnerProofs --------------------------
(***************************************************************************)
(* Proofs about Server when one thread of the program owns it: that thread *)
(* makes the one call of listen, as its first call, and the one call that  *)
(* joins; the others only stop the server, when and as often as they like. *)
(* Without an owner the properties below are false: two listens run two    *)
(* threads per io_service, and two joins get the same future.              *)
(***************************************************************************)
EXTENDS ServerProofs

\* calls[c] are the calls c makes; o is the owner.
OwnedBy(o, calls) ==
  /\ \A n \in DOMAIN calls[o] : calls[o][n] \in Listens => n = 1
  /\ \A m, n \in DOMAIN calls[o] : calls[o][m] \in Joins /\ calls[o][n] \in Joins => m = n
  /\ \A c \in Callers \ {o} : \A n \in DOMAIN calls[c] : calls[c][n] = "stop"

\* The owner is in listen, or has yet to begin it.
ListensNext(o) == todo[o] # <<>> /\ Head(todo[o]) \in Listens

\* The threads: none before run(), then one for each io_service in turn.
Launched(o) ==
  /\ ListensNext(o) /\ at[o] \in {"idle", "bind", "endpoints", "accept"} => futures = <<>>
  /\ at[o] = "run" => Len(futures) = i[o]
  /\ \A k \in DOMAIN futures : futures[k].svc = k - 1

-----------------------------------------------------------------------------
\* A call that is over, or thrown out of, leaves the rest of the script owned.
LEMMA OwnedStays ==
  ASSUME NEW o \in Callers, NEW c \in Callers, TypeOK, Calling, Moves(c), OwnedBy(o, todo)
  PROVE  OwnedBy(o, todo)'
<1> USE DEF TypeOK
<1>1. \/ todo' = todo
      \/ todo[c] # <<>> /\ todo' = [todo EXCEPT ![c] = Tail(todo[c])]
      \/ todo' = [todo EXCEPT ![c] = <<>>]
  BY DEF Moves, GoTo, Iterate, Finish, Fail, Calling
<1>2. CASE todo[c] # <<>> /\ todo' = [todo EXCEPT ![c] = Tail(todo[c])]
  <2>1. todo[c] \in Seq(Operations)
    OBVIOUS
  <2>2. \A n \in DOMAIN Tail(todo[c]) : n # 0 /\ n + 1 # 1 /\ n + 1 \in DOMAIN todo[c]
                                        /\ Tail(todo[c])[n] = todo[c][n + 1]
    BY <1>2, <2>1
  <2>3. \A m, n \in DOMAIN Tail(todo[c]) : m + 1 = n + 1 => m = n
    BY <2>1, <1>2
  <2> QED  BY <1>2, <2>2, <2>3 DEF OwnedBy
<1>3. CASE todo' = [todo EXCEPT ![c] = <<>>]
  BY <1>3 DEF OwnedBy
<1> QED  BY <1>1, <1>2, <1>3 DEF OwnedBy

\* The other callers are only ever in stop.
LEMMA OthersStop ==
  ASSUME ServerInv, NEW o \in Callers, NEW c \in Callers \ {o}, OwnedBy(o, todo), Caller(c)
  PROVE  /\ todo'[o] = todo[o] /\ at'[o] = at[o] /\ i'[o] = i[o]
         /\ UNCHANGED <<futures, joined, busy, misused, accepts>>
         /\ halted \subseteq halted'
         /\ acceptors' = acceptors \/ halted # {}
         /\ Begin(c) \/ Halt(c) \/ HaltEnds(c) \/ Close(c) \/ CloseEnds(c)
<1> USE DEF ServerInv, TypeOK
<1>1. todo'[o] = todo[o] /\ at'[o] = at[o] /\ i'[o] = i[o]
  BY CallerMoves, OthersStay
<1>2. todo[c] # <<>> => Head(todo[c]) = "stop"
  <2>1. todo[c] \in Seq(Operations) /\ \A n \in DOMAIN todo[c] : todo[c][n] = "stop"
    BY DEF OwnedBy
  <2> QED  BY <2>1
<1>3. at[c] \notin ListenPlaces \cup {"join"}
  BY <1>2 DEF Calling, ListenPlaces, Listens, Joins
<1>4. Begin(c) \/ Halt(c) \/ HaltEnds(c) \/ Close(c) \/ CloseEnds(c)
  BY <1>3 DEF Caller, Resolve, BindEndpoint, BindEnds, StartAccept, StartAcceptEnds,
              Run, RunEnds, Join, JoinEnds, ListenPlaces
<1>5. 0 \in Services
  BY PoolAssumption DEF Services
<1>6. Close(c) => halted # {}
  BY <1>5 DEF Close, Halting
<1> QED  BY <1>1, <1>4, <1>6 DEF Begin, Halt, HaltEnds, Close, CloseEnds, halt, poolVars

-----------------------------------------------------------------------------
(* One thread per io_service *)

\* The owner's own steps start the threads in the order of the io_services, once.
LEMMA OwnerLaunches ==
  ASSUME ServerInv, NEW o \in Callers, OwnedBy(o, todo), Launched(o), Caller(o)
  PROVE  Launched(o)'
<1> USE DEF ServerInv, TypeOK
<1>1. Moves(o)
  BY CallerMoves
<1>2. futures \in Seq(Futures)
  BY Elements
<1>3. ASSUME Begin(o) \/ Resolve(o) \/ BindEndpoint(o) \/ BindEnds(o) \/ StartAccept(o)
      PROVE  Launched(o)'
  <2>1. futures' = futures
    BY <1>3 DEF Begin, Resolve, BindEndpoint, BindEnds, StartAccept, poolVars
  <2>2. at'[o] # "run" /\ at[o] \in {"idle", "bind", "endpoints", "accept"}
        /\ (todo'[o] = todo[o] \/ todo'[o] = <<>>)
    <3>1. CASE Begin(o)
      <4>1. Head(todo[o]) \in Operations
        BY <3>1 DEF Begin
      <4> QED  BY <3>1, <4>1 DEF Begin, GoTo, Operations
    <3> QED  BY <1>3, <3>1 DEF Resolve, BindEndpoint, BindEnds, StartAccept, GoTo, Fail, Iterate
  <2> QED  BY <2>1, <2>2 DEF Launched, ListensNext
<1>4. ASSUME StartAcceptEnds(o)  PROVE Launched(o)'
  <2>1. futures = <<>> /\ futures' = <<>> /\ at'[o] = "run" /\ i'[o] = 0
    BY <1>4 DEF StartAcceptEnds, Launched, ListensNext, Calling, ListenPlaces, GoTo, poolVars
  <2> QED  BY <2>1 DEF Launched
<1>5. ASSUME Run(o)  PROVE Launched(o)'
  <2>1. /\ futures' = Append(futures, [svc |-> i[o], thread |-> "running", valid |-> TRUE])
        /\ at'[o] = "run" /\ i'[o] = i[o] + 1 /\ Len(futures) = i[o]
    BY <1>5 DEF Run, launch, Iterate, Launched
  <2>2. Len(futures') = Len(futures) + 1
        /\ \A k \in DOMAIN futures' : futures'[k].svc = k - 1
    BY <1>2, <2>1 DEF Launched
  <2> QED  BY <2>1, <2>2 DEF Launched
<1>6. ASSUME RunEnds(o) \/ HaltEnds(o) \/ CloseEnds(o) \/ JoinEnds(o) \/ Halt(o) \/ Close(o)
      PROVE  Launched(o)'
  <2>1. futures' = futures /\ at'[o] \in {"join", "idle", "halt", "close"}
    BY <1>6 DEF RunEnds, HaltEnds, CloseEnds, JoinEnds, Halt, Close, GoTo, Finish, Iterate,
                poolVars
  <2>2. at'[o] = "idle" => ~ListensNext(o)'
    <3>1. CASE at'[o] = "idle"
      <4>1. at[o] # "idle" /\ todo[o] # <<>> /\ todo[o] \in Seq(Operations)
            /\ todo'[o] = Tail(todo[o])
        BY <1>6, <3>1 DEF RunEnds, HaltEnds, CloseEnds, JoinEnds, Halt, Close, GoTo, Finish,
                          Iterate, Calling
      <4>2. todo'[o] # <<>> => 2 \in DOMAIN todo[o] /\ Head(todo'[o]) = todo[o][2]
        BY <4>1
      <4> QED  BY <4>2 DEF ListensNext, OwnedBy
    <3> QED  BY <3>1
  <2> QED  BY <2>1, <2>2 DEF Launched
<1>7. ASSUME Join(o)  PROVE Launched(o)'
  <2>1. /\ DOMAIN futures' = DOMAIN futures
        /\ \A j \in DOMAIN futures : futures'[j].svc = futures[j].svc
    <3>1. i[o] + 1 \in DOMAIN futures
      BY <1>2, <1>7 DEF Join
    <3> QED  BY <1>2, <1>7, <3>1, FutureType DEF Join
  <2>2. at'[o] \in {"join", "idle"} /\ (at'[o] = "idle" => todo'[o] = <<>>)
    BY <1>7 DEF Join, Iterate, Fail
  <2> QED  BY <2>1, <2>2 DEF Launched, ListensNext
<1> QED  BY <1>3, <1>4, <1>5, <1>6, <1>7 DEF Caller

\* The steps of the pool's threads change no call, and keep each future's io_service.
LEMMA PoolSteps ==
  ASSUME ServerInv,
         \/ \E k \in Threads : Thread(k)
         \/ \E s \in Services : Handler(s)
         \/ \E a \in DOMAIN acceptors : Incoming(a)
         \/ UNCHANGED vars
  PROVE  /\ UNCHANGED <<callerVars, halted, misused, joined>>
         /\ DOMAIN futures' = DOMAIN futures /\ Len(futures') = Len(futures)
         /\ futures' \in Seq(Futures)
         /\ \A j \in DOMAIN futures :
              /\ futures'[j].svc = futures[j].svc /\ futures'[j].valid = futures[j].valid
              /\ futures[j].thread # "running" => futures'[j].thread = futures[j].thread
<1>1. futures \in Seq(Futures) /\ \A j \in DOMAIN futures : futures[j] \in Futures
  BY Elements DEF ServerInv
<1>2. ASSUME NEW k \in Threads, ThreadEnds(k) \/ HandlerThrows(k)
      PROVE  /\ UNCHANGED <<callerVars, halted, misused, joined>>
             /\ \E t \in {"returned", "threw"} :
                  futures[k].thread = "running" /\ futures' = [futures EXCEPT ![k].thread = t]
  BY <1>2 DEF ThreadEnds, HandlerThrows, Ends, Throws
<1>3. ASSUME NEW k \in Threads, NEW t \in {"returned", "threw"}, futures[k].thread = "running",
             futures' = [futures EXCEPT ![k].thread = t]
      PROVE  /\ DOMAIN futures' = DOMAIN futures /\ Len(futures') = Len(futures)
             /\ futures' \in Seq(Futures)
             /\ \A j \in DOMAIN futures :
                  /\ futures'[j].svc = futures[j].svc /\ futures'[j].valid = futures[j].valid
                  /\ futures[j].thread # "running" => futures'[j].thread = futures[j].thread
  <2> DEFINE new == [futures[k] EXCEPT !.thread = t]
  <2>1. k \in DOMAIN futures /\ futures[k] \in Futures
    BY <1>1 DEF Threads
  <2>2. new \in Futures /\ new.svc = futures[k].svc /\ new.valid = futures[k].valid
    BY <2>1 DEF Futures
  <2>3. futures' = [futures EXCEPT ![k] = new]
    BY <1>3
  <2> HIDE DEF new
  <2> QED  BY <1>1, <1>3, <2>1, <2>2, <2>3
<1>4. ASSUME UNCHANGED <<callerVars, halted, misused, joined, futures>>
      PROVE  /\ UNCHANGED <<callerVars, halted, misused, joined>>
             /\ DOMAIN futures' = DOMAIN futures /\ Len(futures') = Len(futures)
             /\ futures' \in Seq(Futures)
             /\ \A j \in DOMAIN futures :
                  /\ futures'[j].svc = futures[j].svc /\ futures'[j].valid = futures[j].valid
                  /\ futures[j].thread # "running" => futures'[j].thread = futures[j].thread
  BY <1>1, <1>4
<1>5. ASSUME NEW k \in Threads, NEW a \in DOMAIN acceptors, BeginHandler(k, a)
      PROVE  UNCHANGED <<callerVars, halted, misused, joined, futures>>
  BY <1>5 DEF BeginHandler, poolVars
<1>6. ASSUME NEW s \in Services, Handler(s)
      PROVE  UNCHANGED <<callerVars, halted, misused, joined, futures>>
  BY <1>6 DEF Handler, ReadIndex, AcceptAgain, poolVars
<1>7. ASSUME NEW a \in DOMAIN acceptors, Incoming(a)
      PROVE  UNCHANGED <<callerVars, halted, misused, joined, futures>>
  BY <1>7 DEF Incoming, poolVars
<1>8. CASE UNCHANGED vars
  BY <1>4, <1>8 DEF vars, poolVars
<1> QED  BY <1>2, <1>3, <1>4, <1>5, <1>6, <1>7, <1>8 DEF Thread

-----------------------------------------------------------------------------
(* join *)

\* A future is got once: while a join is yet to come all are valid, during it
\* those it has not reached.  Those it has passed have no running thread.
Joining(o) ==
  /\ at[o] # "join" /\ (\E n \in DOMAIN todo[o] : todo[o][n] \in Joins) =>
       \A k \in DOMAIN futures : futures[k].valid
  /\ at[o] = "join" => \A k \in DOMAIN futures :
       IF k <= i[o] THEN futures[k].thread # "running" ELSE futures[k].valid
  /\ joined => ~ListensNext(o) /\ \A k \in DOMAIN futures : futures[k].thread # "running"
  /\ ~misused

OwnerInv(o) == OwnedBy(o, todo) /\ Launched(o) /\ Joining(o)

\* The owner's own steps get each future once, and leave no thread after join().
LEMMA OwnerJoins ==
  ASSUME ServerInv, NEW o \in Callers, OwnerInv(o), Caller(o)
  PROVE  Joining(o)'
<1> USE DEF ServerInv, TypeOK, OwnerInv
<1>1. Moves(o)
  BY CallerMoves
<1>2. futures \in Seq(Futures) /\ todo[o] \in Seq(Operations) /\ i[o] \in Nat
      /\ \A k \in DOMAIN futures : futures[k] \in Futures /\ k \in Nat /\ k > 0
  BY Elements
<1>3. /\ at[o] = "join" => Head(todo[o]) \in Joins
      /\ at[o] # "idle" => todo[o] # <<>>
      /\ todo[o] # <<>> => 1 \in DOMAIN todo[o] /\ todo[o][1] = Head(todo[o])
  <2>1. todo[o] # <<>> => 1 \in DOMAIN todo[o] /\ todo[o][1] = Head(todo[o])
    BY <1>2
  <2> QED  BY <2>1 DEF Calling
<1>4. ASSUME Begin(o) \/ BindEnds(o) \/ StartAcceptEnds(o) \/ RunEnds(o) \/ Resolve(o)
             \/ BindEndpoint(o) \/ StartAccept(o) \/ Halt(o) \/ HaltEnds(o) \/ Close(o)
             \/ CloseEnds(o)
      PROVE  Joining(o)'
  <2>1. UNCHANGED <<futures, joined, misused>> /\ at[o] # "join"
    BY <1>4 DEF Begin, BindEnds, StartAcceptEnds, RunEnds, Resolve, BindEndpoint, StartAccept,
                Halt, HaltEnds, Close, CloseEnds, poolVars
  <2>2. \/ todo'[o] = todo[o]
        \/ todo'[o] = <<>> /\ at'[o] = "idle"
        \/ todo[o] # <<>> /\ todo'[o] = Tail(todo[o]) /\ at'[o] = "idle"
    BY <1>1, <1>3, <1>4 DEF Moves, GoTo, Iterate, Finish, Fail
  <2>3. at'[o] = "join" => /\ i'[o] = 0 /\ todo'[o] = todo[o]
                           /\ todo[o] # <<>> /\ Head(todo[o]) \in Joins
    <3>1. CASE Begin(o)
      <4>1. Head(todo[o]) \in Operations
        BY <3>1, <1>2 DEF Begin
      <4> QED  BY <3>1, <4>1 DEF Begin, GoTo, Operations, Joins
    <3>2. CASE RunEnds(o)
      BY <1>3, <3>2 DEF RunEnds, GoTo, Finish, Joins
    <3> QED  BY <1>4, <2>1, <3>1, <3>2
             DEF BindEnds, StartAcceptEnds, Resolve, BindEndpoint, StartAccept,
                 Halt, HaltEnds, Close, CloseEnds, GoTo, Iterate, Finish, Fail
  <2>4. (\E n \in DOMAIN todo'[o] : todo'[o][n] \in Joins)
        => \E n \in DOMAIN todo[o] : todo[o][n] \in Joins
    <3> SUFFICES ASSUME NEW n \in DOMAIN todo'[o], todo'[o][n] \in Joins
                 PROVE  \E m \in DOMAIN todo[o] : todo[o][m] \in Joins
      OBVIOUS
    <3>1. CASE todo[o] # <<>> /\ todo'[o] = Tail(todo[o])
      <4>1. n + 1 \in DOMAIN todo[o] /\ todo'[o][n] = todo[o][n + 1]
        BY <1>2, <3>1
      <4> QED  BY <4>1
    <3> QED  BY <2>2, <3>1
  <2>5. ListensNext(o)' => ListensNext(o)
    <3>1. CASE todo[o] # <<>> /\ todo'[o] = Tail(todo[o])
      <4>1. todo'[o] # <<>> => 2 \in DOMAIN todo[o] /\ Head(todo'[o]) = todo[o][2]
        BY <1>2, <3>1
      <4> QED  BY <4>1 DEF ListensNext, OwnedBy
    <3> QED  BY <2>2, <3>1 DEF ListensNext
  <2>6. at'[o] = "join" => \A k \in DOMAIN futures : futures[k].valid /\ ~(k <= i'[o])
    <3> SUFFICES ASSUME at'[o] = "join", NEW k \in DOMAIN futures
                 PROVE  futures[k].valid /\ ~(k <= i'[o])
      OBVIOUS
    <3>1. futures[k].valid
      BY <1>3, <2>1, <2>3 DEF Joining
    <3> QED  BY <1>2, <2>3, <3>1
  <2> QED  BY <2>1, <2>4, <2>5, <2>6 DEF Joining
<1>5. ASSUME Run(o)  PROVE Joining(o)'
  <2> DEFINE new == [svc |-> i[o], thread |-> "running", valid |-> TRUE]
  <2>1. /\ futures' = Append(futures, new) /\ new.valid
        /\ UNCHANGED <<joined, misused, todo, at>> /\ at[o] = "run"
    BY <1>5 DEF Run, launch, Iterate
  <2>2. ~joined
    BY <1>3, <2>1 DEF Joining, ListensNext, Calling, ListenPlaces
  <2> HIDE DEF new
  <2>3. \A k \in DOMAIN futures' : IF k \in DOMAIN futures THEN futures'[k] = futures[k]
                                                           ELSE futures'[k] = new
    BY <1>2, <2>1
  <2> QED  BY <2>1, <2>2, <2>3 DEF Joining
<1>6. ASSUME Join(o)  PROVE Joining(o)'
  <2> DEFINE k == i[o] + 1
  <2>1. k \in DOMAIN futures /\ ~(k <= i[o])
    BY <1>2, <1>6 DEF Join
  <2>2. futures[k].valid /\ ~misused
    BY <1>6, <2>1 DEF Join, Joining
  <2>3. got(k) /\ UNCHANGED <<misused, joined>>
    BY <1>6, <2>2 DEF Join
  <2>4. /\ DOMAIN futures' = DOMAIN futures /\ futures'[k].thread = futures[k].thread
        /\ futures[k].thread # "running"
        /\ \A j \in DOMAIN futures \ {k} : futures'[j] = futures[j]
    BY <1>2, <2>1, <2>3 DEF got, Futures
  <2>5. \/ at'[o] = "idle" /\ todo'[o] = <<>>
        \/ at'[o] = "join" /\ i'[o] = k /\ todo'[o] = todo[o]
    BY <1>6 DEF Join, Iterate, Fail
  <2>6. \A j \in DOMAIN futures : j <= k => j <= i[o] \/ j = k
    BY <1>2
  <2>7. \A j \in DOMAIN futures : ~(j <= k) => ~(j <= i[o]) /\ j # k
    BY <1>2
  <2> HIDE DEF k
  <2>8. at[o] = "join"
    BY <1>6 DEF Join
  <2>9. joined => ~ListensNext(o)' /\ \A j \in DOMAIN futures' : futures'[j].thread # "running"
    BY <2>4, <2>5 DEF Joining, ListensNext
  <2> QED  BY <2>2, <2>3, <2>4, <2>5, <2>6, <2>7, <2>8, <2>9 DEF Joining
<1>7. ASSUME JoinEnds(o)  PROVE Joining(o)'
  <2>1. /\ UNCHANGED poolVars /\ at[o] = "join" /\ at'[o] = "idle" /\ i[o] >= Len(futures)
        /\ todo'[o] = Tail(todo[o]) /\ todo[o] # <<>>
    BY <1>3, <1>7 DEF JoinEnds, Finish
  <2>2. \A n \in DOMAIN Tail(todo[o]) : n + 1 \in DOMAIN todo[o] /\ n + 1 # 1
                                        /\ Tail(todo[o])[n] = todo[o][n + 1]
    BY <1>2, <2>1
  <2>3. ~\E n \in DOMAIN todo'[o] : todo'[o][n] \in Joins
    BY <1>3, <2>1, <2>2 DEF OwnedBy
  <2>4. ~ListensNext(o)'
    <3>1. todo'[o] # <<>> => 1 \in DOMAIN todo'[o] /\ Head(todo'[o]) = todo'[o][1]
      BY <1>2, <2>1
    <3> QED  BY <2>1, <2>2, <3>1 DEF OwnedBy, ListensNext
  <2>5. \A k \in DOMAIN futures : k <= i[o]
    BY <1>2, <2>1
  <2> QED  BY <2>1, <2>3, <2>4, <2>5 DEF Joining, poolVars
<1> QED  BY <1>4, <1>5, <1>6, <1>7 DEF Caller

-----------------------------------------------------------------------------
\* The owner's invariant holds of a new server.
LEMMA InitOwner ==
  ASSUME NEW o \in Callers, \A script \in Scripts : OwnedBy(o, script)
  PROVE  Init => OwnerInv(o)
<1> SUFFICES ASSUME Init  PROVE OwnerInv(o)
  OBVIOUS
<1>1. OwnedBy(o, todo)
  BY DEF Init
<1>2. futures = <<>> /\ DOMAIN futures = {} /\ at[o] = "idle" /\ joined = FALSE /\ misused = FALSE
  BY DEF Init, PoolInit
<1> QED  BY <1>1, <1>2 DEF OwnerInv, Launched, Joining

\* Every step preserves it: the other callers only stop.
LEMMA NextOwner ==
  ASSUME NEW o \in Callers
  PROVE  ServerInv /\ OwnerInv(o) /\ [Next]_vars => OwnerInv(o)'
<1> SUFFICES ASSUME ServerInv, OwnerInv(o), [Next]_vars  PROVE OwnerInv(o)'
  OBVIOUS
<1>1. CASE Caller(o)
  <2>1. OwnedBy(o, todo)'
    BY <1>1, OwnedStays, CallerMoves DEF ServerInv, OwnerInv
  <2> QED  BY <1>1, <2>1, OwnerLaunches, OwnerJoins DEF OwnerInv
<1>2. ASSUME NEW c \in Callers \ {o}, Caller(c)  PROVE OwnerInv(o)'
  <2>1. OwnedBy(o, todo)'
    BY <1>2, OwnedStays, CallerMoves DEF ServerInv, OwnerInv
  <2>2. /\ todo'[o] = todo[o] /\ at'[o] = at[o] /\ i'[o] = i[o]
        /\ UNCHANGED <<futures, joined, misused>>
    BY <1>2, OthersStop DEF OwnerInv
  <2> QED  BY <2>1, <2>2 DEF OwnerInv, Launched, Joining, ListensNext
<1>3. ASSUME \/ \E k \in Threads : Thread(k)
             \/ \E s \in Services : Handler(s)
             \/ \E a \in DOMAIN acceptors : Incoming(a)
             \/ UNCHANGED vars
      PROVE  OwnerInv(o)'
  <2>1. /\ UNCHANGED <<callerVars, misused, joined>>
        /\ DOMAIN futures' = DOMAIN futures /\ Len(futures') = Len(futures)
        /\ futures' \in Seq(Futures)
        /\ \A j \in DOMAIN futures :
             /\ futures'[j].svc = futures[j].svc /\ futures'[j].valid = futures[j].valid
             /\ futures[j].thread # "running" => futures'[j].thread = futures[j].thread
    BY <1>3, PoolSteps
  <2>2. OwnedBy(o, todo)' /\ (ListensNext(o)' <=> ListensNext(o))
    BY <2>1 DEF OwnerInv, OwnedBy, ListensNext, callerVars
  <2>3. futures = <<>> => futures' = <<>>
    BY <2>1
  <2>4. Launched(o)'
    BY <2>1, <2>2, <2>3 DEF OwnerInv, Launched, callerVars
  <2>5. Joining(o)'
    BY <2>1, <2>2 DEF OwnerInv, Joining, callerVars
  <2> QED  BY <2>2, <2>4, <2>5 DEF OwnerInv
<1> QED  BY <1>1, <1>2, <1>3 DEF Next

\* So it holds always, with the invariant of the server.
LEMMA OwnerInvariant ==
  ASSUME NEW o \in Callers, \A script \in Scripts : OwnedBy(o, script)
  PROVE  Spec => [](ServerInv /\ OwnerInv(o))
<1>1. Init => OwnerInv(o)
  BY InitOwner
<1>2. ServerInv /\ OwnerInv(o) /\ [Next]_vars => OwnerInv(o)'
  BY NextOwner
<1> QED  BY <1>1, <1>2, InitServer, NextServer, PTL DEF Spec

\* With an owner, no two threads run the same io_service, so that the handlers
\* of a connection never overlap (io_service_pool::run, io_service_pool.cpp:27-41).
THEOREM HandlersAreSerial ==
  ASSUME NEW o \in Callers, \A script \in Scripts : OwnedBy(o, script)
  PROVE  Spec => []OneThreadPerService
<1>1. ServerInv /\ OwnerInv(o) => OneThreadPerService
  <2> SUFFICES ASSUME ServerInv, OwnerInv(o), NEW j \in Threads, NEW k \in Threads, j # k
               PROVE  futures[j].svc # futures[k].svc
    BY DEF OneThreadPerService
  <2>1. j \in Nat /\ k \in Nat
    BY Elements DEF ServerInv, Threads
  <2>2. futures[j].svc = j - 1 /\ futures[k].svc = k - 1
    BY DEF OwnerInv, Launched, Threads
  <2> QED  BY <2>1, <2>2
<1> QED  BY <1>1, OwnerInvariant, PTL

\* With an owner, no future is got twice, whatever the others' stops and a
\* blocking listen make of it (io_service_pool::join).
THEOREM FuturesAreGotOnce ==
  ASSUME NEW o \in Callers, \A script \in Scripts : OwnedBy(o, script)
  PROVE  Spec => []GetOnce
<1>1. OwnerInv(o) => GetOnce
  BY DEF OwnerInv, Joining, GetOnce
<1> QED  BY <1>1, OwnerInvariant, PTL

\* With an owner, no thread of the pool runs after join() returned, and none is
\* started: the server may be destroyed (server::join, io_service_pool::join).
THEOREM JoinEndsTheThreads ==
  ASSUME NEW o \in Callers, \A script \in Scripts : OwnedBy(o, script)
  PROVE  Spec => []JoinIsFinal
<1>1. OwnerInv(o) => JoinIsFinal
  BY DEF OwnerInv, Joining, JoinIsFinal, Threads
<1> QED  BY <1>1, OwnerInvariant, PTL

-----------------------------------------------------------------------------
(* The chain of accepts *)

\* Has listen called start_accept on acceptor a?
Reached(o, a) == futures # <<>> \/ at[o] = "run" \/ (at[o] = "accept" /\ a <= i[o])

InHand(a) ==
  IF busy[acceptors[a].svc].step # "none" /\ busy[acceptors[a].svc].a = a THEN 1 ELSE 0

Chain(a) == acceptors[a].pending + acceptors[a].queued + InHand(a)

\* Nothing is pending on an acceptor before start_accept, and one accept, or its
\* handler, afterwards.
Linked(o, a) == IF Reached(o, a) THEN Chain(a) = 1 \/ Broken(acceptors[a].svc)
                                 ELSE Chain(a) = 0

Chained(o) == halted = {} => \A a \in DOMAIN acceptors : Linked(o, a)

\* A thread that has thrown stays so.
LEMMA BrokenStays ==
  ASSUME NEW a, Broken(acceptors[a].svc), acceptors'[a].svc = acceptors[a].svc,
         \A k \in DOMAIN futures :
           /\ k \in DOMAIN futures' /\ futures'[k].svc = futures[k].svc
           /\ futures[k].thread # "running" => futures'[k].thread = futures[k].thread
  PROVE  Broken(acceptors[a].svc)'
BY DEF Broken, Threads

\* A step that leaves the accepts of a alone leaves its link.
LEMMA LinkStays ==
  ASSUME NEW o \in Callers, NEW a \in DOMAIN acceptors, ServerInv, Linked(o, a),
         Reached(o, a)' <=> Reached(o, a),
         acceptors'[a].svc = acceptors[a].svc,
         Chain(a)' = Chain(a),
         \A k \in DOMAIN futures :
           /\ k \in DOMAIN futures' /\ futures'[k].svc = futures[k].svc
           /\ futures[k].thread # "running" => futures'[k].thread = futures[k].thread
  PROVE  Linked(o, a)'
<1>1. Broken(acceptors[a].svc) => Broken(acceptors[a].svc)'
  BY BrokenStays
<1> QED  BY <1>1 DEF Linked

\* Until stop every acceptor is open.
LEMMA OpenUntilStop ==
  ASSUME ServerInv, halted = {}, NEW a \in DOMAIN acceptors
  PROVE  acceptors[a].open
<1>1. 0 \in Services
  BY PoolAssumption DEF Services
<1>2. acceptors[a].open \in BOOLEAN
  BY Elements DEF ServerInv, Acceptors
<1> QED  BY <1>1 DEF ServerInv, Closing

\* async_accept adds one to the chain, on an open acceptor.
LEMMA AcceptAdds ==
  ASSUME ServerInv, halted = {}, NEW a \in DOMAIN acceptors, async_accept(a)
  PROVE  /\ DOMAIN acceptors' = DOMAIN acceptors
         /\ acceptors'[a].svc = acceptors[a].svc
         /\ acceptors'[a].pending = acceptors[a].pending + 1
         /\ acceptors'[a].queued = acceptors[a].queued
         /\ \A b \in DOMAIN acceptors \ {a} : acceptors'[b] = acceptors[b]
<1>1. acceptors[a].open
  BY OpenUntilStop
<1>2. acceptors' = [acceptors EXCEPT ![a].pending = @ + 1]
  BY <1>1 DEF async_accept
<1>3. acceptors \in Seq(Acceptors) /\ acceptors[a] \in Acceptors
  BY Elements DEF ServerInv
<1> QED  BY <1>2, <1>3 DEF Acceptors

\* The pool's threads pass the accept on: pending, queued, in the handler.
LEMMA PoolLinks ==
  ASSUME ServerInv, NEW o \in Callers, Chained(o), halted = {},
         \/ \E k \in Threads : Thread(k)
         \/ \E s \in Services : Handler(s)
         \/ \E a \in DOMAIN acceptors : Incoming(a)
         \/ UNCHANGED vars,
         NEW b \in DOMAIN acceptors'
  PROVE  Linked(o, b)'
<1> USE DEF ServerInv
<1>1. /\ UNCHANGED callerVars /\ DOMAIN futures' = DOMAIN futures
      /\ Len(futures') = Len(futures) /\ futures' \in Seq(Futures)
      /\ \A j \in DOMAIN futures :
           /\ futures'[j].svc = futures[j].svc
           /\ futures[j].thread # "running" => futures'[j].thread = futures[j].thread
  BY PoolSteps
<1>2. /\ acceptors \in Seq(Acceptors) /\ futures \in Seq(Futures)
      /\ \A a \in DOMAIN acceptors :
           /\ acceptors[a].pending \in Nat /\ acceptors[a].queued \in Nat
           /\ acceptors[a].svc \in Services /\ acceptors[a] \in Acceptors
      /\ \A k \in DOMAIN futures : futures[k].svc \in Services
  BY Elements
<1>3. busy \in [Services -> [step : {"none", "begun", "read"}, a : Nat, index : Services]]
  BY DEF TypeOK
<1>4. futures' = <<>> <=> futures = <<>>
  BY <1>1, <1>2
<1>5. Reached(o, b)' <=> Reached(o, b)
  BY <1>1, <1>4 DEF Reached, callerVars
<1>6. ASSUME b \in DOMAIN acceptors, acceptors'[b].svc = acceptors[b].svc, Chain(b)' = Chain(b)
      PROVE  Linked(o, b)'
  BY <1>1, <1>5, <1>6, LinkStays DEF Chained
<1>7. ASSUME acceptors' = acceptors, busy' = busy
      PROVE  Linked(o, b)'
  BY <1>6, <1>7 DEF Chain, InHand
<1>8. NoHandler.step = "none"
  BY DEF NoHandler
<1>9. ASSUME NEW k \in Threads, HandlerThrows(k)  PROVE Linked(o, b)'
  <2> DEFINE s == futures[k].svc
  <2>1. k \in DOMAIN futures /\ s \in Services /\ futures # <<>>
    BY <1>2 DEF Threads
  <2>2. acceptors' = acceptors /\ busy' = [busy EXCEPT ![s] = NoHandler]
        /\ futures' = [futures EXCEPT ![k].thread = "threw"]
    BY <1>9 DEF HandlerThrows, Throws
  <2>3. CASE acceptors[b].svc = s
    <3>1. k \in DOMAIN futures' /\ futures'[k].svc = s
      BY <1>1, <2>1
    <3>2. futures'[k].thread = "threw"
      <4>1. futures[k] \in Futures
        BY <2>1, Elements
      <4> QED  BY <2>1, <2>2, <4>1 DEF Futures
    <3>3. acceptors'[b].svc = futures'[k].svc
      BY <2>2, <2>3, <3>1
    <3>4. Broken(acceptors[b].svc)'
      BY <3>1, <3>2, <3>3 DEF Broken, Threads
    <3>5. Reached(o, b)'
      BY <1>4, <2>1 DEF Reached
    <3> QED  BY <3>4, <3>5 DEF Linked
  <2>4. CASE acceptors[b].svc # s
    <3>1. busy'[acceptors[b].svc] = busy[acceptors[b].svc]
      BY <1>2, <1>3, <2>2, <2>4
    <3> QED  BY <1>6, <2>2, <3>1 DEF Chain, InHand
  <2> QED  BY <2>3, <2>4
<1>10. ASSUME NEW k \in Threads, NEW a \in DOMAIN acceptors, BeginHandler(k, a)
       PROVE  Linked(o, b)'
  <2> DEFINE s == futures[k].svc
             begun == [step |-> "begun", a |-> a, index |-> 0]
  <2>1. /\ acceptors[a].svc = s /\ busy[s].step = "none" /\ s \in Services
        /\ busy' = [busy EXCEPT ![s] = begun]
        /\ acceptors' = [acceptors EXCEPT ![a].queued = @ - 1]
    BY <1>2, <1>10 DEF BeginHandler, Threads
  <2>2. begun.step # "none" /\ begun.a = a
    OBVIOUS
  <2> HIDE DEF s, begun
  <2>3. busy'[s] = begun /\ \A t \in Services \ {s} : busy'[t] = busy[t]
    BY <1>3, <2>1
  <2>4. /\ DOMAIN acceptors' = DOMAIN acceptors
        /\ acceptors'[a].svc = s /\ acceptors'[a].pending = acceptors[a].pending
        /\ acceptors'[a].queued = acceptors[a].queued - 1
        /\ \A c \in DOMAIN acceptors \ {a} : acceptors'[c] = acceptors[c]
    BY <1>2, <2>1 DEF Acceptors
  <2>5. CASE b = a
    <3>1. InHand(a) = 0 /\ InHand(a)' = 1
      BY <2>1, <2>2, <2>3, <2>4 DEF InHand
    <3>2. Chain(b)' = Chain(b)
      BY <1>2, <2>4, <2>5, <3>1 DEF Chain
    <3> QED  BY <1>6, <2>1, <2>4, <2>5, <3>2
  <2>6. CASE b # a
    <3>1. b \in DOMAIN acceptors /\ acceptors'[b] = acceptors[b] /\ acceptors[b].svc \in Services
      BY <1>2, <2>4, <2>6
    <3>2. InHand(b)' = InHand(b)
      BY <2>1, <2>2, <2>3, <2>6, <3>1 DEF InHand
    <3> QED  BY <1>6, <3>1, <3>2 DEF Chain
  <2> QED  BY <2>5, <2>6
<1>11. ASSUME NEW s \in Services, ReadIndex(s)  PROVE Linked(o, b)'
  <2>1. /\ busy' = [busy EXCEPT ![s].step = "read", ![s].index = next_io_service_index]
        /\ busy[s].step = "begun" /\ acceptors' = acceptors
    BY <1>11 DEF ReadIndex
  <2>2. \A t \in Services : /\ busy'[t].a = busy[t].a
                            /\ busy'[t].step = "none" <=> busy[t].step = "none"
    BY <1>3, <2>1
  <2>3. InHand(b)' = InHand(b)
    BY <1>2, <2>1, <2>2 DEF InHand
  <2> QED  BY <1>6, <2>1, <2>3 DEF Chain
<1>12. ASSUME NEW s \in Services, AcceptAgain(s)  PROVE Linked(o, b)'
  <2>0. PICK a \in DOMAIN acceptors : a = busy[s].a
    BY <1>12 DEF AcceptAgain, Handlers
  <2>1. /\ busy' = [busy EXCEPT ![s] = NoHandler] /\ async_accept(a)
        /\ busy[s].step = "read" /\ acceptors[a].svc = s
    BY <1>12, <2>0 DEF AcceptAgain, Handlers
  <2>2. busy'[s].step = "none" /\ \A t \in Services \ {s} : busy'[t] = busy[t]
    BY <1>3, <1>8, <2>1
  <2>3. /\ DOMAIN acceptors' = DOMAIN acceptors
        /\ acceptors'[a].svc = acceptors[a].svc
        /\ acceptors'[a].pending = acceptors[a].pending + 1
        /\ acceptors'[a].queued = acceptors[a].queued
        /\ \A c \in DOMAIN acceptors \ {a} : acceptors'[c] = acceptors[c]
    BY <2>1, AcceptAdds
  <2>4. CASE b = a
    <3>1. InHand(a) = 1 /\ InHand(a)' = 0
      BY <2>0, <2>1, <2>2, <2>3 DEF InHand
    <3>2. Chain(b)' = Chain(b)
      BY <1>2, <2>1, <2>3, <2>4, <3>1 DEF Chain
    <3> QED  BY <1>6, <2>1, <2>3, <2>4, <3>2
  <2>5. CASE b # a
    <3>1. b \in DOMAIN acceptors /\ acceptors'[b] = acceptors[b] /\ acceptors[b].svc \in Services
      BY <1>2, <2>3, <2>5
    <3>2. InHand(b)' = InHand(b)
      BY <2>0, <2>1, <2>2, <2>5, <3>1 DEF InHand
    <3> QED  BY <1>6, <3>1, <3>2 DEF Chain
  <2> QED  BY <2>4, <2>5
<1>13. ASSUME NEW a \in DOMAIN acceptors, Incoming(a)  PROVE Linked(o, b)'
  <2>1. /\ busy' = busy /\ acceptors[a].pending > 0
        /\ acceptors' = [acceptors EXCEPT ![a].pending = @ - 1, ![a].queued = @ + 1]
    BY <1>13 DEF Incoming
  <2>2. /\ DOMAIN acceptors' = DOMAIN acceptors
        /\ acceptors'[a].svc = acceptors[a].svc
        /\ acceptors'[a].pending = acceptors[a].pending - 1
        /\ acceptors'[a].queued = acceptors[a].queued + 1
        /\ \A c \in DOMAIN acceptors \ {a} : acceptors'[c] = acceptors[c]
    BY <1>2, <2>1 DEF Acceptors
  <2>3. b \in DOMAIN acceptors /\ acceptors'[b].svc = acceptors[b].svc
    BY <2>2
  <2>4. InHand(b)' = InHand(b) /\ InHand(b) \in Nat
    BY <2>1, <2>3 DEF InHand
  <2>5. acceptors'[b].pending + acceptors'[b].queued = acceptors[b].pending + acceptors[b].queued
    <3>1. CASE b = a
      BY <1>2, <2>2, <3>1
    <3>2. CASE b # a
      BY <2>2, <2>3, <3>2
    <3> QED  BY <3>1, <3>2
  <2> QED  BY <1>6, <2>3, <2>4, <2>5 DEF Chain
<1> QED
  BY <1>7, <1>9, <1>10, <1>11, <1>12, <1>13 DEF Thread, ThreadEnds, Handler, vars

\* The owner's call of listen makes the first link of each chain.
LEMMA OwnerLinks ==
  ASSUME ServerInv, NEW o \in Callers, OwnerInv(o), Chained(o), Caller(o), halted' = {},
         NEW b \in DOMAIN acceptors'
  PROVE  Linked(o, b)'
<1> USE DEF ServerInv
<1>1. /\ acceptors \in Seq(Acceptors) /\ futures \in Seq(Futures)
      /\ \A a \in DOMAIN acceptors :
           /\ acceptors[a].pending \in Nat /\ acceptors[a].queued \in Nat
           /\ acceptors[a].svc \in Services /\ acceptors[a] \in Acceptors /\ a \in Nat
      /\ \A k \in DOMAIN futures : futures[k].svc \in Services
  BY Elements
<1>2. busy \in [Services -> [step : {"none", "begun", "read"}, a : Nat, index : Services]]
  BY DEF TypeOK
<1>3. i[o] \in Nat /\ 0 \in Services
  BY PoolAssumption DEF TypeOK, Services
<1>4. halted = {}
  BY DEF Caller, Begin, Resolve, BindEndpoint, BindEnds, StartAccept, StartAcceptEnds, Run,
         RunEnds, Halt, HaltEnds, Close, CloseEnds, Join, JoinEnds, halt, poolVars
<1>5. at[o] \in {"bind", "endpoints", "accept"} => futures = <<>>
  BY DEF OwnerInv, Launched, ListensNext, Calling, ListenPlaces
<1>6. ASSUME acceptors' = acceptors, busy' = busy, Reached(o, b)' <=> Reached(o, b),
             \A k \in DOMAIN futures :
               /\ k \in DOMAIN futures' /\ futures'[k].svc = futures[k].svc
               /\ futures[k].thread # "running" => futures'[k].thread = futures[k].thread
      PROVE  Linked(o, b)'
  BY <1>4, <1>6, LinkStays DEF Chained, Chain, InHand
<1>7. ASSUME Resolve(o) \/ Begin(o) \/ BindEnds(o) \/ HaltEnds(o) \/ CloseEnds(o)
             \/ JoinEnds(o) \/ RunEnds(o) \/ StartAcceptEnds(o)
      PROVE  Linked(o, b)'
  <2>1. futures' = futures /\ acceptors' = acceptors /\ busy' = busy
    BY <1>7 DEF Resolve, Begin, BindEnds, HaltEnds, CloseEnds, JoinEnds, RunEnds,
                StartAcceptEnds, poolVars
  <2>2. Reached(o, b)' <=> Reached(o, b)
    <3>1. CASE Begin(o)
      <4>1. Head(todo[o]) \in Operations
        BY <3>1 DEF Begin, TypeOK
      <4>2. at[o] = "idle" /\ at'[o] \in {"bind", "halt", "join"}
        BY <3>1, <4>1 DEF Begin, GoTo, TypeOK, Operations
      <4> QED  BY <2>1, <4>2 DEF Reached
    <3>2. CASE BindEnds(o)
      <4>1. at[o] = "endpoints" /\ (at'[o] = "idle" \/ (at'[o] = "accept" /\ i'[o] = 0))
        BY <3>2 DEF BindEnds, GoTo, Fail, TypeOK
      <4>2. ~(b <= 0)
        BY <1>1, <2>1
      <4> QED  BY <2>1, <4>1, <4>2 DEF Reached
    <3>3. CASE RunEnds(o)
      <4>1. futures # <<>>
        BY <1>1, <3>3, PoolAssumption DEF RunEnds, OwnerInv, Launched
      <4> QED  BY <2>1, <4>1 DEF Reached
    <3>4. CASE StartAcceptEnds(o)
      <4>1. at[o] = "accept" /\ i[o] = Len(acceptors) /\ at'[o] = "run"
        BY <3>4 DEF StartAcceptEnds, GoTo, TypeOK
      <4>2. b <= Len(acceptors)
        BY <1>1, <2>1
      <4> QED  BY <4>1, <4>2 DEF Reached
    <3>5. CASE HaltEnds(o) \/ CloseEnds(o) \/ JoinEnds(o) \/ Resolve(o)
      <4>1. at[o] \notin {"accept", "run"} /\ at'[o] \notin {"accept", "run"}
        BY <3>5 DEF HaltEnds, CloseEnds, JoinEnds, Resolve, GoTo, Finish, Fail, TypeOK
      <4> QED  BY <2>1, <4>1 DEF Reached
    <3> QED  BY <1>7, <3>1, <3>2, <3>3, <3>4, <3>5
  <2> QED  BY <1>6, <2>1, <2>2
<1>8. ASSUME BindEndpoint(o)  PROVE Linked(o, b)'
  <2> DEFINE new == [svc |-> next_io_service_index, open |-> TRUE, pending |-> 0, queued |-> 0]
  <2>1. /\ busy' = busy /\ futures' = <<>> /\ futures = <<>>
        /\ acceptors' = acceptors \/ acceptors' = Append(acceptors, new)
        /\ at[o] = "endpoints" /\ at'[o] \in {"endpoints", "idle"}
    BY <1>5, <1>8 DEF BindEndpoint, Iterate, Fail, TypeOK
  <2>2. ~Reached(o, b)' /\ (b \in DOMAIN acceptors => ~Reached(o, b))
    BY <2>1 DEF Reached
  <2>3. new.pending = 0 /\ new.queued = 0 /\ new.svc \in Services
    BY DEF TypeOK, PoolTypeOK
  <2> HIDE DEF new
  <2>4. CASE b \in DOMAIN acceptors
    <3>1. acceptors'[b] = acceptors[b]
      BY <1>1, <2>1, <2>4
    <3>2. Chain(b)' = Chain(b)
      BY <2>1, <3>1 DEF Chain, InHand
    <3> QED  BY <1>4, <2>2, <2>4, <3>2 DEF Chained, Linked
  <2>5. CASE b \notin DOMAIN acceptors
    <3>1. acceptors'[b] = new
      BY <1>1, <2>1, <2>5
    <3>2. \A s \in Services : busy[s].step # "none" => busy[s].a # b
      BY <2>5 DEF Handlers
    <3>3. InHand(b)' = 0
      BY <2>1, <2>3, <3>1, <3>2 DEF InHand
    <3>4. Chain(b)' = 0
      BY <2>3, <3>1, <3>3 DEF Chain
    <3> QED  BY <2>2, <3>4 DEF Linked
  <2> QED  BY <2>4, <2>5
<1>9. ASSUME StartAccept(o)  PROVE Linked(o, b)'
  <2>1. PICK a \in DOMAIN acceptors : a = i[o] + 1
    BY <1>1, <1>3, <1>9 DEF StartAccept
  <2>2. /\ async_accept(a) /\ busy' = busy /\ futures = <<>> /\ futures' = <<>>
        /\ at[o] = "accept" /\ at'[o] = "accept" /\ i'[o] = a
    BY <1>5, <1>9, <2>1 DEF StartAccept, Iterate, TypeOK
  <2>3. /\ DOMAIN acceptors' = DOMAIN acceptors
        /\ acceptors'[a].svc = acceptors[a].svc
        /\ acceptors'[a].pending = acceptors[a].pending + 1
        /\ acceptors'[a].queued = acceptors[a].queued
        /\ \A c \in DOMAIN acceptors \ {a} : acceptors'[c] = acceptors[c]
    BY <1>4, <2>2, AcceptAdds
  <2>4. CASE b = a
    <3>1. ~Reached(o, a) /\ Reached(o, a)'
      BY <1>1, <1>3, <2>1, <2>2 DEF Reached
    <3>2. Chain(a) = 0
      BY <1>4, <3>1 DEF Chained, Linked
    <3>3. InHand(a)' = InHand(a) /\ InHand(a) \in Nat
      BY <2>2, <2>3 DEF InHand
    <3>4. Chain(a)' = 1
      BY <1>1, <2>3, <3>2, <3>3 DEF Chain
    <3> QED  BY <2>4, <3>1, <3>4 DEF Linked
  <2>5. CASE b # a
    <3>1. b \in DOMAIN acceptors /\ acceptors'[b] = acceptors[b] /\ b \in Nat
      BY <1>1, <2>3, <2>5
    <3>2. Chain(b)' = Chain(b)
      BY <2>2, <3>1 DEF Chain, InHand
    <3>3. b <= a <=> b <= i[o]
      BY <1>3, <2>1, <2>5, <3>1
    <3>4. Reached(o, b)' <=> Reached(o, b)
      BY <2>2, <3>3 DEF Reached
    <3> QED  BY <1>4, <2>2, <3>1, <3>2, <3>4, LinkStays DEF Chained
  <2> QED  BY <2>4, <2>5
<1>10. ASSUME Run(o)  PROVE Linked(o, b)'
  <2>1. /\ futures' = Append(futures, [svc |-> i[o], thread |-> "running", valid |-> TRUE])
        /\ acceptors' = acceptors /\ busy' = busy /\ at[o] = "run" /\ at'[o] = "run"
    BY <1>10 DEF Run, launch, Iterate
  <2>2. Reached(o, b)' <=> Reached(o, b)
    BY <2>1 DEF Reached
  <2>3. \A k \in DOMAIN futures : k \in DOMAIN futures' /\ futures'[k] = futures[k]
    BY <1>1, <2>1
  <2> QED  BY <1>6, <2>1, <2>2, <2>3
<1>11. ASSUME Join(o)  PROVE Linked(o, b)'
  <2>1. i[o] + 1 \in DOMAIN futures
    BY <1>1, <1>3, <1>11 DEF Join
  <2>2. got(i[o] + 1) \/ futures' = futures
    BY <1>11 DEF Join
  <2>3. DOMAIN futures' = DOMAIN futures /\ \A k \in DOMAIN futures :
          futures'[k].svc = futures[k].svc /\ futures'[k].thread = futures[k].thread
    <3>1. CASE got(i[o] + 1)
      <4>1. \A k \in DOMAIN futures : futures[k] \in Futures
        BY Elements
      <4> QED  BY <1>1, <2>1, <3>1, <4>1 DEF got, Futures
    <3> QED  BY <2>2, <3>1
  <2>4. futures # <<>> /\ futures' # <<>>
    BY <2>1, <2>3
  <2>5. Reached(o, b)' <=> Reached(o, b)
    BY <2>4 DEF Reached
  <2> QED  BY <1>6, <1>11, <2>3, <2>5 DEF Join
<1>12. ASSUME Halt(o) \/ Close(o)  PROVE FALSE
  BY <1>3, <1>4, <1>12 DEF Halt, halt, Close, Halting
<1> QED  BY <1>7, <1>8, <1>9, <1>10, <1>11, <1>12 DEF Caller

\* Every step keeps the accepts of each acceptor chained.
LEMMA NextChained ==
  ASSUME NEW o \in Callers
  PROVE  ServerInv /\ OwnerInv(o) /\ Chained(o) /\ [Next]_vars => Chained(o)'
<1> SUFFICES ASSUME ServerInv, OwnerInv(o), Chained(o), [Next]_vars, halted' = {},
                    NEW b \in DOMAIN acceptors'
             PROVE  Linked(o, b)'
  BY DEF Chained
<1>1. CASE Caller(o)
  BY <1>1, OwnerLinks
<1>2. ASSUME NEW c \in Callers \ {o}, Caller(c)  PROVE Linked(o, b)'
  <2>1. /\ at'[o] = at[o] /\ i'[o] = i[o] /\ UNCHANGED <<futures, busy>>
        /\ halted \subseteq halted' /\ (acceptors' = acceptors \/ halted # {})
    BY <1>2, OthersStop DEF OwnerInv
  <2>2. halted = {} /\ acceptors' = acceptors
    BY <2>1
  <2>3. (Reached(o, b)' <=> Reached(o, b)) /\ Chain(b)' = Chain(b)
    BY <2>1, <2>2 DEF Reached, Chain, InHand
  <2> QED  BY <2>1, <2>2, <2>3, LinkStays DEF Chained
<1>3. ASSUME \/ \E k \in Threads : Thread(k)
             \/ \E s \in Services : Handler(s)
             \/ \E a \in DOMAIN acceptors : Incoming(a)
             \/ UNCHANGED vars
      PROVE  Linked(o, b)'
  <2>1. halted = {}
    BY <1>3, PoolSteps
  <2> QED  BY <1>3, <2>1, PoolLinks
<1> QED  BY <1>1, <1>2, <1>3 DEF Next

\* With an owner, every acceptor has exactly one accept pending, or one handler
\* queued or running, until stop or an exception in a handler: a connection is
\* never refused for want of an accept (server::start_accept, server.hpp:81-113).
THEOREM ServerKeepsAccepting ==
  ASSUME NEW o \in Callers, \A script \in Scripts : OwnedBy(o, script)
  PROVE  Spec => []KeepsAccepting
<1>1. Init => Chained(o)
  BY DEF Init, Chained
<1>2. ServerInv /\ OwnerInv(o) /\ Chained(o) /\ [Next]_vars => Chained(o)'
  BY NextChained
<1>3. ServerInv /\ Chained(o) => KeepsAccepting
  <2> SUFFICES ASSUME ServerInv, Chained(o), Listening, NEW a \in DOMAIN acceptors,
                      ~Broken(acceptors[a].svc)
               PROVE  acceptors[a].pending + acceptors[a].queued
                      + (IF Handling(a) THEN 1 ELSE 0) = 1
    BY DEF KeepsAccepting
  <2>1. Chain(a) = 1
    BY DEF Chained, Linked, Listening, Reached
  <2>2. acceptors[a].svc \in Services
    BY Elements DEF ServerInv
  <2>3. InHand(a) = IF Handling(a) THEN 1 ELSE 0
    BY <2>2 DEF ServerInv, Handlers, Handling, InHand
  <2> QED  BY <2>1, <2>3 DEF Chain
<1> QED  BY <1>1, <1>2, <1>3, OwnerInvariant, PTL DEF Spec

-----------------------------------------------------------------------------
(* Round robin *)

\* After q rounds, the io_services below the index have been returned once more.
Round(q) == \A s \in Services :
  handed[s] = q + (IF s < next_io_service_index THEN 1 ELSE 0)

\* With one acceptor, a handler between the read and the store of the index is
\* the only thread there, and nobody stores before run() has started a thread.
Even ==
  /\ \A s \in Services : busy[s].step # "none" => futures # <<>>
  /\ Len(acceptors) <= 1 =>
       /\ \E q \in Nat : Round(q)
       /\ \A s \in Services : busy[s].step = "read" => busy[s].index = next_io_service_index

\* store_index moves on to the next io_service of the round.
LEMMA StoreRounds ==
  ASSUME PoolTypeOK, \E q \in Nat : Round(q), store_index(next_io_service_index)
  PROVE  \E q \in Nat : Round(q)'
<1> DEFINE n == next_io_service_index
<1>1. PICK q \in Nat : Round(q)
  OBVIOUS
<1>2. PoolSize \in Nat \ {0} /\ n \in 0..PoolSize - 1 /\ \A s \in Services : s \in 0..PoolSize - 1
  BY PoolAssumption DEF PoolTypeOK, Services
<1>3. handed' = [handed EXCEPT ![n] = handed[n] + 1] /\ handed \in [Services -> Nat]
      /\ n \in Services
  BY DEF store_index, PoolTypeOK
<1>4. n' = (n + 1) % PoolSize
  BY DEF store_index
<1>5. CASE n + 1 = PoolSize
  <2>1. n' = 0
    BY <1>2, <1>4, <1>5
  <2>2. ASSUME NEW s \in Services
        PROVE  handed'[s] = (q + 1) + (IF s < n' THEN 1 ELSE 0)
    <3>1. s \in 0..PoolSize - 1 /\ ~(s < n') /\ (s < n \/ s = n)
      BY <1>2, <1>5, <2>1
    <3>2. handed[s] = q + (IF s < n THEN 1 ELSE 0)
      BY <1>1 DEF Round
    <3> QED  BY <1>2, <1>3, <3>1, <3>2
  <2> QED  BY <2>2 DEF Round
<1>6. CASE n + 1 < PoolSize
  <2>1. n' = n + 1
    BY <1>2, <1>4, <1>6
  <2>2. ASSUME NEW s \in Services
        PROVE  handed'[s] = q + (IF s < n' THEN 1 ELSE 0)
    <3>1. s \in 0..PoolSize - 1 /\ (s < n' <=> s < n \/ s = n)
      BY <1>2, <2>1
    <3>2. handed[s] = q + (IF s < n THEN 1 ELSE 0)
      BY <1>1 DEF Round
    <3> QED  BY <1>2, <1>3, <3>1, <3>2
  <2> QED  BY <2>2 DEF Round
<1> QED  BY <1>2, <1>5, <1>6

\* Every step keeps the rounds even.
LEMMA NextEven ==
  ASSUME NEW o \in Callers
  PROVE  ServerInv /\ OwnerInv(o) /\ Even /\ [Next]_vars => Even'
<1> SUFFICES ASSUME ServerInv, OwnerInv(o), Even, [Next]_vars  PROVE Even'
  OBVIOUS
<1> USE DEF ServerInv
<1>1. /\ acceptors \in Seq(Acceptors) /\ futures \in Seq(Futures)
      /\ \A k \in DOMAIN futures : futures[k].svc \in Services
  BY Elements
<1>2. busy \in [Services -> [step : {"none", "begun", "read"}, a : Nat, index : Services]]
  BY DEF TypeOK
<1>3. NoHandler.step = "none"
  BY DEF NoHandler
<1>4. ASSUME UNCHANGED <<next_io_service_index, handed, busy>>, Len(acceptors') <= 1 => Len(acceptors) <= 1,
             futures # <<>> => futures' # <<>>
      PROVE  Even'
  BY <1>4 DEF Even, Round
<1>5. ASSUME Resolve(o) \/ BindEndpoint(o) \/ StartAccept(o)
      PROVE  Even'
  <2>1. futures = <<>> /\ busy' = busy /\ store_index(next_io_service_index)
    BY <1>5 DEF OwnerInv, Launched, ListensNext, Calling, ListenPlaces, Resolve, BindEndpoint,
                StartAccept
  <2>2. \A s \in Services : busy'[s].step = "none"
    BY <1>2, <2>1 DEF Even
  <2>3. Len(acceptors') <= 1 => Len(acceptors) <= 1
    <3>1. CASE Resolve(o)
      BY <3>1 DEF Resolve
    <3>2. CASE BindEndpoint(o)
      <4>1. acceptors' = acceptors \/ \E new : acceptors' = Append(acceptors, new)
        BY <3>2 DEF BindEndpoint
      <4>2. ASSUME NEW new, acceptors' = Append(acceptors, new)
            PROVE  Len(acceptors') = Len(acceptors) + 1 /\ Len(acceptors) \in Nat
        BY <1>1, <4>2
      <4> QED  BY <1>1, <4>1, <4>2
    <3>3. CASE StartAccept(o)
      <4>1. Len(acceptors') = Len(acceptors)
        BY <1>1, <3>3 DEF StartAccept, async_accept
      <4> QED  BY <4>1
    <3> QED  BY <1>5, <3>1, <3>2, <3>3
  <2>4. Len(acceptors') <= 1 => \E q \in Nat : Round(q)'
    BY <2>1, <2>3, StoreRounds DEF TypeOK, Even
  <2> QED  BY <2>2, <2>4 DEF Even
<1>6. ASSUME Begin(o) \/ BindEnds(o) \/ StartAcceptEnds(o) \/ RunEnds(o) \/ Halt(o) \/ HaltEnds(o)
             \/ Close(o) \/ CloseEnds(o) \/ JoinEnds(o) \/ Run(o) \/ Join(o)
      PROVE  Even'
  <2>1. UNCHANGED <<next_io_service_index, handed, busy>>
    BY <1>6 DEF Begin, BindEnds, StartAcceptEnds, RunEnds, Halt, HaltEnds, Close, CloseEnds,
                JoinEnds, Run, Join, poolVars
  <2>2. Len(acceptors') = Len(acceptors)
    BY <1>1, <1>6 DEF Begin, BindEnds, StartAcceptEnds, RunEnds, Halt, HaltEnds, Close,
                      CloseEnds, JoinEnds, Run, Join
  <2>3. futures # <<>> => futures' # <<>>
    <3>1. CASE Run(o)
      BY <1>1, <3>1 DEF Run, launch
    <3>2. CASE Join(o)
      BY <1>1, <3>2 DEF Join, got
    <3> QED  BY <1>6, <3>1, <3>2 DEF Begin, BindEnds, StartAcceptEnds, RunEnds, Halt, HaltEnds,
                                    Close, CloseEnds, JoinEnds, poolVars
  <2> QED  BY <1>4, <2>1, <2>2, <2>3
<1>7. ASSUME NEW c \in Callers \ {o}, Caller(c)  PROVE Even'
  <2>1. Begin(c) \/ Halt(c) \/ HaltEnds(c) \/ Close(c) \/ CloseEnds(c)
    BY <1>7, OthersStop DEF OwnerInv
  <2>2. UNCHANGED <<next_io_service_index, handed, busy, futures>>
    BY <2>1 DEF Begin, Halt, HaltEnds, Close, CloseEnds, poolVars
  <2>3. Len(acceptors') = Len(acceptors)
    BY <1>1, <2>1 DEF Begin, Halt, HaltEnds, Close, CloseEnds
  <2> QED  BY <1>4, <2>2, <2>3
<1>8. ASSUME NEW k \in Threads, ThreadEnds(k) \/ HandlerThrows(k)  PROVE Even'
  <2>1. /\ busy' = busy \/ busy' = [busy EXCEPT ![futures[k].svc] = NoHandler]
        /\ UNCHANGED <<next_io_service_index, handed, acceptors>>
    BY <1>8 DEF ThreadEnds, HandlerThrows
  <2>2. \A s \in Services : busy'[s] = busy[s] \/ busy'[s].step = "none"
    BY <1>1, <1>2, <1>3, <2>1 DEF Threads
  <2>3. futures' # <<>>
    BY <1>1, <1>8, PoolSteps DEF Thread, Threads
  <2> QED  BY <2>1, <2>2, <2>3 DEF Even, Round
<1>9. ASSUME NEW k \in Threads, NEW a \in DOMAIN acceptors, BeginHandler(k, a)  PROVE Even'
  <2>1. /\ busy' = [busy EXCEPT ![futures[k].svc] = [step |-> "begun", a |-> a, index |-> 0]]
        /\ UNCHANGED <<next_io_service_index, handed, futures>> /\ futures # <<>>
    BY <1>1, <1>9 DEF BeginHandler, poolVars, Threads
  <2>2. \A s \in Services : busy'[s] = busy[s] \/ busy'[s].step = "begun"
    BY <1>1, <1>2, <2>1 DEF Threads
  <2>3. Len(acceptors') = Len(acceptors)
    BY <1>1, <1>9 DEF BeginHandler
  <2> QED  BY <2>1, <2>2, <2>3 DEF Even, Round
<1>10. ASSUME NEW s \in Services, ReadIndex(s)  PROVE Even'
  <2>1. /\ busy' = [busy EXCEPT ![s].step = "read", ![s].index = next_io_service_index]
        /\ UNCHANGED <<next_io_service_index, handed, futures, acceptors>>
        /\ busy[s].step = "begun"
    BY <1>10 DEF ReadIndex, poolVars
  <2>2. busy'[s].index = next_io_service_index /\ \A t \in Services \ {s} : busy'[t] = busy[t]
    BY <1>2, <2>1
  <2> QED  BY <2>1, <2>2 DEF Even, Round
<1>11. ASSUME NEW s \in Services, AcceptAgain(s)  PROVE Even'
  <2>1. /\ busy' = [busy EXCEPT ![s] = NoHandler] /\ async_accept(busy[s].a)
        /\ store_index(busy[s].index) /\ busy[s].step = "read" /\ futures' = futures
    BY <1>11 DEF AcceptAgain
  <2>2. \A t \in Services : busy'[t].step # "none" => t # s /\ busy'[t] = busy[t]
    BY <1>2, <1>3, <2>1
  <2>3. Len(acceptors') = Len(acceptors) /\ DOMAIN acceptors' = DOMAIN acceptors
    BY <1>1, <2>1 DEF async_accept
  <2>4. ASSUME Len(acceptors) <= 1
        PROVE  (\E q \in Nat : Round(q)') /\ \A t \in Services : busy'[t].step = "none"
    <3>1. store_index(next_io_service_index)
      BY <2>1, <2>4 DEF Even
    <3>2. \A a, b \in DOMAIN acceptors : a = b
      BY <1>1, <2>4
    <3>3. \A t \in Services : busy[t].step # "none" => t = s
      BY <2>1, <3>2 DEF Handlers
    <3> QED  BY <2>2, <2>4, <3>1, <3>3, StoreRounds DEF Even, TypeOK
  <2> QED  BY <2>1, <2>2, <2>3, <2>4 DEF Even
<1>12. ASSUME NEW a \in DOMAIN acceptors, Incoming(a)  PROVE Even'
  <2>1. UNCHANGED <<next_io_service_index, handed, busy, futures>>
    BY <1>12 DEF Incoming, poolVars
  <2>2. Len(acceptors') = Len(acceptors)
    BY <1>1, <1>12 DEF Incoming
  <2> QED  BY <1>4, <2>1, <2>2
<1>13. CASE UNCHANGED vars
  BY <1>4, <1>13 DEF vars, poolVars
<1> QED  BY <1>5, <1>6, <1>7, <1>8, <1>9, <1>10, <1>11, <1>12, <1>13
         DEF Next, Caller, Thread, Handler

\* With an owner and one acceptor, connections are spread evenly over the
\* io_services, for any number of them (get_io_service, io_service_pool.cpp).
THEOREM ServicesAreBalanced ==
  ASSUME NEW o \in Callers, \A script \in Scripts : OwnedBy(o, script)
  PROVE  Spec => []Balanced
<1>1. Init => Even
  <2> SUFFICES ASSUME Init  PROVE Even
    OBVIOUS
  <2>1. Round(0) /\ \A s \in Services : busy[s].step = "none"
    BY PoolAssumption DEF Init, PoolInit, Round, NoHandler, Services
  <2> QED  BY <2>1 DEF Even
<1>2. ServerInv /\ OwnerInv(o) /\ Even /\ [Next]_vars => Even'
  BY NextEven
<1>3. ServerInv /\ Even => Balanced
  <2> SUFFICES ASSUME ServerInv, Even, Len(acceptors) <= 1, NEW s \in Services, NEW t \in Services
               PROVE  handed[s] <= handed[t] + 1
    BY DEF Balanced
  <2>1. PICK q \in Nat : Round(q)
    BY DEF Even
  <2> QED  BY <2>1 DEF Round
<1> QED  BY <1>1, <1>2, <1>3, OwnerInvariant, PTL DEF Spec
===============================================================================
