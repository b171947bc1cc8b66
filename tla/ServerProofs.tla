----------------------------- MODULE ServerProofs -----------------------------
(***************************************************************************)
(* Proofs about Server and IoServicePool, for every number of io_services, *)
(* endpoints, callers and accepts.                                         *)
(***************************************************************************)
EXTENDS Server, SequenceTheorems, TLAPS

Listens == {"listen", "listen_blocking"}
Joins == {"listen_blocking", "join"}
ListenPlaces == {"bind", "endpoints", "accept", "run"}

\* A caller that is inside a call has that call at the head of its script.
Calling ==
  \A c \in Callers : at[c] # "idle" =>
    /\ todo[c] # <<>>
    /\ at[c] \in ListenPlaces => Head(todo[c]) \in Listens
    /\ at[c] = "join" => Head(todo[c]) \in Joins
    /\ at[c] \in {"halt", "close"} => Head(todo[c]) = "stop"

\* A handler runs on the io_service of its acceptor.
Handlers ==
  \A s \in Services : busy[s].step # "none" =>
    busy[s].a \in DOMAIN acceptors /\ acceptors[busy[s].a].svc = s

\* What stop() has done when it closes the acceptors.
Halting ==
  \A c \in Callers :
    /\ at[c] = "halt" => \A s \in Services : s < i[c] => s \in halted
    /\ at[c] = "close" => Services \subseteq halted
Closing == \A a \in DOMAIN acceptors : ~acceptors[a].open => Services \subseteq halted

ServerInv == TypeOK /\ Calling /\ Handlers /\ Halting /\ Closing

Futures == [svc : Services, thread : {"running", "returned", "threw"}, valid : BOOLEAN]
Acceptors == [svc : Services, open : BOOLEAN, pending : Nat, queued : Nat]

-----------------------------------------------------------------------------
\* The types of the steps of the pool.
LEMMA StoreType ==
  ASSUME PoolTypeOK, NEW n \in Services, store_index(n)
  PROVE  next_io_service_index' \in Services /\ handed' \in [Services -> Nat]
<1>1. n + 1 \in Nat /\ PoolSize \in Nat \ {0}
  BY PoolAssumption DEF Services
<1>2. (n + 1) % PoolSize \in 0 .. PoolSize - 1
  BY <1>1
<1>3. next_io_service_index' \in Services
  BY <1>2 DEF store_index, Services
<1>4. handed' \in [Services -> Nat]
  BY DEF PoolTypeOK, store_index
<1> QED  BY <1>3, <1>4

\* async_accept changes the counts of one acceptor only.
LEMMA AcceptType ==
  ASSUME acceptors \in Seq(Acceptors), NEW a \in DOMAIN acceptors, async_accept(a)
  PROVE  /\ acceptors' \in Seq(Acceptors) /\ DOMAIN acceptors' = DOMAIN acceptors
         /\ \A b \in DOMAIN acceptors : acceptors'[b].svc = acceptors[b].svc
                                        /\ acceptors'[b].open = acceptors[b].open
<1> DEFINE more == [acceptors[a] EXCEPT !.pending = @ + 1]
           full == [acceptors[a] EXCEPT !.queued = @ + 1]
           new == IF acceptors[a].open THEN more ELSE full
<1>1. acceptors' = [acceptors EXCEPT ![a] = new]
  BY DEF async_accept
<1>2. acceptors[a] \in Acceptors
  OBVIOUS
<1>3. more \in Acceptors /\ more.svc = acceptors[a].svc /\ more.open = acceptors[a].open
  BY <1>2 DEF Acceptors
<1>4. full \in Acceptors /\ full.svc = acceptors[a].svc /\ full.open = acceptors[a].open
  BY <1>2 DEF Acceptors
<1>5. new \in Acceptors /\ new.svc = acceptors[a].svc /\ new.open = acceptors[a].open
  BY <1>3, <1>4
<1> HIDE DEF new
<1>6. acceptors' \in Seq(Acceptors) /\ DOMAIN acceptors' = DOMAIN acceptors
  BY <1>1, <1>5
<1> QED  BY <1>1, <1>5, <1>6

\* What the step of a caller does to the caller itself: it goes on in its call,
\* ends it, or begins one.
Moves(c) ==
  \/ \E place \in Places \ {"idle"} :
       /\ GoTo(c, place)
       /\ todo[c] # <<>>
       /\ place \in ListenPlaces => Head(todo[c]) \in Listens
       /\ place = "join" => Head(todo[c]) \in Joins
       /\ place \in {"halt", "close"} => Head(todo[c]) = "stop"
  \/ Iterate(c)
  \/ at[c] # "idle" /\ Finish(c)
  \/ Fail(c)

\* Such a move keeps the types of the callers, and each in a place of its call.
LEMMA MovesKeep ==
  ASSUME TypeOK, Calling, NEW c \in Callers, Moves(c)
  PROVE  /\ todo' \in [Callers -> Seq(Operations)] /\ at' \in [Callers -> Places]
         /\ i' \in [Callers -> Nat]
         /\ Calling'
<1> USE DEF TypeOK
<1>1. ASSUME NEW place \in Places \ {"idle"}, GoTo(c, place), todo[c] # <<>>,
             place \in ListenPlaces => Head(todo[c]) \in Listens,
             place = "join" => Head(todo[c]) \in Joins,
             place \in {"halt", "close"} => Head(todo[c]) = "stop"
      PROVE  /\ todo' \in [Callers -> Seq(Operations)] /\ at' \in [Callers -> Places]
             /\ i' \in [Callers -> Nat] /\ Calling'
  <2>1. todo' = todo /\ at' = [at EXCEPT ![c] = place] /\ i' = [i EXCEPT ![c] = 0]
    BY <1>1 DEF GoTo
  <2> QED  BY <2>1, <1>1 DEF Calling
<1>2. CASE Iterate(c)
  BY <1>2 DEF Iterate, Calling
<1>3. CASE at[c] # "idle" /\ Finish(c)
  <2>1. todo[c] # <<>> /\ todo[c] \in Seq(Operations)
    BY <1>3 DEF Calling
  <2>2. Tail(todo[c]) \in Seq(Operations)
    BY <2>1
  <2>3. /\ todo' = [todo EXCEPT ![c] = Tail(todo[c])]
        /\ at' = [at EXCEPT ![c] = "idle"] /\ i' = [i EXCEPT ![c] = 0]
    BY <1>3 DEF Finish
  <2> QED  BY <2>2, <2>3 DEF Places, Calling
<1>4. CASE Fail(c)
  <2>1. <<>> \in Seq(Operations)
    OBVIOUS
  <2>2. /\ todo' = [todo EXCEPT ![c] = <<>>]
        /\ at' = [at EXCEPT ![c] = "idle"] /\ i' = [i EXCEPT ![c] = 0]
    BY <1>4 DEF Fail
  <2> QED  BY <2>1, <2>2 DEF Places, Calling
<1> QED  BY <1>1, <1>2, <1>3, <1>4 DEF Moves

\* Every step of a caller moves it.
LEMMA CallerMoves ==
  ASSUME TypeOK, Calling, NEW c \in Callers, Caller(c)
  PROVE  Moves(c)
<1> USE DEF TypeOK, Moves, Places, ListenPlaces, Listens, Joins
<1>1. ASSUME Begin(c)  PROVE Moves(c)
  <2>1. todo[c] # <<>> /\ Head(todo[c]) \in Operations
    BY <1>1 DEF Begin
  <2>2. CASE Head(todo[c]) \in Listens
    <3>1. GoTo(c, "bind")
      BY <1>1, <2>2 DEF Begin
    <3> QED  BY <2>1, <2>2, <3>1
  <2>3. CASE Head(todo[c]) = "stop"
    <3>1. GoTo(c, "halt")
      BY <1>1, <2>3 DEF Begin
    <3> QED  BY <2>1, <2>3, <3>1
  <2>4. CASE Head(todo[c]) = "join"
    <3>1. GoTo(c, "join")
      BY <1>1, <2>4 DEF Begin
    <3> QED  BY <2>1, <2>4, <3>1
  <2> QED  BY <2>1, <2>2, <2>3, <2>4 DEF Operations
<1>2. ASSUME Resolve(c)  PROVE Moves(c)
  BY <1>2 DEF Resolve, Calling
<1>3. ASSUME BindEndpoint(c)  PROVE Moves(c)
  BY <1>3 DEF BindEndpoint
<1>4. ASSUME BindEnds(c)  PROVE Moves(c)
  BY <1>4 DEF BindEnds, Calling
<1>5. ASSUME StartAccept(c) \/ Run(c) \/ Halt(c) \/ Close(c)  PROVE Moves(c)
  BY <1>5 DEF StartAccept, Run, Halt, Close
<1>6. ASSUME StartAcceptEnds(c)  PROVE Moves(c)
  BY <1>6 DEF StartAcceptEnds, Calling
<1>7. ASSUME RunEnds(c)  PROVE Moves(c)
  BY <1>7 DEF RunEnds, Calling
<1>8. ASSUME HaltEnds(c)  PROVE Moves(c)
  BY <1>8 DEF HaltEnds, Calling
<1>9. ASSUME CloseEnds(c) \/ JoinEnds(c)  PROVE Moves(c)
  BY <1>9 DEF CloseEnds, JoinEnds
<1>10. ASSUME Join(c)  PROVE Moves(c)
  BY <1>10 DEF Join
<1> QED
  BY <1>1, <1>2, <1>3, <1>4, <1>5, <1>6, <1>7, <1>8, <1>9, <1>10 DEF Caller

\* ... and no other.
LEMMA OthersStay ==
  ASSUME TypeOK, NEW c \in Callers, Moves(c)
  PROVE  \A d \in Callers \ {c} : at'[d] = at[d] /\ i'[d] = i[d] /\ todo'[d] = todo[d]
BY DEF Moves, GoTo, Iterate, Finish, Fail, TypeOK

-----------------------------------------------------------------------------
(* The types, and that the acceptors are closed after the io_services stop *)

PoolPart ==
  /\ PoolTypeOK
  /\ acceptors \in Seq(Acceptors)
  /\ busy \in [Services -> [step : {"none", "begun", "read"}, a : Nat, index : Services]]
  /\ accepts \in 0..MaxAccepts
  /\ joined \in BOOLEAN
  /\ Handlers /\ Halting /\ Closing

\* A step of listen keeps it: it adds an acceptor, an accept, or a future.
LEMMA ListenKeeps ==
  ASSUME ServerInv, NEW c \in Callers, Moves(c),
         \/ Resolve(c) \/ BindEndpoint(c) \/ StartAccept(c) \/ Run(c)
  PROVE  PoolPart'
<1> USE DEF ServerInv, TypeOK
<1>1. \A d \in Callers \ {c} : at'[d] = at[d] /\ i'[d] = i[d]
  BY OthersStay
<1>2. next_io_service_index \in Services
  BY DEF PoolTypeOK
<1>3. at[c] \in ListenPlaces /\ halted' = halted
  BY DEF Resolve, BindEndpoint, StartAccept, Run, ListenPlaces
<1>4. at'[c] \in {at[c], "endpoints", "idle"}
  BY DEF Resolve, BindEndpoint, StartAccept, Run, GoTo, Iterate, Fail
<1>5. Halting'
  BY <1>1, <1>3, <1>4 DEF Halting, ListenPlaces
<1>6. CASE Resolve(c)
  <2>1. PoolTypeOK'
    BY <1>6, <1>2, StoreType DEF Resolve, PoolTypeOK
  <2> QED  BY <1>5, <1>6, <2>1 DEF Resolve, PoolPart, Handlers, Closing, Acceptors
<1>7. CASE BindEndpoint(c)
  <2>1. PoolTypeOK'
    BY <1>7, <1>2, StoreType DEF BindEndpoint, PoolTypeOK
  <2> DEFINE new == [svc |-> next_io_service_index, open |-> TRUE, pending |-> 0, queued |-> 0]
  <2>2. new \in Acceptors
    BY <1>2 DEF Acceptors
  <2>3. acceptors' = Append(acceptors, new) \/ acceptors' = acceptors
    BY <1>7 DEF BindEndpoint
  <2>4. new.open
    OBVIOUS
  <2> HIDE DEF new
  <2>5. /\ acceptors' \in Seq(Acceptors) /\ DOMAIN acceptors \subseteq DOMAIN acceptors'
        /\ \A a \in DOMAIN acceptors : acceptors'[a] = acceptors[a]
        /\ \A a \in DOMAIN acceptors' \ DOMAIN acceptors : acceptors'[a] = new
    <3>1. CASE acceptors' = Append(acceptors, new)
      BY <3>1, <2>2, AppendProperties DEF Acceptors
    <3> QED  BY <2>3, <3>1 DEF Acceptors
  <2>6. busy' = busy
    BY <1>7 DEF BindEndpoint
  <2>7. Handlers'
    BY <2>5, <2>6 DEF Handlers
  <2>8. Closing'
    <3> SUFFICES ASSUME NEW a \in DOMAIN acceptors', ~acceptors'[a].open
                 PROVE  Services \subseteq halted'
      BY DEF Closing
    <3>1. a \in DOMAIN acceptors /\ ~acceptors[a].open
      BY <2>4, <2>5
    <3> QED  BY <3>1, <1>3 DEF Closing
  <2> QED  BY <1>5, <1>7, <2>1, <2>5, <2>7, <2>8 DEF BindEndpoint, PoolPart
<1>8. CASE StartAccept(c)
  <2>1. PoolTypeOK'
    BY <1>8, <1>2, StoreType DEF StartAccept, PoolTypeOK
  <2>2. i[c] + 1 \in DOMAIN acceptors /\ acceptors \in Seq(Acceptors)
    BY <1>8 DEF StartAccept, Acceptors
  <2>3. async_accept(i[c] + 1)
    BY <1>8 DEF StartAccept
  <2>4. /\ acceptors' \in Seq(Acceptors) /\ DOMAIN acceptors' = DOMAIN acceptors
        /\ \A b \in DOMAIN acceptors : acceptors'[b].svc = acceptors[b].svc
                                        /\ acceptors'[b].open = acceptors[b].open
    BY <2>2, <2>3, AcceptType
  <2>5. Handlers' /\ Closing'
    BY <1>8, <2>4, <1>3 DEF StartAccept, Handlers, Closing
  <2> QED  BY <1>5, <1>8, <2>1, <2>4, <2>5 DEF StartAccept, PoolPart
<1>9. CASE Run(c)
  <2>1. [svc |-> i[c], thread |-> "running", valid |-> TRUE] \in Futures
    BY <1>9, PoolAssumption DEF Run, Futures, Services
  <2>2. futures' \in Seq(Futures)
    BY <1>9, <2>1, AppendProperties DEF Run, launch, PoolTypeOK, Futures
  <2>3. PoolTypeOK'
    BY <1>9, <2>2 DEF Run, PoolTypeOK, Futures
  <2> QED  BY <1>5, <1>9, <2>3 DEF Run, PoolPart, Handlers, Closing, Acceptors
<1> QED  BY <1>6, <1>7, <1>8, <1>9

\* A step of stop keeps it: acceptors are closed when all io_services are stopped.
LEMMA StopKeeps ==
  ASSUME ServerInv, NEW c \in Callers, Moves(c),
         Halt(c) \/ HaltEnds(c) \/ Close(c) \/ CloseEnds(c)
  PROVE  PoolPart'
<1> USE DEF ServerInv, TypeOK
<1>1. \A d \in Callers \ {c} : at'[d] = at[d] /\ i'[d] = i[d]
  BY OthersStay
<1>2. CASE Halt(c)
  <2>1. i[c] \in Services /\ halted' = halted \cup {i[c]}
    BY <1>2, PoolAssumption DEF Halt, halt, Services
  <2>2. PoolTypeOK'
    BY <1>2, <2>1 DEF Halt, PoolTypeOK
  <2>3. at'[c] = "halt" /\ i'[c] = i[c] + 1
    BY <1>2 DEF Halt, Iterate
  <2>4. i[c] \in Nat /\ \A s \in Services : s \in Nat /\ (s < i[c] + 1 => s < i[c] \/ s = i[c])
    BY PoolAssumption DEF Services
  <2>5. \A s \in Services : s < i'[c] => s \in halted'
    BY <1>2, <2>1, <2>3, <2>4 DEF Halting, Halt
  <2>6. Halting'
    BY <1>1, <2>1, <2>3, <2>5 DEF Halting
  <2> QED  BY <1>2, <2>1, <2>2, <2>6 DEF Halt, PoolPart, Handlers, Closing, Acceptors
<1>3. CASE HaltEnds(c)
  <2>1. Services \subseteq halted
    BY <1>3, PoolAssumption DEF HaltEnds, Halting, Services
  <2>2. at'[c] = "close" /\ UNCHANGED poolVars
    BY <1>3 DEF HaltEnds, GoTo
  <2>3. Halting' /\ PoolTypeOK'
    BY <1>1, <2>1, <2>2 DEF Halting, poolVars, PoolTypeOK
  <2> QED  BY <1>3, <2>2, <2>3 DEF HaltEnds, PoolPart, Handlers, Closing, Acceptors, poolVars
<1>4. CASE Close(c)
  <2>1. Services \subseteq halted
    BY <1>4 DEF Close, Halting
  <2>2. at'[c] = "close" /\ UNCHANGED poolVars /\ UNCHANGED <<busy, accepts, joined>>
    BY <1>4 DEF Close, Iterate
  <2>3. Halting' /\ PoolTypeOK' /\ Closing'
    BY <1>1, <2>1, <2>2 DEF Halting, poolVars, PoolTypeOK, Closing
  <2> DEFINE a == i[c] + 1
             new == [svc |-> acceptors[a].svc, open |-> FALSE, pending |-> 0,
                     queued |-> acceptors[a].queued + acceptors[a].pending]
  <2>4. /\ acceptors \in Seq(Acceptors) /\ i[c] \in Nat /\ i[c] < Len(acceptors)
        /\ a \in DOMAIN acceptors /\ acceptors[a] \in Acceptors
    <3>1. acceptors \in Seq(Acceptors) /\ i[c] \in Nat /\ i[c] < Len(acceptors)
      BY <1>4 DEF Close, Acceptors
    <3>2. a \in DOMAIN acceptors
      BY <3>1
    <3> QED  BY <3>1, <3>2
  <2>5. acceptors' = [acceptors EXCEPT ![a] = new]
    BY <1>4, <2>4 DEF Close
  <2> HIDE DEF a
  <2>6. new \in Acceptors /\ new.svc = acceptors[a].svc
    <3>1. acceptors[a].queued \in Nat /\ acceptors[a].pending \in Nat
          /\ acceptors[a].svc \in Services
      BY <2>4 DEF Acceptors
    <3>2. acceptors[a].queued + acceptors[a].pending \in Nat
      BY <3>1
    <3>3. new \in Acceptors
      BY <3>1, <3>2 DEF Acceptors
    <3> QED  BY <3>3
  <2> HIDE DEF new
  <2>7. acceptors' \in Seq(Acceptors) /\ DOMAIN acceptors' = DOMAIN acceptors
        /\ \A b \in DOMAIN acceptors : acceptors'[b].svc = acceptors[b].svc
    BY <2>4, <2>5, <2>6
  <2> QED  BY <2>2, <2>3, <2>7 DEF PoolPart, Handlers
<1>5. CASE CloseEnds(c)
  <2>1. at'[c] = "idle" /\ UNCHANGED poolVars
    BY <1>5 DEF CloseEnds, Finish
  <2>2. Halting' /\ PoolTypeOK'
    BY <1>1, <2>1 DEF Halting, poolVars, PoolTypeOK
  <2> QED  BY <1>5, <2>1, <2>2 DEF CloseEnds, PoolPart, Handlers, Closing, Acceptors, poolVars
<1> QED  BY <1>2, <1>3, <1>4, <1>5

\* The acceptors and the futures are sequences of their records.
LEMMA Elements ==
  ASSUME TypeOK
  PROVE  /\ acceptors \in Seq(Acceptors) /\ futures \in Seq(Futures)
         /\ \A a \in DOMAIN acceptors :
              /\ acceptors[a] \in Acceptors /\ a \in Nat
              /\ acceptors[a].pending \in Nat /\ acceptors[a].queued \in Nat
              /\ acceptors[a].svc \in Services
         /\ \A k \in DOMAIN futures :
              futures[k] \in Futures /\ futures[k].svc \in Services
<1>1. acceptors \in Seq(Acceptors) /\ futures \in Seq(Futures)
  BY DEF TypeOK, PoolTypeOK, Acceptors, Futures
<1>2. \A a \in DOMAIN acceptors : acceptors[a] \in Acceptors /\ a \in Nat
  BY <1>1
<1>3. \A k \in DOMAIN futures : futures[k] \in Futures
  BY <1>1
<1> QED  BY <1>1, <1>2, <1>3 DEF Acceptors, Futures

\* What join and the pool's threads change in a future.
LEMMA FutureType ==
  ASSUME futures \in Seq(Futures), NEW k \in DOMAIN futures,
         got(k) \/ Ends(k) \/ Throws(k)
  PROVE  /\ futures' \in Seq(Futures) /\ DOMAIN futures' = DOMAIN futures
         /\ \A j \in DOMAIN futures : futures'[j].svc = futures[j].svc
         /\ \A j \in DOMAIN futures \ {k} : futures'[j] = futures[j]
<1> DEFINE dropped == [futures[k] EXCEPT !.valid = FALSE]
           returned == [futures[k] EXCEPT !.thread = "returned"]
           threw == [futures[k] EXCEPT !.thread = "threw"]
<1>1. futures[k] \in Futures
  OBVIOUS
<1>2. \/ futures' = [futures EXCEPT ![k] = dropped]
      \/ futures' = [futures EXCEPT ![k] = returned]
      \/ futures' = [futures EXCEPT ![k] = threw]
  BY DEF got, Ends, Throws
<1>3. dropped \in Futures /\ dropped.svc = futures[k].svc
  BY <1>1 DEF Futures
<1>4. returned \in Futures /\ returned.svc = futures[k].svc
  BY <1>1 DEF Futures
<1>5. threw \in Futures /\ threw.svc = futures[k].svc
  BY <1>1 DEF Futures
<1> HIDE DEF dropped, returned, threw
<1> QED  BY <1>2, <1>3, <1>4, <1>5

\* The steps between the loops, and those of join, keep it.
LEMMA OtherCallsKeep ==
  ASSUME ServerInv, NEW c \in Callers, Moves(c),
         \/ Begin(c) \/ BindEnds(c) \/ StartAcceptEnds(c) \/ RunEnds(c)
         \/ Join(c) \/ JoinEnds(c)
  PROVE  PoolPart'
<1> USE DEF ServerInv, TypeOK
<1>1. \A d \in Callers \ {c} : at'[d] = at[d] /\ i'[d] = i[d]
  BY OthersStay
<1>2. halted' = halted /\ UNCHANGED <<acceptors, busy, accepts>>
  BY DEF Begin, BindEnds, StartAcceptEnds, RunEnds, Join, JoinEnds, poolVars
<1>3. joined' \in BOOLEAN
  BY DEF Begin, BindEnds, StartAcceptEnds, RunEnds, Join, JoinEnds
<1>4. (at'[c] = "halt" /\ i'[c] = 0) \/ at'[c] \notin {"halt", "close"}
  <2>1. CASE Begin(c)
    <3>1. Head(todo[c]) \in Operations
      BY <2>1 DEF Begin
    <3> QED  BY <2>1, <3>1 DEF Begin, GoTo, Operations
  <2> QED  BY <2>1 DEF BindEnds, StartAcceptEnds, RunEnds, Join, JoinEnds,
                       GoTo, Iterate, Finish, Fail
<1>5. Halting'
  <2>1. \A s \in Services : ~(s < 0)
    BY PoolAssumption DEF Services
  <2> QED  BY <1>1, <1>2, <1>4, <2>1 DEF Halting
<1>6. PoolTypeOK'
  <2>1. CASE Join(c)
    <3>1. i[c] + 1 \in DOMAIN futures /\ futures \in Seq(Futures)
      BY <2>1 DEF Join, PoolTypeOK, Futures
    <3>2. futures' \in Seq(Futures) /\ misused' \in BOOLEAN
      BY <2>1, <3>1, FutureType DEF Join, PoolTypeOK
    <3> QED  BY <2>1, <3>2 DEF Join, PoolTypeOK, Futures
  <2> QED  BY <2>1 DEF Begin, BindEnds, StartAcceptEnds, RunEnds, JoinEnds, poolVars, PoolTypeOK
<1> QED  BY <1>2, <1>3, <1>5, <1>6 DEF PoolPart, Handlers, Closing, Acceptors

\* A step of the pool's threads keeps it: a handler only accepts on its own acceptor.
LEMMA ThreadKeeps ==
  ASSUME ServerInv, NEW k \in Threads, Thread(k)
  PROVE  PoolPart' /\ UNCHANGED callerVars
<1> USE DEF ServerInv, TypeOK
<1>1. /\ UNCHANGED callerVars /\ halted' = halted /\ Halting'
      /\ UNCHANGED <<accepts, joined, next_io_service_index, handed, misused>>
  BY DEF Thread, ThreadEnds, HandlerThrows, BeginHandler, callerVars, poolVars, Halting
<1>2. k \in DOMAIN futures /\ futures \in Seq(Futures) /\ futures[k].svc \in Services
  BY Elements DEF Threads
<1>3. CASE ThreadEnds(k) \/ HandlerThrows(k)
  <2>1. futures' \in Seq(Futures) /\ acceptors' = acceptors
    BY <1>2, <1>3, FutureType DEF ThreadEnds, HandlerThrows
  <2>2. PoolTypeOK'
    BY <1>1, <2>1 DEF PoolTypeOK, Futures
  <2>3. NoHandler \in [step : {"none", "begun", "read"}, a : Nat, index : Services]
    BY PoolAssumption DEF NoHandler, Services
  <2>4. busy' = busy \/ busy' = [busy EXCEPT ![futures[k].svc] = NoHandler]
    BY <1>3 DEF ThreadEnds, HandlerThrows
  <2>5. NoHandler.step = "none"
    BY DEF NoHandler
  <2>6. busy' \in [Services -> [step : {"none", "begun", "read"}, a : Nat, index : Services]]
    BY <1>2, <2>3, <2>4
  <2>7. \A s \in Services : busy'[s] = busy[s] \/ busy'[s].step = "none"
    BY <1>2, <2>4, <2>5
  <2>8. Handlers' /\ Closing' /\ acceptors' \in Seq(Acceptors)
    BY <1>1, <2>1, <2>7, Elements DEF Handlers, Closing
  <2> QED  BY <1>1, <2>2, <2>6, <2>8 DEF PoolPart
<1>4. ASSUME NEW a \in DOMAIN acceptors, BeginHandler(k, a)
      PROVE  PoolPart'
  <2> DEFINE s == futures[k].svc
             begun == [step |-> "begun", a |-> a, index |-> 0]
             less == [acceptors[a] EXCEPT !.queued = @ - 1]
  <2>1. acceptors[a] \in Acceptors /\ acceptors \in Seq(Acceptors)
    BY Elements
  <2>2. acceptors' = [acceptors EXCEPT ![a] = less] /\ acceptors[a].queued > 0
    BY <1>4 DEF BeginHandler
  <2>3. less \in Acceptors /\ less.svc = acceptors[a].svc /\ less.open = acceptors[a].open
    <3>1. acceptors[a].queued - 1 \in Nat
      BY <2>2, Elements
    <3> QED  BY <2>1, <3>1 DEF Acceptors
  <2>4. a \in Nat
    OBVIOUS
  <2>5. begun \in [step : {"none", "begun", "read"}, a : Nat, index : Services]
    BY <2>4, PoolAssumption DEF Services
  <2>6. busy' = [busy EXCEPT ![s] = begun] /\ acceptors[a].svc = s /\ UNCHANGED poolVars
    BY <1>4 DEF BeginHandler
  <2>7. begun.a = a
    OBVIOUS
  <2> HIDE DEF less, begun, s
  <2>8. /\ acceptors' \in Seq(Acceptors) /\ DOMAIN acceptors' = DOMAIN acceptors
        /\ \A b \in DOMAIN acceptors : acceptors'[b].svc = acceptors[b].svc
                                       /\ acceptors'[b].open = acceptors[b].open
    BY <2>1, <2>2, <2>3
  <2>9. Handlers' /\ Closing'
    BY <2>6, <2>7, <2>8, <1>1 DEF Handlers, Closing
  <2> QED  BY <1>1, <2>5, <2>6, <2>8, <2>9 DEF PoolPart, PoolTypeOK, poolVars
<1> QED  BY <1>1, <1>3, <1>4 DEF Thread

\* So does a step of a running handler.
LEMMA HandlerKeeps ==
  ASSUME ServerInv, NEW s \in Services, Handler(s)
  PROVE  PoolPart' /\ UNCHANGED callerVars
<1> USE DEF ServerInv, TypeOK
<1>1. /\ UNCHANGED callerVars /\ halted' = halted /\ Halting'
      /\ UNCHANGED <<accepts, joined, futures, misused>>
  BY DEF Handler, ReadIndex, AcceptAgain, callerVars, poolVars, Halting
<1>2. CASE ReadIndex(s)
  <2>1. /\ busy' = [busy EXCEPT ![s].step = "read", ![s].index = next_io_service_index]
        /\ busy[s].step = "begun" /\ UNCHANGED poolVars /\ acceptors' = acceptors
    BY <1>2 DEF ReadIndex
  <2>2. next_io_service_index \in Services
    BY DEF PoolTypeOK
  <2>3. busy' \in [Services -> [step : {"none", "begun", "read"}, a : Nat, index : Services]]
        /\ \A t \in Services : busy'[t].a = busy[t].a /\ (t # s => busy'[t] = busy[t])
    BY <2>1, <2>2
  <2>4. \A t \in Services : busy'[t].step # "none" => busy[t].step # "none"
    BY <2>1, <2>3
  <2>5. Handlers'
    <3>1. acceptors' = acceptors /\ \A t \in Services : busy'[t].a = busy[t].a
      BY <2>1, <2>3
    <3> QED  BY <3>1, <2>4 DEF Handlers
  <2> QED  BY <1>1, <2>1, <2>3, <2>5 DEF PoolPart, PoolTypeOK, poolVars, Closing, Acceptors
<1>3. CASE AcceptAgain(s)
  <2>1. busy[s].index \in Services /\ busy[s].a \in DOMAIN acceptors
    BY <1>3 DEF AcceptAgain, Handlers
  <2>2. PoolTypeOK'
    BY <1>1, <1>3, <2>1, StoreType DEF AcceptAgain, PoolTypeOK
  <2>3. /\ acceptors' \in Seq(Acceptors) /\ DOMAIN acceptors' = DOMAIN acceptors
        /\ \A b \in DOMAIN acceptors : acceptors'[b].svc = acceptors[b].svc
                                       /\ acceptors'[b].open = acceptors[b].open
    BY <1>3, <2>1, AcceptType DEF AcceptAgain, Acceptors
  <2>4. NoHandler \in [step : {"none", "begun", "read"}, a : Nat, index : Services]
    BY PoolAssumption DEF NoHandler, Services
  <2>5. busy' = [busy EXCEPT ![s] = NoHandler] /\ NoHandler.step = "none"
    BY <1>3 DEF AcceptAgain, NoHandler
  <2>6. Handlers' /\ Closing'
    BY <1>1, <2>3, <2>5 DEF Handlers, Closing
  <2> QED  BY <1>1, <2>2, <2>3, <2>4, <2>5, <2>6 DEF PoolPart
<1> QED  BY <1>2, <1>3 DEF Handler

\* So does an accept that completes.
LEMMA IncomingKeeps ==
  ASSUME ServerInv, NEW a \in DOMAIN acceptors, Incoming(a)
  PROVE  PoolPart' /\ UNCHANGED callerVars
<1> USE DEF ServerInv, TypeOK
<1>1. UNCHANGED <<poolVars, callerVars, busy, joined>> /\ accepts' \in 0..MaxAccepts
  BY ServerAssumption DEF Incoming
<1> DEFINE new == [acceptors[a] EXCEPT !.pending = @ - 1, !.queued = @ + 1]
<1>2. acceptors[a] \in Acceptors /\ acceptors \in Seq(Acceptors)
  BY Elements
<1>3. acceptors' = [acceptors EXCEPT ![a] = new] /\ acceptors[a].pending > 0
  BY DEF Incoming
<1>4. new \in Acceptors /\ new.svc = acceptors[a].svc /\ new.open = acceptors[a].open
  <2>1. acceptors[a].pending - 1 \in Nat /\ acceptors[a].queued + 1 \in Nat
    BY <1>3, Elements
  <2> QED  BY <1>2, <2>1 DEF Acceptors
<1> HIDE DEF new
<1>5. /\ acceptors' \in Seq(Acceptors) /\ DOMAIN acceptors' = DOMAIN acceptors
      /\ \A b \in DOMAIN acceptors : acceptors'[b].svc = acceptors[b].svc
                                     /\ acceptors'[b].open = acceptors[b].open
  BY <1>2, <1>3, <1>4
<1> QED  BY <1>1, <1>5 DEF PoolPart, PoolTypeOK, poolVars, callerVars, Handlers, Halting, Closing

-----------------------------------------------------------------------------
\* A new server satisfies the inductive invariant.
LEMMA InitServer == Init => ServerInv
<1> SUFFICES ASSUME Init  PROVE ServerInv
  OBVIOUS
<1>1. PoolTypeOK
  BY PoolAssumption DEF Init, PoolInit, PoolTypeOK, Services
<1>2. todo \in [Callers -> Seq(Operations)]
  BY ServerAssumption DEF Init
<1>3. NoHandler \in [step : {"none", "begun", "read"}, a : Nat, index : Services]
  BY PoolAssumption DEF NoHandler, Services
<1>4. acceptors = <<>> /\ accepts \in 0..MaxAccepts /\ joined = FALSE
  BY ServerAssumption DEF Init
<1>5. TypeOK
  <2>1. acceptors \in Seq([svc : Services, open : BOOLEAN, pending : Nat, queued : Nat])
    BY <1>4
  <2>2. busy \in [Services -> [step : {"none", "begun", "read"}, a : Nat, index : Services]]
    BY <1>3 DEF Init
  <2>3. at \in [Callers -> Places] /\ i \in [Callers -> Nat]
    BY DEF Init, Places
  <2> QED  BY <1>1, <1>2, <1>4, <2>1, <2>2, <2>3 DEF TypeOK
<1> QED  BY <1>5 DEF Init, ServerInv, Calling, Handlers, Halting, Closing, NoHandler

\* Every step of a caller, of the pool or of the kernel preserves it.
LEMMA NextServer == ServerInv /\ [Next]_vars => ServerInv'
<1> SUFFICES ASSUME ServerInv, [Next]_vars  PROVE ServerInv'
  OBVIOUS
<1>1. ASSUME NEW c \in Callers, Caller(c)  PROVE ServerInv'
  <2>1. Moves(c)
    BY <1>1, CallerMoves DEF ServerInv
  <2>2. PoolPart'
    BY <1>1, <2>1, ListenKeeps, StopKeeps, OtherCallsKeep DEF Caller
  <2>3. /\ todo' \in [Callers -> Seq(Operations)] /\ at' \in [Callers -> Places]
        /\ i' \in [Callers -> Nat]
        /\ Calling'
    BY <2>1, MovesKeep DEF ServerInv
  <2> QED  BY <2>2, <2>3 DEF ServerInv, PoolPart, TypeOK, Acceptors
<1>2. ASSUME PoolPart', UNCHANGED callerVars  PROVE ServerInv'
  BY <1>2 DEF ServerInv, PoolPart, TypeOK, Acceptors, callerVars, Calling
<1>3. ASSUME NEW k \in Threads, Thread(k)  PROVE ServerInv'
  BY <1>2, <1>3, ThreadKeeps
<1>4. ASSUME NEW s \in Services, Handler(s)  PROVE ServerInv'
  BY <1>2, <1>4, HandlerKeeps
<1>5. ASSUME NEW a \in DOMAIN acceptors, Incoming(a)  PROVE ServerInv'
  BY <1>2, <1>5, IncomingKeeps
<1>6. CASE UNCHANGED vars
  BY <1>6 DEF vars, poolVars, callerVars, ServerInv, TypeOK, PoolTypeOK, Calling, Handlers,
              Halting, Closing
<1> QED  BY <1>1, <1>3, <1>4, <1>5, <1>6 DEF Next

\* The inductive invariant.
THEOREM ServerInvariant == Spec => []ServerInv
BY InitServer, NextServer, PTL DEF Spec

\* The variables of the server and its pool keep their types: the round-robin
\* index stays below the pool's size (get_io_service, io_service_pool.cpp).
THEOREM ServerTypes == Spec => []TypeOK
<1>1. ServerInv => TypeOK
  BY DEF ServerInv
<1> QED  BY <1>1, ServerInvariant, PTL

\* No handler starts on a closed acceptor, however many threads call stop: it
\* would accept again at once and for ever (server::stop, server.hpp:57-63).
THEOREM HandlersFindOpenAcceptors == Spec => NoSpin
<1> DEFINE Opened == \A s \in Services : busy[s].step = "none" /\ busy'[s].step # "none"
                                         => acceptors[busy'[s].a].open
<1>1. ASSUME ServerInv, [Next]_vars  PROVE Opened
  <2> SUFFICES ASSUME NEW s \in Services, busy[s].step = "none", busy'[s].step # "none"
               PROVE  acceptors[busy'[s].a].open
    OBVIOUS
  <2>1. busy \in [Services -> [step : {"none", "begun", "read"}, a : Nat, index : Services]]
    BY <1>1 DEF ServerInv, TypeOK
  <2>2. NoHandler.step = "none"
    BY DEF NoHandler
  <2>3. PICK k \in Threads, a \in DOMAIN acceptors : BeginHandler(k, a)
    <3>1. ASSUME NEW c \in Callers, Caller(c)  PROVE busy' = busy
      BY <3>1 DEF Caller, Begin, Resolve, BindEndpoint, BindEnds, StartAccept, StartAcceptEnds,
                  Run, RunEnds, Halt, HaltEnds, Close, CloseEnds, Join, JoinEnds
    <3>2. ASSUME NEW k \in Threads, ThreadEnds(k) \/ HandlerThrows(k)
          PROVE  busy' = busy \/ busy' = [busy EXCEPT ![futures[k].svc] = NoHandler]
      BY <3>2 DEF ThreadEnds, HandlerThrows
    <3>3. ASSUME NEW t \in Services, Handler(t)  PROVE FALSE
      BY <2>1, <2>2, <3>3 DEF Handler, ReadIndex, AcceptAgain
    <3>4. ASSUME NEW a \in DOMAIN acceptors, Incoming(a)  PROVE busy' = busy
      BY <3>4 DEF Incoming
    <3>5. CASE UNCHANGED vars
      BY <3>5 DEF vars
    <3> QED  BY <1>1, <2>1, <2>2, <3>1, <3>2, <3>3, <3>4, <3>5 DEF Next, Thread
  <2>4. futures[k].svc \in Services
    BY <1>1, Elements DEF ServerInv, Threads
  <2>5. busy' = [busy EXCEPT ![futures[k].svc] = [step |-> "begun", a |-> a, index |-> 0]]
        /\ futures[k].svc \notin halted
    BY <2>3 DEF BeginHandler, CanRun
  <2>6. busy'[s].a = a
    BY <2>1, <2>4, <2>5
  <2> QED  BY <1>1, <2>4, <2>5, <2>6 DEF ServerInv, Closing
<1>2. ServerInv /\ [Next]_vars => [Opened]_vars
  BY <1>1
<1> QED  BY <1>2, ServerInvariant, PTL DEF Spec, NoSpin
===============================================================================
