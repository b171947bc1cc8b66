-------------------------------- MODULE Server --------------------------------
(***************************************************************************)
(* server and its io_service_pool: listen, stop and join, called by the    *)
(* threads of the program, and the accept handlers the pool's threads run. *)
(*                                                                         *)
(* A script gives the calls each caller makes, in order.  A call is a      *)
(* sequence of steps (the loops of bind, listen, run, stop and join), and  *)
(* the steps of the callers and of the pool's threads interleave: neither  *)
(* class takes a lock.  What happens to an accepted connection is modelled *)
(* in Connection; here it only has an io_service.                          *)
(***************************************************************************)
EXTENDS IoServicePool

CONSTANTS
  Callers,     \* threads of the program
  Scripts,     \* the scripts: script[c] is the operations c calls, in order
  Endpoints,   \* how many endpoints the resolver returns
  MayThrow,    \* can set_option throw in an accept handler?
  MaxAccepts   \* bound on the accepts that complete before stop

Operations == {"listen", "listen_blocking", "stop", "join"}

ASSUME ServerAssumption ==
  /\ \A script \in Scripts : script \in [Callers -> Seq(Operations)]
  /\ Endpoints \in Nat \ {0}
  /\ MayThrow \in BOOLEAN
  /\ MaxAccepts \in Nat

VARIABLES
  todo,       \* todo[c]: the calls c has yet to finish, the current one first
  at,         \* at[c]: the loop c is in
  i,          \* i[c]: the iteration it is at
  acceptors,  \* acceptor_list_: per acceptor its io_service, whether it is
              \* open, its async_accepts pending and its handlers queued
  busy,       \* busy[s]: what the handler running on io_service s is doing
  accepts,    \* history: how many accepts have completed
  joined      \* history: has a join() returned normally?

callerVars == <<todo, at, i>>
vars == <<poolVars, callerVars, acceptors, busy, accepts, joined>>

NoHandler == [step |-> "none", a |-> 0, index |-> 0]

Init ==
  /\ PoolInit
  /\ todo \in Scripts
  /\ at = [c \in Callers |-> "idle"]
  /\ i = [c \in Callers |-> 0]
  /\ acceptors = <<>>
  /\ busy = [s \in Services |-> NoHandler]
  /\ accepts = 0
  /\ joined = FALSE

-----------------------------------------------------------------------------
(* Helpers *)

GoTo(c, place) ==
  /\ at' = [at EXCEPT ![c] = place]
  /\ i' = [i EXCEPT ![c] = 0]
  /\ UNCHANGED todo

Iterate(c) ==
  /\ i' = [i EXCEPT ![c] = @ + 1]
  /\ UNCHANGED <<todo, at>>

Finish(c) ==
  /\ todo' = [todo EXCEPT ![c] = Tail(@)]
  /\ at' = [at EXCEPT ![c] = "idle"]
  /\ i' = [i EXCEPT ![c] = 0]

\* The call throws: its caller makes no other.
Fail(c) ==
  /\ todo' = [todo EXCEPT ![c] = <<>>]
  /\ at' = [at EXCEPT ![c] = "idle"]
  /\ i' = [i EXCEPT ![c] = 0]

\* a.async_accept: on a closed acceptor the handler is queued at once.
async_accept(a) ==
  acceptors' = IF acceptors[a].open THEN [acceptors EXCEPT ![a].pending = @ + 1]
                                    ELSE [acceptors EXCEPT ![a].queued = @ + 1]

-----------------------------------------------------------------------------
(* listen *)

\* Mutation: stop closes the acceptors first.
BeginClosing(c) ==
  /\ at[c] = "idle" /\ todo[c] # <<>>
  /\ GoTo(c, CASE Head(todo[c]) \in {"listen", "listen_blocking"} -> "bind"
               [] Head(todo[c]) = "stop" -> "close"
               [] Head(todo[c]) = "join" -> "join")
  /\ UNCHANGED <<poolVars, acceptors, busy, accepts, joined>>

Begin(c) ==
  /\ at[c] = "idle" /\ todo[c] # <<>>
  /\ GoTo(c, CASE Head(todo[c]) \in {"listen", "listen_blocking"} -> "bind"
               [] Head(todo[c]) = "stop" -> "halt"
               [] Head(todo[c]) = "join" -> "join")
  /\ UNCHANGED <<poolVars, acceptors, busy, accepts, joined>>

\* The resolver takes an io_service, and may fail.
Resolve(c) ==
  /\ at[c] = "bind"
  /\ store_index(next_io_service_index)
  /\ GoTo(c, "endpoints") \/ Fail(c)
  /\ UNCHANGED <<halted, futures, misused, acceptors, busy, accepts, joined>>

\* One endpoint of bind: it is listened on, or skipped because open or bind
\* reports an error, or listen throws.
BindEndpoint(c) ==
  /\ at[c] = "endpoints" /\ i[c] < Endpoints
  /\ store_index(next_io_service_index)
  /\ \/ /\ acceptors' = Append(acceptors, [svc |-> next_io_service_index, open |-> TRUE,
                                           pending |-> 0, queued |-> 0])
        /\ Iterate(c)
     \/ Iterate(c) /\ UNCHANGED acceptors
     \/ Fail(c) /\ UNCHANGED acceptors
  /\ UNCHANGED <<halted, futures, misused, busy, accepts, joined>>

\* The end of bind throws when nothing is listened on.
BindEnds(c) ==
  /\ at[c] = "endpoints" /\ i[c] = Endpoints
  /\ IF acceptors = <<>> THEN Fail(c) ELSE GoTo(c, "accept")
  /\ UNCHANGED <<poolVars, acceptors, busy, accepts, joined>>

\* start_accept on one acceptor: takes an io_service for the next connection.
StartAccept(c) ==
  /\ at[c] = "accept" /\ i[c] < Len(acceptors)
  /\ store_index(next_io_service_index)
  /\ async_accept(i[c] + 1)
  /\ Iterate(c)
  /\ UNCHANGED <<halted, futures, misused, busy, accepts, joined>>

StartAcceptEnds(c) ==
  /\ at[c] = "accept" /\ i[c] = Len(acceptors)
  /\ GoTo(c, "run")
  /\ UNCHANGED <<poolVars, acceptors, busy, accepts, joined>>

Run(c) ==
  /\ at[c] = "run" /\ i[c] < PoolSize
  /\ launch(i[c])
  /\ Iterate(c)
  /\ UNCHANGED <<halted, next_io_service_index, handed, misused, acceptors, busy, accepts, joined>>

\* Mutation: listen always blocks.
RunEndsBlocking(c) ==
  /\ at[c] = "run" /\ i[c] = PoolSize
  /\ GoTo(c, "join")
  /\ UNCHANGED <<poolVars, acceptors, busy, accepts, joined>>

RunEnds(c) ==
  /\ at[c] = "run" /\ i[c] = PoolSize
  /\ IF Head(todo[c]) = "listen_blocking" THEN GoTo(c, "join") ELSE Finish(c)
  /\ UNCHANGED <<poolVars, acceptors, busy, accepts, joined>>

-----------------------------------------------------------------------------
(* stop *)

Halt(c) ==
  /\ at[c] = "halt" /\ i[c] < PoolSize
  /\ halt(i[c])
  /\ Iterate(c)
  /\ UNCHANGED <<futures, next_io_service_index, handed, misused, acceptors, busy, accepts, joined>>

HaltEnds(c) ==
  /\ at[c] = "halt" /\ i[c] = PoolSize
  /\ GoTo(c, "close")
  /\ UNCHANGED <<poolVars, acceptors, busy, accepts, joined>>

\* a.close() queues the handlers of the pending accepts.
Close(c) ==
  /\ at[c] = "close" /\ i[c] < Len(acceptors)
  /\ acceptors' = [acceptors EXCEPT ![i[c] + 1] =
       [svc |-> @.svc, open |-> FALSE, pending |-> 0, queued |-> @.queued + @.pending]]
  /\ Iterate(c)
  /\ UNCHANGED <<poolVars, busy, accepts, joined>>

CloseEnds(c) ==
  /\ at[c] = "close" /\ i[c] >= Len(acceptors)
  /\ Finish(c)
  /\ UNCHANGED <<poolVars, acceptors, busy, accepts, joined>>

-----------------------------------------------------------------------------
(* join *)

\* get() of a future returns, or rethrows what its thread threw.  Of a future that
\* has been got already it is undefined behaviour, in practice a future_error.
Join(c) ==
  /\ at[c] = "join" /\ i[c] < Len(futures)
  /\ IF futures[i[c] + 1].valid
     THEN /\ got(i[c] + 1)
          /\ IF futures[i[c] + 1].thread = "threw" THEN Fail(c) ELSE Iterate(c)
          /\ UNCHANGED misused
     ELSE /\ misused' = TRUE
          /\ Fail(c)
          /\ UNCHANGED futures
  /\ UNCHANGED <<halted, next_io_service_index, handed, acceptors, busy, accepts, joined>>

JoinEnds(c) ==
  /\ at[c] = "join" /\ i[c] >= Len(futures)
  /\ Finish(c)
  /\ joined' = (joined \/ Head(todo[c]) = "join")
  /\ UNCHANGED <<poolVars, acceptors, busy, accepts>>

-----------------------------------------------------------------------------
(* The pool's threads *)

\* An accept completes, with a connection or an error.
Incoming(a) ==
  /\ acceptors[a].pending > 0 /\ accepts < MaxAccepts
  /\ acceptors' = [acceptors EXCEPT ![a].pending = @ - 1, ![a].queued = @ + 1]
  /\ accepts' = accepts + 1
  /\ UNCHANGED <<poolVars, callerVars, busy, joined>>

\* Thread k takes the accept handler of acceptor a, which starts the
\* connection unless it got an error.
BeginHandler(k, a) ==
  /\ CanRun(k) /\ busy[futures[k].svc].step = "none"
  /\ acceptors[a].svc = futures[k].svc /\ acceptors[a].queued > 0
  /\ acceptors' = [acceptors EXCEPT ![a].queued = @ - 1]
  /\ busy' = [busy EXCEPT ![futures[k].svc] = [step |-> "begun", a |-> a, index |-> 0]]
  /\ UNCHANGED <<poolVars, callerVars, accepts, joined>>

\* set_option throws: the handler ends there, and with it the thread.
HandlerThrows(k) ==
  /\ MayThrow
  /\ futures[k].thread = "running" /\ busy[futures[k].svc].step = "begun"
  /\ Throws(k)
  /\ busy' = [busy EXCEPT ![futures[k].svc] = NoHandler]
  /\ UNCHANGED <<halted, next_io_service_index, handed, misused, callerVars, acceptors, accepts, joined>>

\* Mutation: the handler does not accept again.
AcceptOnce(s) ==
  /\ busy[s].step = "begun"
  /\ busy' = [busy EXCEPT ![s] = NoHandler]
  /\ UNCHANGED <<poolVars, callerVars, acceptors, accepts, joined>>

\* start_accept again, first half: get_io_service reads the index.
ReadIndex(s) ==
  /\ busy[s].step = "begun"
  /\ busy' = [busy EXCEPT ![s].step = "read", ![s].index = next_io_service_index]
  /\ UNCHANGED <<poolVars, callerVars, acceptors, accepts, joined>>

\* Second half: get_io_service stores the next index, and async_accept.
AcceptAgain(s) ==
  /\ busy[s].step = "read"
  /\ store_index(busy[s].index)
  /\ async_accept(busy[s].a)
  /\ busy' = [busy EXCEPT ![s] = NoHandler]
  /\ UNCHANGED <<halted, futures, misused, callerVars, accepts, joined>>

ThreadEnds(k) ==
  /\ busy[futures[k].svc].step = "none"
  /\ Ends(k)
  /\ UNCHANGED <<halted, next_io_service_index, handed, misused, callerVars, acceptors, busy,
                 accepts, joined>>

-----------------------------------------------------------------------------
Caller(c) ==
  \/ Begin(c) \/ Resolve(c) \/ BindEndpoint(c) \/ BindEnds(c)
  \/ StartAccept(c) \/ StartAcceptEnds(c) \/ Run(c) \/ RunEnds(c)
  \/ Halt(c) \/ HaltEnds(c) \/ Close(c) \/ CloseEnds(c)
  \/ Join(c) \/ JoinEnds(c)

Thread(k) ==
  \/ ThreadEnds(k) \/ HandlerThrows(k)
  \/ \E a \in DOMAIN acceptors : BeginHandler(k, a)

Handler(s) == ReadIndex(s) \/ AcceptAgain(s)

Next == \/ \E c \in Callers : Caller(c)
        \/ \E k \in Threads : Thread(k)
        \/ \E s \in Services : Handler(s)
        \/ \E a \in DOMAIN acceptors : Incoming(a)

\* Every thread of the program and of the pool is scheduled.
Fairness == /\ \A c \in Callers : WF_vars(Caller(c))
            /\ \A s \in Services : WF_vars(Handler(s))
            /\ \A k \in 1..PoolSize : WF_vars(k \in Threads /\ Thread(k))

Spec == Init /\ [][Next]_vars /\ Fairness

-----------------------------------------------------------------------------
Places == {"idle", "bind", "endpoints", "accept", "run", "halt", "close", "join"}

TypeOK ==
  /\ PoolTypeOK
  /\ todo \in [Callers -> Seq(Operations)]
  /\ at \in [Callers -> Places]
  /\ i \in [Callers -> Nat]
  /\ acceptors \in Seq([svc : Services, open : BOOLEAN, pending : Nat, queued : Nat])
  /\ busy \in [Services -> [step : {"none", "begun", "read"}, a : Nat, index : Services]]
  /\ accepts \in 0..MaxAccepts
  /\ joined \in BOOLEAN

Handling(a) == \E s \in Services : busy[s].step # "none" /\ busy[s].a = a

Listening == futures # <<>> /\ halted = {}

Broken(s) == \E k \in Threads : futures[k].svc = s /\ futures[k].thread = "threw"

\* Until stop, every acceptor is accepting: one async_accept is pending, or its
\* handler is queued or running (the handler calls start_accept again).  Only an
\* exception that leaves a handler, and ends its thread, breaks the chain.
KeepsAccepting ==
  Listening => \A a \in DOMAIN acceptors :
    \/ acceptors[a].pending + acceptors[a].queued + (IF Handling(a) THEN 1 ELSE 0) = 1
    \/ Broken(acceptors[a].svc)

\* With one acceptor, connections are spread evenly over the io_services: two
\* acceptors on different threads may read the same index (get_io_service).
Balanced ==
  Len(acceptors) <= 1 => \A s, t \in Services : handed[s] <= handed[t] + 1

\* stop() stops the io_services before it closes the acceptors, so no handler
\* starts that would find its acceptor closed and accept in a busy loop.
NoSpin ==
  [][\A s \in Services : busy[s].step = "none" /\ busy'[s].step # "none"
                         => acceptors[busy'[s].a].open]_vars

\* After join() no thread of the pool is running: the server may be destroyed.
JoinIsFinal == joined => \A k \in Threads : futures[k].thread # "running"

\* After stop every call returns: a blocking listen, and a join, end when the
\* io_services have been stopped, also if they are stopped before they run.
CallsReturn == <>(\A c \in Callers : todo[c] = <<>>)
=============================================================================
