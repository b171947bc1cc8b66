---------------------------- MODULE IoServicePool ----------------------------
(***************************************************************************)
(* io_service_pool: a fixed number of io_services, each run by one thread. *)
(*                                                                         *)
(* run() starts a thread per io_service with std::async and keeps the      *)
(* futures; stop() stops the io_services, for good, since nothing resets   *)
(* them; join() gets every future.  The class has no lock: its operations  *)
(* are given here as the steps the caller's thread takes, which Server     *)
(* interleaves with those of other callers and of the pool's threads.      *)
(***************************************************************************)
EXTENDS Naturals, Sequences

CONSTANT PoolSize    \* pool_size

ASSUME PoolAssumption == PoolSize \in Nat \ {0}    \* the constructor throws on 0

VARIABLES
  halted,     \* the io_services that have been stopped
  futures,    \* io_service_pool_: per future its io_service, the state of
              \* its thread and whether the future is still valid
  next_io_service_index,
  handed,     \* history: how often get_io_service returned each io_service
  misused     \* history: was get() called on a future without a state?

poolVars == <<halted, futures, next_io_service_index, handed, misused>>

Services == 0..PoolSize - 1

Threads == DOMAIN futures

PoolInit ==
  /\ halted = {}
  /\ futures = <<>>
  /\ next_io_service_index = 0
  /\ handed = [s \in Services |-> 0]
  /\ misused = FALSE

-----------------------------------------------------------------------------
(* Steps of the operations *)

\* Mutation: every thread runs the first io_service.
launch_first(s) ==
  futures' = Append(futures, [svc |-> 0, thread |-> "running", valid |-> TRUE])

\* One iteration of run(): a thread for io_service s.
launch(s) ==
  futures' = Append(futures, [svc |-> s, thread |-> "running", valid |-> TRUE])

\* Mutation: only the first io_service is stopped.
halt_first(s) == halted' = halted \cup ({s} \cap {0})

\* One iteration of stop()
halt(s) == halted' = halted \cup {s}

\* Mutation: join does not wait for the thread.
got_early(k) ==
  /\ futures[k].valid
  /\ futures' = [futures EXCEPT ![k].valid = FALSE]

\* One iteration of join(): p.get() waits for the thread, then drops the state.
got(k) ==
  /\ futures[k].valid
  /\ futures[k].thread # "running"
  /\ futures' = [futures EXCEPT ![k].valid = FALSE]

\* Mutation: the index does not wrap around.
store_unwrapped(i) ==
  /\ next_io_service_index' = i + 1
  /\ handed' = [handed EXCEPT ![i] = @ + 1]

\* Mutation: the index does not move.
store_same(i) ==
  /\ next_io_service_index' = i
  /\ handed' = [handed EXCEPT ![i] = @ + 1]

\* get_io_service, after it read the index as i: it returns io_service i.
\* The read and the write are separate: two threads may both do them.
store_index(i) ==
  /\ next_io_service_index' = (i + 1) % PoolSize
  /\ handed' = [handed EXCEPT ![i] = @ + 1]

-----------------------------------------------------------------------------
(* The pool's threads *)

CanRun(k) == futures[k].thread = "running" /\ futures[k].svc \notin halted

\* io_service::run returns once the io_service is stopped; until then the
\* io_service::work objects keep it from returning.
Ends(k) ==
  /\ futures[k].thread = "running" /\ futures[k].svc \in halted
  /\ futures' = [futures EXCEPT ![k].thread = "returned"]

\* An exception leaves run() and is kept for the future.
Throws(k) == futures' = [futures EXCEPT ![k].thread = "threw"]

-----------------------------------------------------------------------------
PoolTypeOK ==
  /\ halted \subseteq Services
  /\ futures \in Seq([svc : Services, thread : {"running", "returned", "threw"}, valid : BOOLEAN])
  /\ next_io_service_index \in Services
  /\ handed \in [Services -> Nat]
  /\ misused \in BOOLEAN

\* An io_service is run by one thread, so the handlers of a connection never
\* overlap: Connection rests on this (run, io_service_pool.cpp:27-41).
OneThreadPerService ==
  \A j, k \in Threads : j # k /\ futures[j].thread = "running" /\ futures[k].thread = "running"
                        => futures[j].svc # futures[k].svc

\* No future is asked for its result twice (join).
GetOnce == ~misused
=============================================================================
