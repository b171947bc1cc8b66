---------------------------- MODULE OutputStream ----------------------------
(***************************************************************************)
(* What a connection promises about its output: the bytes the session      *)
(* queues reach the peer in order, without gaps or repetitions, until the  *)
(* connection is closed, after which nothing more is sent.                 *)
(***************************************************************************)
EXTENDS Naturals, Sequences

VARIABLES
  queued,   \* how many bytes have been queued; they are numbered 1..queued
  out,      \* the bytes sent to the peer
  closed

vars == <<queued, out, closed>>

Init == queued = 0 /\ out = <<>> /\ closed = FALSE

Enqueue ==
  /\ queued' \in Nat /\ queued' > queued
  /\ UNCHANGED <<out, closed>>

Deliver ==
  /\ ~closed
  /\ \E n \in Len(out) + 1 .. queued : out' = [i \in 1..n |-> i]
  /\ UNCHANGED <<queued, closed>>

Close ==
  /\ ~closed /\ closed' = TRUE
  /\ UNCHANGED <<queued, out>>

Next == Enqueue \/ Deliver \/ Close

Spec == Init /\ [][Next]_vars
=============================================================================
