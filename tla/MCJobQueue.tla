---------------------------- MODULE MCJobQueue ----------------------------
(* Small instances of JobQueue for TLC: two workers, one API thread, and   *)
(* the ids each slot can draw.                                             *)
EXTENDS JobQueue, TLC

CONSTANTS w1, w2, c1, sync, verify, j1, j2, v1

\* Both ids belong to one sync slot: coalescing, requeues under the same id and
\* retries under a new one.
OneSlot == j1 :> sync @@ j2 :> sync

\* One sync and one verify slot, which jumps the queue.
TwoSlots == j1 :> sync @@ v1 :> verify

Sym == Permutations(Workers) \cup Permutations({j1, j2})
=============================================================================
