-------------------------- MODULE CoalescingQueue --------------------------
(***************************************************************************)
(* What the Redis job queue promises to the workers, with the Redis keys   *)
(* left out: a request for a slot (one account and one job type) is owed   *)
(* until a worker starts on it; asking again for an owed slot adds         *)
(* nothing; and a worker starts on a slot only if that slot is owed, which *)
(* uses the request up.  However many markers, payloads and recoveries the *)
(* implementation has, it never starts more runs of a slot than it was     *)
(* asked for.                                                              *)
(***************************************************************************)
CONSTANTS Slots,    \* the coalesce ids "<account>:<job type>"
          Workers,  \* the worker processes
          NoSlot    \* stands for a worker that runs nothing

VARIABLES owed,     \* the slots that were asked for and not started yet
          working   \* working[w]: the slot worker w runs

vars == <<owed, working>>

TypeOK == /\ owed \in SUBSET Slots
          /\ working \in [Workers -> Slots \cup {NoSlot}]

Init == /\ owed = {}
        /\ working = [w \in Workers |-> NoSlot]

\* The API, a retry or a recovery asks for a run of slot s.
Ask(s) == /\ owed' = owed \cup {s}
          /\ UNCHANGED working

\* Worker w takes the request for slot s and starts the run.
Start(w, s) == /\ s \in owed
               /\ working[w] = NoSlot
               /\ owed' = owed \ {s}
               /\ working' = [working EXCEPT ![w] = s]

\* The run of worker w ends: it finished, gave up, or the worker died.
Stop(w) == /\ working[w] # NoSlot
           /\ working' = [working EXCEPT ![w] = NoSlot]
           /\ UNCHANGED owed

Next == \/ \E s \in Slots : Ask(s)
        \/ \E w \in Workers, s \in Slots : Start(w, s)
        \/ \E w \in Workers : Stop(w)

Spec == Init /\ [][Next]_vars
=============================================================================
