--------------------------- MODULE TerminalLease ---------------------------
(***************************************************************************)
(* What the lock of a terminal promises, with Redis and its tokens left    *)
(* out.  A worker that enters holds a lease.  A lease can lapse while its  *)
(* holder goes on using the terminal, as the holder is not told; until     *)
(* then nobody else enters.                                                *)
(***************************************************************************)
CONSTANTS Workers, Terminals

VARIABLES users,    \* users[t]: the workers between enter and leave
          lapsed    \* those of them whose lease ran out

vars == <<users, lapsed>>

TypeOK == /\ users \in [Terminals -> SUBSET Workers]
          /\ lapsed \in [Terminals -> SUBSET Workers]

Init == /\ users = [t \in Terminals |-> {}]
        /\ lapsed = [t \in Terminals |-> {}]

Enter(w, t) == /\ users[t] = lapsed[t]
               /\ w \notin users[t]
               /\ users' = [users EXCEPT ![t] = @ \cup {w}]
               /\ UNCHANGED lapsed

\* The worker is done with the terminal, or has died.
Leave(w, t) == /\ w \in users[t]
               /\ users' = [users EXCEPT ![t] = @ \ {w}]
               /\ lapsed' = [lapsed EXCEPT ![t] = @ \ {w}]

Lapse(w, t) == /\ w \in users[t] \ lapsed[t]
               /\ lapsed' = [lapsed EXCEPT ![t] = @ \cup {w}]
               /\ UNCHANGED users

Next == \E w \in Workers, t \in Terminals : Enter(w, t) \/ Leave(w, t) \/ Lapse(w, t)

Spec == Init /\ [][Next]_vars
=============================================================================
