--------------------------- MODULE SyncJobProofs ---------------------------
(***************************************************************************)
(* Proofs about SyncJob, for any account, any number of workers and any    *)
(* bounds that satisfy the assumptions of SyncJob.                         *)
(***************************************************************************)
EXTENDS SyncJob, FiniteSetTheorems, WellFoundedInduction, TLAPS

-----------------------------------------------------------------------------
(* Tickets *)

LEMMA EarliestIsFirst ==
  ASSUME NEW S, S \subseteq Deals, S # {}
  PROVE  Earliest(S) \in S /\ \A e \in S : Earliest(S) <= e
<1>1. S \subseteq Nat
  BY DealsAssumption
<1> DEFINE R == OpToRel(<, Nat)
<1>2. IsWellFoundedOn(R, Nat)
  BY NatLessThanWellFounded
<1>3. \A x, y \in Nat : x < y => <<x, y>> \in R
  BY DEF OpToRel
<1> HIDE DEF R
<1>4. PICK d \in S : \A e \in S : ~ (<<e, d>> \in R)
  BY <1>1, <1>2, WFMin
<1>5. \A e \in S : ~ (e < d)
  BY <1>1, <1>3, <1>4
<1>6. \A e \in S : d <= e
  BY <1>1, <1>5
<1> QED
  BY <1>4, <1>6 DEF Earliest

LEMMA LatestIsIn ==
  ASSUME NEW S, S \subseteq Deals, S # {}
  PROVE  Latest(S) \in S
<1> DEFINE Later(d) == {e \in S : d < e}
           C == {Cardinality(Later(d)) : d \in S}
           R == OpToRel(<, Nat)
<1>1. S \subseteq Nat /\ IsFiniteSet(S)
  BY DealsAssumption, FS_Subset
<1>2. ASSUME NEW d \in S PROVE IsFiniteSet(Later(d)) /\ Cardinality(Later(d)) \in Nat
  BY <1>1, FS_Subset, FS_CardinalityType
<1>3. C \subseteq Nat /\ C # {}
  BY <1>2
<1>4. IsWellFoundedOn(R, Nat)
  BY NatLessThanWellFounded
<1>5. \A x, y \in Nat : x < y => <<x, y>> \in R
  BY DEF OpToRel
<1> HIDE DEF R
<1>6. PICK n \in C : \A m \in C : ~ (<<m, n>> \in R)
  <2> HIDE DEF C
  <2> QED
    BY <1>3, <1>4, WFMin
<1>7. PICK d \in S : n = Cardinality(Later(d))
  BY <1>6
<1>8. ASSUME NEW e \in S, d < e PROVE FALSE
  <2>1. Later(e) \subseteq Later(d) /\ e \in Later(d) /\ e \notin Later(e)
    <3>1. d \in Nat /\ e \in Nat /\ \A x \in S : x \in Nat
      BY <1>1
    <3>2. \A x \in S : e < x => d < x
      BY <1>8, <3>1
    <3>3. ~ (e < e)
      BY <3>1
    <3> QED
      BY <1>8, <3>2, <3>3
  <2>2. Cardinality(Later(e)) <= n /\ Cardinality(Later(e)) # n
    BY <1>2, <1>7, <2>1, FS_Subset
  <2>3. Cardinality(Later(e)) \in C /\ Cardinality(Later(e)) \in Nat /\ n \in Nat
    BY <1>2, <1>3
  <2>4. Cardinality(Later(e)) < n
    <3> HIDE DEF Later, C
    <3> QED
      BY <2>2, <2>3
  <2> QED
    <3> HIDE DEF Later, C
    <3> QED
      BY <1>5, <1>6, <2>3, <2>4
<1>9. \A e \in S : e <= d
  BY <1>1, <1>8
<1> QED
  BY <1>9 DEF Latest

\* The ticket of an exit is its own order or that of an entry of its position, and
\* then it is the only exit of its position among the deals.
LEMMA TicketFacts ==
  ASSUME NEW S, S \subseteq Deals, NEW d \in Exits(S)
  PROVE  /\ Ticket(S, d) \in Tickets
         /\ \/ Ticket(S, d) = Order[d]
            \/ \E i \in Entries(S) :
                 /\ Ticket(S, d) = Order[i] /\ Position[i] = Position[d]
                 /\ \A e \in Exits(S) : Position[e] = Position[d] => e = d
<1> DEFINE B == Bucket(S, d)
<1>1. CASE Exits(B) = {d} /\ Entries(B) # {}
  <2>1. Entries(B) \subseteq Deals
    BY DEF Entries, Bucket
  <2>2. PICK i \in Entries(B) : Ticket(S, d) = Order[i]
    BY <1>1, <2>1, EarliestIsFirst DEF Ticket
  <2>3. i \in Entries(S) /\ i \in Entries(Deals) /\ Position[i] = Position[d]
    BY <2>2 DEF Entries, Bucket
  <2>4. \A e \in Exits(S) : Position[e] = Position[d] => e \in Exits(B)
    BY DEF Exits, Bucket
  <2>5. Ticket(S, d) \in Tickets
    BY <2>2, <2>3 DEF Tickets
  <2>6. \A e \in Exits(S) : Position[e] = Position[d] => e = d
    BY <1>1, <2>4
  <2> QED
    BY <2>2, <2>3, <2>5, <2>6
<1>2. CASE ~(Exits(B) = {d} /\ Entries(B) # {})
  <2>1. Ticket(S, d) = Order[d]
    BY <1>2 DEF Ticket
  <2>2. d \in Exits(Deals)
    BY DEF Exits
  <2> QED
    BY <2>1, <2>2 DEF Tickets
<1> QED
  BY <1>1, <1>2

\* The deals of one order are of one kind and one position.
LEMMA OneOrder ==
  ASSUME NEW d \in Entries(Deals) \cup Exits(Deals),
         NEW e \in Entries(Deals) \cup Exits(Deals), Order[d] = Order[e]
  PROVE  Position[d] = Position[e] /\ (d \in Exits(Deals) => e \notin Entries(Deals))
  BY OrderAssumption DEF Entries, Exits

\* Two exits of one pull share a ticket only if they are fills of one order.
LEMMA TicketsOfOneOrder ==
  ASSUME NEW S, S \subseteq Deals, NEW d \in Exits(S), NEW e \in Exits(S),
         Ticket(S, d) = Ticket(S, e)
  PROVE  Order[d] = Order[e]
<1>1. d \in Exits(Deals) /\ e \in Exits(Deals) /\ Entries(S) \subseteq Entries(Deals)
  BY DEF Entries, Exits
<1>2. CASE Ticket(S, d) = Order[d] /\ Ticket(S, e) = Order[e]
  BY <1>2
<1>3. CASE Ticket(S, d) # Order[d]
  <2>1. PICK i \in Entries(S) : /\ Ticket(S, d) = Order[i] /\ Position[i] = Position[d]
                                /\ \A x \in Exits(S) : Position[x] = Position[d] => x = d
    BY <1>3, TicketFacts
  <2>2. Ticket(S, e) # Order[e]
    BY <1>1, <2>1, OneOrder
  <2>3. PICK j \in Entries(S) : Ticket(S, e) = Order[j] /\ Position[j] = Position[e]
    BY <2>2, TicketFacts
  <2>4. Position[i] = Position[j]
    BY <1>1, <2>1, <2>3, OneOrder
  <2> QED
    BY <2>1, <2>3, <2>4
<1>4. CASE Ticket(S, e) # Order[e]
  <2>1. PICK i \in Entries(S) : /\ Ticket(S, e) = Order[i] /\ Position[i] = Position[e]
                                /\ \A x \in Exits(S) : Position[x] = Position[e] => x = e
    BY <1>4, TicketFacts
  <2>2. Ticket(S, d) # Order[d]
    BY <1>1, <2>1, OneOrder
  <2>3. PICK j \in Entries(S) : Ticket(S, d) = Order[j] /\ Position[j] = Position[d]
    BY <2>2, TicketFacts
  <2>4. Position[i] = Position[j]
    BY <1>1, <2>1, <2>3, OneOrder
  <2> QED
    BY <2>1, <2>3, <2>4
<1> QED
  BY <1>2, <1>3, <1>4

\* What an upsert leaves under a ticket.
LEMMA UpsertedFacts ==
  ASSUME TypeOK, NEW w \in Workers, NEW X, X \subseteq Exits(got[w]), NEW t \in Tickets
  PROVE  \/ /\ \A d \in X : Ticket(got[w], d) # t
            /\ Upserted(w, X)[t] = trades[t]
         \/ /\ Upserted(w, X)[t] \in X
            /\ Ticket(got[w], Upserted(w, X)[t]) = t
            /\ Upserted(w, X)[t] \in Rows /\ Upserted(w, X)[t] # NoRow
<1> DEFINE Y == WithTicket(w, X, t)
<1>1. X \subseteq Exits(Deals) /\ Y \subseteq Deals
  BY DEF TypeOK, WithTicket, Exits
<1>2. CASE Y = {}
  BY <1>2 DEF Upserted, WithTicket
<1>3. CASE Y # {}
  <2>1. Upserted(w, X)[t] = Latest(Y)
    BY <1>3 DEF Upserted
  <2>2. Latest(Y) \in Y
    BY <1>1, <1>3, LatestIsIn
  <2>3. Latest(Y) \in X /\ Ticket(got[w], Latest(Y)) = t
    BY <2>2 DEF WithTicket
  <2>4. Latest(Y) \in Rows /\ Latest(Y) # NoRow
    BY <1>1, <2>3, NoRowAssumption DEF Rows
  <2> QED
    BY <2>1, <2>3, <2>4
<1> QED
  BY <1>2, <1>3
-----------------------------------------------------------------------------
(* Types *)

Pulls == {"map", "stamp", "cash", "backfill"}

LEMMA UpsertedType ==
  ASSUME TypeOK, NEW w \in Workers, NEW X, X \subseteq Exits(got[w])
  PROVE  Upserted(w, X) \in [Tickets -> Rows \cup {NoRow}]
<1>1. \A t \in Tickets : Upserted(w, X)[t] \in Rows \cup {NoRow}
  BY UpsertedFacts DEF TypeOK
<1> QED
  BY <1>1 DEF Upserted

LEMMA NoWindowType == NoWindow \in Windows
  BY WindowAssumption DEF NoWindow, Windows, Times

LEMMA TypeInit == Init => TypeOK
<1> SUFFICES ASSUME Init PROVE TypeOK
  OBVIOUS
<1>1. cred \in Creds
  BY WindowAssumption DEF Init, Creds, Never, Times
<1>2. now \in Times /\ faults \in 0..MaxFaults
  BY WindowAssumption, ChunkAssumption DEF Init, Times
<1>3. at \in [Deals -> Times \cup {NotYet}] /\ trades \in [Tickets -> Rows \cup {NoRow}]
  BY DEF Init
<1> QED
  BY <1>1, <1>2, <1>3, NoWindowType DEF Init, TypeOK

USE DEF db, world, Goto, Fault, NoFault

LEMMA CredTypes ==
  ASSUME TypeOK
  PROVE  SyncedNow \in Creds /\ [cred EXCEPT !.backfill = TRUE] \in Creds
  BY DEF TypeOK, Creds, SyncedNow, Times

LEMMA WindowType ==
  ASSUME TypeOK
  PROVE  NextWindow \in Windows /\ Window(now - Lookback, "unknown", FALSE) \in Windows
  BY OverlapAssumption, WindowAssumption
  DEF TypeOK, NextWindow, Window, Since, Windows, Times, Creds, Never

\* The end of a job, or of its use for its deals.
LEMMA LeaveTypes ==
  ASSUME TypeOK, NEW w \in Workers, NEW s \in {"idle", "backfill"}, Leave(w, s)
  PROVE  /\ pc' \in [Workers -> {"idle", "lock", "map", "stamp", "cash", "backfill"}]
         /\ win' \in [Workers -> Windows] /\ got' \in [Workers -> SUBSET Deals]
  BY NoWindowType DEF Leave, TypeOK

LEMMA AfterCashType == \A w \in Workers : AfterCash(w) \in {"idle", "backfill"}
  BY DEF AfterCash

LEMMA TypeStep == TypeOK /\ [Next]_vars => TypeOK'
<1> SUFFICES ASSUME TypeOK, [Next]_vars PROVE TypeOK'
  OBVIOUS
<1> USE NoWindowType, ChunkAssumption
<1>b. CASE Broker
  BY <1>b, WindowAssumption DEF Broker, Tick, Deal, Settle, TypeOK, Times, NotYet, job
<1>p. ASSUME NEW w \in Workers, Pull(w) PROVE TypeOK'
  <2>1. CASE ResolveWindow(w)
    <3>1. PICK x \in Windows : win' = [win EXCEPT ![w] = x]
      BY <2>1, WindowType DEF ResolveWindow
    <3>2. faults' = faults \/ Fault
      BY <2>1, Zenon DEF ResolveWindow
    <3>3. faults' \in 0..MaxFaults
      BY <3>2 DEF TypeOK
    <3> HIDE DEF Fault, NoFault
    <3> QED
      BY <2>1, <3>1, <3>3 DEF ResolveWindow, TypeOK
  <2>2. CASE NoHistory(w)
    BY <2>2, LeaveTypes DEF NoHistory, Finish, TypeOK
  <2>3. InWindow(w) \subseteq Deals
    BY DEF InWindow, TypeOK
  <2>4. CASE ReadHistory(w)
    BY <2>3, <2>4 DEF ReadHistory, Pulled, TypeOK
  <2>5. CASE BlindRead(w)
    BY <2>3, <2>5 DEF BlindRead, Pulled, TypeOK
  <2> QED
    BY <1>p, <2>1, <2>2, <2>4, <2>5 DEF Pull
<1>s. ASSUME NEW w \in Workers, Save(w) PROVE TypeOK'
  <2>0. Cashflows(got[w]) \subseteq {d \in Deals : Kind[d] = "cash"}
    BY DEF TypeOK, Cashflows
  <2>1. CASE NothingNew(w)
    <3>1. /\ pc' \in [Workers -> {"idle", "lock", "map", "stamp", "cash", "backfill"}]
          /\ win' \in [Workers -> Windows] /\ got' \in [Workers -> SUBSET Deals]
      BY <2>1, AfterCashType, LeaveTypes DEF NothingNew
    <3>2. cred' \in Creds /\ faults' \in 0..MaxFaults
      BY <2>1, CredTypes DEF NothingNew, TypeOK
    <3>3. UNCHANGED <<now, at, settled, trades, cash, missed>>
      BY <2>1 DEF NothingNew
    <3> QED
      BY <3>1, <3>2, <3>3 DEF TypeOK
  <2>2. CASE NothingFound(w)
    BY <2>2, LeaveTypes DEF NothingFound, Finish, TypeOK
  <2>3. CASE SaveTrades(w)
    BY <2>0, <2>3, UpsertedType DEF SaveTrades, TypeOK
  <2>4. CASE Stamp(w)
    <3>1. /\ pc' \in [Workers -> {"idle", "lock", "map", "stamp", "cash", "backfill"}]
          /\ win' \in [Workers -> Windows] /\ got' \in [Workers -> SUBSET Deals]
      <4>1. CASE Goto(w, "cash") /\ UNCHANGED <<win, got>>
        BY <4>1 DEF TypeOK
      <4>2. CASE Leave(w, AfterCash(w))
        BY <4>2, AfterCashType, LeaveTypes
      <4> QED
        BY <2>4, <4>1, <4>2 DEF Stamp, AfterTrades
    <3>2. cred' \in Creds /\ UNCHANGED <<now, at, settled, trades, cash, faults, missed>>
      BY <2>4, CredTypes DEF Stamp
    <3> QED
      BY <3>1, <3>2 DEF TypeOK
  <2>5. CASE SaveCash(w)
    <3>1. /\ pc' \in [Workers -> {"idle", "lock", "map", "stamp", "cash", "backfill"}]
          /\ win' \in [Workers -> Windows] /\ got' \in [Workers -> SUBSET Deals]
      BY <2>5, AfterCashType, LeaveTypes DEF SaveCash
    <3> QED
      BY <2>0, <2>5, <3>1 DEF SaveCash, TypeOK
  <2>6. CASE MarkBackfill(w)
    <3>a. \/ cred' = [cred EXCEPT !.backfill = TRUE] /\ faults' = faults
          \/ cred' = cred /\ Fault
      BY <2>6, Zenon DEF MarkBackfill
    <3>b. cred' \in Creds
      <4>1. cred' = [cred EXCEPT !.backfill = TRUE] \/ cred' = cred
        BY <3>a, Zenon
      <4>2. CASE cred' = cred
        BY <4>2 DEF TypeOK
      <4>3. CASE cred' = [cred EXCEPT !.backfill = TRUE]
        BY <4>3, CredTypes, Zenon
      <4> QED
        BY <4>1, <4>2, <4>3
    <3>c. faults' \in 0..MaxFaults
      <4>1. faults' = faults \/ Fault
        BY <3>a, Zenon
      <4> QED
        BY <4>1 DEF TypeOK
    <3>1. cred' \in Creds /\ faults' \in 0..MaxFaults
      BY <3>b, <3>c, Zenon
    <3>2. /\ Leave(w, "idle") /\ "idle" \in {"idle", "backfill"}
          /\ UNCHANGED <<now, at, settled, trades, cash, missed>>
      BY <2>6 DEF MarkBackfill, Finish
    <3>3. /\ pc' \in [Workers -> {"idle", "lock", "map", "stamp", "cash", "backfill"}]
          /\ win' \in [Workers -> Windows] /\ got' \in [Workers -> SUBSET Deals]
      BY <3>2, LeaveTypes
    <3> QED
      BY <3>1, <3>2, <3>3 DEF TypeOK
  <2> QED
    BY <1>s, <2>1, <2>2, <2>3, <2>4, <2>5, <2>6 DEF Save
<1>f. ASSUME NEW w \in Workers, Failing(w) PROVE TypeOK'
  <2> USE LeaveTypes DEF Finish, TypeOK
  <2>0. Cashflows(got[w]) \subseteq {d \in Deals : Kind[d] = "cash"}
    BY DEF Cashflows
  <2>1. CASE SaveTradesRaises(w)
    <3>1. PICK part \in SUBSET Exits(got[w]) : trades' = Upserted(w, part)
      BY <2>1 DEF SaveTradesRaises
    <3>2. trades' \in [Tickets -> Rows \cup {NoRow}]
      BY <3>1, UpsertedType
    <3> QED
      BY <2>1, <3>2 DEF SaveTradesRaises
  <2>2. CASE StampRaises(w)
    BY <2>2, <2>0, CredTypes DEF StampRaises
  <2>3. CASE SaveCashRaises(w)
    BY <2>3, <2>0 DEF SaveCashRaises
  <2>4. CASE Crash(w)
    BY <2>4, <2>0 DEF Crash
  <2> QED
    BY <1>f, <2>1, <2>2, <2>3, <2>4 DEF Failing
<1>u. CASE UNCHANGED vars
  BY <1>u DEF vars, job, TypeOK
<1> QED
  BY <1>b, <1>p, <1>s, <1>f, <1>u DEF Next

\* Every reachable state has the types of TypeOK: in particular the journal holds
\* exits of the account, under orders of the account, and the cash flows only cash
\* operations, whatever was pulled and in part stored.
THEOREM TypeCorrect == Spec => []TypeOK
  BY TypeInit, TypeStep, PTL DEF Spec
=============================================================================
