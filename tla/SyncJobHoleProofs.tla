------------------------- MODULE SyncJobHoleProofs -------------------------
(***************************************************************************)
(* Proof that SyncJob leaves no hole between two syncs (NoHole), for any   *)
(* account, any number of workers and any bounds that satisfy the          *)
(* assumptions of SyncJob.                                                 *)
(***************************************************************************)
EXTENDS SyncJobProofs

Happened(d) == at[d] # NotYet

\* The clock: deals are numbered as they happen, and settle in time.
TimeInv ==
  /\ cred.last <= now
  /\ \A d \in settled : Happened(d)
  /\ \A d \in Deals : Happened(d) =>
       /\ at[d] <= now
       /\ d \notin settled => now - at[d] <= SettleDelay
       /\ \A e \in Deals : e < d => Happened(e) /\ at[e] <= at[d]

\* A row is found under the order of its exit or of an entry of its position.
RowInv ==
  \A t \in Tickets : trades[t] # NoRow =>
    \/ Order[trades[t]] = t
    \/ \E i \in Entries(Deals) : Order[i] = t /\ Position[i] = Position[trades[t]]

\* Still kept, or so recent that no watermark of a job that runs now passes it.
Fine(w, d) == Kept(d) \/ at[d] >= win[w].to + MaxSpan - Overlap

\* What began before the window was kept when the window was chosen.
WindowInv(w) ==
  Running(w) => /\ win[w].to <= now /\ now - win[w].to <= MaxSpan
                /\ \A d \in Watched : Happened(d) /\ at[d] < win[w].from => Fine(w, d)

\* A pull has every deal of its window that settled in time, but those it missed.
PullInv(w) ==
  pc[w] = "map" =>
    /\ \A d \in got[w] : Happened(d) /\ at[d] >= win[w].from
    /\ \A d \in Watched : Happened(d) /\ at[d] >= win[w].from
                           /\ at[d] + SettleDelay < win[w].to => d \in got[w] \cup missed

\* With the trades stored all is fine but the cash flows of the pull, and with the
\* watermark those too.
SavedInv(w) ==
  /\ pc[w] = "stamp" => \A d \in Watched \ Cashflows(got[w]) : Happened(d) => Fine(w, d)
  /\ pc[w] \in {"cash", "backfill"} => \A d \in Watched : Happened(d) => Fine(w, d)

JobInv(w) == WindowInv(w) /\ PullInv(w) /\ SavedInv(w)

IInv == TypeOK /\ TimeInv /\ RowInv /\ NoHole /\ \A w \in Workers : JobInv(w)
-----------------------------------------------------------------------------
(* What any step does *)

USE DEF db, world, job, Goto, Fault, NoFault

LEMMA Parameters ==
  /\ Overlap \in Nat /\ Lookback \in Nat /\ SettleDelay \in Nat /\ MaxSpan \in Nat
  /\ Backfill \in Nat /\ MaxTime \in Nat /\ MaxTime <= Backfill
  /\ 2 * MaxSpan + SettleDelay <= Overlap
  BY OverlapAssumption, WindowAssumption

LEMMA StateTypes ==
  ASSUME TypeOK
  PROVE  /\ now \in Nat /\ now <= MaxTime /\ cred.last \in Int
         /\ \A d \in Deals : at[d] \in Int /\ (Happened(d) => at[d] \in Nat)
         /\ \A w \in Workers : win[w].from \in Int /\ win[w].to \in Nat
         /\ \A w \in Workers : got[w] \subseteq Deals
         /\ Watched \subseteq Deals
  BY WindowAssumption
  DEF TypeOK, Times, NotYet, Never, Creds, Windows, Happened, Watched

\* The broker and the clock, or a worker that leaves both alone.
LEMMA WorldSteps ==
  ASSUME [Next]_vars
  PROVE  \/ Tick
         \/ \E d \in Deals : Deal(d) \/ Settle(d)
         \/ UNCHANGED world
<1>1. ASSUME NEW w \in Workers, Pull(w) PROVE UNCHANGED world
  BY <1>1 DEF Pull, ResolveWindow, NoHistory, ReadHistory, BlindRead
<1>2. ASSUME NEW w \in Workers, Save(w) PROVE UNCHANGED world
  BY <1>2 DEF Save, NothingNew, NothingFound, SaveTrades, Stamp, SaveCash, MarkBackfill
<1>3. ASSUME NEW w \in Workers, Failing(w) PROVE UNCHANGED world
  BY <1>3 DEF Failing, SaveTradesRaises, StampRaises, SaveCashRaises, Crash
<1> QED
  BY <1>1, <1>2, <1>3 DEF Next, Broker, vars

\* Time goes forward, no job takes longer than assumed, and a deal stays where it
\* is in time.
LEMMA TimePasses ==
  ASSUME TypeOK, TypeOK', [Next]_vars, TimeInv, \A w \in Workers : JobInv(w)
  PROVE  /\ now <= now'
         /\ \A w \in Workers : Running(w) => now' - win[w].to <= MaxSpan
         /\ \A d \in Deals : Happened(d) => at'[d] = at[d]
         /\ \A d \in Deals : ~Happened(d) /\ Happened(d)' => at'[d] = now /\ now' = now
<1> USE DEF Happened, JobInv, WindowInv
<1>0. now \in Nat /\ \A w \in Workers : win[w].to \in Nat
  BY StateTypes
<1>1. CASE Tick
  BY <1>0, <1>1, Parameters DEF Tick
<1>2. CASE \E d \in Deals : Deal(d) \/ Settle(d)
  BY <1>0, <1>2 DEF Deal, Settle, TypeOK
<1>3. CASE UNCHANGED world
  BY <1>0, <1>3
<1> QED
  BY <1>1, <1>2, <1>3, WorldSteps

\* Nothing that was missed or stored as a cash flow is forgotten, and the cash flows
\* of a job past its watermark are stored or missed.
LEMMA CashKept ==
  ASSUME TypeOK, [Next]_vars
  PROVE  /\ missed \subseteq missed' /\ cash \subseteq cash'
         /\ \A w \in Workers : \A d \in Cashflows(got[w]) : pc[w] = "cash" =>
              \/ pc'[w] = "cash" /\ got'[w] = got[w]
              \/ d \in cash' \/ d \in missed'
<1> DEFINE Goal == /\ missed \subseteq missed' /\ cash \subseteq cash'
                   /\ \A w \in Workers : \A d \in Cashflows(got[w]) : pc[w] = "cash" =>
                        \/ pc'[w] = "cash" /\ got'[w] = got[w]
                        \/ d \in cash' \/ d \in missed'
<1>t. /\ \A v \in Workers : \A s : [pc EXCEPT ![v] = s][v] = s
      /\ \A v \in Workers : \A w \in Workers : \A s : w # v => [pc EXCEPT ![v] = s][w] = pc[w]
      /\ \A v \in Workers : \A w \in Workers : \A s : w # v => [got EXCEPT ![v] = s][w] = got[w]
  BY DEF TypeOK
<1>1. ASSUME UNCHANGED <<pc, got, cash, missed>> PROVE Goal
  BY <1>1
<1>2. ASSUME NEW v \in Workers, pc[v] # "cash",
             \E s : Goto(v, s), got' = got \/ \E g : got' = [got EXCEPT ![v] = g],
             missed \subseteq missed', cash \subseteq cash'
      PROVE  Goal
  <2>0. PICK s : pc' = [pc EXCEPT ![v] = s]
    BY <1>2
  <2>1. \A w \in Workers : w # v => pc'[w] = pc[w]
    BY <2>0 DEF TypeOK
  <2>2. \A w \in Workers : w # v => got'[w] = got[w]
    <3>1. CASE got' = got
      BY <3>1
    <3>2. CASE \E g : got' = [got EXCEPT ![v] = g]
      BY <3>2 DEF TypeOK
    <3> QED
      BY <1>2, <3>1, <3>2
  <2> QED
    BY <1>2, <2>1, <2>2
<1>b. CASE Broker
  BY <1>b, <1>1 DEF Broker, Tick, Deal, Settle, job
<1>3. ASSUME NEW v \in Workers, NEW s, Leave(v, s)
      PROVE  pc' = [pc EXCEPT ![v] = s] /\ got' = [got EXCEPT ![v] = {}]
  BY <1>3 DEF Leave
<1>p. ASSUME NEW v \in Workers, Pull(v) PROVE Goal
  <2>1. CASE ResolveWindow(v)
    BY <2>1, <1>2 DEF ResolveWindow
  <2>2. CASE NoHistory(v)
    BY <2>2, <1>2 DEF NoHistory, Finish, Leave
  <2>3. CASE ReadHistory(v) \/ BlindRead(v)
    BY <2>3, <1>2 DEF ReadHistory, BlindRead, Pulled
  <2> QED
    BY <1>p, <2>1, <2>2, <2>3 DEF Pull
<1>s. ASSUME NEW v \in Workers, Save(v) PROVE Goal
  <2>1. CASE NothingNew(v)
    BY <2>1, <1>2 DEF NothingNew, Leave
  <2>2. CASE NothingFound(v)
    BY <2>2, <1>2 DEF NothingFound, Finish, Leave
  <2>3. CASE SaveTrades(v)
    BY <2>3, <1>2 DEF SaveTrades
  <2>4. CASE Stamp(v)
    <3>1. pc[v] # "cash" /\ (\E s : Goto(v, s)) /\ UNCHANGED <<cash, missed>>
      BY <2>4 DEF Stamp, AtStamp, AfterTrades, Leave
    <3>2. got' = got \/ \E g : got' = [got EXCEPT ![v] = g]
      BY <2>4 DEF Stamp, AfterTrades, Leave
    <3> QED
      BY <1>2, <3>1, <3>2
  <2>5. CASE MarkBackfill(v)
    BY <2>5, <1>2 DEF MarkBackfill, Finish, Leave
  <2>6. CASE SaveCash(v)
    <3>1. /\ pc' = [pc EXCEPT ![v] = AfterCash(v)] /\ got' = [got EXCEPT ![v] = {}]
          /\ cash' = cash \cup Cashflows(got[v]) /\ UNCHANGED missed
      BY <2>6, <1>3 DEF SaveCash
    <3> QED
      BY <3>1, <1>t
  <2> QED
    BY <1>s, <2>1, <2>2, <2>3, <2>4, <2>5, <2>6 DEF Save
<1>f. ASSUME NEW v \in Workers, Failing(v) PROVE Goal
  <2> USE DEF Leave, Finish
  <2>1. CASE SaveTradesRaises(v) \/ StampRaises(v)
    BY <2>1, <1>2 DEF SaveTradesRaises, StampRaises, AtStamp
  <2>2. CASE SaveCashRaises(v)
    <3>1. /\ pc' = [pc EXCEPT ![v] = "idle"] /\ got' = [got EXCEPT ![v] = {}]
          /\ missed' = missed \cup Cashflows(got[v]) /\ cash \subseteq cash'
      BY <2>2 DEF SaveCashRaises
    <3> QED
      BY <3>1, <1>t
  <2>3. CASE Crash(v)
    <3>1. /\ pc' = [pc EXCEPT ![v] = "idle"] /\ got' = [got EXCEPT ![v] = {}]
          /\ UNCHANGED cash /\ missed \subseteq missed'
          /\ pc[v] = "cash" => missed' = missed \cup Cashflows(got[v])
      BY <2>3 DEF Crash
    <3> QED
      BY <3>1, <1>t
  <2> QED
    BY <1>f, <2>1, <2>2, <2>3 DEF Failing
<1>u. CASE UNCHANGED vars
  BY <1>u, <1>1 DEF vars, job
<1> QED
  BY <1>b, <1>p, <1>s, <1>f, <1>u DEF Next

\* Rows are written by a job that saves, and then the clock stands still.
LEMMA RowsWritten ==
  ASSUME [Next]_vars
  PROVE  \/ trades' = trades
         \/ \E w \in Workers : \E X \in SUBSET Exits(got[w]) :
              pc[w] = "map" /\ trades' = Upserted(w, X) /\ UNCHANGED world
<1> DEFINE Goal == \/ trades' = trades
                   \/ \E w \in Workers : \E X \in SUBSET Exits(got[w]) :
                        pc[w] = "map" /\ trades' = Upserted(w, X) /\ UNCHANGED world
<1>b. CASE Broker
  BY <1>b DEF Broker, Tick, Deal, Settle
<1>1. ASSUME NEW w \in Workers, Pull(w) PROVE Goal
  BY <1>1 DEF Pull, ResolveWindow, NoHistory, ReadHistory, BlindRead
<1>2. ASSUME NEW w \in Workers, Save(w) PROVE Goal
  <2>1. CASE SaveTrades(w)
    BY <2>1 DEF SaveTrades
  <2> QED
    BY <1>2, <2>1 DEF Save, NothingNew, NothingFound, Stamp, SaveCash, MarkBackfill
<1>3. ASSUME NEW w \in Workers, Failing(w) PROVE Goal
  <2>1. CASE SaveTradesRaises(w)
    BY <2>1 DEF SaveTradesRaises
  <2> QED
    BY <1>3, <2>1 DEF Failing, StampRaises, SaveCashRaises, Crash
<1> QED
  BY <1>b, <1>1, <1>2, <1>3 DEF Next, vars

\* The watermark and the mark of the backfill change in four places.
LEMMA CredSteps ==
  ASSUME [Next]_vars
  PROVE  \/ cred' = cred
         \/ \E w \in Workers : NothingNew(w) \/ Stamp(w) \/ StampRaises(w) \/ MarkBackfill(w)
<1> DEFINE Goal == \/ cred' = cred
                   \/ \E w \in Workers : \/ NothingNew(w) \/ Stamp(w)
                                         \/ StampRaises(w) \/ MarkBackfill(w)
<1>b. CASE Broker
  BY <1>b DEF Broker, Tick, Deal, Settle
<1>1. ASSUME NEW w \in Workers, Pull(w) PROVE Goal
  BY <1>1 DEF Pull, ResolveWindow, NoHistory, ReadHistory, BlindRead
<1>2. ASSUME NEW w \in Workers, Save(w) PROVE Goal
  BY <1>2 DEF Save, NothingFound, SaveTrades, SaveCash
<1>3. ASSUME NEW w \in Workers, Failing(w) PROVE Goal
  BY <1>3 DEF Failing, SaveTradesRaises, SaveCashRaises, Crash
<1> QED
  BY <1>b, <1>1, <1>2, <1>3 DEF Next, vars

LEMMA SyncNow ==
  ASSUME TypeOK
  PROVE  SyncedNow.last = now /\ SyncedNow.backfill = cred.backfill
  BY DEF TypeOK, Creds, SyncedNow
-----------------------------------------------------------------------------
(* Rows that are replaced *)

\* A job that replaces the last row of d's order has not seen d: its window began
\* after d, and then d's position was opened again, or it missed d, or d had not
\* settled.
LEMMA Replaced ==
  ASSUME TypeOK, TimeInv, RowInv, NEW w \in Workers, JobInv(w), pc[w] = "map",
         NEW X \in SUBSET Exits(got[w]), NEW d \in Exits(Deals), Happened(d),
         Recorded(Order[d]), trades' = Upserted(w, X), ~Recorded(Order[d])'
  PROVE  Reopened(d) \/ d \in missed \/ at[d] >= now - MaxSpan - SettleDelay
<1> DEFINE S == got[w]
<1>1. PICK t \in Tickets : trades[t] # NoRow /\ Order[trades[t]] = Order[d]
  BY DEF Recorded
<1> DEFINE c == trades[t]
           e == trades'[t]
<1>2. c \in Exits(Deals) /\ S \subseteq Deals /\ Position[c] = Position[d]
  <2>1. c \in Exits(Deals) /\ S \subseteq Deals
    BY <1>1 DEF TypeOK, Rows
  <2> QED
    BY <1>1, <2>1, OneOrder
<1>3. e \in X /\ Ticket(S, e) = t /\ Order[e] # Order[d]
  <2>1. e # c
    BY <1>1 DEF Recorded
  <2>2. e \in X /\ Ticket(S, e) = t /\ e # NoRow
    BY <2>1, UpsertedFacts
  <2>3. ~ (e # NoRow /\ Order[e] = Order[d])
    BY DEF Recorded
  <2> QED
    BY <2>2, <2>3
<1>4. e \in Exits(S) /\ e \in Exits(Deals)
  BY <1>2, <1>3 DEF Exits
<1>5. Order[e] # t
  <2> SUFFICES ASSUME Order[e] = t PROVE FALSE
    OBVIOUS
  <2>1. Order[c] # t
    BY <1>1, <1>3
  <2>2. PICK i \in Entries(Deals) : Order[i] = t
    BY <1>1, <2>1 DEF RowInv
  <2> QED
    BY <1>4, <2>2, OneOrder
<1>6. PICK i \in Entries(S) : /\ Order[i] = t /\ Position[i] = Position[e]
                              /\ \A x \in Exits(S) : Position[x] = Position[e] => x = e
  BY <1>2, <1>3, <1>4, <1>5, TicketFacts
<1>7. i \in Entries(Deals) /\ i \in S
  BY <1>2, <1>6 DEF Entries
<1>8. Position[i] = Position[d]
  <2>1. Order[c] # t
    BY <1>2, <1>6, <1>7, OneOrder
  <2>2. PICK j \in Entries(Deals) : Order[j] = t /\ Position[j] = Position[c]
    BY <1>1, <2>1 DEF RowInv
  <2> QED
    BY <1>2, <1>6, <1>7, <2>2, OneOrder
<1>9. d \notin S
  <2>1. d \in S => d \in Exits(S)
    BY DEF Exits
  <2> QED
    BY <1>3, <1>6, <1>8, <2>1
<1>10. PullInv(w) /\ Running(w) /\ WindowInv(w)
  BY DEF JobInv, Running
<1>11. Happened(i) /\ at[i] >= win[w].from
  BY <1>7, <1>10 DEF PullInv
<1>12. d \in Watched /\ d \in Deals /\ d \in Nat /\ i \in Nat /\ i \in Deals /\ i # d
  BY <1>7, DealsAssumption DEF Exits, Entries, Watched
<1>13. CASE at[d] < win[w].from
  <2>1. at[d] \in Int /\ at[i] \in Int /\ win[w].from \in Int
    BY <1>12, StateTypes
  <2>2. ~ (i < d)
    BY <1>11, <1>12, <1>13, <2>1 DEF TimeInv
  <2>3. d < i
    BY <1>12, <2>2
  <2> QED
    BY <1>7, <1>8, <2>3 DEF Reopened, Exits
<1>14. CASE ~ (at[d] < win[w].from)
  <2>1. at[d] \in Int /\ win[w].from \in Int /\ win[w].to \in Int /\ now \in Int
    BY <1>12, StateTypes
  <2>2. d \in missed \/ ~ (at[d] + SettleDelay < win[w].to)
    BY <1>9, <1>10, <1>12, <1>14, <2>1 DEF PullInv
  <2>3. now - win[w].to <= MaxSpan
    BY <1>10 DEF WindowInv
  <2> QED
    BY <2>1, <2>2, <2>3, Parameters
<1> QED
  BY <1>13, <1>14

\* What is kept stays so, or it is recent.
LEMMA KeptOrRecent ==
  ASSUME IInv, TypeOK', [Next]_vars, NEW d \in Watched, Happened(d), Kept(d)
  PROVE  Kept(d)' \/ (now' = now /\ at[d] >= now - MaxSpan - SettleDelay)
<1> USE DEF IInv
<1>0. d \in Deals
  BY StateTypes
<1>1. at'[d] = at[d] /\ now <= now' /\ now \in Nat /\ now' \in Nat /\ at[d] \in Int
  <2>1. now' \in Nat
    BY WindowAssumption DEF TypeOK, Times
  <2> QED
    BY <1>0, <2>1, TimePasses, StateTypes
<1>2. CASE Kind[d] = "out" /\ Recorded(Order[d])
  <2>1. CASE trades' = trades
    BY <1>2, <2>1 DEF Kept, Stored, Recorded
  <2>2. CASE \E w \in Workers : \E X \in SUBSET Exits(got[w]) :
               pc[w] = "map" /\ trades' = Upserted(w, X) /\ UNCHANGED world
    <3>1. CASE Recorded(Order[d])'
      BY <1>2, <3>1 DEF Kept, Stored
    <3>2. CASE ~Recorded(Order[d])'
      <4>0. d \in Exits(Deals)
        BY <1>0, <1>2 DEF Exits
      <4>1. Reopened(d) \/ d \in missed \/ at[d] >= now - MaxSpan - SettleDelay
        BY <1>2, <2>2, <3>2, <4>0, Replaced
      <4>2. now' = now
        BY <2>2
      <4> QED
        BY <4>1, <4>2, CashKept DEF Kept, Reopened
    <3> QED
      BY <3>1, <3>2
  <2> QED
    BY <2>1, <2>2, RowsWritten
<1>3. CASE Kind[d] = "cash" /\ d \in cash
  BY <1>3, CashKept DEF Kept, Stored
<1>4. CASE \E w \in Workers : pc[w] = "cash" /\ d \in Cashflows(got[w])
  <2>1. Kind[d] = "cash"
    BY <1>4 DEF Cashflows
  <2> QED
    BY <1>4, <2>1, CashKept DEF Kept, Stored
<1>5. CASE d \in missed
  BY <1>5, CashKept DEF Kept
<1>6. CASE at[d] < now - Lookback
  BY <1>1, <1>6, Parameters DEF Kept
<1>7. CASE Reopened(d)
  BY <1>7 DEF Kept, Reopened
<1> QED
  BY <1>2, <1>3, <1>4, <1>5, <1>6, <1>7 DEF Kept, Stored, Watched

\* ... and so stays fine for every job that goes on.
LEMMA FineStable ==
  ASSUME IInv, TypeOK', [Next]_vars, NEW w \in Workers, Running(w), win'[w] = win[w],
         NEW d \in Watched, Happened(d), Fine(w, d)
  PROVE  Fine(w, d)'
<1> USE DEF IInv
<1>0. d \in Deals
  BY StateTypes
<1>1. at'[d] = at[d] /\ at[d] \in Int /\ win[w].to \in Int /\ now \in Int
  BY <1>0, TimePasses, StateTypes
<1>2. CASE Kept(d)
  <2>1. CASE Kept(d)'
    BY <2>1 DEF Fine
  <2>2. CASE at[d] >= now - MaxSpan - SettleDelay
    <3>1. win[w].to <= now
      BY DEF JobInv, WindowInv
    <3> QED
      BY <1>1, <2>2, <3>1, Parameters DEF Fine
  <2> QED
    BY <1>2, <2>1, <2>2, KeptOrRecent
<1>3. CASE at[d] >= win[w].to + MaxSpan - Overlap
  BY <1>1, <1>3 DEF Fine
<1> QED
  BY <1>2, <1>3 DEF Fine

\* A deal that happens now is recent for every job.
LEMMA NewIsFine ==
  ASSUME IInv, TypeOK', [Next]_vars, NEW w \in Workers, Running(w), win'[w] = win[w],
         NEW d \in Deals, ~Happened(d), Happened(d)'
  PROVE  Fine(w, d)' /\ at'[d] >= win[w].to
<1>1. at'[d] = now /\ win[w].to <= now /\ win[w].to \in Int /\ now \in Int
  BY TimePasses, StateTypes DEF IInv, JobInv, WindowInv
<1> QED
  BY <1>1, Parameters DEF Fine
-----------------------------------------------------------------------------
(* The clock and the rows *)

LEMMA TimeStep == IInv /\ TypeOK' /\ [Next]_vars => TimeInv'
<1> SUFFICES ASSUME IInv, TypeOK', [Next]_vars PROVE TimeInv'
  OBVIOUS
<1> USE DEF Happened
<1>0. TypeOK /\ TimeInv /\ \A w \in Workers : JobInv(w)
  BY DEF IInv
<1>t. /\ now \in Nat /\ now' \in Nat /\ now <= now' /\ cred.last \in Int
      /\ \A d \in Deals : at[d] \in Int
      /\ Deals \subseteq Nat
  <2>1. now' \in Nat
    BY WindowAssumption DEF TypeOK, Times
  <2> QED
    BY <1>0, <2>1, StateTypes, TimePasses, DealsAssumption
<1>1. cred'.last <= now'
  <2>1. cred'.last = cred.last \/ cred'.last = now
    <3>1. [cred EXCEPT !.backfill = TRUE].last = cred.last
      BY <1>0 DEF TypeOK, Creds
    <3> QED
      BY <1>0, <3>1, CredSteps, SyncNow DEF NothingNew, Stamp, StampRaises, MarkBackfill
  <2> QED
    BY <1>0, <1>t, <2>1 DEF TimeInv
<1>2. /\ \A d \in settled' : Happened(d)'
      /\ \A d \in Deals : Happened(d)' =>
           /\ at'[d] <= now'
           /\ d \notin settled' => now' - at'[d] <= SettleDelay
           /\ \A e \in Deals : e < d => Happened(e)' /\ at'[e] <= at'[d]
  <2>1. CASE Tick
    BY <1>0, <1>t, <2>1, Parameters DEF Tick, TimeInv
  <2>2. ASSUME NEW x \in Deals, Deal(x) PROVE <1>2!1 /\ <1>2!2
    <3>1. at' = [at EXCEPT ![x] = now] /\ now' = now /\ at \in [Deals -> Times \cup {NotYet}]
      BY <1>0, <2>2 DEF Deal, TypeOK
    <3>2. \A d \in Deals : at'[d] = IF d = x THEN now ELSE at[d]
      BY <3>1
    <3>3. ~Happened(x) /\ \A e \in Deals : e < x => Happened(e)
      BY <2>2 DEF Deal
    <3>4. now # NotYet
      BY <1>t DEF NotYet
    <3>5. settled \subseteq Deals
      BY <1>0 DEF TypeOK
    <3>6. settled' = settled
      BY <2>2 DEF Deal
    <3>7. \A d \in settled' : Happened(d)'
      BY <1>0, <3>2, <3>4, <3>5, <3>6 DEF TimeInv
    <3>8. ASSUME NEW d \in Deals, Happened(d)'
          PROVE  /\ at'[d] <= now'
                 /\ d \notin settled' => now' - at'[d] <= SettleDelay
                 /\ \A e \in Deals : e < d => Happened(e)' /\ at'[e] <= at'[d]
      <4>1. CASE d = x
        BY <1>0, <1>t, <3>1, <3>2, <3>3, <3>4, <3>6, <4>1, Parameters DEF TimeInv
      <4>2. CASE d # x
        <5>1. Happened(d) /\ at'[d] = at[d]
          BY <3>2, <3>8, <4>2
        <5>2. ~ (x < d)
          BY <1>0, <3>3, <5>1 DEF TimeInv
        <5> QED
          BY <1>0, <1>t, <3>1, <3>2, <3>6, <5>1, <5>2, <4>2 DEF TimeInv
      <4> QED
        BY <4>1, <4>2
    <3> QED
      BY <3>7, <3>8
  <2>3. ASSUME NEW x \in Deals, Settle(x) PROVE <1>2!1 /\ <1>2!2
    BY <1>0, <2>3 DEF Settle, TimeInv
  <2>4. CASE UNCHANGED world
    BY <1>0, <2>4 DEF TimeInv
  <2> QED
    BY <2>1, <2>2, <2>3, <2>4, WorldSteps
<1> QED
  BY <1>1, <1>2 DEF TimeInv

LEMMA RowStep == TypeOK /\ RowInv /\ [Next]_vars => RowInv'
<1> SUFFICES ASSUME TypeOK, RowInv, NEW w \in Workers, NEW X \in SUBSET Exits(got[w]),
                    trades' = Upserted(w, X), NEW t \in Tickets, trades'[t] # NoRow
             PROVE  \/ Order[trades'[t]] = t
                    \/ \E i \in Entries(Deals) :
                         Order[i] = t /\ Position[i] = Position[trades'[t]]
  BY RowsWritten DEF RowInv
<1>0. got[w] \subseteq Deals /\ Entries(got[w]) \subseteq Entries(Deals)
  BY StateTypes DEF Entries
<1>1. CASE trades'[t] = trades[t]
  BY <1>1 DEF RowInv
<1>2. CASE trades'[t] \in X /\ Ticket(got[w], trades'[t]) = t
  BY <1>0, <1>2, TicketFacts
<1> QED
  BY <1>1, <1>2, UpsertedFacts
-----------------------------------------------------------------------------
(* The jobs *)

\* The window of a job that goes on.
LEMMA WindowKept ==
  ASSUME IInv, TypeOK', [Next]_vars, NEW w \in Workers, Running(w), win'[w] = win[w]
  PROVE  WindowInv(w)'
<1>1. win[w].to <= now' /\ now' - win[w].to <= MaxSpan
  <2>1. win[w].to <= now /\ now <= now' /\ now' - win[w].to <= MaxSpan
    BY TimePasses DEF IInv, JobInv, WindowInv
  <2>2. win[w].to \in Int /\ now \in Int /\ now' \in Int
    BY StateTypes DEF IInv, TypeOK, Times
  <2> QED
    BY <2>1, <2>2
<1>2. ASSUME NEW d \in Watched, Happened(d)', at'[d] < win[w].from PROVE Fine(w, d)'
  <2>1. d \in Deals
    BY StateTypes DEF IInv
  <2>2. CASE Happened(d)
    <3>1. at[d] < win[w].from
      BY <1>2, <2>1, <2>2, TimePasses DEF IInv
    <3>2. Fine(w, d)
      BY <2>2, <3>1 DEF IInv, JobInv, WindowInv
    <3> QED
      BY <2>2, <3>2, FineStable
  <2>3. CASE ~Happened(d)
    BY <1>2, <2>1, <2>3, NewIsFine
  <2> QED
    BY <2>2, <2>3
<1> QED
  BY <1>1, <1>2 DEF WindowInv

\* The deals of a pull that goes on.
LEMMA PullKept ==
  ASSUME IInv, TypeOK', [Next]_vars, NEW w \in Workers, pc[w] = "map",
         win'[w] = win[w], got'[w] = got[w]
  PROVE  PullInv(w)'
<1>0. PullInv(w) /\ Running(w) /\ got[w] \subseteq Deals
  BY StateTypes DEF IInv, JobInv, Running
<1>1. ASSUME NEW d \in got[w] PROVE Happened(d)' /\ at'[d] >= win[w].from
  <2>1. Happened(d) /\ at[d] >= win[w].from /\ d \in Deals
    BY <1>0, <1>1 DEF PullInv
  <2>2. at'[d] = at[d]
    BY <2>1, TimePasses DEF IInv
  <2> QED
    BY <2>1, <2>2 DEF Happened
<1>2. ASSUME NEW d \in Watched, Happened(d)', at'[d] >= win[w].from,
             at'[d] + SettleDelay < win[w].to
      PROVE  d \in got[w] \cup missed'
  <2>0. d \in Deals
    BY DEF Watched
  <2>1. CASE Happened(d)
    <3>1. at'[d] = at[d]
      BY <2>0, <2>1, TimePasses DEF IInv
    <3> QED
      BY <1>0, <1>2, <2>1, <3>1, CashKept DEF PullInv, IInv
  <2>2. CASE ~Happened(d)
    <3>1. at'[d] >= win[w].to
      BY <1>0, <1>2, <2>0, <2>2, NewIsFine
    <3>2. at'[d] \in Int /\ win[w].to \in Int
      BY <2>0, StateTypes DEF IInv, TypeOK, Times, NotYet
    <3> QED
      BY <1>2, <3>1, <3>2, Parameters
  <2> QED
    BY <2>1, <2>2
<1> QED
  BY <1>1, <1>2 DEF PullInv

\* A job does not mind what the broker and the other jobs do.
LEMMA OthersKept ==
  ASSUME IInv, TypeOK', [Next]_vars, NEW w \in Workers,
         pc'[w] = pc[w], win'[w] = win[w], got'[w] = got[w]
  PROVE  JobInv(w)'
<1>0. JobInv(w) /\ got[w] \subseteq Deals
  BY StateTypes DEF IInv
<1>1. WindowInv(w)'
  BY WindowKept DEF WindowInv, Running
<1>2. PullInv(w)'
  BY PullKept DEF PullInv
<1>3. ASSUME Running(w), NEW d \in Watched, Happened(d)', Happened(d) => Fine(w, d)
      PROVE  Fine(w, d)'
  <2>0. d \in Deals
    BY DEF Watched
  <2>1. CASE Happened(d)
    BY <1>3, <2>1, FineStable
  <2>2. CASE ~Happened(d)
    BY <1>3, <2>0, <2>2, NewIsFine
  <2> QED
    BY <2>1, <2>2
<1>4. pc[w] \in Pulls => Running(w)
  BY DEF Pulls, Running
<1>5. SavedInv(w)'
  <2>1. ASSUME pc[w] = "stamp", NEW d \in Watched \ Cashflows(got[w]), Happened(d)'
        PROVE  Fine(w, d)'
    BY <1>0, <1>3, <1>4, <2>1 DEF JobInv, SavedInv, Pulls
  <2>2. ASSUME pc[w] \in {"cash", "backfill"}, NEW d \in Watched, Happened(d)'
        PROVE  Fine(w, d)'
    BY <1>0, <1>3, <1>4, <2>2 DEF JobInv, SavedInv, Pulls
  <2> QED
    BY <2>1, <2>2 DEF SavedInv, Watched
<1> QED
  BY <1>1, <1>2, <1>5 DEF JobInv

\* What a pull does not have is fine, whatever the job does next.
LEMMA NotPulled ==
  ASSUME IInv, NEW w \in Workers, pc[w] = "map", NEW d \in Watched, Happened(d),
         d \notin got[w]
  PROVE  Fine(w, d)
<1>0. WindowInv(w) /\ PullInv(w) /\ Running(w) /\ d \in Deals
  BY StateTypes DEF IInv, JobInv, Running
<1>1. at[d] \in Int /\ win[w].from \in Int /\ win[w].to \in Int
  BY <1>0, StateTypes DEF IInv
<1>2. CASE at[d] < win[w].from
  BY <1>0, <1>2 DEF WindowInv
<1>3. CASE at[d] >= win[w].from /\ at[d] + SettleDelay < win[w].to
  BY <1>0, <1>3 DEF PullInv, Fine, Kept
<1>4. CASE at[d] + SettleDelay >= win[w].to
  BY <1>1, <1>4, Parameters DEF Fine
<1> QED
  BY <1>1, <1>2, <1>3, <1>4, Parameters

\* No step but the end of a job, its window and its pull changes its window or deals.
LEMMA JobSteps ==
  ASSUME TypeOK, [Next]_vars, NEW w \in Workers
  PROVE  \/ pc'[w] = pc[w] /\ win'[w] = win[w] /\ got'[w] = got[w]
         \/ pc'[w] = "idle"
         \/ ResolveWindow(w) \/ ReadHistory(w) \/ BlindRead(w)
         \/ NothingNew(w) \/ SaveTrades(w) \/ Stamp(w) \/ SaveCash(w)
<1> DEFINE Goal == \/ pc'[w] = pc[w] /\ win'[w] = win[w] /\ got'[w] = got[w]
                   \/ pc'[w] = "idle"
                   \/ ResolveWindow(w) \/ ReadHistory(w) \/ BlindRead(w)
                   \/ NothingNew(w) \/ SaveTrades(w) \/ Stamp(w) \/ SaveCash(w)
<1>b. CASE Broker \/ UNCHANGED vars
  BY <1>b DEF Broker, Tick, Deal, Settle, vars
<1>1. ASSUME NEW v \in Workers, v # w, Pull(v) \/ Save(v) \/ Failing(v) PROVE Goal
  <2>t. /\ pc \in [Workers -> {"idle", "lock"} \cup Pulls]
        /\ win \in [Workers -> Windows] /\ got \in [Workers -> SUBSET Deals]
    BY DEF TypeOK, Pulls
  <2>0. ASSUME \E s : Goto(v, s), win' = win \/ \E x : win' = [win EXCEPT ![v] = x],
               got' = got \/ \E x : got' = [got EXCEPT ![v] = x]
        PROVE  Goal
    <3>1. pc'[w] = pc[w]
      BY <1>1, <2>0, <2>t
    <3>2. win'[w] = win[w]
      <4>1. CASE win' = win
        BY <4>1
      <4>2. CASE \E x : win' = [win EXCEPT ![v] = x]
        BY <1>1, <2>t, <4>2
      <4> QED
        BY <2>0, <4>1, <4>2
    <3>3. got'[w] = got[w]
      <4>1. CASE got' = got
        BY <4>1
      <4>2. CASE \E x : got' = [got EXCEPT ![v] = x]
        BY <1>1, <2>t, <4>2
      <4> QED
        BY <2>0, <4>1, <4>2
    <3> QED
      BY <3>1, <3>2, <3>3
  <2>l. ASSUME NEW s, Leave(v, s)
        PROVE  /\ Goto(v, s) /\ \E x : got' = [got EXCEPT ![v] = x]
               /\ win' = win \/ \E x : win' = [win EXCEPT ![v] = x]
    BY <2>l DEF Leave
  <2> HIDE DEF Goto
  <2>1. CASE Pull(v)
    <3>1. CASE ResolveWindow(v)
      <4>1. \E x : win' = [win EXCEPT ![v] = x]
        BY <3>1 DEF ResolveWindow
      <4> QED
        BY <2>0, <3>1, <4>1 DEF ResolveWindow
    <3>2. CASE ReadHistory(v) \/ BlindRead(v)
      BY <2>0, <3>2 DEF ReadHistory, BlindRead, Pulled
    <3>3. CASE NoHistory(v)
      BY <2>0, <2>l, <3>3 DEF NoHistory, Finish
    <3> QED
      BY <2>1, <3>1, <3>2, <3>3 DEF Pull
  <2>2. CASE Save(v)
    <3>1. CASE SaveTrades(v)
      BY <2>0, <3>1 DEF SaveTrades
    <3>2. CASE Stamp(v)
      BY <2>0, <2>l, <3>2 DEF Stamp, AfterTrades
    <3>3. \/ SaveTrades(v) \/ Stamp(v) \/ \E s : Leave(v, s)
      BY <2>2 DEF Save, NothingNew, NothingFound, SaveCash, MarkBackfill, Finish
    <3> QED
      BY <2>0, <2>l, <3>1, <3>2, <3>3
  <2>3. CASE Failing(v)
    <3>1. Leave(v, "idle")
      BY <2>3 DEF Failing, SaveTradesRaises, StampRaises, SaveCashRaises, Crash, Finish
    <3> QED
      BY <2>0, <2>l, <3>1
  <2> QED
    BY <1>1, <2>1, <2>2, <2>3
<1>2. ASSUME Finish(w) PROVE Goal
  BY <1>2 DEF Finish, Leave, TypeOK
<1>3. CASE Pull(w)
  BY <1>2, <1>3 DEF Pull, NoHistory
<1>4. CASE Save(w)
  BY <1>2, <1>4 DEF Save, NothingFound, MarkBackfill
<1>5. CASE Failing(w)
  BY <1>2, <1>5 DEF Failing, SaveTradesRaises, StampRaises, SaveCashRaises, Crash
<1> QED
  BY <1>b, <1>1, <1>3, <1>4, <1>5 DEF Next

\* The window a job takes begins before whatever the last watermark left open.
LEMMA WindowChosen ==
  ASSUME IInv, TypeOK', [Next]_vars, NEW w \in Workers, ResolveWindow(w)
  PROVE  JobInv(w)'
<1>0. /\ TypeOK /\ NoHole /\ now' = now /\ at' = at /\ now \in Nat /\ now <= MaxTime
      /\ win \in [Workers -> Windows] /\ pc'[w] = "lock"
  BY StateTypes DEF IInv, ResolveWindow, TypeOK
<1>1. \/ win'[w] = NextWindow
      \/ win'[w] = Window(now - Lookback, "unknown", FALSE)
  <2>1. \/ win' = [win EXCEPT ![w] = NextWindow]
        \/ win' = [win EXCEPT ![w] = Window(now - Lookback, "unknown", FALSE)]
    BY DEF ResolveWindow
  <2> QED
    BY <1>0, <2>1
<1>2. /\ win'[w].to = now
      /\ \/ win'[w].from = 0
         \/ win'[w].from = now - Lookback
         \/ cred.last # Never /\ cred.backfill /\ win'[w].from = cred.last - Overlap
  <2>1. now - Backfill <= 0
    BY <1>0, Parameters
  <2>2. ASSUME NEW x \in Int, NEW k, NEW b
        PROVE  /\ Window(x, k, b).to = now
               /\ Window(x, k, b).from = IF x < 0 THEN 0 ELSE x
    BY DEF Window
  <2>3. now - Backfill \in Int /\ now - Lookback \in Int /\ cred.last - Overlap \in Int
    BY <1>0, Parameters, StateTypes
  <2>4. CASE win'[w] = Window(now - Lookback, "unknown", FALSE)
    BY <2>3, <2>4 DEF Window
  <2>5. CASE win'[w] = NextWindow
    <3>1. CASE cred.last = Never \/ ~cred.backfill
      <4>1. \E k, b : win'[w] = Window(now - Backfill, k, b)
        BY <2>5, <3>1 DEF NextWindow
      <4> QED
        BY <2>1, <2>2, <2>3, <4>1
    <3>2. CASE cred.last # Never /\ cred.backfill
      <4>1. win'[w] = Window(Since, "incremental", FALSE)
        BY <2>5, <3>2 DEF NextWindow
      <4>2. Since = now - Lookback \/ Since = cred.last - Overlap
        BY DEF Since
      <4>3. win'[w].to = now /\ win'[w].from = IF Since < 0 THEN 0 ELSE Since
        BY <4>1 DEF Window
      <4>4. \/ win'[w].from = 0 \/ win'[w].from = now - Lookback
            \/ win'[w].from = cred.last - Overlap
        BY <4>2, <4>3
      <4> QED
        BY <3>2, <4>3, <4>4, Zenon
    <3> QED
      BY <3>1, <3>2
  <2> QED
    BY <1>1, <2>4, <2>5
<1>3. ASSUME NEW d \in Watched, Happened(d), at[d] < win'[w].from PROVE Fine(w, d)'
  <2>0. /\ d \in Deals /\ at[d] \in Nat /\ cred.last \in Int
        /\ cred'.last \in Int
    BY <1>0, <1>3, StateTypes DEF ResolveWindow
  <2>1. CASE win'[w].from = 0
    BY <1>3, <2>0, <2>1
  <2>2. CASE win'[w].from = now - Lookback
    BY <1>0, <1>3, <2>2 DEF Fine, Kept
  <2>3. CASE cred.last # Never /\ cred.backfill /\ win'[w].from = cred.last - Overlap
    <3>1. ~Ahead(d)
      BY <1>3, <2>0, <2>3, Parameters DEF Ahead
    <3>2. Kept(d)
      BY <1>0, <1>3, <3>1 DEF NoHole, Watched, Happened
    <3>3. CASE Kept(d)'
      BY <3>3 DEF Fine
    <3>4. CASE at[d] >= now - MaxSpan - SettleDelay
      BY <1>0, <1>2, <2>0, <3>4, Parameters DEF Fine
    <3> QED
      BY <1>3, <3>2, <3>3, <3>4, KeptOrRecent
  <2> QED
    BY <1>2, <2>1, <2>2, <2>3
<1>4. WindowInv(w)'
  BY <1>0, <1>2, <1>3, Parameters DEF WindowInv, Happened
<1> QED
  BY <1>0, <1>4 DEF JobInv, PullInv, SavedInv

\* The history shows what settled in the window.
LEMMA HistoryPulled ==
  ASSUME IInv, TypeOK', [Next]_vars, NEW w \in Workers, ReadHistory(w) \/ BlindRead(w)
  PROVE  JobInv(w)'
<1>0. /\ TypeOK /\ TimeInv /\ JobInv(w) /\ Running(w) /\ pc'[w] = "map"
      /\ now' = now /\ at' = at /\ win' = win
      /\ got \in [Workers -> SUBSET Deals]
  BY DEF IInv, ReadHistory, BlindRead, Pulled, TypeOK, Running
<1>1. /\ got'[w] \subseteq InWindow(w)
      /\ \A d \in Watched : d \in InWindow(w) => d \in got'[w] \cup missed'
  <2>1. CASE ReadHistory(w)
    BY <1>0, <2>1 DEF ReadHistory, Pulled
  <2>2. CASE BlindRead(w)
    <3>1. PICK lost \in SUBSET InWindow(w) :
            /\ got' = [got EXCEPT ![w] = InWindow(w) \ lost]
            /\ missed' = missed \cup (lost \ Entries(lost))
      BY <2>2 DEF BlindRead, Pulled
    <3>2. got'[w] = InWindow(w) \ lost
      BY <1>0, <3>1
    <3> QED
      BY <3>1, <3>2 DEF Entries, Watched
  <2> QED
    BY <2>1, <2>2
<1>2. /\ now \in Int /\ win[w].from \in Int /\ win[w].to \in Int
      /\ \A d \in Deals : at[d] \in Int
      /\ win[w].to <= now
  BY <1>0, StateTypes DEF JobInv, WindowInv
<1>3. ASSUME NEW d \in got'[w] PROVE Happened(d) /\ at[d] >= win[w].from
  BY <1>0, <1>1, <1>3 DEF InWindow, TimeInv
<1>4. ASSUME NEW d \in Watched, Happened(d), at[d] >= win[w].from,
             at[d] + SettleDelay < win[w].to
      PROVE  d \in got'[w] \cup missed'
  <2>0. d \in Deals /\ KeepHistoryDeal(d)
    BY DEF Watched, KeepHistoryDeal
  <2>1. d \in settled
    BY <1>0, <1>2, <1>4, <2>0, Parameters DEF TimeInv
  <2>2. d \in InWindow(w)
    BY <1>2, <1>4, <2>0, <2>1, Parameters DEF InWindow
  <2> QED
    BY <1>1, <2>2
<1>5. PullInv(w)'
  BY <1>0, <1>3, <1>4 DEF PullInv, Happened
<1> QED
  BY <1>0, <1>5, WindowKept DEF JobInv, SavedInv

\* What is written is in the journal.
LEMMA RowsSaved ==
  ASSUME IInv, TypeOK', [Next]_vars, NEW w \in Workers, SaveTrades(w)
  PROVE  JobInv(w)'
<1> DEFINE S == got[w]
<1>0. /\ TypeOK /\ S \subseteq Deals /\ pc[w] = "map" /\ win' = win /\ at' = at
      /\ got'[w] = Cashflows(S) /\ Cashflows(Cashflows(S)) = Cashflows(S)
      /\ pc'[w] = "stamp" /\ trades' = Upserted(w, Exits(S))
  BY StateTypes DEF IInv, TypeOK, SaveTrades, Cashflows
<1>1. ASSUME NEW d \in Exits(S) PROVE Recorded(Order[d])'
  <2> DEFINE t == Ticket(S, d)
  <2>1. t \in Tickets
    BY <1>0, TicketFacts
  <2>2. trades'[t] \in Exits(S) /\ Ticket(S, trades'[t]) = t /\ trades'[t] # NoRow
    BY <1>0, <2>1, UpsertedFacts
  <2>3. Order[trades'[t]] = Order[d]
    BY <1>0, <2>2, TicketsOfOneOrder
  <2> QED
    BY <2>1, <2>2, <2>3 DEF Recorded
<1>2. ASSUME NEW d \in Watched, d \notin Cashflows(S), Happened(d) PROVE Fine(w, d)'
  <2>1. CASE d \in S
    <3>1. d \in Exits(S) /\ Kind[d] = "out"
      BY <1>2, <2>1 DEF Watched, Exits, Cashflows
    <3> QED
      BY <1>1, <3>1 DEF Fine, Kept, Stored
  <2>2. CASE d \notin S
    <3>1. Fine(w, d) /\ Running(w)
      BY <1>0, <1>2, <2>2, NotPulled DEF Running
    <3> QED
      BY <1>0, <1>2, <3>1, FineStable
  <2> QED
    BY <2>1, <2>2
<1>3. SavedInv(w)'
  BY <1>0, <1>2 DEF SavedInv, Happened, Watched
<1>4. WindowInv(w)' /\ PullInv(w)'
  BY <1>0, WindowKept DEF Running, PullInv
<1> QED
  BY <1>3, <1>4 DEF JobInv

\* Before its watermark a job has seen to everything but its own cash flows.
LEMMA StampIsFine ==
  ASSUME IInv, NEW w \in Workers, AtStamp(w), NEW d \in Watched, Happened(d),
         d \notin Cashflows(got[w])
  PROVE  Fine(w, d)
<1>1. JobInv(w)
  BY DEF IInv
<1>2. CASE pc[w] = "stamp"
  BY <1>1, <1>2 DEF JobInv, SavedInv
<1>3. CASE pc[w] = "map" /\ Exits(got[w]) = {}
  <2>1. d \notin got[w]
    BY <1>3 DEF Watched, Exits, Cashflows
  <2> QED
    BY <1>3, <2>1, NotPulled
<1> QED
  BY <1>2, <1>3 DEF AtStamp

LEMMA JobStep ==
  ASSUME IInv, TypeOK', [Next]_vars, NEW w \in Workers
  PROVE  JobInv(w)'
<1>0. /\ TypeOK /\ JobInv(w) /\ Watched \subseteq Deals
      /\ pc \in [Workers -> {"idle", "lock"} \cup Pulls]
  BY StateTypes DEF IInv, TypeOK, Pulls
<1>1. CASE pc'[w] = "idle"
  BY <1>1 DEF JobInv, WindowInv, PullInv, SavedInv, Running
<1>2. ASSUME pc[w] \in Pulls, win' = win, pc'[w] \in {"cash", "backfill"},
             \A d \in Watched : Happened(d) => Fine(w, d) \/ Fine(w, d)'
      PROVE  JobInv(w)'
  <2>1. Running(w)
    BY <1>2 DEF Running, Pulls
  <2>2. ASSUME NEW d \in Watched, Happened(d)' PROVE Fine(w, d)'
    BY <1>0, <1>2, <2>1, <2>2, FineStable, NewIsFine
  <2>3. SavedInv(w)' /\ PullInv(w)'
    BY <1>2, <2>2 DEF SavedInv, PullInv, Watched
  <2> QED
    BY <1>2, <2>1, <2>3, WindowKept DEF JobInv
<1>l. ASSUME Leave(w, AfterCash(w)) PROVE pc'[w] = "idle" \/ (pc'[w] = "backfill" /\ win' = win)
  BY <1>0, <1>l DEF Leave, AfterCash
<1>4. CASE NothingNew(w)
  <2>1. pc[w] = "map" /\ pc[w] \in Pulls /\ Leave(w, AfterCash(w))
    BY <1>4 DEF NothingNew, Pulls
  <2>2. \A d \in Watched : d \notin got[w]
    BY <1>4 DEF NothingNew, Empty, Watched, Exits, Cashflows
  <2> QED
    BY <1>1, <1>2, <1>l, <2>1, <2>2, NotPulled
<1>5. CASE Stamp(w)
  <2>1. pc[w] \in Pulls /\ AtStamp(w)
    BY <1>5 DEF Stamp, AtStamp, Pulls
  <2>2. CASE Goto(w, "cash") /\ UNCHANGED <<win, got>>
    <3>1. pc'[w] = "cash"
      BY <1>0, <2>2
    <3>2. \A d \in Cashflows(got[w]) : Fine(w, d)'
      BY <2>2, <3>1 DEF Fine, Kept
    <3> QED
      BY <1>2, <2>1, <2>2, <3>1, <3>2, StampIsFine
  <2>3. CASE Leave(w, AfterCash(w)) /\ Cashflows(got[w]) = {}
    BY <1>1, <1>2, <1>l, <2>1, <2>3, StampIsFine
  <2> QED
    BY <1>5, <2>2, <2>3 DEF Stamp, AfterTrades
<1>6. CASE SaveCash(w)
  <2>1. pc[w] = "cash" /\ pc[w] \in Pulls /\ Leave(w, AfterCash(w))
    BY <1>6 DEF SaveCash, Pulls
  <2>2. \A d \in Watched : Happened(d) => Fine(w, d)
    BY <1>0, <2>1 DEF JobInv, SavedInv
  <2> QED
    BY <1>1, <1>2, <1>l, <2>1, <2>2
<1> QED
  BY <1>0, <1>1, <1>4, <1>5, <1>6, JobSteps, OthersKept, WindowChosen, HistoryPulled,
     RowsSaved
-----------------------------------------------------------------------------
(* No hole *)

\* What is fine for a running job is kept, or the new watermark does not pass it.
LEMMA FineCovers ==
  ASSUME IInv, TypeOK', TimeInv', [Next]_vars, NEW w \in Workers, Running(w),
         NEW d \in Watched, Happened(d), Fine(w, d)
  PROVE  Kept(d)' \/ Ahead(d)'
<1>0. /\ d \in Deals /\ at[d] \in Int /\ win[w].to \in Int /\ now \in Int /\ now' \in Int
      /\ cred'.last \in Int /\ at'[d] = at[d] /\ now' - win[w].to <= MaxSpan
  BY StateTypes, TimePasses DEF IInv, TypeOK, Times, Creds, Never
<1>1. cred'.last <= now'
  BY DEF TimeInv
<1>2. CASE Kept(d)
  BY <1>0, <1>1, <1>2, KeptOrRecent, Parameters DEF Ahead
<1>3. CASE at[d] >= win[w].to + MaxSpan - Overlap
  BY <1>0, <1>1, <1>3, Parameters DEF Ahead
<1> QED
  BY <1>2, <1>3 DEF Fine

LEMMA HoleStep ==
  ASSUME IInv, TypeOK', TimeInv', [Next]_vars
  PROVE  NoHole'
<1> SUFFICES ASSUME NEW d \in Watched, Happened(d)' PROVE Kept(d)' \/ Ahead(d)'
  BY DEF NoHole, Watched, Happened
<1>0. /\ TypeOK /\ d \in Deals /\ at[d] \in Int /\ now \in Int /\ now' \in Int
      /\ cred.last \in Int /\ cred'.last \in Int /\ cred'.last <= now'
  BY StateTypes DEF IInv, TypeOK, Times, Creds, Never, TimeInv
<1>1. CASE ~Happened(d)
  <2>1. at'[d] = now /\ now' = now
    BY <1>0, <1>1, TimePasses DEF IInv
  <2> QED
    BY <1>0, <2>1, Parameters DEF Ahead
<1>2. CASE Happened(d) /\ cred' = cred
  <2>1. at'[d] = at[d]
    BY <1>0, <1>2, TimePasses DEF IInv
  <2>2. Kept(d) \/ Ahead(d)
    BY <1>2 DEF IInv, NoHole, Watched, Happened
  <2>3. CASE Kept(d)
    BY <1>0, <1>2, <2>1, <2>3, KeptOrRecent, Parameters DEF Ahead
  <2>4. CASE Ahead(d)
    BY <1>2, <2>1, <2>4 DEF Ahead
  <2> QED
    BY <2>2, <2>3, <2>4
<1>3. CASE Happened(d) /\ cred' # cred
  <2>1. PICK w \in Workers : NothingNew(w) \/ Stamp(w) \/ StampRaises(w) \/ MarkBackfill(w)
    BY <1>0, <1>3, CredSteps
  <2>2. Running(w) /\ JobInv(w)
    BY <2>1 DEF NothingNew, Stamp, StampRaises, MarkBackfill, AtStamp, Running, IInv
  <2>3. CASE NothingNew(w)
    <3>1. d \notin got[w] /\ pc[w] = "map"
      BY <2>3 DEF NothingNew, Empty, Watched, Exits, Cashflows
    <3> QED
      BY <1>3, <2>2, <3>1, NotPulled, FineCovers
  <2>4. CASE MarkBackfill(w)
    <3>1. Fine(w, d)
      BY <1>3, <2>2, <2>4 DEF MarkBackfill, JobInv, SavedInv
    <3> QED
      BY <1>3, <2>2, <3>1, FineCovers
  <2>5. CASE d \notin Cashflows(got[w]) /\ (Stamp(w) \/ StampRaises(w))
    <3>1. AtStamp(w)
      BY <2>5 DEF Stamp, StampRaises
    <3> QED
      BY <1>3, <2>2, <2>5, <3>1, StampIsFine, FineCovers
  <2>6. CASE d \in Cashflows(got[w]) /\ Stamp(w)
    <3>1. pc'[w] = "cash" /\ got' = got
      BY <1>0, <2>6 DEF Stamp, AfterTrades, TypeOK
    <3> QED
      BY <2>6, <3>1 DEF Kept
  <2>7. CASE d \in Cashflows(got[w]) /\ StampRaises(w)
    <3>1. d \in missed'
      BY <1>3, <2>7 DEF StampRaises
    <3> QED
      BY <3>1 DEF Kept
  <2> QED
    BY <2>1, <2>3, <2>4, <2>5, <2>6, <2>7
<1> QED
  BY <1>0, <1>1, <1>2, <1>3, CredSteps

LEMMA InductiveInit == Init => IInv
<1> SUFFICES ASSUME Init PROVE IInv
  OBVIOUS
<1>1. TypeOK
  BY TypeInit
<1>2. \A d \in Deals : ~Happened(d)
  BY DEF Init, Happened
<1>3. TimeInv
  BY <1>2 DEF Init, TimeInv, Never
<1>4. RowInv
  BY DEF Init, RowInv
<1>5. NoHole
  BY DEF Init, NoHole, Watched
<1>6. \A w \in Workers : JobInv(w)
  BY DEF Init, JobInv, WindowInv, PullInv, SavedInv, Running
<1> QED
  BY <1>1, <1>3, <1>4, <1>5, <1>6 DEF IInv

LEMMA InductiveStep == IInv /\ [Next]_vars => IInv'
<1> SUFFICES ASSUME IInv, [Next]_vars PROVE IInv'
  OBVIOUS
<1>1. TypeOK'
  BY TypeStep DEF IInv
<1>2. TimeInv' /\ RowInv'
  BY <1>1, TimeStep, RowStep DEF IInv
<1>3. \A w \in Workers : JobInv(w)'
  BY <1>1, JobStep
<1>4. NoHole'
  BY <1>1, <1>2, HoleStep
<1> QED
  BY <1>1, <1>2, <1>3, <1>4 DEF IInv

\* No closing order and no cash operation falls between two syncs, for any account
\* whose orders open a position or close one, any number of workers, failures and
\* crashes, if the overlap covers a deal that settles late and two jobs that began
\* before it was stored.
THEOREM HoleFree == Spec => []NoHole
<1>1. IInv => NoHole
  BY DEF IInv
<1> QED
  BY <1>1, InductiveInit, InductiveStep, PTL DEF Spec
=============================================================================
