------------------------------ MODULE SyncJob ------------------------------
(***************************************************************************)
(* run_sync_job (workers/mt5_worker.py) for one trading account: the       *)
(* history window, the pull, and the writes to Supabase                    *)
(* (workers/supabase_client.py), each a request of its own that can fail,  *)
(* by workers that may run a job of the account at the same time.  The     *)
(* broker goes on making deals and may settle one late.  What a user       *)
(* reads of a sync, its stage and its error, is left out.                  *)
(***************************************************************************)
EXTENDS TradeMap, Integers

CONSTANTS
  Workers,
  Overlap,       \* INCREMENTAL_SYNC_OVERLAP_HOURS
  Lookback,      \* lookback_days
  Backfill,      \* backfill_days: longer than the account exists
  Chunk,         \* HISTORY_CHUNK_DAYS
  SettleDelay,   \* how late a deal may show in the history
  MaxSpan,       \* how long a job may take from its window to its watermark
  NoRow,
  MaxTime,       \* BOUND: the clock
  LastDeal,      \* BOUND: when the broker stops
  MaxFaults      \* BOUND: requests to Supabase that raise, crashes, blind reads

\* What the overlap has to cover: a deal settles late, is stored by one job, and
\* its row is replaced by a job that began before.
ASSUME OverlapAssumption == /\ {Overlap, Lookback, SettleDelay, MaxSpan} \subseteq Nat
                            /\ 2 * MaxSpan + SettleDelay <= Overlap
ASSUME WindowAssumption == Backfill \in Nat /\ MaxTime \in Nat /\ MaxTime <= Backfill
ASSUME ChunkAssumption == Chunk \in Nat \ {0} /\ MaxFaults \in Nat
ASSUME NoRowAssumption == NoRow \notin Rows

VARIABLES
  now,                 \* the clock
  at, settled,         \* when each deal happened; those the history shows
  cred,                \* the row of investor_credentials
  trades, cash,        \* the tables trades (by ticket) and account_cashflows
  pc, win, got,        \* each worker's next step, window, and deals
  faults,              \* counter for the bound
  missed               \* HISTORY: what a blind read or failed cash write left out

db   == <<cred, trades, cash>>
job  == <<pc, win, got>>
vars == <<now, at, settled, db, job, faults, missed>>
-----------------------------------------------------------------------------
NotYet  == -1
Never   == -1
Times   == 0..MaxTime
Windows == [from : Times, to : Times, kind : {"first", "incremental", "unknown"},
            backfill : BOOLEAN]
NoWindow == [from |-> 0, to |-> 0, kind |-> "unknown", backfill |-> FALSE]
Creds   == [last : Times \cup {Never}, backfill : BOOLEAN]

TypeOK ==
  /\ now \in Times
  /\ at \in [Deals -> Times \cup {NotYet}] /\ settled \subseteq Deals
  /\ cred \in Creds
  /\ trades \in [Tickets -> Rows \cup {NoRow}] /\ cash \subseteq {d \in Deals : Kind[d] = "cash"}
  /\ pc \in [Workers -> {"idle", "lock", "map", "stamp", "cash", "backfill"}]
  /\ win \in [Workers -> Windows] /\ got \in [Workers -> SUBSET Deals]
  /\ faults \in 0..MaxFaults /\ missed \subseteq Deals

Init ==
  /\ now = 0 /\ at = [d \in Deals |-> NotYet] /\ settled = {}
  /\ cred = [last |-> Never, backfill |-> FALSE]
  /\ trades = [t \in Tickets |-> NoRow] /\ cash = {}
  /\ pc = [w \in Workers |-> "idle"] /\ win = [w \in Workers |-> NoWindow]
  /\ got = [w \in Workers |-> {}]
  /\ faults = 0 /\ missed = {}
-----------------------------------------------------------------------------
(* The broker and the clock *)

Running(w) == pc[w] # "idle"

\* Time passes, but not so far that a deal settles later or a job takes longer
\* than assumed.
Tick ==
  /\ now < MaxTime /\ now' = now + 1
  /\ \A d \in Deals : at[d] # NotYet /\ d \notin settled => now - at[d] < SettleDelay
  /\ \A w \in Workers : Running(w) => now - win[w].to < MaxSpan
  /\ UNCHANGED <<at, settled, db, job, faults, missed>>

Deal(d) ==
  /\ now <= LastDeal /\ at[d] = NotYet /\ \A e \in Deals : e < d => at[e] # NotYet
  /\ at' = [at EXCEPT ![d] = now]
  /\ UNCHANGED <<now, settled, db, job, faults, missed>>

Settle(d) ==
  /\ at[d] # NotYet /\ d \notin settled
  /\ settled' = settled \cup {d}
  /\ UNCHANGED <<now, at, db, job, faults, missed>>
-----------------------------------------------------------------------------
world   == <<now, at, settled>>
Goto(w, s) == pc' = [pc EXCEPT ![w] = s]
\* The job has no further use for its deals and, when it ends, for its window.
Leave(w, s) ==
  /\ Goto(w, s) /\ got' = [got EXCEPT ![w] = {}]
  /\ win' = IF s = "idle" THEN [win EXCEPT ![w] = NoWindow] ELSE win
Finish(w) == Leave(w, "idle")
Fault   == faults < MaxFaults /\ faults' = faults + 1
NoFault == UNCHANGED faults

\* record_sync_success, and the last request of upsert_trades.
SyncedNow   == [cred EXCEPT !.last = now]

NoOverlap ==   \* mutant: forward from the watermark
  IF cred.last < now - Lookback THEN now - Lookback ELSE cred.last

\* An incremental window, never longer than the lookback.
Since == IF cred.last - Overlap < now - Lookback THEN now - Lookback
         ELSE cred.last - Overlap

\* Nothing happened before 0.
Window(from, kind, backfill) ==
  [from |-> IF from < 0 THEN 0 ELSE from, to |-> now,
   kind |-> kind, backfill |-> backfill]

\* _resolve_sync_window.
NextWindow ==
  IF cred.last = Never THEN Window(now - Backfill, "first", TRUE)
  ELSE IF ~cred.backfill THEN Window(now - Backfill, "incremental", TRUE)
  ELSE Window(Since, "incremental", FALSE)

\* A job begins: it reads the watermark and looks at the clock.
ResolveWindow(w) ==
  /\ pc[w] = "idle"
  /\ \/ NoFault /\ win' = [win EXCEPT ![w] = NextWindow]
     \/ Fault /\ win' = [win EXCEPT ![w] = Window(now - Lookback, "unknown", FALSE)]
  /\ Goto(w, "lock")
  /\ UNCHANGED <<world, db, got, missed>>

\* The lock is not free in time, the login fails, the read raises, or the process
\* dies before it has read anything.
NoHistory(w) ==
  /\ pc[w] = "lock"
  /\ Finish(w)
  /\ UNCHANGED <<world, db, faults, missed>>
-----------------------------------------------------------------------------
(* The history of the window, under the terminal's lock *)

InWindow(w) == {d \in settled : /\ KeepHistoryDeal(d)
                                 /\ at[d] >= win[w].from /\ at[d] <= win[w].to}
ChunkOf(w, d) == (at[d] - win[w].from) \div Chunk

Pulled(w, deals) == got' = [got EXCEPT ![w] = deals] /\ Goto(w, "map")

ReadHistory(w) ==
  /\ pc[w] = "lock"
  /\ Pulled(w, InWindow(w))
  /\ UNCHANGED <<world, db, win, faults, missed>>

\* `history_deals_get(...) or []`: a chunk that could not be read counts as one
\* without deals.  (A request to the EA that times out: all of the window.)
BlindRead(w) ==
  /\ pc[w] = "lock" /\ Fault
  /\ \E blind \in SUBSET {ChunkOf(w, d) : d \in InWindow(w)} \ {{}} :
       LET lost == {d \in InWindow(w) : ChunkOf(w, d) \in blind}
       IN /\ Pulled(w, InWindow(w) \ lost)
          /\ missed' = missed \cup (lost \ Entries(lost))
  /\ UNCHANGED <<world, db, win>>
-----------------------------------------------------------------------------
(* The writes, after the release of the lock *)

\* What is left to do after the trades, and after the cash flows.
AfterCash(w)   == IF win[w].backfill THEN "backfill" ELSE "idle"
AfterTrades(w) == IF Cashflows(got[w]) # {}
                  THEN Goto(w, "cash") /\ UNCHANGED <<win, got>>
                  ELSE Leave(w, AfterCash(w))

Empty(w) == Exits(got[w]) = {} /\ Cashflows(got[w]) = {}

\* Nothing new counts as a sync; a failure to say so is passed over.
NothingNew(w) ==
  /\ pc[w] = "map" /\ Empty(w) /\ win[w].kind = "incremental"
  /\ \/ NoFault /\ cred' = SyncedNow
     \/ Fault /\ UNCHANGED cred
  /\ Leave(w, AfterCash(w))
  /\ UNCHANGED <<world, trades, cash, missed>>

NothingFound(w) ==
  /\ pc[w] = "map" /\ Empty(w) /\ win[w].kind # "incremental"
  /\ Finish(w)
  /\ UNCHANGED <<world, db, faults, missed>>

WithTicket(w, exits, t) == {d \in exits : Ticket(got[w], d) = t}

\* on_conflict=account_id,ticket with merge-duplicates, in batches: of rows with one
\* ticket the last is left.  (The second pass, of the rows with an R multiple, is left out.)
Upserted(w, exits) ==
  [t \in Tickets |-> IF WithTicket(w, exits, t) = {} THEN trades[t]
                     ELSE Latest(WithTicket(w, exits, t))]

\* upsert_trades up to its last request; rows that collide are in different batches.
SaveTrades(w) ==
  /\ pc[w] = "map" /\ Exits(got[w]) # {}
  /\ trades' = Upserted(w, Exits(got[w]))
  /\ Goto(w, "stamp") /\ got' = [got EXCEPT ![w] = Cashflows(@)]
  /\ UNCHANGED <<world, cred, cash, win, faults, missed>>

\* The account is not found, or a batch is refused after others were stored: with no
\* fault of anyone if rows of one batch collide, as PostgreSQL updates no row twice
\* in one command.
SaveTradesRaises(w) ==
  /\ pc[w] = "map" /\ Exits(got[w]) # {}
  /\ Fault \/ (Collide(got[w]) /\ NoFault)
  /\ \E part \in SUBSET Exits(got[w]) : trades' = Upserted(w, part)
  /\ Finish(w)
  /\ UNCHANGED <<world, cred, cash, missed>>

AtStamp(w) == \/ pc[w] = "stamp"
              \/ pc[w] = "map" /\ Exits(got[w]) = {} /\ ~Empty(w)

\* The watermark is the time of this request, not the end of the window.
Stamp(w) ==
  /\ AtStamp(w)
  /\ cred' = SyncedNow
  /\ AfterTrades(w)
  /\ UNCHANGED <<world, trades, cash, faults, missed>>

\* Its answer may be lost after it took effect; the cash flows are then left out.
StampRaises(w) ==
  /\ AtStamp(w) /\ Fault
  /\ \/ UNCHANGED cred /\ UNCHANGED missed
     \/ cred' = SyncedNow /\ missed' = missed \cup Cashflows(got[w])
  /\ Finish(w)
  /\ UNCHANGED <<world, trades, cash>>

SaveCash(w) ==
  /\ pc[w] = "cash"
  /\ cash' = cash \cup Cashflows(got[w])
  /\ Leave(w, AfterCash(w))
  /\ UNCHANGED <<world, cred, trades, faults, missed>>

SaveCashRaises(w) ==
  /\ pc[w] = "cash" /\ Fault
  /\ \E part \in SUBSET Cashflows(got[w]) : cash' = cash \cup part
  /\ missed' = missed \cup Cashflows(got[w])
  /\ Finish(w)
  /\ UNCHANGED <<world, cred, trades>>

\* _mark_backfill_done; a failure is passed over.
MarkBackfill(w) ==
  /\ pc[w] = "backfill"
  /\ \/ cred' = [cred EXCEPT !.backfill = TRUE] /\ NoFault
     \/ Fault /\ UNCHANGED cred
  /\ Finish(w)
  /\ UNCHANGED <<world, trades, cash, missed>>

\* The process dies later.  The cash flows of a job past its watermark are left out.
Crash(w) ==
  /\ pc[w] \notin {"idle", "lock"} /\ Fault
  /\ missed' = IF pc[w] = "cash" THEN missed \cup Cashflows(got[w]) ELSE missed
  /\ Finish(w)
  /\ UNCHANGED <<world, db>>
-----------------------------------------------------------------------------
Broker == Tick \/ \E d \in Deals : Deal(d) \/ Settle(d)
Pull(w) == ResolveWindow(w) \/ NoHistory(w) \/ ReadHistory(w) \/ BlindRead(w)
Save(w) == \/ NothingNew(w) \/ NothingFound(w) \/ SaveTrades(w) \/ Stamp(w)
           \/ SaveCash(w) \/ MarkBackfill(w)
Failing(w) == \/ SaveTradesRaises(w) \/ StampRaises(w) \/ SaveCashRaises(w)
              \/ Crash(w)

Next == Broker \/ \E w \in Workers : Pull(w) \/ Save(w) \/ Failing(w)

Spec == Init /\ [][Next]_vars
-----------------------------------------------------------------------------
(* Properties *)

\* What the journal is to hold.
Watched == {d \in Deals : Kind[d] \in {"out", "cash"}}

\* The journal has a row of the order: that of the exit, or that of another fill,
\* whose row took the ticket.
Recorded(o) == \E t \in Tickets : trades[t] # NoRow /\ Order[trades[t]] = o

Stored(d) == IF Kind[d] = "cash" THEN d \in cash ELSE Recorded(Order[d])

\* The next job looks at d: the watermark, less the overlap, has not passed it.
Ahead(d) == cred.last = Never \/ ~cred.backfill \/ at[d] >= cred.last - Overlap

\* The position of the exit d got another entry after d.  The exits that follow go
\* by that entry when the first one is out of the window; so may d, and its row is
\* then replaced.
Reopened(d) == /\ Kind[d] = "out"
               /\ \E e \in Entries(Deals) : Position[e] = Position[d] /\ d < e

Kept(d) == \/ d \in missed \/ at[d] < now - Lookback \/ Stored(d) \/ Reopened(d)
           \/ \E w \in Workers : pc[w] = "cash" /\ d \in Cashflows(got[w])

\* No closing order and no cash operation falls between two syncs: it is stored or
\* about to be, or the next window starts before it, though deals settle late, jobs
\* overlap, fail and die, rows collide and are replaced, and the watermark is later
\* than the window it stands for.  What falls out was left out by a blind read or a
\* failed cash write, or no sync was stamped for as long as the lookback, or it is
\* an exit before the last entry of its position.
NoHole ==
  \A d \in Watched : at[d] # NotYet => Ahead(d) \/ Kept(d)

\* "Partial closes: one journal row per OUT deal (volume/PnL from that exit)."
OneRowPerExit ==
  \A t, u \in Tickets : trades[t] # NoRow /\ trades[u] # NoRow
                      /\ trades[t] = trades[u] => t = u
=============================================================================
