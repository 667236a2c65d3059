---------------------------- MODULE TerminalPool ----------------------------
(***************************************************************************)
(* Workers that share MetaTrader 5 terminals: the Redis lock of each       *)
(* terminal (jobqueue/redis_lock.py), the choice of a terminal             *)
(* (workers/terminal_map.py), the session a worker keeps warm between jobs *)
(* (workers/mt5_adapter.py), and the part of run_verify_job and            *)
(* run_sync_job (workers/mt5_worker.py) that drives a terminal.            *)
(*                                                                         *)
(* A terminal is logged in to one account at a time, whoever logged in     *)
(* last.  The MetaTrader5 library attaches a process to one terminal;      *)
(* login switches the account of the terminal it is attached to.           *)
(***************************************************************************)
EXTENDS Integers, Sequences, FiniteSets

CONSTANTS
  Workers,          \* worker processes
  Terminals,        \* installed portable terminals
  Accounts,         \* trading accounts
  Preferred,        \* resolve_terminal_path: the terminal of an account's server
  SlotList,         \* list_terminal_slots
  Kinds,            \* job types that are claimed
  NoTerminal, NoAccount,
  Nobody,           \* the lock's key does not exist
  Stale,            \* the key holds a token that no live RedisLock has
  MaxOverruns,      \* BOUND: leases that run out under their holder
  MaxFailures       \* BOUND: crashes and failed Redis commands

ASSUME PoolAssumption == /\ Preferred \in [Accounts -> Terminals]
                         /\ SlotList \in Seq(Terminals)
                         /\ Kinds \subseteq {"verify", "sync"}
ASSUME NullsAssumption == /\ NoTerminal \notin Terminals /\ NoAccount \notin Accounts
                          /\ Nobody \notin Workers /\ Stale \notin Workers
                          /\ Nobody # Stale
ASSUME LimitsAssumption == MaxOverruns \in Nat /\ MaxFailures \in Nat

VARIABLES
  lock,             \* lock[t]: the worker whose token the key holds
  acct,             \* acct[t]: the account the terminal is logged in to
  pc, kind, account, term,   \* the job in hand and the terminal picked for it
  probe,            \* pick_terminal_path: the candidate to look at next
  ok,               \* how the job fares
  session,          \* the adapter's _session_ready, _path and _login
  conn,             \* the terminal the process is attached to
  overruns, failures,   \* counters for the bounds
  warm,             \* HISTORY: the job found its session warm and did not log in
  strayed           \* HISTORY: terminals last logged in by one without their lock

worker  == <<kind, account, term>>
history == <<warm, strayed>>
vars == <<lock, acct, pc, kind, account, term, probe, ok, session, conn, overruns,
          failures, warm, strayed>>
-----------------------------------------------------------------------------
Session   == [term : Terminals, account : Accounts]
NoSession == [term |-> NoTerminal, account |-> NoAccount]
Inside    == {"locked", "read", "unlock"}      \* between acquire and release

TypeOK ==
  /\ lock \in [Terminals -> Workers \cup {Nobody, Stale}]
  /\ acct \in [Terminals -> Accounts \cup {NoAccount}]
  /\ pc \in [Workers -> {"idle", "probe", "wait", "drop"} \cup Inside]
  /\ kind \in [Workers -> {"verify", "sync", "followup"}]
  /\ account \in [Workers -> Accounts \cup {NoAccount}]
  /\ term \in [Workers -> Terminals \cup {NoTerminal}]
  /\ probe \in [Workers -> 1..(Len(SlotList) + 2)]
  /\ ok \in [Workers -> {"yes", "login_failed", "failed"}]
  /\ session \in [Workers -> Session \cup {NoSession}]
  /\ conn \in [Workers -> Terminals \cup {NoTerminal}]
  /\ overruns \in 0..MaxOverruns /\ failures \in 0..MaxFailures
  /\ warm \in [Workers -> BOOLEAN] /\ strayed \in SUBSET Terminals
  \* a warm session has a terminal behind it, and a job an account and a terminal
  /\ \A w \in Workers :
       /\ session[w] # NoSession => conn[w] # NoTerminal
       /\ pc[w] \notin {"idle", "drop"} => account[w] # NoAccount
       /\ pc[w] \in {"wait"} \cup Inside => term[w] # NoTerminal
       /\ pc[w] = "read" => conn[w] # NoTerminal

Init ==
  /\ lock = [t \in Terminals |-> Nobody] /\ acct = [t \in Terminals |-> NoAccount]
  /\ pc = [w \in Workers |-> "idle"] /\ kind = [w \in Workers |-> "sync"]
  /\ account = [w \in Workers |-> NoAccount] /\ term = [w \in Workers |-> NoTerminal]
  /\ probe = [w \in Workers |-> 1] /\ ok = [w \in Workers |-> "yes"]
  /\ session = [w \in Workers |-> NoSession] /\ conn = [w \in Workers |-> NoTerminal]
  /\ overruns = 0 /\ failures = 0
  /\ warm = [w \in Workers |-> FALSE] /\ strayed = {}
-----------------------------------------------------------------------------
Goto(w, s) == pc' = [pc EXCEPT ![w] = s]
Fail       == failures < MaxFailures /\ failures' = failures + 1
DoNotFail  == UNCHANGED <<overruns, failures>>

\* The job of w is over, or all that is left of it is a forced shutdown: its
\* variables are dead.
Leave(w, s) ==
  /\ Goto(w, s)
  /\ kind' = [kind EXCEPT ![w] = "sync"] /\ account' = [account EXCEPT ![w] = NoAccount]
  /\ term' = [term EXCEPT ![w] = NoTerminal] /\ ok' = [ok EXCEPT ![w] = "yes"]
  /\ probe' = [probe EXCEPT ![w] = 1] /\ warm' = [warm EXCEPT ![w] = FALSE]

\* run_worker's forced shutdown follows a failed verify, whatever it failed on,
\* and a failed sync, but not the sync that follows a verify.
AfterFailure(w) == IF kind[w] = "followup" THEN "idle" ELSE "drop"

\* mutant: a shutdown after which the session still looks ready
DetachOnly(w) == /\ UNCHANGED session
                 /\ conn' = [conn EXCEPT ![w] = NoTerminal]

Detach(w) == /\ session' = [session EXCEPT ![w] = NoSession]
             /\ conn' = [conn EXCEPT ![w] = NoTerminal]
-----------------------------------------------------------------------------
(* pick_terminal_path: one GET per candidate, before the lock is taken.    *)

Claim(w, k, a) ==
  /\ pc[w] = "idle"
  /\ kind' = [kind EXCEPT ![w] = k] /\ account' = [account EXCEPT ![w] = a]
  /\ Goto(w, "probe")
  /\ UNCHANGED <<lock, acct, term, probe, ok, session, conn, history>> /\ DoNotFail

\* The preferred terminal, once more as the first of the list, then the pool's.
Candidates(a) == <<Preferred[a], Preferred[a]>> \o SlotList

\* What is left of the list: it holds the preferred terminal only once.
Later(w) ==
  {i \in (probe[w] + 1)..Len(Candidates(account[w])) :
     i = 2 \/ Candidates(account[w])[i] # Preferred[account[w]]}

Pick(w, t) == /\ term' = [term EXCEPT ![w] = t]
              /\ probe' = [probe EXCEPT ![w] = 1]
              /\ Goto(w, "wait")

\* A terminal that looked held: the next candidate, or in the end the first.
LooksHeld(w) ==
  \/ Later(w) = {} /\ Pick(w, Preferred[account[w]])
  \/ \E i \in Later(w) :
       /\ \A j \in Later(w) : i <= j
       /\ probe' = [probe EXCEPT ![w] = i]
       /\ UNCHANGED <<term, pc>>

Probe(w) ==
  /\ pc[w] = "probe"
  /\ LET t == Candidates(account[w])[probe[w]]
     IN IF lock[t] = Nobody THEN Pick(w, t) ELSE LooksHeld(w)
  /\ UNCHANGED <<lock, acct, kind, account, ok, session, conn, history>> /\ DoNotFail

\* A GET that raises counts as held.
ProbeRaises(w) ==
  /\ pc[w] = "probe" /\ Fail
  /\ LooksHeld(w)
  /\ UNCHANGED <<lock, acct, kind, account, ok, session, conn, overruns, history>>
-----------------------------------------------------------------------------
(* RedisLock *)

\* SET NX EX.
Acquire(w) ==
  /\ pc[w] = "wait" /\ lock[term[w]] = Nobody
  /\ lock' = [lock EXCEPT ![term[w]] = w]
  /\ Goto(w, "locked")
  /\ UNCHANGED <<acct, worker, probe, ok, session, conn, history>> /\ DoNotFail

ReleaseUnchecked(w) == [lock EXCEPT ![term[w]] = Nobody]   \* mutant: a plain DEL

\* The Lua script of release: the key goes only if it holds our token.
Released(w) == IF lock[term[w]] = w THEN [lock EXCEPT ![term[w]] = Nobody] ELSE lock

PollForever(w) ==   \* mutant: the deadline of acquire is not looked at
  /\ pc[w] = "wait" /\ lock[term[w]] # Nobody /\ UNCHANGED vars

\* The wait ends without the lock; `finally` releases all the same.
LockTimeout(w) ==
  /\ pc[w] = "wait" /\ lock[term[w]] # Nobody
  /\ lock' = Released(w)
  /\ Leave(w, IF kind[w] = "verify" THEN "drop" ELSE "idle")
  /\ UNCHANGED <<acct, session, conn, strayed>> /\ DoNotFail

\* SET raises.  It may have taken effect, with the release of `finally` failing too.
AcquireRaises(w) ==
  /\ pc[w] = "wait" /\ Fail
  /\ \/ UNCHANGED lock
     \/ lock[term[w]] = Nobody /\ lock' = [lock EXCEPT ![term[w]] = Stale]
  /\ Leave(w, AfterFailure(w))
  /\ UNCHANGED <<acct, session, conn, overruns, strayed>>

NoTtl(t) == lock[t] = Stale /\ UNCHANGED vars   \* mutant: SET without EX

\* The TTL of a lock that no live worker will release.
Expire(t) ==
  /\ lock[t] = Stale
  /\ lock' = [lock EXCEPT ![t] = Nobody]
  /\ UNCHANGED <<acct, pc, worker, probe, ok, session, conn, history>> /\ DoNotFail

\* The TTL runs out under its holder: a login or one history chunk took longer.
\* The refreshes that follow answer 0, which nobody looks at.
Overrun(w) ==
  /\ pc[w] \in {"locked", "read"} /\ lock[term[w]] = w
  /\ overruns < MaxOverruns /\ overruns' = overruns + 1
  /\ lock' = [lock EXCEPT ![term[w]] = Nobody]
  /\ UNCHANGED <<acct, pc, worker, probe, ok, session, conn, failures, history>>
-----------------------------------------------------------------------------
(* MetaTrader5Adapter.initialize *)

AfterLogin(w) == IF kind[w] = "verify" THEN "unlock" ELSE "read"
Wanted(w)     == [term |-> term[w], account |-> account[w]]

\* Worker w logs terminal t in to account a.
LogIn(w, t, a) ==
  /\ acct' = [acct EXCEPT ![t] = a]
  /\ strayed' = IF lock[t] = w THEN strayed \ {t} ELSE strayed \cup {t}

\* _same_session: believed from the adapter's own variables.
LoginWarm(w) ==
  /\ pc[w] = "locked" /\ session[w] = Wanted(w)
  /\ warm' = [warm EXCEPT ![w] = TRUE]
  /\ Goto(w, AfterLogin(w))
  /\ UNCHANGED <<lock, acct, worker, probe, ok, session, conn, strayed>> /\ DoNotFail

\* mt5.login on a warm session: on the terminal the process is attached to.
LoginSwitch(w) ==
  /\ pc[w] = "locked" /\ session[w] \notin {NoSession, Wanted(w)}
  /\ LogIn(w, conn[w], account[w])
  /\ session' = [session EXCEPT ![w] = Wanted(w)]
  /\ Goto(w, AfterLogin(w))
  /\ UNCHANGED <<lock, worker, probe, ok, conn, warm>> /\ DoNotFail

\* A login that failed leaves the terminal as it was, or logged out.
LoginRefused(t) == UNCHANGED acct \/ acct' = [acct EXCEPT ![t] = NoAccount]

\* The switch fails: the process detaches and starts the terminal instead.
SwitchFails(w) ==
  /\ pc[w] = "locked" /\ session[w] \notin {NoSession, Wanted(w)}
  /\ LoginRefused(conn[w])
  /\ Detach(w)
  /\ UNCHANGED <<lock, pc, worker, probe, ok, history>> /\ DoNotFail

SwitchInstead(w) ==   \* mutant: the account it is logged in to is not checked
  /\ pc[w] = "locked" /\ session[w] = NoSession
  /\ session' = [session EXCEPT ![w] = Wanted(w)]
  /\ conn' = [conn EXCEPT ![w] = term[w]]
  /\ Goto(w, AfterLogin(w))
  /\ UNCHANGED <<lock, acct, worker, probe, ok, history>> /\ DoNotFail

\* mt5.initialize(path, login, ...): attaches to the terminal of the job.
LoginCold(w) ==
  /\ pc[w] = "locked" /\ session[w] = NoSession
  /\ LogIn(w, term[w], account[w])
  /\ session' = [session EXCEPT ![w] = Wanted(w)]
  /\ conn' = [conn EXCEPT ![w] = term[w]]
  /\ Goto(w, AfterLogin(w))
  /\ UNCHANGED <<lock, worker, probe, ok, warm>> /\ DoNotFail

LoginFails(w) ==
  /\ pc[w] = "locked" /\ session[w] = NoSession
  /\ LoginRefused(term[w])
  /\ ok' = [ok EXCEPT ![w] = "login_failed"]
  /\ Goto(w, "unlock")
  /\ UNCHANGED <<lock, worker, probe, session, conn, history>> /\ DoNotFail
-----------------------------------------------------------------------------
(* The history, and the end of the critical section *)

\* history_deals, chunk by chunk, of whatever account the terminal is on.
ReadHistory(w) ==
  /\ pc[w] = "read"
  /\ \E result \in {"yes", "failed"} : ok' = [ok EXCEPT ![w] = result]
  /\ Goto(w, "unlock")
  /\ UNCHANGED <<lock, acct, worker, probe, session, conn, history>> /\ DoNotFail

\* What follows the release.  A verify that worked goes on to its sync on the
\* same terminal; the result or the upserts of a job may still fail.
Unlocked(w) ==
  \/ ok[w] # "yes" /\ Leave(w, AfterFailure(w))
  \/ ok[w] = "yes" /\ kind[w] # "verify" /\ Leave(w, "idle")
  \/ ok[w] = "yes" /\ kind[w] # "followup" /\ Leave(w, "drop")
  \/ /\ ok[w] = "yes" /\ kind[w] = "verify"
     /\ kind' = [kind EXCEPT ![w] = "followup"]
     /\ Goto(w, "wait")
     /\ UNCHANGED <<account, term, probe, ok, warm>>

\* _shutdown_terminal keeps a session that logged in alive; then the release.
Release(w) ==
  /\ pc[w] = "unlock"
  /\ IF ok[w] = "login_failed" THEN Detach(w) ELSE UNCHANGED <<session, conn>>
  /\ lock' = Released(w)
  /\ Unlocked(w)
  /\ UNCHANGED <<acct, strayed>> /\ DoNotFail

\* The release raises, which it swallows: the token stays until its TTL.
ReleaseRaises(w) ==
  /\ pc[w] = "unlock" /\ Fail
  /\ IF ok[w] = "login_failed" THEN Detach(w) ELSE UNCHANGED <<session, conn>>
  /\ lock' = IF lock[term[w]] = w THEN [lock EXCEPT ![term[w]] = Stale] ELSE lock
  /\ Unlocked(w)
  /\ UNCHANGED <<acct, overruns, strayed>>

\* adapter.shutdown(force=True), after the lock was released.
ForcedShutdown(w) ==
  /\ pc[w] = "drop"
  /\ Detach(w)
  /\ Goto(w, "idle")
  /\ UNCHANGED <<lock, acct, worker, probe, ok, history>> /\ DoNotFail

\* The process dies and is started again.  Its token stays, and so does the
\* terminal with the account it is logged in to.
Crash(w) ==
  /\ Fail
  /\ lock' = [t \in Terminals |-> IF lock[t] = w THEN Stale ELSE lock[t]]
  /\ Detach(w) /\ Leave(w, "idle")
  /\ UNCHANGED <<acct, overruns, strayed>>
-----------------------------------------------------------------------------
Picking(w) == \E k \in Kinds, a \in Accounts : Claim(w, k, a)
Waiting(w) == Probe(w) \/ Acquire(w) \/ LockTimeout(w)
Driving(w) == \/ LoginWarm(w) \/ LoginSwitch(w) \/ SwitchFails(w) \/ LoginCold(w)
              \/ LoginFails(w) \/ ReadHistory(w) \/ Release(w) \/ ForcedShutdown(w)
Failing(w) == \/ Overrun(w) \/ ProbeRaises(w) \/ AcquireRaises(w) \/ ReleaseRaises(w)
              \/ Crash(w)

Next == \/ \E w \in Workers : Picking(w) \/ Waiting(w) \/ Driving(w) \/ Failing(w)
        \/ \E t \in Terminals : Expire(t)

Spec == Init /\ [][Next]_vars

\* A worker with a job goes on with it: it polls with a deadline, and every
\* call of MetaTrader has a timeout.  Every token is SET with EX.
Fairness == /\ \A w \in Workers : WF_vars(Waiting(w) \/ Driving(w))
            /\ \A t \in Terminals : WF_vars(Expire(t))
FairSpec == Spec /\ Fairness
-----------------------------------------------------------------------------
(* The lock implements TerminalLease *)

Users(t) == {w \in Workers : pc[w] \in Inside /\ term[w] = t}

InUse   == [t \in Terminals |-> Users(t)]
RanOut  == [t \in Terminals |-> {w \in Users(t) : lock[t] # w}]

Lease == INSTANCE TerminalLease WITH users <- InUse, lapsed <- RanOut

\* Only one worker is between acquire and release of a terminal's lock, unless
\* a lease ran out under its holder; no timeout, failed command, late release
\* or crash of another worker opens the lock (redis_lock.py).
RefinesTerminalLease == Lease!Spec
-----------------------------------------------------------------------------
(* Whose history is read *)

Foreign(w) == acct[conn[w]] \notin {account[w], NoAccount}

\* A job reads another account's history only through what the lock does not
\* cover: a session kept warm across releases, an account switch on a terminal
\* the process is still attached to but has not locked, its own or another
\* worker's, or a lease that ran out.
ForeignHistoryNeedsWarmth ==
  \A w \in Workers : pc[w] = "read" /\ Foreign(w) =>
    warm[w] \/ conn[w] # term[w] \/ conn[w] \in strayed \/ overruns > 0

\* The sync after a verify: "Same worker + warm terminal - pull history without
\* a second login."
FollowUpReadsItsAccount ==
  \A w \in Workers : pc[w] = "read" /\ kind[w] = "followup" => ~Foreign(w)
-----------------------------------------------------------------------------
(* Liveness *)

\* No terminal stays locked for good, whoever died or failed holding its lock.
LocksAreFreed == \A t \in Terminals : lock[t] # Nobody ~> lock[t] = Nobody

\* Every job ends, though it may wait for a terminal that another job picked at
\* the same moment (pick_terminal_path looks before the wait).
JobsEnd == \A w \in Workers : pc[w] # "idle" ~> pc[w] = "idle"
=============================================================================
