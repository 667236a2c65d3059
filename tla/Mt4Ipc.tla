------------------------------- MODULE Mt4Ipc -------------------------------
(***************************************************************************)
(* Workers that drive MetaTrader 4 terminals through files: the adapter    *)
(* (workers/mt4_adapter.py) writes a request and waits for a response; the *)
(* expert advisor in the terminal (ea/FinhubJournal_BridgeExport.mq4)      *)
(* polls for a request, writes the response and then deletes the request.  *)
(* Nobody compares request ids.  A terminal has a lock, which excludes all *)
(* but a forced shutdown: that ends every terminal on the host, and some   *)
(* of the forced shutdowns come after the release.                         *)
(*                                                                         *)
(* No job begins with a warm session: each one ends in a shutdown, which   *)
(* resets _session_ready, so that initialize always asks the terminal.     *)
(*                                                                         *)
(* Left out: workers that die and leases that run out (see TerminalPool),  *)
(* and the relaunch by a history request, which a terminal launched        *)
(* through schtasks or found running never gets: _ExternalProc counts as   *)
(* alive.                                                                  *)
(***************************************************************************)
EXTENDS Naturals, FiniteSets

CONSTANTS
  Workers, Terminals, Accounts,
  NoTerminal, NoAccount, Nobody, NoFile,
  MaxFaults     \* BOUND: waits cut short, files that cannot be removed or
                \* written, launches that fail

ASSUME NullsAssumption == /\ NoTerminal \notin Terminals /\ NoAccount \notin Accounts
                          /\ Nobody \notin Workers
ASSUME FaultsAssumption == MaxFaults \in Nat

VARIABLES
  owner,            \* the lock of each terminal
  on, acct,         \* the terminal runs; the account it is connected to
  req, resp,        \* the request file and the response file of each terminal
  ea,               \* the request that the advisor is answering
  pc, kind, account, term,   \* each worker's job
  path, proc,       \* the adapter's _terminal_path; _process is set
  faults,           \* counter for the bound
  crossed,          \* HISTORY: the request was written while the advisor was at an
                    \* older one, or beside a response that could not be removed
  disturbed         \* HISTORY: the request at hand was lost to another worker, to
                    \* a late deletion, or to an answer that was not its own

files  == <<req, resp>>
worker == <<pc, kind, account, term, path, proc>>
vars   == <<owner, on, acct, files, ea, worker, faults, crossed, disturbed>>
-----------------------------------------------------------------------------
Actions  == {"verify", "history"}
\* `old` is the model's own: the request was written before the last one.
Request  == [action : Actions, account : Accounts, old : BOOLEAN]
Response == [action : Actions, ok : BOOLEAN, login : Accounts \cup {NoAccount},
             old : BOOLEAN]
ASSUME NoFileAssumption == NoFile \notin Request \cup Response

NoAnswering == [req |-> NoFile, wrote |-> FALSE]
Inside == {"init", "warm", "launch", "kill", "cold", "history", "wait",
           "good", "failed"}

TypeOK ==
  /\ owner \in [Terminals -> Workers \cup {Nobody}]
  /\ on \in [Terminals -> BOOLEAN] /\ acct \in [Terminals -> Accounts \cup {NoAccount}]
  /\ req \in [Terminals -> Request \cup {NoFile}]
  /\ resp \in [Terminals -> Response \cup {NoFile}]
  /\ ea \in [Terminals -> [req : Request, wrote : BOOLEAN] \cup {NoAnswering}]
  /\ pc \in [Workers -> {"idle", "lock", "drop"} \cup Inside]
  /\ kind \in [Workers -> {"verify", "sync"}]
  /\ account \in [Workers -> Accounts \cup {NoAccount}]
  /\ term \in [Workers -> Terminals \cup {NoTerminal}]
  /\ path \in [Workers -> Terminals \cup {NoTerminal}] /\ proc \in [Workers -> BOOLEAN]
  /\ faults \in 0..MaxFaults
  /\ crossed \subseteq Terminals /\ disturbed \subseteq Terminals
  \* the lock, and a terminal that is off answers nothing
  /\ \A w \in Workers : pc[w] \in Inside => owner[term[w]] = w
  /\ \A t \in Terminals : ~on[t] => ea[t] = NoAnswering

Init ==
  /\ owner = [t \in Terminals |-> Nobody]
  /\ on = [t \in Terminals |-> FALSE] /\ acct = [t \in Terminals |-> NoAccount]
  /\ req = [t \in Terminals |-> NoFile] /\ resp = [t \in Terminals |-> NoFile]
  /\ ea = [t \in Terminals |-> NoAnswering]
  /\ pc = [w \in Workers |-> "idle"] /\ kind = [w \in Workers |-> "sync"]
  /\ account = [w \in Workers |-> NoAccount] /\ term = [w \in Workers |-> NoTerminal]
  /\ path = [w \in Workers |-> NoTerminal] /\ proc = [w \in Workers |-> FALSE]
  /\ faults = 0 /\ crossed = {} /\ disturbed = {}
-----------------------------------------------------------------------------
Goto(w, s) == pc' = [pc EXCEPT ![w] = s]
Fault   == faults < MaxFaults /\ faults' = faults + 1
NoFault == UNCHANGED faults
terminal == <<on, acct, ea>>
jobs     == <<kind, account, term, path, proc>>
history  == <<crossed, disturbed>>

AgeFile(f) == IF f = NoFile THEN f ELSE [f EXCEPT !.old = TRUE]

KeepResponse(t) == resp[t]   \* mutant: only the request is removed

\* _clear_ipc: what is left in the response file.
Cleared(t) == NoFile

\* A request for another account is refused; not connected, it answers when its
\* own wait is over.
Answer(t) ==
  [action |-> ea[t].req.action, login |-> acct[t], old |-> ea[t].req.old,
   ok |-> acct[t] # NoAccount /\ acct[t] = ea[t].req.account]

\* _clear_ipc, then _write_request (a rename): the response goes; or the advisor
\* answers in between; or the response cannot be removed.
Ask(w, action) ==
  LET t == term[w] IN
  /\ req' = [req EXCEPT ![t] = [action |-> action, account |-> account[w], old |-> FALSE]]
  /\ \/ /\ resp' = [resp EXCEPT ![t] = AgeFile(Cleared(t))]
        /\ ea' = [ea EXCEPT ![t].req = AgeFile(@)]
        /\ crossed' = IF ea[t] = NoAnswering THEN crossed \ {t} ELSE crossed \cup {t}
        /\ UNCHANGED <<disturbed, faults>>
     \/ /\ ea[t] # NoAnswering /\ ~ea[t].wrote
        /\ resp' = [resp EXCEPT ![t] = AgeFile(Answer(t))]
        /\ ea' = [ea EXCEPT ![t] = NoAnswering]
        /\ crossed' = crossed \cup {t}
        /\ UNCHANGED <<disturbed, faults>>
     \/ /\ resp[t] # NoFile /\ Fault
        /\ resp' = [resp EXCEPT ![t] = AgeFile(@)]
        /\ ea' = [ea EXCEPT ![t].req = AgeFile(@)]
        /\ crossed' = crossed \cup {t} /\ disturbed' = disturbed \cup {t}

\* _clear_ipc, then the write fails.
CannotAsk(w) ==
  /\ Fault
  /\ req' = [req EXCEPT ![term[w]] = NoFile] /\ resp' = [resp EXCEPT ![term[w]] = NoFile]

\* taskkill /IM terminal.exe: whatever runs on the host.
KillAll == /\ on' = [t \in Terminals |-> FALSE] /\ acct' = [t \in Terminals |-> NoAccount]
           /\ ea' = [t \in Terminals |-> NoAnswering]

\* Terminals that other workers drive while w shuts down.
Others(w) == {t \in Terminals : owner[t] \notin {w, Nobody}}
-----------------------------------------------------------------------------
(* The job and the lock (TerminalPool) *)

Claim(w, k, a, t) ==
  /\ pc[w] = "idle"
  /\ kind' = [kind EXCEPT ![w] = k] /\ account' = [account EXCEPT ![w] = a]
  /\ term' = [term EXCEPT ![w] = t]
  /\ Goto(w, "lock")
  /\ UNCHANGED <<owner, terminal, files, path, proc, faults, history>>

Seize(w) ==   \* mutant: SET without NX
  /\ pc[w] = "lock"
  /\ owner' = [owner EXCEPT ![term[w]] = w]
  /\ path' = [path EXCEPT ![w] = term[w]]
  /\ disturbed' = disturbed \ {term[w]}
  /\ Goto(w, "init")
  /\ UNCHANGED <<terminal, files, kind, account, term, proc, faults, crossed>>

Acquire(w) ==
  /\ pc[w] = "lock" /\ owner[term[w]] = Nobody
  /\ owner' = [owner EXCEPT ![term[w]] = w]
  /\ path' = [path EXCEPT ![w] = term[w]]
  /\ disturbed' = disturbed \ {term[w]}
  /\ Goto(w, "init")
  /\ UNCHANGED <<terminal, files, kind, account, term, proc, faults, crossed>>

Leave(w, s) == /\ Goto(w, s)
               /\ kind' = [kind EXCEPT ![w] = "sync"]
               /\ account' = [account EXCEPT ![w] = NoAccount]
               /\ term' = [term EXCEPT ![w] = NoTerminal]

\* A verify that misses the lock ends in a forced shutdown like any that fails.
LockTimeout(w) ==
  /\ pc[w] = "lock" /\ owner[term[w]] # Nobody
  /\ Leave(w, IF kind[w] = "verify" THEN "drop" ELSE "idle")
  /\ UNCHANGED <<owner, terminal, files, path, proc, faults, history>>
-----------------------------------------------------------------------------
(* initialize *)

\* _terminal_process_running: a terminal started through schtasks, or found
\* running once, counts as running until a forced shutdown.
Running(w) == proc[w] \/ on[term[w]]

AskWarm(w) ==
  /\ pc[w] = "init" /\ Running(w)
  /\ Ask(w, "verify")
  /\ Goto(w, "warm")
  /\ UNCHANGED <<owner, on, acct, jobs>>

\* Nothing runs, or the request could not be written.
SkipWarm(w) ==
  /\ pc[w] = "init"
  /\ \/ ~Running(w) /\ UNCHANGED files /\ NoFault
     \/ Running(w) /\ CannotAsk(w)
  /\ Goto(w, "launch")
  /\ UNCHANGED <<owner, terminal, jobs, history>>

AskCold(w) ==
  /\ pc[w] = "launch"
  /\ Ask(w, "verify")
  /\ Goto(w, "kill")
  /\ UNCHANGED <<owner, on, acct, jobs>>

CannotAskCold(w) ==
  /\ pc[w] = "launch" /\ CannotAsk(w)
  /\ Goto(w, "failed")
  /\ UNCHANGED <<owner, terminal, jobs, history>>

\* _kill_stale_terminals and the launch with login.ini; the broker may refuse.
Launch(w) ==
  /\ pc[w] = "kill"
  /\ on' = [t \in Terminals |-> t = term[w]]
  /\ \E a \in {account[w], NoAccount} :
       acct' = [t \in Terminals |-> IF t = term[w] THEN a ELSE NoAccount]
  /\ ea' = [t \in Terminals |-> NoAnswering]
  /\ disturbed' = LET ts == disturbed \cup Others(w)
                  IN IF resp[term[w]] = NoFile THEN ts \ {term[w]} ELSE ts \cup {term[w]}
  /\ proc' = [proc EXCEPT ![w] = TRUE]
  /\ Goto(w, "cold")
  /\ UNCHANGED <<owner, files, kind, account, term, path, faults, crossed>>

LaunchFails(w) ==
  /\ pc[w] = "kill" /\ Fault
  /\ KillAll
  /\ disturbed' = disturbed \cup Others(w)
  /\ Goto(w, "failed")
  /\ UNCHANGED <<owner, files, jobs, crossed>>

\* What _wait_response leaves of the file it has read.
Taken(t) == \/ resp' = [resp EXCEPT ![t] = NoFile] /\ NoFault
            \/ Fault /\ UNCHANGED resp

AnyLogin(w, answer) == answer.ok   \* mutant: the login is not compared

\* _verify_payload_ok.
Verified(w, answer) == answer.ok /\ answer.login = account[w]
AfterLogin(w) == IF kind[w] = "verify" THEN "good" ELSE "history"

TakeVerify(w) ==
  LET t == term[w] IN
  /\ pc[w] \in {"warm", "cold"} /\ resp[t] # NoFile
  /\ Taken(t)
  /\ IF Verified(w, resp[t])
     THEN Goto(w, AfterLogin(w)) /\ proc' = [proc EXCEPT ![w] = TRUE]
     ELSE Goto(w, IF pc[w] = "warm" THEN "launch" ELSE "failed") /\ UNCHANGED proc
  /\ UNCHANGED <<owner, terminal, req, kind, account, term, path, history>>

\* No answer will come, or the advisor waits longer for its connection.
Hopeless(t) == \/ ~on[t]
               \/ req[t] = NoFile /\ ea[t] = NoAnswering
               \/ acct[t] = NoAccount

WaitForever(w) ==   \* mutant: the deadline is not looked at
  /\ pc[w] \in {"warm", "cold", "wait"} /\ resp[term[w]] = NoFile
  /\ UNCHANGED vars

\* _wait_response gives up, without an answer or too early for it.
WaitTimeout(w) ==
  /\ pc[w] \in {"warm", "cold", "wait"} /\ resp[term[w]] = NoFile
  /\ IF Hopeless(term[w]) THEN NoFault ELSE Fault
  /\ \/ pc[w] = "warm" /\ Goto(w, "launch")
     \/ pc[w] = "cold" /\ Goto(w, "failed")
     \/ pc[w] = "wait" /\ \E s \in {"history", "good"} : Goto(w, s)
  /\ UNCHANGED <<owner, terminal, files, jobs, history>>
-----------------------------------------------------------------------------
(* history_deals: one request per chunk of 90 days *)

AskHistory(w) ==
  /\ pc[w] = "history"
  /\ Ask(w, "history")
  /\ Goto(w, "wait")
  /\ UNCHANGED <<owner, on, acct, jobs>>

\* The chunk counts as one without deals.
CannotAskHistory(w) ==
  /\ pc[w] = "history" /\ CannotAsk(w)
  /\ \E s \in {"history", "good"} : Goto(w, s)
  /\ UNCHANGED <<owner, terminal, jobs, history>>

\* Whatever the answer is; without `deals` it counts as a chunk without deals.
TakeHistory(w) ==
  /\ pc[w] = "wait" /\ resp[term[w]] # NoFile
  /\ Taken(term[w])
  /\ \E s \in {"history", "good"} : Goto(w, s)
  /\ UNCHANGED <<owner, terminal, req, jobs, history>>
-----------------------------------------------------------------------------
(* The end of the job *)

ClearFiles(t) ==
  /\ req' = [req EXCEPT ![t] = NoFile]
  /\ \/ resp' = [resp EXCEPT ![t] = NoFile] /\ NoFault
     \/ resp[t] # NoFile /\ Fault /\ UNCHANGED resp

\* shutdown(force=False) and the release.  A verify goes on to its sync; a sync
\* without trades, or whose writes fail, ends in a forced shutdown.
Finish(w) ==
  /\ pc[w] = "good"
  /\ ClearFiles(term[w])
  /\ owner' = [owner EXCEPT ![term[w]] = Nobody]
  /\ \/ /\ kind[w] = "verify" /\ Goto(w, "lock")
        /\ kind' = [kind EXCEPT ![w] = "sync"] /\ UNCHANGED <<account, term>>
     \/ kind[w] = "sync" /\ \E s \in {"idle", "drop"} : Leave(w, s)
  /\ UNCHANGED <<terminal, path, proc, history>>

\* shutdown(force=True) under the lock, and the release.
FinishFailed(w) ==
  /\ pc[w] = "failed"
  /\ ClearFiles(term[w]) /\ KillAll
  /\ disturbed' = disturbed \cup Others(w)
  /\ owner' = [owner EXCEPT ![term[w]] = Nobody]
  /\ proc' = [proc EXCEPT ![w] = FALSE]
  /\ Leave(w, "drop")
  /\ UNCHANGED <<path, crossed>>

\* run_worker's shutdown(force=True), without the lock.
ForcedShutdown(w) ==
  /\ pc[w] = "drop"
  /\ IF path[w] = NoTerminal THEN UNCHANGED files /\ NoFault ELSE ClearFiles(path[w])
  /\ KillAll
  /\ disturbed' = disturbed \cup Others(w)
  /\ proc' = [proc EXCEPT ![w] = FALSE]
  /\ Goto(w, "idle")
  /\ UNCHANGED <<owner, kind, account, term, path, crossed>>
-----------------------------------------------------------------------------
(* The advisor: HandleRequest *)

EaRead(t) ==
  /\ on[t] /\ ea[t] = NoAnswering /\ req[t] # NoFile
  /\ ea' = [ea EXCEPT ![t] = [req |-> req[t], wrote |-> FALSE]]
  /\ UNCHANGED <<owner, on, acct, files, worker, faults, history>>

EaWrite(t) ==
  /\ ea[t] # NoAnswering /\ ~ea[t].wrote
  /\ resp' = [resp EXCEPT ![t] = Answer(t)]
  /\ ea' = [ea EXCEPT ![t].wrote = TRUE]
  /\ UNCHANGED <<owner, on, acct, req, worker, faults, history>>

EaGivesUp(t) ==   \* mutant: the request is deleted all the same
  /\ ea[t] # NoAnswering /\ ~ea[t].wrote /\ Fault
  /\ req' = [req EXCEPT ![t] = NoFile]
  /\ ea' = [ea EXCEPT ![t] = NoAnswering]
  /\ UNCHANGED <<owner, on, acct, resp, worker, history>>

\* The response cannot be opened: the request stays for the next time.
EaWriteFails(t) ==
  /\ ea[t] # NoAnswering /\ ~ea[t].wrote /\ Fault
  /\ ea' = [ea EXCEPT ![t] = NoAnswering]
  /\ UNCHANGED <<owner, on, acct, files, worker, history>>

\* FileDelete(RequestFile), by now perhaps another request.
EaDelete(t) ==
  /\ ea[t].wrote
  /\ req' = [req EXCEPT ![t] = NoFile]
  /\ ea' = [ea EXCEPT ![t] = NoAnswering]
  /\ disturbed' = IF ea[t].req.old THEN disturbed \cup {t} ELSE disturbed
  /\ UNCHANGED <<owner, on, acct, resp, worker, faults, crossed>>
-----------------------------------------------------------------------------
Working(w) ==
  \/ Acquire(w) \/ LockTimeout(w) \/ AskWarm(w) \/ SkipWarm(w) \/ AskCold(w)
  \/ CannotAskCold(w) \/ Launch(w) \/ LaunchFails(w) \/ TakeVerify(w) \/ WaitTimeout(w)
  \/ AskHistory(w) \/ CannotAskHistory(w) \/ TakeHistory(w)
  \/ Finish(w) \/ FinishFailed(w) \/ ForcedShutdown(w)
Advisor(t) == EaRead(t) \/ EaWrite(t) \/ EaWriteFails(t) \/ EaDelete(t)

Next == \/ \E w \in Workers : Working(w)
        \/ \E w \in Workers, k \in {"verify", "sync"}, a \in Accounts, t \in Terminals :
             Claim(w, k, a, t)
        \/ \E t \in Terminals : Advisor(t)

Spec == Init /\ [][Next]_vars

\* The last chunk of the range that a history covers.
LastChunk(w) == pc[w] = "wait" /\ (TakeHistory(w) \/ WaitTimeout(w)) /\ pc'[w] = "good"

\* Waits have deadlines; a range has finitely many chunks; a terminal that runs
\* calls its advisor on a timer.
FairSpec == /\ Spec
            /\ \A w \in Workers : WF_vars(Working(w)) /\ SF_vars(LastChunk(w))
            /\ \A t \in Terminals : WF_vars(Advisor(t))
-----------------------------------------------------------------------------
(* Properties *)

Waiting(w) == pc[w] \in {"warm", "cold", "wait"}

\* No request is answered by the response to an older one, though nobody
\* compares ids, unless it was written while the advisor was still at the older
\* one, or a file could not be removed.
AnswersAreFresh ==
  \A w \in Workers : Waiting(w) /\ resp[term[w]] # NoFile =>
    ~resp[term[w]].old \/ term[w] \in crossed

\* A job that pulls a history has before it a terminal that is logged in to its
\* account, though the terminal changed hands between jobs and an answer to an older
\* login may have come last; unless it was disturbed: by another worker's shutdown,
\* by a login that was judged by a response which could not be removed, or by that
\* of the terminal that was killed.
HistoryIsOwn ==
  \A w \in Workers : pc[w] \in {"history", "wait"} /\ term[w] \notin disturbed =>
    on[term[w]] /\ acct[term[w]] = account[w]

\* A history request that nobody will answer any more, and which then counts as a
\* chunk without deals, was disturbed: as above, or by the deletion of a request
\* that came after the one answered.
UnansweredIsDisturbed ==
  \A w \in Workers :
    pc[w] = "wait" /\ resp[term[w]] = NoFile /\ term[w] \notin disturbed =>
      req[term[w]] # NoFile \/ ea[term[w]] # NoAnswering

\* Every job ends, whatever has become of the terminal it waits for.
JobsEnd == \A w \in Workers : pc[w] # "idle" ~> pc[w] = "idle"
=============================================================================
