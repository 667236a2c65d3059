---------------------------- MODULE Mt4IpcProofs ----------------------------
(***************************************************************************)
(* Proofs about Mt4Ipc, for any number of workers, terminals and accounts  *)
(* and any number of faults.                                               *)
(***************************************************************************)
EXTENDS Mt4Ipc, TLAPS

USE DEF files, worker, terminal, jobs, history, Goto, Fault, NoFault
-----------------------------------------------------------------------------
(* Types *)

Answering == [req : Request, wrote : BOOLEAN]

HostTypes ==
  /\ owner \in [Terminals -> Workers \cup {Nobody}]
  /\ on \in [Terminals -> BOOLEAN] /\ acct \in [Terminals -> Accounts \cup {NoAccount}]

FileKinds ==
  /\ req \in [Terminals -> Request \cup {NoFile}]
  /\ resp \in [Terminals -> Response \cup {NoFile}]
  /\ ea \in [Terminals -> Answering \cup {NoAnswering}]

FileTypes ==
  /\ FileKinds
  /\ crossed \subseteq Terminals /\ disturbed \subseteq Terminals
  /\ faults \in 0..MaxFaults

JobTypes ==
  /\ pc \in [Workers -> {"idle", "lock", "drop"} \cup Inside]
  /\ kind \in [Workers -> {"verify", "sync"}]
  /\ account \in [Workers -> Accounts \cup {NoAccount}]
  /\ term \in [Workers -> Terminals \cup {NoTerminal}]
  /\ path \in [Workers -> Terminals \cup {NoTerminal}] /\ proc \in [Workers -> BOOLEAN]

\* A job in hand has a terminal and an account, and the lock while it drives it.
Holds(w) ==
  /\ pc[w] \in {"lock"} \cup Inside => term[w] \in Terminals /\ account[w] \in Accounts
  /\ pc[w] \in Inside => owner[term[w]] = w

OffIsSilent(t) == ~on[t] => ea[t] = NoAnswering

Types == /\ HostTypes /\ FileTypes /\ JobTypes
         /\ \A w \in Workers : Holds(w)
         /\ \A t \in Terminals : OffIsSilent(t)

LEMMA TypesGiveTypeOK == Types => TypeOK
  BY DEF Types, HostTypes, FileTypes, FileKinds, JobTypes, Holds, OffIsSilent, TypeOK, Answering

LEMMA TypesInit == Init => Types
<1> SUFFICES ASSUME Init PROVE Types
  OBVIOUS
<1>1. HostTypes /\ JobTypes
  BY DEF Init, HostTypes, JobTypes
<1>2. FileTypes
  BY FaultsAssumption DEF Init, FileTypes, FileKinds
<1> QED
  BY <1>1, <1>2 DEF Init, Types, Holds, OffIsSilent, Inside

LEMMA Aged ==
  /\ AgeFile(NoFile) = NoFile
  /\ \A f \in Request \cup {NoFile} : AgeFile(f) \in Request \cup {NoFile}
  /\ \A f \in Request : AgeFile(f) \in Request /\ AgeFile(f) # NoFile /\ AgeFile(f).old
  /\ \A f \in Response : /\ AgeFile(f) \in Response /\ AgeFile(f) # NoFile
                         /\ AgeFile(f).login = f.login /\ AgeFile(f).ok = f.ok
  BY NoFileAssumption DEF AgeFile, Request, Response

LEMMA AnswerTypes ==
  ASSUME HostTypes, FileTypes, NEW t \in Terminals, ea[t] # NoAnswering
  PROVE  /\ Answer(t) \in Response /\ ea[t] \in Answering
         /\ Answer(t).login = acct[t] /\ Answer(t).old = ea[t].req.old
<1>1. ea[t] \in Answering
  BY DEF FileTypes, FileKinds
<1>2. acct[t] \in Accounts \cup {NoAccount}
  BY DEF HostTypes
<1> QED
  BY <1>1, <1>2 DEF Answer, Answering, Request, Response

\* The advisor whose request has aged.
LEMMA AgedAdvisor ==
  ASSUME FileTypes, NEW t \in Terminals
  PROVE  /\ [ea EXCEPT ![t].req = AgeFile(@)] \in [Terminals -> Answering \cup {NoAnswering}]
         /\ ea[t] = NoAnswering => [ea EXCEPT ![t].req = AgeFile(@)] = ea
         /\ ea[t] # NoAnswering => /\ [ea EXCEPT ![t].req = AgeFile(@)][t] # NoAnswering
                                   /\ [ea EXCEPT ![t].req = AgeFile(@)][t].req.old
<1> DEFINE x == [ea[t] EXCEPT !.req = AgeFile(@)]
<1>1. [ea EXCEPT ![t].req = AgeFile(@)] = [ea EXCEPT ![t] = x]
  OBVIOUS
<1>2. ea \in [Terminals -> Answering \cup {NoAnswering}]
  BY DEF FileTypes, FileKinds
<1>3. CASE ea[t] = NoAnswering
  <2>1. x = NoAnswering
    <3>1. AgeFile(ea[t].req) = NoFile
      BY <1>3, Aged DEF NoAnswering
    <3>2. x = [NoAnswering EXCEPT !.req = NoFile]
      BY <1>3, <3>1
    <3>3. [NoAnswering EXCEPT !.req = NoFile] = NoAnswering
      <4>1. \A b : [[req |-> NoFile, wrote |-> b] EXCEPT !.req = NoFile]
                      = [req |-> NoFile, wrote |-> b]
        OBVIOUS
      <4> QED
        BY <4>1, Zenon DEF NoAnswering
    <3> QED
      BY <3>2, <3>3
  <2> QED
    BY <1>1, <1>2, <1>3, <2>1
<1>4. CASE ea[t] # NoAnswering
  <2>1. ea[t] \in Answering
    BY <1>2, <1>4
  <2>2. x \in Answering /\ x.req.old /\ x # NoAnswering
    BY <2>1, Aged DEF Answering, NoAnswering
  <2> QED
    BY <1>1, <1>2, <1>4, <2>2
<1> QED
  BY <1>3, <1>4
-----------------------------------------------------------------------------
(* What a step does to the files and to the advisor *)

\* A request by w on its terminal t: the response that was there is gone, or is the
\* advisor's answer on the account of the terminal, or is known to be left over.
Asked(w, t) ==
  /\ \E r \in Request : ~r.old /\ req' = [req EXCEPT ![t] = r]
  /\ resp'[t] # NoFile => /\ t \notin disturbed' => on[t] /\ resp'[t].login = acct[t]
                          /\ resp'[t].old => t \in crossed'
  /\ ea'[t] # NoAnswering => on[t] /\ ea'[t].req.old /\ t \in crossed'
  /\ \A x \in Terminals : x # t =>
       /\ resp'[x] = resp[x] /\ ea'[x] = ea[x]
       /\ x \in crossed' <=> x \in crossed
       /\ x \in disturbed' <=> x \in disturbed
  /\ UNCHANGED <<on, acct, owner, jobs>>

\* A step that at most takes files and answers away.
Clears ==
  /\ FileKinds' /\ crossed' = crossed
  /\ \A t \in Terminals : /\ req'[t] \in {req[t], NoFile}
                          /\ resp'[t] \in {resp[t], NoFile}
                          /\ ea'[t] \in {ea[t], NoAnswering}

LEMMA AskFacts ==
  ASSUME Types, NEW w \in Workers, pc[w] \in Inside, NEW action \in Actions,
         Ask(w, action), UNCHANGED <<on, acct, owner, jobs>>
  PROVE  Asked(w, term[w]) /\ FileTypes'
<1> DEFINE t == term[w]
           aged == [ea EXCEPT ![t].req = AgeFile(@)]
           r == [action |-> action, account |-> account[w], old |-> FALSE]
<1>0. /\ HostTypes /\ FileTypes /\ JobTypes /\ Holds(w) /\ OffIsSilent(t)
  BY DEF Types, OffIsSilent, Holds
<1>1. t \in Terminals /\ account[w] \in Accounts
  BY <1>0 DEF Holds
<1>2. r \in Request /\ ~r.old
  BY <1>1 DEF Request
<1>3. req' = [req EXCEPT ![t] = r]
  BY DEF Ask
<1>4. req' \in [Terminals -> Request \cup {NoFile}]
  BY <1>0, <1>2, <1>3 DEF FileTypes, FileKinds
<1>a. /\ aged \in [Terminals -> Answering \cup {NoAnswering}]
      /\ ea[t] = NoAnswering => aged = ea
      /\ ea[t] # NoAnswering => aged[t] # NoAnswering /\ aged[t].req.old
      /\ \A x \in Terminals : x # t => aged[x] = ea[x]
  BY <1>0, <1>1, AgedAdvisor DEF FileTypes, FileKinds
<1>b. ea[t] # NoAnswering => on[t]
  BY <1>0 DEF OffIsSilent
<1> HIDE DEF t, aged, r
<1>5. CASE /\ resp' = [resp EXCEPT ![t] = AgeFile(Cleared(t))]
           /\ ea' = aged
           /\ crossed' = IF ea[t] = NoAnswering THEN crossed \ {t} ELSE crossed \cup {t}
           /\ UNCHANGED <<disturbed, faults>>
  <2>1. resp' = [resp EXCEPT ![t] = NoFile]
    BY <1>5, Aged DEF Cleared
  <2>2. FileTypes'
    BY <1>0, <1>1, <1>4, <1>5, <1>a, <2>1 DEF FileTypes, FileKinds
  <2>3. resp'[t] = NoFile /\ \A x \in Terminals : x # t => resp'[x] = resp[x]
    BY <1>0, <1>1, <2>1 DEF FileTypes, FileKinds
  <2>4. Asked(w, t)
    BY <1>1, <1>2, <1>3, <1>5, <1>a, <1>b, <2>3 DEF Asked
  <2> QED
    BY <2>2, <2>4 DEF t
<1>6. CASE /\ ea[t] # NoAnswering /\ ~ea[t].wrote
           /\ resp' = [resp EXCEPT ![t] = AgeFile(Answer(t))]
           /\ ea' = [ea EXCEPT ![t] = NoAnswering]
           /\ crossed' = crossed \cup {t}
           /\ UNCHANGED <<disturbed, faults>>
  <2>1. AgeFile(Answer(t)) \in Response /\ AgeFile(Answer(t)).login = acct[t]
    BY <1>0, <1>1, <1>6, AnswerTypes, Aged
  <2>2. FileTypes'
    BY <1>0, <1>1, <1>4, <1>6, <2>1 DEF FileTypes, FileKinds
  <2>3. /\ resp'[t].login = acct[t] /\ ea'[t] = NoAnswering
        /\ \A x \in Terminals : x # t => resp'[x] = resp[x] /\ ea'[x] = ea[x]
    BY <1>0, <1>1, <1>6, <2>1 DEF FileTypes, FileKinds
  <2>4. Asked(w, t)
    BY <1>1, <1>2, <1>3, <1>6, <1>b, <2>3 DEF Asked
  <2> QED
    BY <2>2, <2>4 DEF t
<1>7. CASE /\ resp[t] # NoFile /\ Fault
           /\ resp' = [resp EXCEPT ![t] = AgeFile(@)]
           /\ ea' = aged
           /\ crossed' = crossed \cup {t} /\ disturbed' = disturbed \cup {t}
  <2>1. AgeFile(resp[t]) \in Response
    BY <1>0, <1>1, <1>7, Aged DEF FileTypes, FileKinds
  <2>5. resp' = [resp EXCEPT ![t] = AgeFile(resp[t])]
    BY <1>7
  <2>6. resp' \in [Terminals -> Response \cup {NoFile}]
    BY <1>0, <2>1, <2>5 DEF FileTypes, FileKinds
  <2>7. faults' \in 0..MaxFaults
    BY <1>0, <1>7, FaultsAssumption DEF FileTypes, FileKinds
  <2>2. FileTypes'
    BY <1>0, <1>1, <1>4, <1>7, <1>a, <2>6, <2>7 DEF FileTypes, FileKinds
  <2>3. \A x \in Terminals : x # t => resp'[x] = resp[x]
    BY <1>0, <1>1, <1>7 DEF FileTypes, FileKinds
  <2>4. Asked(w, t)
    BY <1>1, <1>2, <1>3, <1>7, <1>a, <1>b, <2>3 DEF Asked
  <2> QED
    BY <2>2, <2>4 DEF t
<1> QED
  BY <1>5, <1>6, <1>7 DEF Ask, t, aged

LEMMA Moves ==
  ASSUME Types, [Next]_vars
  PROVE  \/ Clears
         \/ \E w \in Workers, action \in Actions :
              pc[w] \in Inside /\ Ask(w, action) /\ UNCHANGED <<on, acct, owner, jobs>>
         \/ \E t \in Terminals : EaRead(t) \/ EaWrite(t)
<1>0. /\ req \in [Terminals -> Request \cup {NoFile}]
      /\ resp \in [Terminals -> Response \cup {NoFile}]
      /\ ea \in [Terminals -> Answering \cup {NoAnswering}]
  BY DEF Types, FileTypes, FileKinds
<1>f. ASSUME UNCHANGED <<crossed, ea>>, req' = req \/ \E t : req' = [req EXCEPT ![t] = NoFile],
             resp' = resp \/ \E t : resp' = [resp EXCEPT ![t] = NoFile]
      PROVE  Clears
  BY <1>0, <1>f DEF Clears, FileKinds
<1>k. ASSUME UNCHANGED crossed, ea' = [t \in Terminals |-> NoAnswering],
             req' = req \/ \E t : req' = [req EXCEPT ![t] = NoFile],
             resp' = resp \/ \E t : resp' = [resp EXCEPT ![t] = NoFile]
      PROVE  Clears
  BY <1>0, <1>k DEF Clears, FileKinds
<1>u. CASE UNCHANGED vars
  BY <1>u, <1>f DEF vars
<1>c. CASE \E w \in Workers, k \in {"verify", "sync"}, a \in Accounts, t \in Terminals :
             Claim(w, k, a, t)
  BY <1>c, <1>f DEF Claim
<1>e. ASSUME NEW t \in Terminals, EaWriteFails(t) \/ EaDelete(t) PROVE Clears
  <2>1. crossed' = crossed /\ resp' = resp /\ ea' = [ea EXCEPT ![t] = NoAnswering]
        /\ (req' = req \/ req' = [req EXCEPT ![t] = NoFile])
    BY <1>e DEF EaWriteFails, EaDelete
  <2> QED
    BY <1>0, <2>1 DEF Clears, FileKinds
<1>w. ASSUME NEW w \in Workers, Working(w)
      PROVE  Clears \/ \E action \in Actions :
                         pc[w] \in Inside /\ Ask(w, action) /\ UNCHANGED <<on, acct, owner, jobs>>
  <2>1. CASE AskWarm(w) \/ AskCold(w) \/ AskHistory(w)
    BY <2>1 DEF AskWarm, AskCold, AskHistory, Actions, Inside
  <2>2. CASE Acquire(w) \/ LockTimeout(w) \/ WaitTimeout(w)
    BY <2>2, <1>f DEF Acquire, LockTimeout, WaitTimeout
  <2>3. CASE SkipWarm(w) \/ CannotAskCold(w) \/ CannotAskHistory(w)
    BY <2>3, <1>f DEF SkipWarm, CannotAskCold, CannotAskHistory, CannotAsk
  <2>4. CASE Launch(w) \/ LaunchFails(w)
    BY <2>4, <1>k DEF Launch, LaunchFails, KillAll
  <2>5. CASE TakeVerify(w) \/ TakeHistory(w)
    BY <2>5, <1>f DEF TakeVerify, TakeHistory, Taken
  <2>6. CASE Finish(w)
    BY <2>6, <1>f DEF Finish, ClearFiles
  <2>7. CASE FinishFailed(w)
    BY <2>7, <1>k DEF FinishFailed, ClearFiles, KillAll
  <2>8. CASE ForcedShutdown(w)
    BY <2>8, <1>k DEF ForcedShutdown, ClearFiles, KillAll
  <2> QED
    BY <1>w, <2>1, <2>2, <2>3, <2>4, <2>5, <2>6, <2>7, <2>8 DEF Working
<1> QED
  BY <1>u, <1>c, <1>e, <1>w DEF Next, Advisor

LEMMA Counters ==
  ASSUME Types, [Next]_vars
  PROVE  faults' \in 0..MaxFaults /\ disturbed' \subseteq Terminals
<1>0. /\ faults \in 0..MaxFaults /\ disturbed \subseteq Terminals
      /\ \A w \in Workers : Holds(w) /\ Others(w) \subseteq Terminals
  BY DEF Types, FileTypes, FileKinds, Others
<1>1. ASSUME NEW w \in Workers, Working(w)
      PROVE  (faults' = faults \/ Fault) /\ disturbed' \subseteq Terminals
  <2>1. CASE AskWarm(w) \/ AskCold(w) \/ AskHistory(w)
    <3>1. term[w] \in Terminals
      BY <1>0, <2>1 DEF AskWarm, AskCold, AskHistory, Holds, Inside
    <3>2. \E action : Ask(w, action)
      BY <2>1 DEF AskWarm, AskCold, AskHistory
    <3> QED
      BY <1>0, <3>1, <3>2 DEF Ask
  <2>2. CASE Acquire(w) \/ LockTimeout(w) \/ WaitTimeout(w)
    BY <1>0, <2>2 DEF Acquire, LockTimeout, WaitTimeout
  <2>3. CASE SkipWarm(w) \/ CannotAskCold(w) \/ CannotAskHistory(w)
    BY <1>0, <2>3 DEF SkipWarm, CannotAskCold, CannotAskHistory, CannotAsk
  <2>4. CASE Launch(w) \/ LaunchFails(w)
    <3>1. term[w] \in Terminals
      BY <1>0, <2>4 DEF Launch, LaunchFails, Holds, Inside
    <3> QED
      BY <1>0, <2>4, <3>1 DEF Launch, LaunchFails
  <2>5. CASE TakeVerify(w) \/ TakeHistory(w)
    BY <1>0, <2>5 DEF TakeVerify, TakeHistory, Taken
  <2>6. CASE Finish(w) \/ FinishFailed(w) \/ ForcedShutdown(w)
    BY <1>0, <2>6 DEF Finish, FinishFailed, ForcedShutdown, ClearFiles
  <2> QED
    BY <1>1, <2>1, <2>2, <2>3, <2>4, <2>5, <2>6 DEF Working
<1>2. ASSUME NEW t \in Terminals, Advisor(t)
      PROVE  (faults' = faults \/ Fault) /\ disturbed' \subseteq Terminals
  BY <1>0, <1>2 DEF Advisor, EaRead, EaWrite, EaWriteFails, EaDelete
<1>3. (faults' = faults \/ Fault) /\ disturbed' \subseteq Terminals
  BY <1>0, <1>1, <1>2 DEF Next, vars, Claim
<1> QED
  BY <1>0, <1>3, FaultsAssumption

LEMMA FileStep == Types /\ [Next]_vars => FileTypes'
<1> SUFFICES ASSUME Types, [Next]_vars PROVE FileTypes'
  OBVIOUS
<1>0. HostTypes /\ FileTypes
  BY DEF Types
<1>1. CASE Clears
  BY <1>0, <1>1, Counters DEF Clears, FileTypes
<1>2. CASE \E w \in Workers, action \in Actions :
             pc[w] \in Inside /\ Ask(w, action) /\ UNCHANGED <<on, acct, owner, jobs>>
  BY <1>2, AskFacts
<1>3. ASSUME NEW t \in Terminals, EaRead(t) \/ EaWrite(t) PROVE FileTypes'
  <2>1. CASE EaRead(t)
    <3>1. req[t] \in Request /\ ea' = [ea EXCEPT ![t] = [req |-> req[t], wrote |-> FALSE]]
      BY <1>0, <2>1 DEF EaRead, FileTypes, FileKinds
    <3>2. [req |-> req[t], wrote |-> FALSE] \in Answering
      BY <3>1 DEF Answering
    <3> QED
      BY <1>0, <2>1, <3>1, <3>2 DEF EaRead, FileTypes, FileKinds
  <2>2. CASE EaWrite(t)
    <3>1. Answer(t) \in Response /\ ea[t] \in Answering
      BY <1>0, <2>2, AnswerTypes DEF EaWrite
    <3>2. [ea[t] EXCEPT !.wrote = TRUE] \in Answering
      BY <3>1 DEF Answering
    <3>3. ea' = [ea EXCEPT ![t] = [ea[t] EXCEPT !.wrote = TRUE]]
      BY <2>2 DEF EaWrite
    <3> QED
      BY <1>0, <2>2, <3>1, <3>2, <3>3 DEF EaWrite, FileTypes, FileKinds
  <2> QED
    BY <1>3, <2>1, <2>2
<1> QED
  BY <1>1, <1>2, <1>3, Moves

\* The locks, the terminals and the jobs.
LEMMA JobStep == Types /\ [Next]_vars => HostTypes' /\ JobTypes' /\ \A w \in Workers : Holds(w)'
<1> SUFFICES ASSUME Types, [Next]_vars
             PROVE  HostTypes' /\ JobTypes' /\ \A w \in Workers : Holds(w)'
  OBVIOUS
<1> DEFINE Goal == HostTypes' /\ JobTypes' /\ \A w \in Workers : Holds(w)'
<1>0. HostTypes /\ JobTypes /\ \A w \in Workers : Holds(w)
  BY DEF Types
<1> USE NullsAssumption DEF HostTypes, JobTypes, Holds, Inside
<1>1. CASE UNCHANGED <<owner, on, acct, worker>>
  BY <1>0, <1>1
\* A step of w within the critical section.
<1>2. ASSUME NEW w \in Workers, pc[w] \in Inside, NEW s \in Inside, Goto(w, s),
             UNCHANGED <<owner, kind, account, term, path>>, proc' \in [Workers -> BOOLEAN],
             on' \in [Terminals -> BOOLEAN], acct' \in [Terminals -> Accounts \cup {NoAccount}]
      PROVE  Goal
  <2>1. HostTypes' /\ JobTypes'
    BY <1>0, <1>2
  <2> QED
    BY <1>0, <1>2, <2>1
<1>u. CASE UNCHANGED vars
  BY <1>1, <1>u DEF vars
<1>e. CASE \E t \in Terminals : Advisor(t)
  BY <1>1, <1>e DEF Advisor, EaRead, EaWrite, EaWriteFails, EaDelete
<1>c. ASSUME NEW w \in Workers, NEW k \in {"verify", "sync"}, NEW a \in Accounts,
             NEW t \in Terminals, Claim(w, k, a, t)
      PROVE  Goal
  <2>1. HostTypes' /\ JobTypes'
    BY <1>0, <1>c DEF Claim
  <2>2. ASSUME NEW v \in Workers PROVE Holds(v)'
    BY <1>0, <1>c DEF Claim
  <2> QED
    BY <2>1, <2>2
<1>w. ASSUME NEW w \in Workers, Working(w) PROVE Goal
  <2>1. CASE Acquire(w)
    <3>1. HostTypes' /\ JobTypes'
      BY <1>0, <2>1 DEF Acquire
    <3>2. term[w] \in Terminals /\ owner[term[w]] = Nobody /\ owner' = [owner EXCEPT ![term[w]] = w]
          /\ pc[w] = "lock" /\ pc' = [pc EXCEPT ![w] = "init"] /\ UNCHANGED <<term, account>>
      BY <1>0, <2>1 DEF Acquire
    <3>3. ASSUME NEW v \in Workers PROVE Holds(v)'
      BY <1>0, <3>2
    <3> QED
      BY <3>1, <3>3
  <2>2. CASE LockTimeout(w)
    <3>1. PICK s \in {"drop", "idle"} : Leave(w, s)
      BY <2>2 DEF LockTimeout
    <3>2. HostTypes' /\ JobTypes'
      BY <1>0, <2>2, <3>1 DEF LockTimeout, Leave
    <3>3. ASSUME NEW v \in Workers PROVE Holds(v)'
      BY <1>0, <2>2, <3>1 DEF LockTimeout, Leave
    <3> QED
      BY <3>2, <3>3
  <2>3. CASE AskWarm(w) \/ AskCold(w) \/ AskHistory(w) \/ SkipWarm(w) \/ CannotAskCold(w)
             \/ CannotAskHistory(w) \/ TakeHistory(w)
    <3>1. pc[w] \in Inside /\ \E s \in Inside : Goto(w, s)
      BY <2>3 DEF AskWarm, AskCold, AskHistory, SkipWarm, CannotAskCold, CannotAskHistory,
                  TakeHistory
    <3> QED
      BY <1>0, <1>2, <2>3, <3>1 DEF AskWarm, AskCold, AskHistory, SkipWarm, CannotAskCold,
                                    CannotAskHistory, TakeHistory
  <2>4. CASE WaitTimeout(w)
    <3>1. pc[w] \in Inside /\ \E s \in Inside : Goto(w, s)
      BY <2>4 DEF WaitTimeout
    <3> QED
      BY <1>0, <1>2, <2>4, <3>1 DEF WaitTimeout
  <2>5. CASE Launch(w)
    <3>1. account[w] \in Accounts /\ pc[w] \in Inside
      BY <1>0, <2>5 DEF Launch
    <3>2. on' \in [Terminals -> BOOLEAN] /\ proc' \in [Workers -> BOOLEAN]
      BY <1>0, <2>5 DEF Launch
    <3>3. acct' \in [Terminals -> Accounts \cup {NoAccount}]
      BY <3>1, <2>5 DEF Launch
    <3> QED
      BY <1>2, <2>5, <3>1, <3>2, <3>3 DEF Launch
  <2>6. CASE LaunchFails(w)
    BY <1>0, <1>2, <2>6 DEF LaunchFails, KillAll
  <2>7. CASE TakeVerify(w)
    <3>1. pc[w] \in Inside /\ \E s \in Inside : Goto(w, s)
      BY <2>7 DEF TakeVerify, AfterLogin
    <3>2. proc' \in [Workers -> BOOLEAN]
      <4>1. proc' = proc \/ proc' = [proc EXCEPT ![w] = TRUE]
        BY <2>7, Zenon DEF TakeVerify
      <4> QED
        BY <1>0, <4>1
    <3>3. UNCHANGED <<owner, kind, account, term, path, on, acct>>
      BY <2>7, Zenon DEF TakeVerify
    <3>4. on' \in [Terminals -> BOOLEAN] /\ acct' \in [Terminals -> Accounts \cup {NoAccount}]
      BY <1>0, <3>3
    <3> QED
      BY <1>2, <3>1, <3>2, <3>3, <3>4
  <2>8. CASE Finish(w) \/ FinishFailed(w)
    <3>1. /\ pc[w] \in Inside /\ owner' = [owner EXCEPT ![term[w]] = Nobody]
          /\ path' = path /\ (proc' = proc \/ proc' = [proc EXCEPT ![w] = FALSE])
          /\ (on' = on /\ acct' = acct) \/ KillAll
          /\ \/ \E s \in {"idle", "drop"} : Leave(w, s)
             \/ Goto(w, "lock") /\ kind' = [kind EXCEPT ![w] = "sync"] /\ UNCHANGED <<account, term>>
      <4>1. CASE Finish(w)
        BY <4>1 DEF Finish
      <4>2. CASE FinishFailed(w)
        BY <4>2 DEF FinishFailed
      <4> QED
        BY <2>8, <4>1, <4>2
    <3>2. HostTypes'
      <4>1. owner' \in [Terminals -> Workers \cup {Nobody}]
        BY <1>0, <3>1
      <4>2. CASE on' = on /\ acct' = acct
        BY <1>0, <4>1, <4>2
      <4>3. CASE KillAll
        <5>1. on' \in [Terminals -> BOOLEAN]
          BY <4>3 DEF KillAll
        <5>2. acct' \in [Terminals -> Accounts \cup {NoAccount}]
          BY <4>3 DEF KillAll
        <5> QED
          BY <4>1, <5>1, <5>2
      <4> QED
        BY <3>1, <4>2, <4>3
    <3>3. JobTypes'
      <4>1. proc' \in [Workers -> BOOLEAN]
        BY <1>0, <3>1
      <4>2. CASE \E s \in {"idle", "drop"} : Leave(w, s)
        BY <1>0, <3>1, <4>1, <4>2 DEF Leave
      <4>3. CASE Goto(w, "lock") /\ kind' = [kind EXCEPT ![w] = "sync"] /\ UNCHANGED <<account, term>>
        BY <1>0, <3>1, <4>1, <4>3
      <4> QED
        BY <3>1, <4>2, <4>3
    <3>4. term[w] \in Terminals /\ account[w] \in Accounts
      BY <1>0, <3>1
    <3>5. ASSUME NEW v \in Workers PROVE Holds(v)'
      <4>1. CASE v = w
        BY <1>0, <3>1, <3>4, <4>1 DEF Leave
      <4>2. CASE v # w
        <5>1. pc'[v] = pc[v] /\ term'[v] = term[v] /\ account'[v] = account[v]
          BY <1>0, <3>1, <4>2 DEF Leave
        <5>2. owner[term[w]] = w
          BY <1>0, <3>1
        <5> QED
          BY <1>0, <3>1, <4>2, <5>1, <5>2
      <4> QED
        BY <4>1, <4>2
    <3> QED
      BY <3>2, <3>3, <3>5
  <2>9. CASE ForcedShutdown(w)
    <3>1. HostTypes' /\ JobTypes'
      BY <1>0, <2>9 DEF ForcedShutdown, KillAll
    <3>2. ASSUME NEW v \in Workers PROVE Holds(v)'
      BY <1>0, <2>9 DEF ForcedShutdown
    <3> QED
      BY <3>1, <3>2
  <2> QED
    BY <1>w, <2>1, <2>2, <2>3, <2>4, <2>5, <2>6, <2>7, <2>8, <2>9 DEF Working
<1> QED
  BY <1>u, <1>e, <1>c, <1>w DEF Next
\* A terminal that is off answers nothing.
LEMMA SilenceStep == Types /\ [Next]_vars => \A t \in Terminals : OffIsSilent(t)'
<1> SUFFICES ASSUME Types, [Next]_vars, NEW t \in Terminals PROVE OffIsSilent(t)'
  OBVIOUS
<1>0. HostTypes /\ FileTypes /\ JobTypes /\ OffIsSilent(t)
  BY DEF Types
<1>1. on' = on \/ ea' = [x \in Terminals |-> NoAnswering]
  <2>1. ASSUME NEW w \in Workers, Working(w) PROVE on' = on \/ ea' = [x \in Terminals |-> NoAnswering]
    BY <2>1 DEF Working, Acquire, LockTimeout, AskWarm, SkipWarm, AskCold, CannotAskCold, Launch,
       LaunchFails, TakeVerify, WaitTimeout, AskHistory, CannotAskHistory, TakeHistory, Finish,
       FinishFailed, ForcedShutdown, KillAll
  <2>2. ASSUME NEW x \in Terminals, Advisor(x) PROVE on' = on
    BY <2>2 DEF Advisor, EaRead, EaWrite, EaWriteFails, EaDelete
  <2> QED
    BY <2>1, <2>2 DEF Next, Claim, vars
<1>2. ASSUME on' = on PROVE OffIsSilent(t)'
  <2>1. CASE Clears
    BY <1>0, <1>2, <2>1 DEF Clears, OffIsSilent
  <2>2. CASE \E w \in Workers, action \in Actions :
               pc[w] \in Inside /\ Ask(w, action) /\ UNCHANGED <<on, acct, owner, jobs>>
    <3>1. PICK w \in Workers : Asked(w, term[w])
      BY <2>2, AskFacts
    <3>2. CASE t = term[w]
      BY <1>2, <3>1, <3>2 DEF Asked, OffIsSilent
    <3>3. CASE t # term[w]
      BY <1>0, <1>2, <3>1, <3>3 DEF Asked, OffIsSilent
    <3> QED
      BY <3>2, <3>3
  <2>3. ASSUME NEW x \in Terminals, EaRead(x) \/ EaWrite(x) PROVE OffIsSilent(t)'
    <3>1. CASE t = x
      BY <1>0, <1>2, <2>3, <3>1 DEF EaRead, EaWrite, OffIsSilent
    <3>2. CASE t # x
      BY <1>0, <1>2, <2>3, <3>2 DEF EaRead, EaWrite, OffIsSilent, FileTypes, FileKinds
    <3> QED
      BY <3>1, <3>2
  <2> QED
    BY <2>1, <2>2, <2>3, Moves
<1> QED
  BY <1>1, <1>2 DEF OffIsSilent

LEMMA TypesStep == Types /\ [Next]_vars => Types'
  BY FileStep, JobStep, SilenceStep DEF Types

\* The types, the lock of the terminal a worker drives, and the silence of a terminal
\* that is off, in every reachable state.
THEOREM TypeCorrect == Spec => []TypeOK
<1>1. Spec => []Types
  BY TypesInit, TypesStep, PTL DEF Spec
<1> QED
  BY <1>1, TypesGiveTypeOK, PTL
-----------------------------------------------------------------------------
(* Answers to older requests *)

\* What is old is explained, and a request in the file never is.
Fresh(t) ==
  /\ req[t] # NoFile => ~req[t].old
  /\ resp[t] # NoFile /\ resp[t].old => t \in crossed
  /\ ea[t] # NoAnswering /\ ea[t].req.old => t \in crossed

LEMMA FreshStep ==
  ASSUME Types, [Next]_vars, \A t \in Terminals : Fresh(t), NEW t \in Terminals
  PROVE  Fresh(t)'
<1>0. HostTypes /\ FileTypes /\ Fresh(t)
  BY DEF Types
<1>1. CASE Clears
  BY <1>0, <1>1 DEF Clears, Fresh
<1>2. CASE \E w \in Workers, action \in Actions :
             pc[w] \in Inside /\ Ask(w, action) /\ UNCHANGED <<on, acct, owner, jobs>>
  <2>1. PICK w \in Workers : Asked(w, term[w])
    BY <1>2, AskFacts
  <2>2. PICK r \in Request : ~r.old /\ req' = [req EXCEPT ![term[w]] = r]
    BY <2>1 DEF Asked
  <2>3. CASE t = term[w]
    <3>1. req'[t] = r
      BY <1>0, <2>2, <2>3 DEF FileTypes, FileKinds
    <3> QED
      BY <2>1, <2>2, <2>3, <3>1 DEF Asked, Fresh
  <2>4. CASE t # term[w]
    <3>1. req'[t] = req[t]
      BY <1>0, <2>2, <2>4 DEF FileTypes, FileKinds
    <3> QED
      BY <1>0, <2>1, <2>4, <3>1 DEF Asked, Fresh
  <2> QED
    BY <2>3, <2>4
<1>3. ASSUME NEW x \in Terminals, EaRead(x) PROVE Fresh(t)'
  BY <1>0, <1>3 DEF EaRead, Fresh, FileTypes, FileKinds
<1>4. ASSUME NEW x \in Terminals, EaWrite(x) PROVE Fresh(t)'
  <2>1. ea' = [ea EXCEPT ![x] = [ea[x] EXCEPT !.wrote = TRUE]]
    BY <1>4 DEF EaWrite
  <2>2. ea[x] \in Answering /\ Answer(x).old = ea[x].req.old
    BY <1>0, <1>4, AnswerTypes DEF EaWrite
  <2>3. CASE x = t
    <3>1. ea'[t].req = ea[t].req /\ resp'[t] = Answer(t)
      BY <1>0, <1>4, <2>1, <2>2, <2>3 DEF EaWrite, Answering, FileTypes, FileKinds
    <3> QED
      BY <1>0, <1>4, <2>2, <2>3, <3>1 DEF EaWrite, Fresh
  <2>4. CASE x # t
    <3>1. ea'[t] = ea[t] /\ resp'[t] = resp[t]
      BY <1>0, <1>4, <2>1, <2>4 DEF EaWrite, FileTypes, FileKinds
    <3> QED
      BY <1>0, <1>4, <3>1 DEF EaWrite, Fresh
  <2> QED
    BY <2>3, <2>4
<1> QED
  BY <1>1, <1>2, <1>3, <1>4, Moves

\* A worker never finds an answer to an older request, though nobody compares ids, except
\* after a request that was written while the advisor was at the older one, or beside a
\* response that could not be removed.
THEOREM FreshCorrect == Spec => []AnswersAreFresh
<1> DEFINE Inv == Types /\ \A t \in Terminals : Fresh(t)
<1>1. Init => Inv
  <2> SUFFICES ASSUME Init PROVE Inv
    OBVIOUS
  <2>1. \A t \in Terminals : Fresh(t)
    BY DEF Init, Fresh
  <2> QED
    BY <2>1, TypesInit
<1>2. Inv /\ [Next]_vars => Inv'
  BY TypesStep, FreshStep
<1>3. Inv => AnswersAreFresh
  <2> SUFFICES ASSUME Inv, NEW w \in Workers, Waiting(w), resp[term[w]] # NoFile
               PROVE  ~resp[term[w]].old \/ term[w] \in crossed
    BY DEF AnswersAreFresh
  <2>1. term[w] \in Terminals
    BY DEF Types, Holds, Waiting, Inside
  <2> QED
    BY <2>1 DEF Fresh
<1> HIDE DEF Inv
<1> QED
  BY <1>1, <1>2, <1>3, PTL DEF Spec
-----------------------------------------------------------------------------
(* What a worker relies on *)

\* After a login was asked for, a response is by the terminal as it is.
LoginInv(w) ==
  pc[w] \in {"warm", "kill", "cold"} /\ resp[term[w]] # NoFile =>
    on[term[w]] /\ resp[term[w]].login = acct[term[w]]

\* During a history the terminal is logged in to the account of the job.
AccountInv(w) ==
  pc[w] \in {"history", "wait"} => on[term[w]] /\ acct[term[w]] = account[w]

\* A history request waits in its file until there is a response.
RequestInv(w) ==
  pc[w] = "wait" =>
    LET t == term[w] IN
    /\ req[t] # NoFile \/ resp[t] # NoFile
    /\ ea[t] # NoAnswering /\ ~ea[t].req.old /\ ea[t].wrote => resp[t] # NoFile

OwnInv(w) == term[w] \notin disturbed => LoginInv(w) /\ AccountInv(w) /\ RequestInv(w)

SameAt(t) == /\ on'[t] = on[t] /\ acct'[t] = acct[t] /\ ea'[t] = ea[t]
             /\ req'[t] = req[t] /\ resp'[t] = resp[t]

LEMMA SameGivesOwn ==
  ASSUME NEW w, OwnInv(w), pc'[w] = pc[w], account'[w] = account[w], term'[w] = term[w],
         term[w] \notin disturbed' => term[w] \notin disturbed /\ SameAt(term[w])
  PROVE  OwnInv(w)'
  BY DEF OwnInv, SameAt, LoginInv, AccountInv, RequestInv

\* A step of another worker leaves the terminal of w as it is, or disturbs it.
LEMMA LeavesOthers ==
  ASSUME Types, NEW w \in Workers, NEW v \in Workers, v # w, pc[w] \in Inside, Working(v)
  PROVE  /\ pc'[w] = pc[w] /\ account'[w] = account[w] /\ term'[w] = term[w]
         /\ term[w] \notin disturbed' => term[w] \notin disturbed /\ SameAt(term[w])
<1> DEFINE t == term[w]
           Mine == pc'[w] = pc[w] /\ account'[w] = account[w] /\ term'[w] = term[w]
           Left == t \notin disturbed' => t \notin disturbed /\ SameAt(t)
<1>0. /\ HostTypes /\ FileTypes /\ JobTypes /\ Holds(v) /\ Holds(w)
      /\ t \in Terminals /\ owner[t] = w /\ w # Nobody
  BY NullsAssumption DEF Types, Holds
<1>1. pc[v] \in Inside => term[v] # t /\ term[v] \in Terminals
  BY <1>0 DEF Holds
<1>2. t \in Others(v)
  BY <1>0 DEF Others
<1> HIDE DEF t
<1>3. CASE AskWarm(v) \/ AskCold(v) \/ AskHistory(v)
  <2>1. /\ pc[v] \in Inside /\ UNCHANGED <<on, acct, owner, jobs>>
        /\ \E action \in Actions : Ask(v, action)
        /\ \E s \in Inside : Goto(v, s)
    BY <1>3 DEF AskWarm, AskCold, AskHistory, Actions, Inside
  <2>2. Asked(v, term[v])
    BY <2>1, AskFacts
  <2>3. Mine
    BY <1>0, <2>1 DEF JobTypes
  <2>4. req'[t] = req[t]
    BY <1>0, <1>1, <2>1, <2>2 DEF Asked, FileTypes, FileKinds
  <2>5. Left
    BY <1>0, <1>1, <2>1, <2>2, <2>4 DEF Asked, SameAt
  <2> QED
    BY <2>3, <2>5 DEF t
<1>4. CASE Acquire(v) \/ LockTimeout(v)
  <2>1. Mine
    BY <1>0, <1>4 DEF Acquire, LockTimeout, Leave, JobTypes
  <2>2. CASE Acquire(v)
    <3>1. term[v] # t /\ UNCHANGED <<terminal, files>> /\ disturbed' = disturbed \ {term[v]}
      BY <1>0, <2>2 DEF Acquire
    <3>2. Left
      BY <3>1 DEF SameAt
    <3> QED
      BY <2>1, <3>2 DEF t
  <2>3. CASE LockTimeout(v)
    <3>1. UNCHANGED <<terminal, files, history>>
      BY <2>3, Zenon DEF LockTimeout
    <3>2. Left
      BY <3>1 DEF SameAt
    <3> QED
      BY <2>1, <3>2 DEF t
  <2> QED
    BY <1>4, <2>2, <2>3
<1>5. CASE SkipWarm(v) \/ CannotAskCold(v) \/ CannotAskHistory(v) \/ WaitTimeout(v)
           \/ TakeHistory(v)
  <2>1. /\ pc[v] \in Inside /\ \E s : Goto(v, s)
        /\ UNCHANGED <<terminal, jobs, history>>
        /\ req' = req \/ req' = [req EXCEPT ![term[v]] = NoFile]
        /\ resp' = resp \/ resp' = [resp EXCEPT ![term[v]] = NoFile]
    BY <1>5 DEF SkipWarm, CannotAskCold, CannotAskHistory, WaitTimeout, TakeHistory, Taken,
       CannotAsk, Inside
  <2>2. Mine
    BY <1>0, <2>1 DEF JobTypes
  <2>3. Left
    BY <1>0, <1>1, <2>1 DEF SameAt, FileTypes, FileKinds
  <2> QED
    BY <2>2, <2>3 DEF t
<1>6. CASE Launch(v) \/ LaunchFails(v)
  <2>1. pc[v] \in Inside /\ (\E s : Goto(v, s)) /\ UNCHANGED <<account, term>>
    BY <1>6 DEF Launch, LaunchFails, Inside
  <2>2. Mine
    BY <1>0, <2>1 DEF JobTypes
  <2>3. t \in disturbed'
    BY <1>1, <1>2, <1>6, <2>1 DEF Launch, LaunchFails
  <2> QED
    BY <2>2, <2>3 DEF t
<1>7. CASE TakeVerify(v)
  <2>1. /\ pc[v] \in Inside /\ \E s : Goto(v, s)
        /\ UNCHANGED <<account, term, terminal, history, req>>
        /\ resp' = resp \/ resp' = [resp EXCEPT ![term[v]] = NoFile]
    BY <1>7 DEF TakeVerify, Taken, Inside
  <2>2. Mine
    BY <1>0, <2>1 DEF JobTypes
  <2>3. Left
    BY <1>0, <1>1, <2>1 DEF SameAt, FileTypes, FileKinds
  <2> QED
    BY <2>2, <2>3 DEF t
<1>8. CASE Finish(v)
  <2>1. /\ pc[v] \in Inside /\ UNCHANGED <<terminal, history>>
        /\ req' = req \/ req' = [req EXCEPT ![term[v]] = NoFile]
        /\ resp' = resp \/ resp' = [resp EXCEPT ![term[v]] = NoFile]
    BY <1>8 DEF Finish, ClearFiles, Inside
  <2>2. Mine
    BY <1>0, <1>8 DEF JobTypes, Finish, Leave
  <2>3. Left
    BY <1>0, <1>1, <2>1 DEF SameAt, FileTypes, FileKinds
  <2> QED
    BY <2>2, <2>3 DEF t
<1>9. CASE FinishFailed(v) \/ ForcedShutdown(v)
  <2>1. Mine
    BY <1>0, <1>9 DEF JobTypes, FinishFailed, ForcedShutdown, Leave
  <2>2. t \in disturbed'
    BY <1>2, <1>9 DEF FinishFailed, ForcedShutdown
  <2> QED
    BY <2>1, <2>2 DEF t
<1> QED
  BY <1>3, <1>4, <1>5, <1>6, <1>7, <1>8, <1>9 DEF Working

LEMMA AdvisorKeepsOwn ==
  ASSUME Types, NEW w \in Workers, pc[w] \in Inside, OwnInv(w),
         NEW x \in Terminals, Advisor(x)
  PROVE  OwnInv(w)'
<1> DEFINE t == term[w]
<1>0. HostTypes /\ FileTypes /\ t \in Terminals /\ OffIsSilent(x)
  BY DEF Types, Holds
<1>1. UNCHANGED <<on, acct, worker>>
  BY DEF Advisor, EaRead, EaWrite, EaWriteFails, EaDelete
<1>2. CASE x # t
  <2>1. SameAt(t) /\ (t \in disturbed <=> t \in disturbed')
    BY <1>0, <1>2 DEF Advisor, EaRead, EaWrite, EaWriteFails, EaDelete, SameAt, FileTypes,
                      FileKinds
  <2> QED
    BY <1>1, <2>1, SameGivesOwn
<1>3. CASE x = t
  <2>1. CASE EaRead(x)
    <3>1. UNCHANGED <<files, disturbed>> /\ ea'[t].wrote = FALSE
      BY <1>0, <1>3, <2>1 DEF EaRead, FileTypes, FileKinds
    <3> QED
      BY <1>0, <1>1, <3>1 DEF OwnInv, LoginInv, AccountInv, RequestInv
  <2>2. CASE EaWrite(x)
    <3>1. /\ Answer(t) \in Response /\ Answer(t).login = acct[t] /\ on[t]
          /\ req' = req /\ resp' = [resp EXCEPT ![t] = Answer(t)] /\ disturbed' = disturbed
      BY <1>0, <1>3, <2>2, AnswerTypes DEF EaWrite, OffIsSilent
    <3>2. resp'[t] = Answer(t) /\ resp'[t] # NoFile
      BY <1>0, <3>1, NoFileAssumption DEF FileTypes, FileKinds
    <3> QED
      BY <1>0, <1>1, <3>1, <3>2 DEF OwnInv, LoginInv, AccountInv, RequestInv
  <2>3. CASE EaWriteFails(x)
    <3>1. UNCHANGED <<files, disturbed>> /\ ea'[t] = NoAnswering
      BY <1>0, <1>3, <2>3 DEF EaWriteFails, FileTypes, FileKinds
    <3> QED
      BY <1>0, <1>1, <3>1 DEF OwnInv, LoginInv, AccountInv, RequestInv
  <2>4. CASE EaDelete(x)
    <3>1. /\ ea'[t] = NoAnswering /\ resp' = resp /\ ea[t].wrote
          /\ disturbed' = IF ea[t].req.old THEN disturbed \cup {t} ELSE disturbed
      BY <1>0, <1>3, <2>4 DEF EaDelete, FileTypes, FileKinds
    <3>2. ea[t] # NoAnswering
      BY <3>1 DEF NoAnswering
    <3> QED
      BY <1>0, <1>1, <3>1, <3>2 DEF OwnInv, LoginInv, AccountInv, RequestInv
  <2> QED
    BY <2>1, <2>2, <2>3, <2>4 DEF Advisor
<1> QED
  BY <1>2, <1>3

LEMMA OwnStepKeepsOwn ==
  ASSUME Types, NEW w \in Workers, OwnInv(w), Working(w)
  PROVE  OwnInv(w)'
<1> DEFINE t == term[w]
<1>0. HostTypes /\ FileTypes /\ JobTypes /\ Holds(w)
  BY DEF Types
\* Where the worker relies on nothing.
<1>r. ASSUME NEW s, s \notin {"warm", "kill", "cold", "history", "wait"}, pc'[w] = s
      PROVE  OwnInv(w)'
  BY <1>r DEF OwnInv, LoginInv, AccountInv, RequestInv
\* Back to the history, or on, with the terminal as it was.
<1>h. ASSUME pc'[w] = "history", pc[w] \in {"history", "wait"},
             UNCHANGED <<on, acct, account, term, disturbed>>
      PROVE  OwnInv(w)'
  BY <1>h DEF OwnInv, LoginInv, AccountInv, RequestInv
<1>1. CASE Acquire(w) \/ LockTimeout(w) \/ SkipWarm(w) \/ CannotAskCold(w) \/ LaunchFails(w)
           \/ Finish(w) \/ FinishFailed(w) \/ ForcedShutdown(w)
  <2>1. pc'[w] \in {"init", "drop", "idle", "launch", "failed", "lock"}
    BY <1>0, <1>1 DEF JobTypes, Acquire, LockTimeout, SkipWarm, CannotAskCold, LaunchFails, Finish,
                      FinishFailed, ForcedShutdown, Leave
  <2> QED
    BY <1>r, <2>1
<1>2. CASE AskWarm(w) \/ AskCold(w) \/ AskHistory(w)
  <2>1. /\ pc[w] \in Inside /\ UNCHANGED <<on, acct, owner, jobs>>
        /\ \E action \in Actions : Ask(w, action)
    BY <1>2 DEF AskWarm, AskCold, AskHistory, Actions, Inside
  <2>2. Asked(w, t)
    BY <2>1, AskFacts
  <2>3. t \in Terminals
    BY <1>0, <2>1 DEF Holds
  <2>4. t \in disturbed => t \in disturbed'
    BY <2>1 DEF Ask
  <2>5. CASE AskWarm(w) \/ AskCold(w)
    <3>1. pc'[w] \in {"warm", "kill"}
      BY <1>0, <2>5 DEF AskWarm, AskCold, JobTypes
    <3> QED
      BY <2>1, <2>2, <3>1 DEF Asked, OwnInv, LoginInv, AccountInv, RequestInv
  <2>6. CASE AskHistory(w)
    <3>1. pc[w] = "history" /\ pc'[w] = "wait"
      BY <1>0, <2>6 DEF AskHistory, JobTypes
    <3>2. req'[t] # NoFile
      BY <1>0, <2>2, <2>3, NoFileAssumption DEF Asked, FileTypes, FileKinds
    <3> QED
      BY <2>1, <2>2, <2>4, <3>1, <3>2 DEF Asked, OwnInv, LoginInv, AccountInv, RequestInv
  <2> QED
    BY <1>2, <2>5, <2>6
<1>3. CASE Launch(w)
  <2>1. /\ pc'[w] = "cold" /\ term' = term /\ resp' = resp
        /\ resp[t] # NoFile => t \in disturbed'
    BY <1>0, <1>3 DEF Launch, JobTypes
  <2> QED
    BY <2>1 DEF OwnInv, LoginInv, AccountInv, RequestInv
<1>4. CASE TakeVerify(w)
  <2>1. /\ pc[w] \in {"warm", "cold"} /\ resp[t] # NoFile
        /\ UNCHANGED <<on, acct, account, term, disturbed>>
    BY <1>4 DEF TakeVerify
  <2>2. CASE Verified(w, resp[t])
    <3>1. resp[t].login = account[w] /\ pc'[w] \in {"good", "history"}
      BY <1>0, <1>4, <2>2 DEF TakeVerify, Verified, AfterLogin, JobTypes
    <3> QED
      BY <2>1, <3>1 DEF OwnInv, LoginInv, AccountInv, RequestInv
  <2>3. CASE ~Verified(w, resp[t])
    <3>1. pc'[w] \in {"launch", "failed"}
      BY <1>0, <1>4, <2>3 DEF TakeVerify, JobTypes
    <3> QED
      BY <1>r, <3>1
  <2> QED
    BY <2>2, <2>3
<1>5. CASE WaitTimeout(w) \/ CannotAskHistory(w) \/ TakeHistory(w)
  <2>1. /\ pc'[w] \in {"launch", "failed", "good", "history"}
        /\ pc'[w] = "history" => pc[w] \in {"history", "wait"}
        /\ UNCHANGED <<on, acct, account, term, disturbed>>
    BY <1>0, <1>5 DEF WaitTimeout, CannotAskHistory, TakeHistory, JobTypes
  <2> QED
    BY <1>r, <1>h, <2>1
<1> QED
  BY <1>1, <1>2, <1>3, <1>4, <1>5 DEF Working

LEMMA OwnStep ==
  ASSUME Types, [Next]_vars, \A w \in Workers : OwnInv(w), NEW w \in Workers
  PROVE  OwnInv(w)'
<1>1. CASE UNCHANGED vars
  <2>1. SameAt(term[w]) /\ UNCHANGED <<pc, account, term, disturbed>>
    BY <1>1 DEF vars, SameAt
  <2> QED
    BY <2>1, SameGivesOwn
<1>2. CASE pc[w] \notin Inside
  <2>1. CASE \E v \in Workers : v # w /\ Working(v)
    <3>1. pc'[w] = pc[w]
      BY <2>1 DEF Types, JobTypes, Working, Acquire, LockTimeout, AskWarm, SkipWarm, AskCold,
         CannotAskCold, Launch, LaunchFails, TakeVerify, WaitTimeout, AskHistory, CannotAskHistory,
         TakeHistory, Finish, FinishFailed, ForcedShutdown, Leave
    <3> QED
      BY <1>2, <3>1 DEF OwnInv, LoginInv, AccountInv, RequestInv, Inside
  <2>2. CASE \E t \in Terminals : Advisor(t)
    <3>1. pc' = pc
      BY <2>2 DEF Advisor, EaRead, EaWrite, EaWriteFails, EaDelete
    <3> QED
      BY <1>2, <3>1 DEF OwnInv, LoginInv, AccountInv, RequestInv, Inside
  <2>3. CASE \E v \in Workers, k \in {"verify", "sync"}, a \in Accounts, t \in Terminals :
               Claim(v, k, a, t)
    <3>1. pc'[w] \in {pc[w], "lock"}
      BY <2>3 DEF Types, JobTypes, Claim
    <3> QED
      BY <1>2, <3>1 DEF OwnInv, LoginInv, AccountInv, RequestInv, Inside
  <2> QED
    BY <1>1, <2>1, <2>2, <2>3, OwnStepKeepsOwn DEF Next
<1>3. CASE pc[w] \in Inside
  <2>1. CASE \E v \in Workers : v # w /\ Working(v)
    BY <1>3, <2>1, LeavesOthers, SameGivesOwn
  <2>2. CASE \E t \in Terminals : Advisor(t)
    BY <1>3, <2>2, AdvisorKeepsOwn
  <2>3. CASE \E v \in Workers, k \in {"verify", "sync"}, a \in Accounts, t \in Terminals :
               Claim(v, k, a, t)
    <3>1. /\ pc'[w] = pc[w] /\ account'[w] = account[w] /\ term'[w] = term[w]
          /\ SameAt(term[w]) /\ disturbed' = disturbed
      BY <1>3, <2>3 DEF Types, JobTypes, Claim, SameAt, Inside
    <3> QED
      BY <3>1, SameGivesOwn
  <2> QED
    BY <1>1, <2>1, <2>2, <2>3, OwnStepKeepsOwn DEF Next
<1> QED
  BY <1>2, <1>3

LEMMA OwnCorrect == Spec => [](Types /\ \A w \in Workers : OwnInv(w))
<1> DEFINE Inv == Types /\ \A w \in Workers : OwnInv(w)
<1>1. Init => Inv
  <2> SUFFICES ASSUME Init PROVE Inv
    OBVIOUS
  <2>1. \A w \in Workers : OwnInv(w)
    BY DEF Init, OwnInv, LoginInv, AccountInv, RequestInv
  <2> QED
    BY <2>1, TypesInit
<1>2. Inv /\ [Next]_vars => Inv'
  BY TypesStep, OwnStep
<1> HIDE DEF Inv
<1>3. Spec => []Inv
  BY <1>1, <1>2, PTL DEF Spec
<1> QED
  BY <1>3 DEF Inv

\* A job that pulls a history has before it a terminal logged in to its account, unless
\* the terminal was disturbed.
THEOREM AccountCorrect == Spec => []HistoryIsOwn
<1>1. (Types /\ \A w \in Workers : OwnInv(w)) => HistoryIsOwn
  BY DEF OwnInv, AccountInv, HistoryIsOwn
<1> QED
  BY <1>1, OwnCorrect, PTL

\* A history request that nobody will answer any more was disturbed.
THEOREM RequestCorrect == Spec => []UnansweredIsDisturbed
<1>1. (Types /\ \A w \in Workers : OwnInv(w)) => UnansweredIsDisturbed
  BY DEF OwnInv, RequestInv, UnansweredIsDisturbed
<1> QED
  BY <1>1, OwnCorrect, PTL
=============================================================================
