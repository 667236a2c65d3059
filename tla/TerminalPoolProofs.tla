------------------------- MODULE TerminalPoolProofs -------------------------
(***************************************************************************)
(* Proofs about TerminalPool, for any number of workers, terminals and     *)
(* accounts: types, that the Redis lock implements TerminalLease, and by   *)
(* which ways alone a job reads the history of another account.            *)
(***************************************************************************)
EXTENDS TerminalPool, SequenceTheorems, TLAPS

USE DEF Goto, Fail, DoNotFail, worker, history
-----------------------------------------------------------------------------
(* Types *)

LEMMA CandidateTypes ==
  ASSUME NEW a \in Accounts
  PROVE  /\ Len(Candidates(a)) = Len(SlotList) + 2 /\ Len(SlotList) \in Nat
         /\ \A i \in 1..Len(Candidates(a)) : Candidates(a)[i] \in Terminals
<1>1. SlotList \in Seq(Terminals) /\ Preferred[a] \in Terminals
  BY PoolAssumption
<1>2. <<Preferred[a], Preferred[a]>> \in Seq(Terminals)
  BY <1>1
<1>3. Len(<<Preferred[a], Preferred[a]>>) = 2
  OBVIOUS
<1>4. Candidates(a) \in Seq(Terminals) /\ Len(Candidates(a)) = Len(SlotList) + 2
  BY <1>1, <1>2, <1>3, ConcatProperties DEF Candidates
<1> QED
  BY <1>1, <1>4, LenProperties, ElementOfSeq

\* The part of TypeOK about what a worker may rely on.
Holds(w) ==
  /\ session[w] # NoSession => conn[w] # NoTerminal
  /\ pc[w] \notin {"idle", "drop"} => account[w] # NoAccount
  /\ pc[w] \in {"wait"} \cup Inside => term[w] # NoTerminal
  /\ pc[w] = "read" => conn[w] # NoTerminal

\* The types of the worker's variables.
JobTypes ==
  /\ pc \in [Workers -> {"idle", "probe", "wait", "drop"} \cup Inside]
  /\ kind \in [Workers -> {"verify", "sync", "followup"}]
  /\ account \in [Workers -> Accounts \cup {NoAccount}]
  /\ term \in [Workers -> Terminals \cup {NoTerminal}]
  /\ probe \in [Workers -> 1..(Len(SlotList) + 2)]
  /\ ok \in [Workers -> {"yes", "login_failed", "failed"}]
  /\ warm \in [Workers -> BOOLEAN]

LinkTypes ==
  /\ session \in [Workers -> Session \cup {NoSession}]
  /\ conn \in [Workers -> Terminals \cup {NoTerminal}]

HostTypes ==
  /\ lock \in [Terminals -> Workers \cup {Nobody, Stale}]
  /\ acct \in [Terminals -> Accounts \cup {NoAccount}]
  /\ strayed \in SUBSET Terminals
  /\ overruns \in 0..MaxOverruns /\ failures \in 0..MaxFailures

LEMMA TypeParts ==
  TypeOK <=> JobTypes /\ LinkTypes /\ HostTypes /\ \A w \in Workers : Holds(w)
  BY DEF TypeOK, JobTypes, LinkTypes, HostTypes, Holds

LEMMA TypeInit == Init => TypeOK
<1> SUFFICES ASSUME Init PROVE TypeOK
  OBVIOUS
<1>1. Len(SlotList) \in Nat
  BY PoolAssumption, LenProperties
<1>2. 1 \in 1..(Len(SlotList) + 2)
  BY <1>1
<1>3. JobTypes
  BY <1>2 DEF Init, JobTypes
<1>4. LinkTypes /\ HostTypes
  BY LimitsAssumption DEF Init, LinkTypes, HostTypes
<1>5. \A w \in Workers : Holds(w)
  BY DEF Init, Holds, Inside
<1> QED
  BY <1>3, <1>4, <1>5, TypeParts

LEMMA LinkStep ==
  ASSUME TypeOK, NEW w \in Workers, UNCHANGED <<session, conn>> \/ Detach(w)
  PROVE  LinkTypes' /\ \A v \in Workers : session'[v] # NoSession => conn'[v] # NoTerminal
<1>1. LinkTypes /\ \A v \in Workers : Holds(v)
  BY TypeParts
<1>2. CASE UNCHANGED <<session, conn>>
  BY <1>1, <1>2 DEF LinkTypes, Holds
<1>3. CASE Detach(w)
  BY <1>1, <1>3 DEF LinkTypes, Holds, Detach
<1> QED
  BY <1>2, <1>3

LEMMA LeaveTypes ==
  ASSUME TypeOK, NEW w \in Workers, NEW s \in {"idle", "drop"}, Leave(w, s),
         UNCHANGED <<session, conn>> \/ Detach(w)
  PROVE  JobTypes' /\ LinkTypes' /\ \A v \in Workers : Holds(v)'
<1>0. JobTypes /\ LinkTypes /\ \A v \in Workers : Holds(v)
  BY TypeParts
<1>1. LinkTypes' /\ \A v \in Workers : session'[v] # NoSession => conn'[v] # NoTerminal
  BY LinkStep
<1>2. Len(SlotList) \in Nat
  BY PoolAssumption, LenProperties
<1>3. 1 \in 1..(Len(SlotList) + 2)
  BY <1>2
<1>4. JobTypes'
  BY <1>0, <1>3 DEF JobTypes, Leave
<1>5. ASSUME NEW v \in Workers PROVE Holds(v)'
  <2>1. CASE v = w
    BY <1>0, <1>1, <2>1 DEF JobTypes, Holds, Leave, Inside
  <2>2. CASE v # w
    BY <1>0, <1>1, <2>2 DEF JobTypes, LinkTypes, Holds, Leave, Detach, Inside
  <2> QED
    BY <2>1, <2>2
<1> QED
  BY <1>1, <1>4, <1>5

LEMMA PickTypes ==
  ASSUME TypeOK, NEW w \in Workers, pc[w] = "probe", NEW t \in Terminals, Pick(w, t),
         UNCHANGED <<kind, account, ok, warm, session, conn>>
  PROVE  JobTypes' /\ LinkTypes' /\ \A v \in Workers : Holds(v)'
<1>0. JobTypes /\ LinkTypes /\ \A v \in Workers : Holds(v)
  BY TypeParts
<1>1. 1 \in 1..(Len(SlotList) + 2)
  BY PoolAssumption, LenProperties
<1>2. JobTypes' /\ LinkTypes'
  BY <1>0, <1>1 DEF JobTypes, LinkTypes, Pick
<1>3. ASSUME NEW v \in Workers PROVE Holds(v)'
  BY <1>0, NullsAssumption DEF JobTypes, Holds, Pick, Inside
<1> QED
  BY <1>2, <1>3

LEMMA LooksHeldTypes ==
  ASSUME TypeOK, NEW w \in Workers, pc[w] = "probe", LooksHeld(w),
         UNCHANGED <<kind, account, ok, warm, session, conn>>
  PROVE  JobTypes' /\ LinkTypes' /\ \A v \in Workers : Holds(v)'
<1>0. JobTypes /\ LinkTypes /\ \A v \in Workers : Holds(v)
  BY TypeParts
<1>1. account[w] \in Accounts
  BY <1>0 DEF JobTypes, Holds
<1>2. CASE Pick(w, Preferred[account[w]])
  <2>1. Preferred[account[w]] \in Terminals
    BY <1>1, PoolAssumption
  <2> QED
    BY <1>2, <2>1, PickTypes
<1>3. CASE ~Pick(w, Preferred[account[w]])
  <2>1. PICK i \in Later(w) : probe' = [probe EXCEPT ![w] = i] /\ UNCHANGED <<term, pc>>
    BY <1>3 DEF LooksHeld
  <2>2. i \in 1..(Len(SlotList) + 2)
    <3>1. i \in (probe[w] + 1)..(Len(SlotList) + 2) /\ Len(SlotList) \in Nat
      BY <1>1, CandidateTypes DEF Later
    <3>2. probe[w] \in 1..(Len(SlotList) + 2)
      BY <1>0 DEF JobTypes
    <3> QED
      BY <3>1, <3>2
  <2>3. JobTypes' /\ LinkTypes'
    BY <1>0, <2>1, <2>2 DEF JobTypes, LinkTypes
  <2> QED
    BY <1>0, <2>1, <2>3 DEF Holds
<1> QED
  BY <1>2, <1>3

LEMMA TypeStep == TypeOK /\ [Next]_vars => TypeOK'
<1> SUFFICES ASSUME TypeOK, [Next]_vars PROVE TypeOK'
  OBVIOUS
<1> USE LimitsAssumption, NullsAssumption
<1>0. JobTypes /\ LinkTypes /\ HostTypes /\ \A v \in Workers : Holds(v)
  BY TypeParts
<1>q. JobTypes' /\ LinkTypes' /\ HostTypes' /\ (\A v \in Workers : Holds(v)') => TypeOK'
  BY DEF TypeOK, JobTypes, LinkTypes, HostTypes, Holds
<1>h. ASSUME NEW w \in Workers, Picking(w) \/ Waiting(w) \/ Driving(w) \/ Failing(w)
      PROVE  HostTypes'
  <2>t. term \in [Workers -> Terminals \cup {NoTerminal}] /\ conn \in [Workers -> Terminals \cup {NoTerminal}]
    BY <1>0 DEF JobTypes, LinkTypes
  <2> USE DEF HostTypes
  <2>1. CASE Picking(w)
    BY <1>0, <2>1 DEF Picking, Claim
  <2>2. CASE Waiting(w)
    BY <1>0, <2>2 DEF Waiting, Probe, Acquire, LockTimeout, Released
  <2>3. CASE Driving(w)
    <3>0. ASSUME NEW t \in Terminals, LogIn(w, t, account[w]) PROVE
            acct' \in [Terminals -> Accounts \cup {NoAccount}] /\ strayed' \in SUBSET Terminals
      BY <1>0, <3>0 DEF LogIn, JobTypes
    <3>1. CASE LoginSwitch(w)
      <4>1. conn[w] \in Terminals
        BY <1>0, <3>1 DEF LoginSwitch, LinkTypes, Holds
      <4> QED
        BY <1>0, <3>0, <3>1, <4>1 DEF LoginSwitch
    <3>2. CASE LoginCold(w)
      <4>1. term[w] \in Terminals
        BY <1>0, <3>2 DEF LoginCold, JobTypes, Holds, Inside
      <4> QED
        BY <1>0, <3>0, <3>2, <4>1 DEF LoginCold
    <3>3. CASE SwitchFails(w) \/ LoginFails(w)
      BY <1>0, <3>3 DEF SwitchFails, LoginFails, LoginRefused
    <3> QED
      BY <1>0, <2>3, <3>1, <3>2, <3>3
      DEF Driving, LoginWarm, ReadHistory, Release, Released, ForcedShutdown
  <2>4. CASE Failing(w)
    BY <1>0, <2>4 DEF Failing, Overrun, ProbeRaises, AcquireRaises, ReleaseRaises, Crash
  <2> QED
    BY <1>h, <2>1, <2>2, <2>3, <2>4
<1>e. CASE \E t \in Terminals : Expire(t)
  BY <1>0, <1>e, <1>q DEF Expire, JobTypes, LinkTypes, HostTypes, Holds
<1>u. CASE UNCHANGED vars
  BY <1>0, <1>u, <1>q DEF vars, JobTypes, LinkTypes, HostTypes, Holds
<1>w. ASSUME NEW w \in Workers, Picking(w) \/ Waiting(w) \/ Driving(w) \/ Failing(w)
      PROVE  JobTypes' /\ LinkTypes' /\ \A v \in Workers : Holds(v)'
  <2> DEFINE Goal == JobTypes' /\ LinkTypes' /\ \A v \in Workers : Holds(v)'
  <2>1. ASSUME NEW s \in {"idle", "drop"}, Leave(w, s), UNCHANGED <<session, conn>> \/ Detach(w)
        PROVE  Goal
    BY <2>1, LeaveTypes
  <2>2. CASE \E k \in Kinds, a \in Accounts : Claim(w, k, a)
    <3>1. PICK k \in {"verify", "sync"}, a \in Accounts : Claim(w, k, a)
      BY <2>2, PoolAssumption
    <3>2. JobTypes' /\ LinkTypes'
      BY <1>0, <3>1 DEF Claim, JobTypes, LinkTypes
    <3> QED
      BY <1>0, <3>1, <3>2 DEF Claim, JobTypes, Holds, Inside
  <2>3. CASE Probe(w) \/ ProbeRaises(w)
    <3>1. account[w] \in Accounts /\ probe[w] \in 1..(Len(SlotList) + 2) /\ pc[w] = "probe"
      BY <1>0, <2>3 DEF Probe, ProbeRaises, JobTypes, Holds
    <3>2. Candidates(account[w])[probe[w]] \in Terminals
      BY <3>1, CandidateTypes
    <3>3. UNCHANGED <<kind, account, ok, warm, session, conn>>
      BY <2>3 DEF Probe, ProbeRaises
    <3>4. LooksHeld(w) \/ Pick(w, Candidates(account[w])[probe[w]])
      BY <2>3 DEF Probe, ProbeRaises
    <3> QED
      BY <3>1, <3>2, <3>3, <3>4, LooksHeldTypes, PickTypes
  <2>4. CASE LockTimeout(w) \/ AcquireRaises(w)
    <3>1. \E s \in {"idle", "drop"} : Leave(w, s)
      BY <2>4 DEF LockTimeout, AcquireRaises, AfterFailure
    <3> QED
      BY <2>1, <2>4, <3>1 DEF LockTimeout, AcquireRaises
  <2>5. CASE Acquire(w)
    <3>1. JobTypes' /\ LinkTypes'
      BY <1>0, <2>5 DEF Acquire, JobTypes, LinkTypes, Inside
    <3> QED
      BY <1>0, <2>5, <3>1 DEF Acquire, JobTypes, Holds, Inside
  <2>6. CASE LoginWarm(w)
    <3>1. conn[w] # NoTerminal
      BY <1>0, <2>6 DEF LoginWarm, Wanted, NoSession, JobTypes, Holds, Inside
    <3>2. JobTypes' /\ LinkTypes'
      BY <1>0, <2>6 DEF LoginWarm, AfterLogin, JobTypes, LinkTypes, Inside
    <3> QED
      BY <1>0, <2>6, <3>1, <3>2 DEF LoginWarm, AfterLogin, JobTypes, Holds, Inside
  <2>7. CASE LoginSwitch(w) \/ LoginCold(w)
    <3>1. /\ term[w] \in Terminals /\ account[w] \in Accounts
          /\ pc[w] = "locked"
      BY <1>0, <2>7 DEF LoginSwitch, LoginCold, JobTypes, Holds, Inside
    <3>2. Wanted(w) \in Session
      BY <3>1 DEF Wanted, Session
    <3>3. /\ session' = [session EXCEPT ![w] = Wanted(w)]
          /\ (conn' = conn /\ conn[w] # NoTerminal) \/ conn' = [conn EXCEPT ![w] = term[w]]
          /\ Goto(w, AfterLogin(w)) /\ UNCHANGED <<worker, probe, ok, warm>>
      BY <1>0, <2>7 DEF LoginSwitch, LoginCold, Holds
    <3>4. JobTypes' /\ LinkTypes'
      BY <1>0, <3>1, <3>2, <3>3 DEF AfterLogin, JobTypes, LinkTypes, Inside
    <3>5. conn'[w] # NoTerminal /\ \A v \in Workers : conn[v] # NoTerminal => conn'[v] # NoTerminal
      BY <1>0, <3>1, <3>3 DEF LinkTypes
    <3>6. \A v \in Workers : v # w => session'[v] = session[v] /\ pc'[v] = pc[v]
      BY <1>0, <3>3 DEF LinkTypes, JobTypes
    <3>7. pc'[w] \in {"read", "unlock"}
      BY <1>0, <3>3 DEF AfterLogin, JobTypes
    <3>8. ASSUME NEW v \in Workers PROVE Holds(v)'
      <4>1. CASE v = w
        BY <3>1, <3>3, <3>5, <3>7, <4>1 DEF Holds, Inside
      <4>2. CASE v # w
        BY <1>0, <3>3, <3>5, <3>6, <4>2 DEF Holds
      <4> QED
        BY <4>1, <4>2
    <3> QED
      BY <3>4, <3>8
  <2>8. CASE SwitchFails(w)
    <3>1. JobTypes' /\ LinkTypes' /\ \A v \in Workers : session'[v] # NoSession => conn'[v] # NoTerminal
      BY <1>0, <2>8, LinkStep DEF SwitchFails, JobTypes
    <3>2. \A v \in Workers : v # w => conn'[v] = conn[v]
      BY <1>0, <2>8 DEF SwitchFails, Detach, LinkTypes
    <3> QED
      BY <1>0, <2>8, <3>1, <3>2 DEF SwitchFails, Holds
  <2>9. CASE LoginFails(w) \/ ReadHistory(w)
    <3>1. \E x \in {"yes", "login_failed", "failed"} : ok' = [ok EXCEPT ![w] = x]
      BY <2>9 DEF LoginFails, ReadHistory
    <3>2. pc' = [pc EXCEPT ![w] = "unlock"] /\ pc[w] \in Inside
          /\ UNCHANGED <<worker, probe, session, conn, warm>>
      BY <2>9 DEF LoginFails, ReadHistory, Inside
    <3>3. JobTypes' /\ LinkTypes'
      BY <1>0, <3>1, <3>2 DEF JobTypes, LinkTypes, Inside
    <3> QED
      BY <1>0, <3>2, <3>3 DEF JobTypes, Holds, Inside
  <2>10. CASE Release(w) \/ ReleaseRaises(w)
    <3>1. Unlocked(w) /\ pc[w] = "unlock" /\ (UNCHANGED <<session, conn>> \/ Detach(w))
      BY <2>10 DEF Release, ReleaseRaises
    <3>2. CASE \E s \in {"idle", "drop"} : Leave(w, s)
      BY <2>1, <3>1, <3>2
    <3>3. CASE ~ \E s \in {"idle", "drop"} : Leave(w, s)
      <4>1. kind' = [kind EXCEPT ![w] = "followup"] /\ pc' = [pc EXCEPT ![w] = "wait"]
            /\ UNCHANGED <<account, term, probe, ok, warm>>
        BY <3>1, <3>3 DEF Unlocked, AfterFailure
      <4>2. JobTypes' /\ LinkTypes' /\ \A v \in Workers : session'[v] # NoSession => conn'[v] # NoTerminal
        BY <1>0, <3>1, <4>1, LinkStep DEF JobTypes
      <4>3. \A v \in Workers : v # w => conn'[v] = conn[v] /\ pc'[v] = pc[v]
        BY <1>0, <3>1, <4>1 DEF Detach, LinkTypes, JobTypes
      <4>4. pc'[w] = "wait" /\ pc[w] \in Inside
        BY <1>0, <3>1, <4>1 DEF JobTypes, Inside
      <4> QED
        BY <1>0, <4>1, <4>2, <4>3, <4>4 DEF Holds, Inside
    <3> QED
      BY <3>2, <3>3
  <2>11. CASE ForcedShutdown(w)
    <3>1. JobTypes' /\ LinkTypes' /\ \A v \in Workers : session'[v] # NoSession => conn'[v] # NoTerminal
      BY <1>0, <2>11, LinkStep DEF ForcedShutdown, JobTypes
    <3>2. \A v \in Workers : v # w => conn'[v] = conn[v] /\ pc'[v] = pc[v]
      BY <1>0, <2>11 DEF ForcedShutdown, Detach, LinkTypes, JobTypes
    <3>3. pc'[w] = "idle"
      BY <1>0, <2>11 DEF ForcedShutdown, JobTypes
    <3> QED
      BY <1>0, <2>11, <3>1, <3>2, <3>3 DEF ForcedShutdown, Holds, Inside
  <2>12. CASE Overrun(w)
    BY <1>0, <2>12 DEF Overrun, JobTypes, LinkTypes, Holds
  <2>13. CASE Crash(w)
    BY <2>1, <2>13 DEF Crash
  <2> QED
    BY <1>w, <2>2, <2>3, <2>4, <2>5, <2>6, <2>7, <2>8, <2>9, <2>10, <2>11, <2>12, <2>13
    DEF Picking, Waiting, Driving, Failing
<1> QED
  BY <1>h, <1>w, <1>e, <1>u, <1>q DEF Next

\* Every reachable state has the types of TypeOK: in particular a worker never reads
\* a history without a terminal behind its session.
THEOREM TypeCorrect == Spec => []TypeOK
  BY TypeInit, TypeStep, PTL DEF Spec
-----------------------------------------------------------------------------
(* What a step does to the leases *)

In(w) == pc[w] \in Inside

\* Nothing but w moves, and nobody but w gains or loses a lock.
Alone(w) ==
  \A v \in Workers : v # w =>
    /\ pc'[v] = pc[v] /\ term'[v] = term[v]
    /\ \A t \in Terminals : lock'[t] = v <=> lock[t] = v

\* The leases stay as they are.
Quiet(w) ==
  /\ Alone(w) /\ In(w)' = In(w)
  /\ In(w) => term'[w] = term[w] /\ (lock'[term[w]] = w <=> lock[term[w]] = w)

Entered(w) ==
  /\ Alone(w) /\ ~In(w) /\ In(w)' /\ term'[w] = term[w] /\ term[w] \in Terminals
  /\ lock[term[w]] = Nobody /\ lock'[term[w]] = w

Left(w) == Alone(w) /\ In(w) /\ ~In(w)'

Lapsed(w) ==
  /\ Alone(w) /\ In(w) /\ In(w)' /\ term'[w] = term[w]
  /\ lock[term[w]] = w /\ lock'[term[w]] = Nobody
  /\ overruns' = overruns + 1

\* Only a worker's own steps touch its lease: Expire takes a token nobody has.
LEMMA LeaseMoves ==
  ASSUME TypeOK, [Next]_vars
  PROVE  \/ \E w \in Workers : Quiet(w) \/ Entered(w) \/ Left(w) \/ Lapsed(w)
         \/ UNCHANGED <<pc, term>> /\ \A w \in Workers, t \in Terminals : lock'[t] = w <=> lock[t] = w
<1> USE NullsAssumption
<1>0. JobTypes /\ HostTypes /\ \A v \in Workers : Holds(v)
  BY TypeParts
<1>t. /\ pc \in [Workers -> {"idle", "probe", "wait", "drop"} \cup Inside]
      /\ term \in [Workers -> Terminals \cup {NoTerminal}]
      /\ lock \in [Terminals -> Workers \cup {Nobody, Stale}]
      /\ \A v \in Workers : pc[v] \in {"wait"} \cup Inside => term[v] \in Terminals
  BY <1>0 DEF JobTypes, HostTypes, Holds
<1> USE DEF Alone, In, Inside
<1>1. ASSUME NEW w \in Workers, NEW s \in {"idle", "drop"}, Leave(w, s),
             \A t \in Terminals : \A v \in Workers : v # w => (lock'[t] = v <=> lock[t] = v)
      PROVE  Left(w) \/ Quiet(w)
  BY <1>1, <1>t DEF Leave, Left, Quiet
<1>2. ASSUME NEW w \in Workers, ~In(w), UNCHANGED lock,
             NEW s \in {"idle", "probe", "wait"}, Goto(w, s) \/ UNCHANGED pc,
             NEW x, term' = term \/ term' = [term EXCEPT ![w] = x]
      PROVE  Quiet(w)
  BY <1>2, <1>t DEF Quiet
<1>3. ASSUME NEW w \in Workers, In(w), UNCHANGED <<lock, term>>,
             NEW s \in Inside, Goto(w, s) \/ UNCHANGED pc
      PROVE  Quiet(w)
  BY <1>3, <1>t DEF Quiet
<1>4. ASSUME NEW w \in Workers PROVE
        \A t \in Terminals : \A v \in Workers : v # w =>
          /\ Released(w)[t] = v <=> lock[t] = v
          /\ [lock EXCEPT ![term[w]] = Stale][t] = v <=> lock[t] = v /\ t # term[w]
  BY <1>t DEF Released
<1>5. ASSUME NEW w \in Workers, pc[w] = "unlock", Unlocked(w),
             \A t \in Terminals : \A v \in Workers : v # w => (lock'[t] = v <=> lock[t] = v)
      PROVE  Left(w)
  <2>1. CASE \E s \in {"idle", "drop"} : Leave(w, s)
    BY <1>5, <1>t, <2>1 DEF Leave, Left
  <2>2. CASE ~ \E s \in {"idle", "drop"} : Leave(w, s)
    <3>1. pc' = [pc EXCEPT ![w] = "wait"] /\ term' = term
      BY <1>5, <2>2 DEF Unlocked, AfterFailure
    <3> QED
      BY <1>5, <1>t, <3>1 DEF Left
  <2> QED
    BY <2>1, <2>2
<1>p. ASSUME NEW w \in Workers, Picking(w) \/ Waiting(w) PROVE Quiet(w) \/ Entered(w) \/ Left(w)
  <2>1. CASE Picking(w)
    BY <1>2, <2>1 DEF Picking, Claim
  <2>2. CASE Probe(w)
    BY <1>2, <2>2 DEF Probe, LooksHeld, Pick
  <2>3. CASE Acquire(w)
    BY <1>t, <2>3 DEF Acquire, Entered
  <2>4. CASE LockTimeout(w)
    <3>1. \E s \in {"idle", "drop"} : Leave(w, s)
      BY <2>4 DEF LockTimeout
    <3> QED
      BY <1>1, <1>4, <2>4, <3>1 DEF LockTimeout
  <2> QED
    BY <1>p, <2>1, <2>2, <2>3, <2>4 DEF Waiting
<1>d. ASSUME NEW w \in Workers, Driving(w) PROVE Quiet(w) \/ Left(w)
  <2>1. CASE LoginWarm(w) \/ LoginSwitch(w) \/ LoginCold(w) \/ SwitchFails(w)
    <3>1. \E s \in Inside : Goto(w, s) \/ UNCHANGED pc
      BY <2>1 DEF LoginWarm, LoginSwitch, LoginCold, SwitchFails, AfterLogin
    <3> QED
      BY <1>3, <2>1, <3>1 DEF LoginWarm, LoginSwitch, LoginCold, SwitchFails
  <2>2. CASE LoginFails(w) \/ ReadHistory(w)
    BY <1>3, <2>2 DEF LoginFails, ReadHistory
  <2>3. CASE Release(w)
    BY <1>4, <1>5, <2>3 DEF Release
  <2>4. CASE ForcedShutdown(w)
    BY <1>2, <2>4 DEF ForcedShutdown
  <2> QED
    BY <1>d, <2>1, <2>2, <2>3, <2>4 DEF Driving
<1>f. ASSUME NEW w \in Workers, Failing(w) PROVE Quiet(w) \/ Left(w) \/ Lapsed(w)
  <2>1. CASE Overrun(w)
    BY <1>t, <2>1 DEF Overrun, Lapsed
  <2>2. CASE ProbeRaises(w)
    BY <1>2, <2>2 DEF ProbeRaises, LooksHeld, Pick
  <2>3. CASE AcquireRaises(w)
    <3>1. \E s \in {"idle", "drop"} : Leave(w, s)
      BY <2>3 DEF AcquireRaises, AfterFailure
    <3>2. \A t \in Terminals : \A v \in Workers : lock'[t] = v <=> lock[t] = v
      BY <1>t, <2>3 DEF AcquireRaises
    <3> QED
      BY <1>1, <3>1, <3>2
  <2>4. CASE ReleaseRaises(w)
    <3>1. \A t \in Terminals : \A v \in Workers : v # w => (lock'[t] = v <=> lock[t] = v)
      BY <1>t, <2>4 DEF ReleaseRaises
    <3> QED
      BY <1>5, <2>4, <3>1 DEF ReleaseRaises
  <2>5. CASE Crash(w)
    <3>1. \A t \in Terminals : \A v \in Workers : v # w => (lock'[t] = v <=> lock[t] = v)
      BY <1>t, <2>5 DEF Crash
    <3> QED
      BY <1>1, <2>5, <3>1 DEF Crash
  <2> QED
    BY <1>f, <2>1, <2>2, <2>3, <2>4, <2>5 DEF Failing
<1>e. ASSUME NEW x \in Terminals, Expire(x)
      PROVE  UNCHANGED <<pc, term>> /\ \A w \in Workers, t \in Terminals : lock'[t] = w <=> lock[t] = w
  BY <1>e, <1>t DEF Expire
<1> QED
  BY <1>p, <1>d, <1>f, <1>e DEF Next, vars
-----------------------------------------------------------------------------
(* The refinement *)

LEMMA LeaseStep == TypeOK /\ [Next]_vars => [Lease!Next]_Lease!vars
<1> SUFFICES ASSUME TypeOK, [Next]_vars PROVE [Lease!Next]_Lease!vars
  OBVIOUS
<1> USE NullsAssumption
<1>t. \A v \in Workers : In(v) => term[v] \in Terminals
  BY DEF TypeOK, In
<1>r. /\ RanOut \in [Terminals -> SUBSET Workers] /\ RanOut' \in [Terminals -> SUBSET Workers]
      /\ \A x \in Terminals : /\ RanOut[x] = {v \in Users(x) : lock[x] # v}
                             /\ RanOut'[x] = {v \in Users(x) : lock[x] # v}'
  BY DEF RanOut, Users
<1>1. ASSUME \A t \in Terminals : Users(t)' = Users(t),
             \A t \in Terminals : \A w \in Users(t) : lock'[t] = w <=> lock[t] = w
      PROVE  UNCHANGED Lease!vars
  <2>1. InUse' = InUse
    BY <1>1 DEF InUse, Users
  <2>2. RanOut' = RanOut
    BY <1>1 DEF RanOut, Users
  <2> QED
    BY <2>1, <2>2 DEF Lease!vars
<1>2. ASSUME NEW w \in Workers, Quiet(w) PROVE UNCHANGED Lease!vars
  <2>1. \A t \in Terminals : Users(t)' = Users(t)
    BY <1>2 DEF Quiet, Alone, In, Users
  <2>2. \A t \in Terminals : \A v \in Users(t) : lock'[t] = v <=> lock[t] = v
    BY <1>2 DEF Quiet, Alone, In, Users
  <2> QED
    BY <1>1, <2>1, <2>2
<1>3. ASSUME NEW w \in Workers, Entered(w) PROVE Lease!Next
  <2>0. PICK t \in Terminals : t = term[w]
    BY <1>3 DEF Entered
  <2>1. w \notin Users(t) /\ \A v \in Workers : lock[t] # v
    BY <1>3, <2>0 DEF Entered, Users, In
  <2>2. InUse[t] = RanOut[t] /\ w \notin InUse[t]
    BY <2>1 DEF InUse, RanOut, Users
  <2>3. Users(t)' = Users(t) \cup {w} /\ \A x \in Terminals : x # t => Users(x)' = Users(x)
    BY <1>3, <2>0 DEF Entered, Alone, In, Users
  <2>4. InUse' = [InUse EXCEPT ![t] = @ \cup {w}]
    BY <2>3 DEF InUse, Users
  <2>5. \A x \in Terminals : {v \in Users(x) : lock[x] # v}' = {v \in Users(x) : lock[x] # v}
    BY <1>3, <2>0, <2>1, <2>3 DEF Entered, Alone, Users
  <2>6. RanOut' = RanOut
    BY <2>5 DEF RanOut, Users
  <2>7. Lease!Enter(w, t)
    BY <2>2, <2>4, <2>6 DEF Lease!Enter
  <2> QED
    BY <2>7 DEF Lease!Next
<1>4. ASSUME NEW w \in Workers, Left(w) PROVE Lease!Next
  <2>0. PICK t \in Terminals : t = term[w]
    BY <1>4, <1>t DEF Left
  <2>1. w \in Users(t) /\ w \in InUse[t]
    BY <1>4, <2>0 DEF Left, Users, In, InUse
  <2>2. Users(t)' = Users(t) \ {w} /\ \A x \in Terminals : x # t => Users(x)' = Users(x)
    BY <1>4, <2>0 DEF Left, Alone, In, Users
  <2>3. InUse' = [InUse EXCEPT ![t] = @ \ {w}]
    BY <2>2 DEF InUse, Users
  <2>4. /\ {v \in Users(t) : lock[t] # v}' = {v \in Users(t) : lock[t] # v} \ {w}
        /\ \A x \in Terminals : x # t =>
             {v \in Users(x) : lock[x] # v}' = {v \in Users(x) : lock[x] # v}
    BY <1>4, <2>0, <2>1, <2>2 DEF Left, Alone, Users
  <2>5. RanOut' = [RanOut EXCEPT ![t] = @ \ {w}]
    BY <1>r, <2>4
  <2>6. Lease!Leave(w, t)
    BY <2>1, <2>3, <2>5 DEF Lease!Leave
  <2> QED
    BY <2>6 DEF Lease!Next
<1>5. ASSUME NEW w \in Workers, Lapsed(w) PROVE Lease!Next
  <2>0. PICK t \in Terminals : t = term[w]
    BY <1>5, <1>t DEF Lapsed
  <2>1. w \in Users(t) /\ w \in InUse[t] \ RanOut[t]
    BY <1>5, <2>0 DEF Lapsed, Users, In, InUse, RanOut
  <2>2. \A x \in Terminals : Users(x)' = Users(x)
    BY <1>5 DEF Lapsed, Alone, In, Users
  <2>3. InUse' = InUse
    BY <2>2 DEF InUse, Users
  <2>4. /\ {v \in Users(t) : lock[t] # v}' = {v \in Users(t) : lock[t] # v} \cup {w}
        /\ \A x \in Terminals : x # t =>
             {v \in Users(x) : lock[x] # v}' = {v \in Users(x) : lock[x] # v}
    BY <1>5, <2>0, <2>1, <2>2 DEF Lapsed, Alone, Users
  <2>5. RanOut' = [RanOut EXCEPT ![t] = @ \cup {w}]
    BY <1>r, <2>4
  <2>6. Lease!Lapse(w, t)
    BY <2>1, <2>3, <2>5 DEF Lease!Lapse
  <2> QED
    BY <2>6 DEF Lease!Next
<1>6. ASSUME UNCHANGED <<pc, term>>,
             \A w \in Workers, t \in Terminals : lock'[t] = w <=> lock[t] = w
      PROVE  UNCHANGED Lease!vars
  <2>1. \A t \in Terminals : Users(t)' = Users(t) /\ Users(t) \subseteq Workers
    BY <1>6 DEF Users
  <2> QED
    BY <1>1, <1>6, <2>1
<1> QED
  BY <1>2, <1>3, <1>4, <1>5, <1>6, LeaseMoves

\* The Redis lock implements TerminalLease: a worker is between acquire and release
\* of a terminal only if every other one there has lost its lease, whatever times
\* out, fails, is released late or dies.
THEOREM LeaseRefines == Spec => RefinesTerminalLease
<1>1. Init => Lease!Init
  BY DEF Init, Lease!Init, InUse, RanOut, Users, Inside
<1> QED
  BY <1>1, TypeInit, TypeStep, LeaseStep, PTL DEF Spec, RefinesTerminalLease, Lease!Spec
-----------------------------------------------------------------------------
(* Whose history is read *)

\* Without an overrun, who is between acquire and release has the lock.
Owns(w) == overruns = 0 /\ In(w) => lock[term[w]] = w

Excused(w) == warm[w] \/ conn[w] # term[w] \/ conn[w] \in strayed \/ overruns > 0

ReadsItsOwn(w) == pc[w] = "read" /\ Foreign(w) => Excused(w)

LEMMA OverrunSteps ==
  ASSUME TypeOK, [Next]_vars
  PROVE  /\ overruns \in Nat /\ overruns' \in Nat
         /\ overruns' = overruns \/ overruns' = overruns + 1
<1>1. overruns \in Nat
  BY LimitsAssumption DEF TypeOK
<1>2. ASSUME NEW w \in Workers, Failing(w) PROVE overruns' = overruns \/ overruns' = overruns + 1
  BY <1>2 DEF Failing, Overrun, ProbeRaises, AcquireRaises, ReleaseRaises, Crash
<1>3. ASSUME NEW w \in Workers, Picking(w) \/ Waiting(w) \/ Driving(w) PROVE overruns' = overruns
  BY <1>3 DEF Picking, Claim, Waiting, Probe, Acquire, LockTimeout, Driving, LoginWarm,
              LoginSwitch, SwitchFails, LoginCold, LoginFails, ReadHistory, Release,
              ForcedShutdown
<1>4. overruns' = overruns \/ overruns' = overruns + 1
  BY <1>2, <1>3 DEF Next, vars, Expire
<1> QED
  BY <1>1, <1>4

LEMMA OwnsStep ==
  ASSUME TypeOK, [Next]_vars, \A w \in Workers : Owns(w), NEW v \in Workers
  PROVE  Owns(v)'
<1> SUFFICES ASSUME overruns' = 0, In(v)' PROVE lock'[term'[v]] = v
  BY DEF Owns
<1>1. overruns = 0
  BY OverrunSteps
<1>t. \A w \in Workers : In(w) => term[w] \in Terminals
  BY NullsAssumption DEF TypeOK, In
<1>2. ASSUME NEW w \in Workers, Quiet(w) \/ Entered(w) \/ Left(w) \/ Lapsed(w)
      PROVE  lock'[term'[v]] = v
  <2>1. CASE v = w
    <3>1. CASE Quiet(w)
      BY <1>1, <2>1, <3>1 DEF Owns, Quiet, In
    <3>2. CASE Entered(w) \/ Left(w) \/ Lapsed(w)
      BY <1>1, <2>1, <3>2 DEF Entered, Left, Lapsed
    <3> QED
      BY <1>2, <3>1, <3>2
  <2>2. CASE v # w
    <3>1. Alone(w)
      BY <1>2 DEF Quiet, Entered, Left, Lapsed
    <3>2. In(v) /\ term'[v] = term[v]
      BY <2>2, <3>1 DEF Alone, In
    <3> QED
      BY <1>1, <1>t, <2>2, <3>1, <3>2 DEF Owns, Alone
  <2> QED
    BY <2>1, <2>2
<1>3. ASSUME UNCHANGED <<pc, term>>,
             \A w \in Workers, t \in Terminals : lock'[t] = w <=> lock[t] = w
      PROVE  lock'[term'[v]] = v
  BY <1>1, <1>3, <1>t DEF Owns, In
<1> QED
  BY <1>2, <1>3, LeaseMoves

\* A job comes to read by a login, and stays at it while others move.
LEMMA Reading ==
  ASSUME TypeOK, [Next]_vars, NEW w \in Workers, pc'[w] = "read"
  PROVE  \/ LoginWarm(w) \/ LoginSwitch(w) \/ LoginCold(w)
         \/ /\ pc[w] = "read" /\ account'[w] = account[w] /\ term'[w] = term[w]
            /\ conn'[w] = conn[w] /\ warm'[w] = warm[w]
<1> DEFINE Same == /\ pc'[w] = pc[w] /\ account'[w] = account[w] /\ term'[w] = term[w]
                   /\ conn'[w] = conn[w] /\ warm'[w] = warm[w]
<1>t. JobTypes /\ LinkTypes
  BY TypeParts
<1> USE DEF JobTypes, LinkTypes
<1>1. ASSUME NEW v \in Workers, v # w, Picking(v) \/ Waiting(v) PROVE Same
  <2>1. CASE Picking(v)
    BY <1>1, <1>t, <2>1 DEF Picking, Claim
  <2>2. CASE Probe(v)
    BY <1>1, <1>t, <2>2 DEF Probe, LooksHeld, Pick
  <2>3. CASE Acquire(v) \/ LockTimeout(v)
    BY <1>1, <1>t, <2>3 DEF Acquire, LockTimeout, Leave
  <2> QED
    BY <1>1, <2>1, <2>2, <2>3 DEF Waiting
<1>2. ASSUME NEW v \in Workers, v # w, Driving(v) PROVE Same
  <2>1. CASE LoginWarm(v) \/ LoginSwitch(v) \/ LoginCold(v)
    BY <1>2, <1>t, <2>1 DEF LoginWarm, LoginSwitch, LoginCold
  <2>2. CASE SwitchFails(v) \/ LoginFails(v) \/ ReadHistory(v) \/ ForcedShutdown(v)
    BY <1>2, <1>t, <2>2 DEF SwitchFails, LoginFails, ReadHistory, ForcedShutdown, Detach
  <2>3. CASE Release(v)
    BY <1>2, <1>t, <2>3 DEF Release, Detach, Unlocked, Leave
  <2> QED
    BY <1>2, <2>1, <2>2, <2>3 DEF Driving
<1>3. ASSUME NEW v \in Workers, v # w, Failing(v) PROVE Same
  <2>1. CASE Overrun(v) \/ ProbeRaises(v)
    BY <1>3, <1>t, <2>1 DEF Overrun, ProbeRaises, LooksHeld, Pick
  <2>2. CASE AcquireRaises(v) \/ ReleaseRaises(v)
    BY <1>3, <1>t, <2>2 DEF AcquireRaises, ReleaseRaises, Detach, Unlocked, Leave
  <2>3. CASE Crash(v)
    BY <1>3, <1>t, <2>3 DEF Crash, Detach, Leave
  <2> QED
    BY <1>3, <2>1, <2>2, <2>3 DEF Failing
<1>4. CASE UNCHANGED vars \/ \E t \in Terminals : Expire(t)
  BY <1>4 DEF vars, Expire
<1>5. ASSUME NEW s \in {"idle", "probe", "wait", "locked", "unlock", "drop"}, Goto(w, s) PROVE FALSE
  BY <1>5, <1>t
<1>6. CASE Picking(w) \/ Waiting(w)
  BY <1>5, <1>6, <1>t DEF Picking, Claim, Waiting, Probe, LooksHeld, Pick, Acquire,
              LockTimeout, Leave
<1>7. CASE Driving(w)
  BY <1>5, <1>7, <1>t DEF Driving, SwitchFails, LoginFails, ReadHistory, ForcedShutdown,
              Release, Unlocked, Leave, AfterFailure
<1>8. CASE Failing(w)
  <2>1. CASE Overrun(w)
    BY <2>1 DEF Overrun
  <2>2. CASE ProbeRaises(w)
    BY <1>5, <1>t, <2>2 DEF ProbeRaises, LooksHeld, Pick
  <2>3. CASE AcquireRaises(w) \/ ReleaseRaises(w) \/ Crash(w)
    BY <1>5, <2>3 DEF AcquireRaises, ReleaseRaises, Crash, Unlocked, Leave, AfterFailure
  <2> QED
    BY <1>8, <2>1, <2>2, <2>3 DEF Failing
<1> QED
  BY <1>1, <1>2, <1>3, <1>4, <1>6, <1>7, <1>8 DEF Next

\* Only a login changes the account of a terminal, and a terminal that was strayed
\* on is in order again when the holder of its lock logs in.
LEMMA AccountSteps ==
  ASSUME TypeOK, [Next]_vars
  PROVE  \/ UNCHANGED <<acct, strayed>>
         \/ strayed' = strayed /\ \E t : acct' = [acct EXCEPT ![t] = NoAccount]
         \/ \E v \in Workers : pc[v] = "locked" /\ \E t, a : LogIn(v, t, a)
<1> DEFINE Goal == \/ UNCHANGED <<acct, strayed>>
                   \/ strayed' = strayed /\ \E t : acct' = [acct EXCEPT ![t] = NoAccount]
                   \/ \E v \in Workers : pc[v] = "locked" /\ \E t, a : LogIn(v, t, a)
<1>1. ASSUME NEW v \in Workers, Picking(v) \/ Waiting(v) \/ Failing(v) PROVE Goal
  BY <1>1 DEF Picking, Claim, Waiting, Probe, Acquire, LockTimeout, Failing, Overrun,
              ProbeRaises, AcquireRaises, ReleaseRaises, Crash
<1>2. ASSUME NEW v \in Workers, Driving(v) PROVE Goal
  <2>1. CASE LoginSwitch(v) \/ LoginCold(v)
    BY <2>1 DEF LoginSwitch, LoginCold
  <2>2. CASE SwitchFails(v) \/ LoginFails(v)
    BY <2>2 DEF SwitchFails, LoginFails, LoginRefused
  <2> QED
    BY <1>2, <2>1, <2>2 DEF Driving, LoginWarm, ReadHistory, Release, ForcedShutdown
<1> QED
  BY <1>1, <1>2 DEF Next, vars, Expire

LEMMA ReadsItsOwnStep ==
  ASSUME TypeOK, TypeOK', [Next]_vars, \A w \in Workers : Owns(w) /\ ReadsItsOwn(w),
         NEW w \in Workers
  PROVE  ReadsItsOwn(w)'
<1> SUFFICES ASSUME pc'[w] = "read", Foreign(w)', ~(overruns' > 0)
             PROVE  warm'[w] \/ conn'[w] # term'[w] \/ conn'[w] \in strayed'
  BY DEF ReadsItsOwn, Excused
<1> USE NullsAssumption
<1>0. overruns = 0
  BY OverrunSteps
<1>t. /\ pc \in [Workers -> {"idle", "probe", "wait", "drop"} \cup Inside]
      /\ term \in [Workers -> Terminals \cup {NoTerminal}]
      /\ conn \in [Workers -> Terminals \cup {NoTerminal}]
      /\ account \in [Workers -> Accounts \cup {NoAccount}]
      /\ acct \in [Terminals -> Accounts \cup {NoAccount}]
      /\ warm \in [Workers -> BOOLEAN]
  BY DEF TypeOK
<1>1. CASE LoginWarm(w)
  BY <1>1, <1>t DEF LoginWarm
<1>2. CASE LoginSwitch(w) \/ LoginCold(w)
  <2>1. PICK t \in Terminals : LogIn(w, t, account[w]) /\ conn'[w] = t
    <3>1. session[w] # NoSession => conn[w] \in Terminals
      BY DEF TypeOK
    <3>2. pc[w] = "locked" => term[w] \in Terminals
      BY DEF TypeOK, Inside
    <3> QED
      BY <1>2, <1>t, <3>1, <3>2 DEF LoginSwitch, LoginCold
  <2>2. acct'[t] = account[w] /\ account' = account
    BY <1>2, <1>t, <2>1 DEF LogIn, LoginSwitch, LoginCold
  <2> QED
    BY <2>1, <2>2 DEF Foreign
<1>3. CASE /\ pc[w] = "read" /\ account'[w] = account[w] /\ term'[w] = term[w]
           /\ conn'[w] = conn[w] /\ warm'[w] = warm[w]
  <2>1. In(w) /\ conn[w] \in Terminals /\ lock[term[w]] = w
    BY <1>0, <1>3 DEF In, Inside, Owns, TypeOK
  <2>2. Foreign(w) => warm[w] \/ conn[w] # term[w] \/ conn[w] \in strayed
    BY <1>0, <1>3 DEF ReadsItsOwn, Excused
  <2>3. CASE UNCHANGED <<acct, strayed>>
    BY <1>3, <2>2, <2>3 DEF Foreign
  <2>4. CASE strayed' = strayed /\ \E t : acct' = [acct EXCEPT ![t] = NoAccount]
    BY <1>3, <1>t, <2>1, <2>2, <2>4 DEF Foreign
  <2>5. CASE \E v \in Workers : pc[v] = "locked" /\ \E t, a : LogIn(v, t, a)
    <3>0. PICK v \in Workers : pc[v] = "locked" /\ \E t, a : LogIn(v, t, a)
      BY <2>5
    <3>1. PICK t, a : pc[v] = "locked" /\ LogIn(v, t, a)
      BY <3>0
    <3>2. v # w
      BY <1>3, <3>1
    <3>3. CASE t = conn[w] /\ conn[w] = term[w]
      BY <1>3, <2>1, <3>1, <3>2, <3>3 DEF LogIn
    <3>4. CASE t # conn[w]
      <4>1. acct'[conn[w]] = acct[conn[w]]
        BY <1>t, <2>1, <3>1, <3>4 DEF LogIn
      <4>2. conn[w] \in strayed => conn[w] \in strayed'
        BY <3>1, <3>4 DEF LogIn
      <4> QED
        BY <1>3, <2>2, <4>1, <4>2 DEF Foreign
    <3> QED
      BY <1>3, <3>3, <3>4
  <2> QED
    BY <2>3, <2>4, <2>5, AccountSteps
<1> QED
  BY <1>1, <1>2, <1>3, Reading

Safe == TypeOK /\ \A w \in Workers : Owns(w) /\ ReadsItsOwn(w)

LEMMA SafeInit == Init => Safe
  BY TypeInit DEF Init, Owns, ReadsItsOwn, In, Inside, Safe

LEMMA SafeStep == Safe /\ [Next]_vars => Safe'
<1> SUFFICES ASSUME Safe, [Next]_vars PROVE Safe'
  OBVIOUS
<1>1. TypeOK'
  BY TypeStep DEF Safe
<1>2. \A w \in Workers : Owns(w)' /\ ReadsItsOwn(w)'
  BY <1>1, OwnsStep, ReadsItsOwnStep DEF Safe
<1> QED
  BY <1>1, <1>2 DEF Safe

\* A job reads another account's history only through what the lock does not cover,
\* for any number of workers, terminals, accounts and failures: a session kept warm,
\* a switch on a terminal it is attached to but has not locked, or a lost lease.
THEOREM ForeignExplained == Spec => []ForeignHistoryNeedsWarmth
<1>1. Safe => ForeignHistoryNeedsWarmth
  BY DEF Safe, ReadsItsOwn, Excused, ForeignHistoryNeedsWarmth
<1> QED
  BY SafeInit, SafeStep, <1>1, PTL DEF Spec

\* Two workers are between acquire and release of one terminal.
Together(v, w) == In(v) /\ In(w) /\ term[v] = term[w]

\* As long as no lease has run out, a terminal has one worker at a time between
\* acquire and release, whatever crashes, failed commands and expiries of abandoned
\* tokens there are.  (LeaseRefines says what is left of it after an overrun.)
THEOREM LocksExclude ==
  Spec => [](overruns = 0 => \A v, w \in Workers : Together(v, w) => v = w)
<1>1. Safe => (overruns = 0 => \A v, w \in Workers : Together(v, w) => v = w)
  BY DEF Safe, Owns, Together
<1> QED
  BY SafeInit, SafeStep, <1>1, PTL DEF Spec
=============================================================================
