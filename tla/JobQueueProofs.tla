--------------------------- MODULE JobQueueProofs ---------------------------
(***************************************************************************)
(* Proofs about JobQueue, for any numbers of clients, workers, slots and   *)
(* job ids and any bounds on failures and lock timeouts.                   *)
(***************************************************************************)
EXTENDS JobQueue, TLAPS

USE DEF Actors

\* Removing one element of a sequence leaves a sequence over the same set.
LEMMA RemoveAtType ==
  ASSUME NEW S, NEW s \in Seq(S), NEW i \in 1..Len(s)
  PROVE  RemoveAt(s, i) \in Seq(S)
  BY DEF RemoveAt

LEMMA LremType ==
  ASSUME NEW markers, LremProcessing(markers), processing \in Seq(JobIds)
  PROVE  processing' \in Seq(JobIds)
<1>1. CASE UNCHANGED processing
  BY <1>1
<1>2. CASE \E i \in 1..Len(processing) : processing' = RemoveAt(processing, i)
  BY <1>2, RemoveAtType
<1> QED
  BY <1>1, <1>2 DEF LremProcessing

CallAts == {"hset", "sadd", "push"}

\* What the records of payloads and calls are, once and for all.
LEMMA PayloadFacts ==
  /\ NoPayload \notin Payload
  /\ \A p \in Payload : p.id \in JobIds /\ p.attempt \in 0..1
  /\ \A j \in JobIds, n \in 0..1 : [id |-> j, attempt |-> n] \in Payload
  BY NoJobAssumption DEF Payload, NoPayload

LEMMA CallFacts ==
  /\ NoCall \notin Call /\ NoCall.at = "none"
  /\ \A c \in Call : c.at \in CallAts /\ c.job \in Payload
  BY DEF Call, NoCall, CallAts

LEMMA CallNextFacts ==
  ASSUME NEW c \in Call, NEW at \in CallAts
  PROVE  /\ CallNext(c, at) \in Call
         /\ CallNext(c, at).at = at /\ CallNext(c, at).job = c.job
  BY DEF Call, CallNext, CallAts

LEMMA EnqueueCallFacts ==
  ASSUME NEW at \in CallAts, NEW p \in Payload, NEW front \in BOOLEAN
  PROVE  /\ EnqueueCall(at, p, front) \in Call
         /\ EnqueueCall(at, p, front).at = at /\ EnqueueCall(at, p, front).job = p
  BY DEF Call, EnqueueCall, CallAts

\* A worker's enqueue_job call is under way only in these steps.
CallSteps ==
  \A w \in Workers : call[w] # NoCall => step[w] \in {"requeue", "retry", "rec_enq"}

TypeInv == TypeOK /\ CallSteps

\* A call at a command carries a payload of a slot.
LEMMA CallAtFacts ==
  ASSUME TypeInv, NEW a \in Actors, call[a].at \in CallAts
  PROVE  /\ call[a] \in Call /\ call[a] # NoCall
         /\ call[a].job \in Payload /\ CallSlot(a) \in Slots
  BY CallFacts, PayloadFacts, SlotsAssumption DEF TypeInv, TypeOK, CallSlot, CallAts

USE DEF redis, history, bounds

LEMMA TypeInit == Init => TypeInv
  BY BoundsAssumption, NoJobAssumption
  DEF Init, TypeInv, TypeOK, RedisTypeOK, WorkerTypeOK, CallSteps, Steps, ClaimSteps,
      RunSteps, AckSteps, OwnSteps, HoldSteps, NoPayload, NoEntry

LEMMA CallTypeStep ==
  TypeInv /\ [Next]_vars => call' \in [Actors -> Call \cup {NoCall}] /\ CallSteps'
<1> SUFFICES ASSUME TypeInv, [Next]_vars
             PROVE  call' \in [Actors -> Call \cup {NoCall}] /\ CallSteps'
  OBVIOUS
<1> USE CallFacts, ActorsAssumption, BoundsAssumption
    DEF TypeInv, TypeOK, WorkerTypeOK, CallSteps, ClaimSteps, RunSteps, AckSteps, OwnSteps,
        HoldSteps, CallAts, Goto, Forget, Fail
<1>1. ASSUME NEW c \in Clients, NEW j \in JobIds, NEW front \in Priorities,
             Enqueue(c, j, front)
     PROVE call' \in [Actors -> Call \cup {NoCall}] /\ CallSteps'
  <2>1. [id |-> j, attempt |-> 0] \in Payload
    BY DEF Payload
  <2>2. EnqueueCall("sadd", [id |-> j, attempt |-> 0], front) \in Call
    BY <2>1, EnqueueCallFacts
  <2> QED
    BY <2>2, <1>1 DEF Enqueue
<1>2. ASSUME NEW w \in Workers, HsetLatest(w)
     PROVE call' \in [Actors -> Call \cup {NoCall}] /\ CallSteps'
  BY <1>2, CallNextFacts, CallAtFacts DEF HsetLatest
<1>3. ASSUME NEW a \in Actors, SaddNew(a)
     PROVE call' \in [Actors -> Call \cup {NoCall}] /\ CallSteps'
  BY <1>3, CallNextFacts, CallAtFacts DEF SaddNew
<1>4. ASSUME NEW a \in Actors, SaddCoalesced(a)
     PROVE call' \in [Actors -> Call \cup {NoCall}] /\ CallSteps'
  BY <1>4 DEF SaddCoalesced, EnqueueReturns, NextEntry
<1>5. ASSUME NEW a \in Actors, PushMarker(a)
     PROVE call' \in [Actors -> Call \cup {NoCall}] /\ CallSteps'
  BY <1>5 DEF PushMarker, EnqueueReturns, NextEntry
<1>6. ASSUME NEW w \in Workers, BootRecover(w)
     PROVE call' \in [Actors -> Call \cup {NoCall}] /\ CallSteps'
  BY <1>6 DEF BootRecover, Recover, MetaEntries
<1>7. ASSUME NEW w \in Workers, StaleRecover(w)
     PROVE call' \in [Actors -> Call \cup {NoCall}] /\ CallSteps'
  BY <1>7 DEF StaleRecover, Recover, MetaEntries
<1>8. ASSUME NEW w \in Workers, RecoverLrem(w)
     PROVE call' \in [Actors -> Call \cup {NoCall}] /\ CallSteps'
  BY <1>8 DEF RecoverLrem
<1>9. ASSUME NEW w \in Workers, RecoverHdel(w)
     PROVE call' \in [Actors -> Call \cup {NoCall}] /\ CallSteps'
  <2>1. job[w] \in Payload
    BY <1>9 DEF RecoverHdel
  <2>2. EnqueueCall("hset", job[w], FALSE) \in Call
    BY <2>1, EnqueueCallFacts
  <2> QED
    BY <2>2, <1>9 DEF RecoverHdel
<1>10. ASSUME NEW w \in Workers, BlPop(w)
     PROVE call' \in [Actors -> Call \cup {NoCall}] /\ CallSteps'
  BY <1>10 DEF BlPop
<1>11. ASSUME NEW w \in Workers, BlPopTimeout(w)
     PROVE call' \in [Actors -> Call \cup {NoCall}] /\ CallSteps'
  BY <1>11 DEF BlPopTimeout
<1>12. ASSUME NEW w \in Workers, RpushProcessing(w)
     PROVE call' \in [Actors -> Call \cup {NoCall}] /\ CallSteps'
  BY <1>12 DEF RpushProcessing
<1>13. ASSUME NEW w \in Workers, HgetLatest(w)
     PROVE call' \in [Actors -> Call \cup {NoCall}] /\ CallSteps'
  BY <1>13 DEF HgetLatest, ResolvedPayload, Slot
<1>14. ASSUME NEW w \in Workers, SremPending(w)
     PROVE call' \in [Actors -> Call \cup {NoCall}] /\ CallSteps'
  BY <1>14 DEF SremPending, Slot
<1>15. ASSUME NEW w \in Workers, HdelLatest(w)
     PROVE call' \in [Actors -> Call \cup {NoCall}] /\ CallSteps'
  BY <1>15 DEF HdelLatest, Slot
<1>16. ASSUME NEW w \in Workers, HsetMeta(w)
     PROVE call' \in [Actors -> Call \cup {NoCall}] /\ CallSteps'
  BY <1>16 DEF HsetMeta
<1>17. ASSUME NEW w \in Workers, Complete(w)
     PROVE call' \in [Actors -> Call \cup {NoCall}] /\ CallSteps'
  BY <1>17 DEF Complete, Slot
<1>18. ASSUME NEW w \in Workers, LockTimeout(w)
     PROVE call' \in [Actors -> Call \cup {NoCall}] /\ CallSteps'
  <2>1. job[w] \in Payload
    BY <1>18 DEF LockTimeout
  <2>2. EnqueueCall("hset", job[w], FALSE) \in Call
    BY <2>1, EnqueueCallFacts
  <2> QED
    BY <2>2, <1>18 DEF LockTimeout
<1>19. ASSUME NEW w \in Workers, AckLrem(w)
     PROVE call' \in [Actors -> Call \cup {NoCall}] /\ CallSteps'
  BY <1>19 DEF AckLrem
<1>20. ASSUME NEW w \in Workers, AckScan(w)
     PROVE call' \in [Actors -> Call \cup {NoCall}] /\ CallSteps'
  BY <1>20 DEF AckScan, Slot
<1>21. ASSUME NEW w \in Workers, AckLremSame(w)
     PROVE call' \in [Actors -> Call \cup {NoCall}] /\ CallSteps'
  BY <1>21 DEF AckLremSame
<1>22. ASSUME NEW w \in Workers, AckHdel(w)
     PROVE call' \in [Actors -> Call \cup {NoCall}] /\ CallSteps'
  BY <1>22 DEF AckHdel
<1>23. ASSUME NEW w \in Workers, Restart(w)
     PROVE call' \in [Actors -> Call \cup {NoCall}] /\ CallSteps'
  BY <1>23 DEF Restart
<1>24. ASSUME NEW w \in Workers, Crash(w)
     PROVE call' \in [Actors -> Call \cup {NoCall}] /\ CallSteps'
  BY <1>24 DEF Crash
<1>25. ASSUME NEW w \in Workers, ClaimRaises(w)
     PROVE call' \in [Actors -> Call \cup {NoCall}] /\ CallSteps'
  BY <1>25 DEF ClaimRaises
<1>26. ASSUME NEW w \in Workers, RecoverReadRaises(w)
     PROVE call' \in [Actors -> Call \cup {NoCall}] /\ CallSteps'
  BY <1>26 DEF RecoverReadRaises
<1>27. ASSUME NEW w \in Workers, RecoverDropRaises(w)
     PROVE call' \in [Actors -> Call \cup {NoCall}] /\ CallSteps'
  <2>1. CASE step[w] = "rec_hdel"
    <3>1. EnqueueCall("hset", job[w], FALSE) \in Call
      BY <2>1, EnqueueCallFacts
    <3>2. /\ call' = [call EXCEPT ![w] = EnqueueCall("hset", job[w], FALSE)]
          /\ step' = [step EXCEPT ![w] = "rec_enq"]
      BY <2>1, <1>27 DEF RecoverDropRaises
    <3> QED
      BY <3>1, <3>2
  <2>2. CASE step[w] = "rec_next"
    <3>1. PICK e \in todo[w] : call' = [call EXCEPT ![w] = EnqueueCall("hset", e.job, FALSE)]
      BY <2>2, <1>27 DEF RecoverDropRaises
    <3>2. e.job \in Payload
      BY DEF Entry
    <3>3. EnqueueCall("hset", e.job, FALSE) \in Call
      BY <3>2, EnqueueCallFacts
    <3> QED
      BY <3>1, <3>3, <1>27 DEF RecoverDropRaises
  <2> QED
    BY <2>1, <2>2, <1>27 DEF RecoverDropRaises
<1>28. ASSUME NEW w \in Workers, RecoverEnqueueRaises(w)
     PROVE call' \in [Actors -> Call \cup {NoCall}] /\ CallSteps'
  BY <1>28 DEF RecoverEnqueueRaises
<1>29. ASSUME NEW w \in Workers, RequeueRaises(w)
     PROVE call' \in [Actors -> Call \cup {NoCall}] /\ CallSteps'
  <2>1. CASE ShouldRequeue(job[w])
    <3>1. PICK j \in JobIds :
            call' = [call EXCEPT ![w] =
                       EnqueueCall("hset", [id |-> j, attempt |-> job[w].attempt + 1], FALSE)]
      BY <2>1, <1>29 DEF RequeueRaises
    <3>2. job[w].attempt + 1 \in 0..1
      BY <2>1, <1>29, PayloadFacts DEF RequeueRaises, ShouldRequeue
    <3>3. [id |-> j, attempt |-> job[w].attempt + 1] \in Payload
      BY <3>2, PayloadFacts
    <3>4. EnqueueCall("hset", [id |-> j, attempt |-> job[w].attempt + 1], FALSE) \in Call
      BY <3>3, EnqueueCallFacts
    <3> QED
      BY <2>1, <3>1, <3>4, <1>29 DEF RequeueRaises
  <2>2. CASE ~ShouldRequeue(job[w])
    BY <2>2, <1>29 DEF RequeueRaises
  <2> QED
    BY <2>1, <2>2
<1>30. ASSUME NEW w \in Workers, RetryRaises(w)
     PROVE call' \in [Actors -> Call \cup {NoCall}] /\ CallSteps'
  BY <1>30 DEF RetryRaises
<1>31. ASSUME NEW w \in Workers, AckRaises(w)
     PROVE call' \in [Actors -> Call \cup {NoCall}] /\ CallSteps'
  BY <1>31 DEF AckRaises
<1>32. ASSUME NEW c \in Clients, ClientAborts(c)
     PROVE call' \in [Actors -> Call \cup {NoCall}] /\ CallSteps'
  BY <1>32 DEF ClientAborts
<1>33. CASE UNCHANGED vars
  BY <1>33 DEF vars
<1> QED
  BY <1>1, <1>2, <1>3, <1>4, <1>5, <1>6, <1>7, <1>8, <1>9, <1>10, <1>11, <1>12, <1>13,
    <1>14, <1>15, <1>16, <1>17, <1>18, <1>19, <1>20, <1>21, <1>22, <1>23, <1>24,
    <1>25, <1>26, <1>27, <1>28, <1>29, <1>30, <1>31, <1>32, <1>33 DEF Next,
    WorkerNext, WorkerFails, Calling, Recovering, Claiming, Running, Acking

LEMMA TypeStep == TypeInv /\ [Next]_vars => TypeInv'
<1> SUFFICES ASSUME TypeInv, [Next]_vars PROVE TypeInv'
  OBVIOUS
<1> USE CallTypeStep, BoundsAssumption, NoJobAssumption, SlotsAssumption, ActorsAssumption
    DEF TypeInv, TypeOK, RedisTypeOK, WorkerTypeOK, Steps, ClaimSteps, RunSteps, AckSteps,
        OwnSteps, HoldSteps, NoPayload, NoEntry, Payload, Entry, Goto, Forget, Fail
<1>1. ASSUME NEW c \in Clients, NEW j \in JobIds, NEW front \in Priorities,
             Enqueue(c, j, front)
     PROVE TypeInv'
  BY <1>1 DEF Enqueue
<1>2. ASSUME NEW w \in Workers, HsetLatest(w)
     PROVE TypeInv'
  BY <1>2, CallAtFacts DEF HsetLatest, CallAts, CallSteps
<1>3. ASSUME NEW a \in Actors, SaddNew(a)
     PROVE TypeInv'
  BY <1>3, CallAtFacts DEF SaddNew, CallAts, CallSteps
<1>4. ASSUME NEW a \in Actors, SaddCoalesced(a)
     PROVE TypeInv'
  <2>1. RedisTypeOK'
    BY <1>4, CallAtFacts DEF SaddCoalesced, EnqueueReturns, CallAts
  <2>2. /\ step' \in [Workers -> Steps]
        /\ \A v \in Workers :
             (\/ step'[v] = step[v]
              \/ step'[v] \in {"rec_next", "loop", "claim", "down"}
              \/ step'[v] = "ack" /\ step[v] \in {"requeue", "retry"})
    <3>1. a \in Workers => step[a] \in {"requeue", "retry", "rec_enq"}
      BY <1>4, CallAtFacts DEF SaddCoalesced, CallSteps, CallAts
    <3>2. step' = [w \in Workers |-> IF w # a THEN step[w]
                                    ELSE IF step[w] = "rec_enq" THEN NextEntry(w) ELSE "ack"]
      BY <1>4 DEF SaddCoalesced, EnqueueReturns
    <3>3. \A w \in Workers : NextEntry(w) \in {"rec_next", "loop", "claim", "down"}
      BY DEF NextEntry
    <3> QED
      BY <3>1, <3>2, <3>3
  <2>3. WorkerTypeOK'
    BY <2>2, <1>4 DEF SaddCoalesced, EnqueueReturns
  <2>4. need' \in SUBSET Slots
    <3>1. CallSlot(a) \in Slots
      BY <1>4, CallAtFacts DEF SaddCoalesced, CallAts
    <3> QED
      BY <3>1, <1>4 DEF SaddCoalesced, EnqueueReturns
  <2>5. fresh' \in [Workers -> BOOLEAN]
    <3>1. CASE a \in Clients
      <4>1. fresh' = [w \in Workers |-> fresh[w] /\ (marker[w] \in JobIds
                                                    => SlotOf[marker[w]] # CallSlot(a))]
        BY <3>1, <1>4 DEF SaddCoalesced, EnqueueReturns
      <4> QED
        BY <4>1, Zenon
    <3>2. CASE a \notin Clients
      BY <3>2, <1>4 DEF SaddCoalesced, EnqueueReturns
    <3> QED
      BY <3>1, <3>2
  <2> HIDE DEF RedisTypeOK, WorkerTypeOK
  <2> QED
    BY <2>1, <2>3, <2>4, <2>5, <1>4 DEF SaddCoalesced, EnqueueReturns
<1>5. ASSUME NEW a \in Actors, PushMarker(a)
     PROVE TypeInv'
  <2>1. RedisTypeOK'
    BY <1>5, CallAtFacts DEF PushMarker, EnqueueReturns, CallAts
  <2>2. /\ step' \in [Workers -> Steps]
        /\ \A v \in Workers :
             (\/ step'[v] = step[v]
              \/ step'[v] \in {"rec_next", "loop", "claim", "down"}
              \/ step'[v] = "ack" /\ step[v] \in {"requeue", "retry"})
    <3>1. a \in Workers => step[a] \in {"requeue", "retry", "rec_enq"}
      BY <1>5, CallAtFacts DEF PushMarker, CallSteps, CallAts
    <3>2. step' = [w \in Workers |-> IF w # a THEN step[w]
                                    ELSE IF step[w] = "rec_enq" THEN NextEntry(w) ELSE "ack"]
      BY <1>5 DEF PushMarker, EnqueueReturns
    <3>3. \A w \in Workers : NextEntry(w) \in {"rec_next", "loop", "claim", "down"}
      BY DEF NextEntry
    <3> QED
      BY <3>1, <3>2, <3>3
  <2>3. WorkerTypeOK'
    BY <2>2, <1>5 DEF PushMarker, EnqueueReturns
  <2>4. need' \in SUBSET Slots
    <3>1. CallSlot(a) \in Slots
      BY <1>5, CallAtFacts DEF PushMarker, CallAts
    <3> QED
      BY <3>1, <1>5 DEF PushMarker, EnqueueReturns
  <2>5. fresh' \in [Workers -> BOOLEAN]
    <3>1. CASE a \in Clients
      <4>1. fresh' = [w \in Workers |-> fresh[w] /\ (marker[w] \in JobIds
                                                    => SlotOf[marker[w]] # CallSlot(a))]
        BY <3>1, <1>5 DEF PushMarker, EnqueueReturns
      <4> QED
        BY <4>1, Zenon
    <3>2. CASE a \notin Clients
      BY <3>2, <1>5 DEF PushMarker, EnqueueReturns
    <3> QED
      BY <3>1, <3>2
  <2> HIDE DEF RedisTypeOK, WorkerTypeOK
  <2> QED
    BY <2>1, <2>3, <2>4, <2>5, <1>5 DEF PushMarker, EnqueueReturns
<1>6. ASSUME NEW w \in Workers, BootRecover(w)
     PROVE TypeInv'
  BY <1>6 DEF BootRecover, Recover, MetaEntries
<1>7. ASSUME NEW w \in Workers, StaleRecover(w)
     PROVE TypeInv'
  BY <1>7 DEF StaleRecover, Recover, MetaEntries
<1>8. ASSUME NEW w \in Workers, RecoverLrem(w)
     PROVE TypeInv'
  BY <1>8, LremType DEF RecoverLrem
<1>9. ASSUME NEW w \in Workers, RecoverHdel(w)
     PROVE TypeInv'
  BY <1>9 DEF RecoverHdel
<1>10. ASSUME NEW w \in Workers, BlPop(w)
     PROVE TypeInv'
  BY <1>10 DEF BlPop
<1>11. ASSUME NEW w \in Workers, BlPopTimeout(w)
     PROVE TypeInv'
  BY <1>11 DEF BlPopTimeout
<1>12. ASSUME NEW w \in Workers, RpushProcessing(w)
     PROVE TypeInv'
  BY <1>12 DEF RpushProcessing
<1>13. ASSUME NEW w \in Workers, HgetLatest(w)
     PROVE TypeInv'
  BY <1>13 DEF HgetLatest, ResolvedPayload, Slot
<1>14. ASSUME NEW w \in Workers, SremPending(w)
     PROVE TypeInv'
  BY <1>14 DEF SremPending, Slot
<1>15. ASSUME NEW w \in Workers, HdelLatest(w)
     PROVE TypeInv'
  BY <1>15 DEF HdelLatest, Slot
<1>16. ASSUME NEW w \in Workers, HsetMeta(w)
     PROVE TypeInv'
  BY <1>16 DEF HsetMeta
<1>17. ASSUME NEW w \in Workers, Complete(w)
     PROVE TypeInv'
  BY <1>17 DEF Complete, Slot
<1>18. ASSUME NEW w \in Workers, LockTimeout(w)
     PROVE TypeInv'
  <2>1. RedisTypeOK' /\ WorkerTypeOK'
    BY <1>18 DEF LockTimeout
  <2>2. lockTimeouts' \in 0..MaxLockTimeouts
    BY <1>18 DEF LockTimeout
  <2> HIDE DEF RedisTypeOK, WorkerTypeOK
  <2> QED
    BY <2>1, <2>2, <1>18 DEF LockTimeout
<1>19. ASSUME NEW w \in Workers, AckLrem(w)
     PROVE TypeInv'
  BY <1>19, LremType DEF AckLrem
<1>20. ASSUME NEW w \in Workers, AckScan(w)
     PROVE TypeInv'
  <2>1. /\ step' = [step EXCEPT ![w] = "ack_lrem"] \/ step' = [step EXCEPT ![w] = "ack_meta"]
        /\ \/ UNCHANGED marker
           \/ \E i \in 1..Len(processing) : marker' = [marker EXCEPT ![w] = processing[i]]
    BY <1>20 DEF AckScan
  <2>2. marker' \in [Workers -> JobIds \cup {NoJob}] /\ marker'[w] \in JobIds
        /\ \A v \in Workers \ {w} : marker'[v] = marker[v]
    <3>1. CASE UNCHANGED marker
      BY <3>1, <1>20 DEF AckScan
    <3>2. CASE \E i \in 1..Len(processing) : marker' = [marker EXCEPT ![w] = processing[i]]
      <4>1. PICK i \in 1..Len(processing) : marker' = [marker EXCEPT ![w] = processing[i]]
        BY <3>2
      <4>2. processing[i] \in JobIds
        BY <4>1
      <4> QED
        BY <4>1, <4>2
    <3> QED
      BY <2>1, <3>1, <3>2
  <2>3. /\ step \in [Workers -> Steps] /\ step[w] = "ack_scan" /\ job[w] \in Payload
        /\ UNCHANGED <<redis, issued, call, job, todo, after, bounds, history>>
    BY <1>20 DEF AckScan
  <2>4. WorkerTypeOK'
    <3>1. step'[w] \in {"ack_lrem", "ack_meta"} /\ \A v \in Workers \ {w} : step'[v] = step[v]
      BY <2>1, <2>3
    <3>2. step' \in [Workers -> Steps]
      BY <2>1, <2>3
    <3> QED
      BY <2>2, <2>3, <3>1, <3>2
  <2> QED
    BY <2>3, <2>4
<1>21. ASSUME NEW w \in Workers, AckLremSame(w)
     PROVE TypeInv'
  BY <1>21, LremType DEF AckLremSame
<1>22. ASSUME NEW w \in Workers, AckHdel(w)
     PROVE TypeInv'
  BY <1>22 DEF AckHdel
<1>23. ASSUME NEW w \in Workers, Restart(w)
     PROVE TypeInv'
  BY <1>23 DEF Restart
<1>24. ASSUME NEW w \in Workers, Crash(w)
     PROVE TypeInv'
  BY <1>24 DEF Crash
<1>25. ASSUME NEW w \in Workers, ClaimRaises(w)
     PROVE TypeInv'
  BY <1>25 DEF ClaimRaises
<1>26. ASSUME NEW w \in Workers, RecoverReadRaises(w)
     PROVE TypeInv'
  BY <1>26 DEF RecoverReadRaises
<1>27. ASSUME NEW w \in Workers, RecoverDropRaises(w)
     PROVE TypeInv'
  <2>1. CASE step[w] = "rec_hdel"
    BY <2>1, <1>27 DEF RecoverDropRaises
  <2>2. CASE step[w] = "rec_next"
    <3>1. PICK e \in todo[w] : /\ todo' = [todo EXCEPT ![w] = @ \ {e}]
                               /\ job' = [job EXCEPT ![w] = e.job]
      BY <2>2, <1>27 DEF RecoverDropRaises
    <3>2. job' \in [Workers -> Payload \cup {NoPayload}]
      BY <3>1
    <3>3. todo' \in [Workers -> SUBSET Entry]
      <4> HIDE DEF Entry
      <4> QED
        BY <3>1
    <3>4. RedisTypeOK' /\ WorkerTypeOK'
      BY <2>2, <3>1, <3>2, <3>3, <1>27 DEF RecoverDropRaises
    <3> HIDE DEF RedisTypeOK, WorkerTypeOK
    <3> QED
      BY <2>2, <3>4, <1>27 DEF RecoverDropRaises
  <2> QED
    BY <2>1, <2>2, <1>27 DEF RecoverDropRaises
<1>28. ASSUME NEW w \in Workers, RecoverEnqueueRaises(w)
     PROVE TypeInv'
  BY <1>28 DEF RecoverEnqueueRaises
<1>29. ASSUME NEW w \in Workers, RequeueRaises(w)
     PROVE TypeInv'
  <2>1. RedisTypeOK' /\ WorkerTypeOK'
    <3>1. /\ step[w] = "requeue" /\ UNCHANGED <<redis, marker, job, todo, after>>
          /\ step' = [step EXCEPT ![w] = "retry"] \/ step' = [step EXCEPT ![w] = "ack"]
      BY <1>29 DEF RequeueRaises
    <3>2. step'[w] \in {"retry", "ack"} /\ \A v \in Workers \ {w} : step'[v] = step[v]
      BY <3>1
    <3>3. step' \in [Workers -> Steps]
      BY <3>1
    <3> QED
      BY <3>1, <3>2, <3>3
  <2>2. issued' \in SUBSET JobIds /\ need' \in SUBSET Slots
    BY <1>29 DEF RequeueRaises
  <2> HIDE DEF RedisTypeOK, WorkerTypeOK
  <2> QED
    BY <2>1, <2>2, <1>29 DEF RequeueRaises
<1>30. ASSUME NEW w \in Workers, RetryRaises(w)
     PROVE TypeInv'
  BY <1>30 DEF RetryRaises
<1>31. ASSUME NEW w \in Workers, AckRaises(w)
     PROVE TypeInv'
  BY <1>31 DEF AckRaises
<1>32. ASSUME NEW c \in Clients, ClientAborts(c)
     PROVE TypeInv'
  BY <1>32 DEF ClientAborts
<1>33. CASE UNCHANGED vars
  BY <1>33 DEF vars
<1> QED
  BY <1>1, <1>2, <1>3, <1>4, <1>5, <1>6, <1>7, <1>8, <1>9, <1>10, <1>11, <1>12, <1>13,
    <1>14, <1>15, <1>16, <1>17, <1>18, <1>19, <1>20, <1>21, <1>22, <1>23, <1>24,
    <1>25, <1>26, <1>27, <1>28, <1>29, <1>30, <1>31, <1>32, <1>33 DEF Next,
    WorkerNext, WorkerFails, Calling, Recovering, Claiming, Running, Acking

\* Every state satisfies the type invariant.
THEOREM TypeCorrect == Spec => []TypeOK
<1>1. TypeInv => TypeOK
  BY DEF TypeInv
<1> QED
  BY TypeInit, TypeStep, <1>1, PTL DEF Spec
=============================================================================
