------------------------ MODULE JobQueueMarkerProofs ------------------------
(***************************************************************************)
(* Where the markers of the job queue are.  Every step either leaves them  *)
(* alone, drops one (a failure), or moves the marker of one slot along its *)
(* way: from the SADD of enqueue_job to the list, from the list to its     *)
(* claimer, and to its SREM.  From that follow OneMarker, the two          *)
(* properties of wedged slots, and the refinement of CoalescingQueue.      *)
(***************************************************************************)
EXTENDS JobQueueProofs

USE DEF Actors, redis, history, bounds

Quiet ==
  /\ UNCHANGED <<queue, pending>>
  /\ \A b \in Actors, t \in Slots : Carries(b, t)' <=> Carries(b, t)

\* Actor a fails and loses the marker it carried, if it did.
Dropping(a) ==
  /\ failures' > failures
  /\ UNCHANGED <<queue, pending>>
  /\ \A b \in Actors, t \in Slots : /\ Carries(b, t)' => Carries(b, t)
                                    /\ Carries(b, t) /\ b # a => Carries(b, t)'

Dropped == \E a \in Actors : Fails(a) /\ Dropping(a)

\* Actor a adds s to `pending` and is about to push its marker.
Adding(a, s) ==
  /\ s \notin pending /\ pending' = pending \cup {s}
  /\ UNCHANGED queue
  /\ \A b \in Actors, t \in Slots :
       Carries(b, t)' <=> Carries(b, t) \/ (b = a /\ t = s)

Pushing(a, s) ==
  /\ Carries(a, s)
  /\ \E j \in JobIds : /\ SlotOf[j] = s
                       /\ queue' = <<j>> \o queue \/ queue' = Append(queue, j)
  /\ UNCHANGED pending
  /\ \A b \in Actors, t \in Slots : Carries(b, t)' <=> Carries(b, t) /\ b # a

Popping(a, s) ==
  /\ queue # <<>> /\ SlotOf[Head(queue)] = s /\ queue' = Tail(queue)
  /\ UNCHANGED pending
  /\ \A b \in Actors, t \in Slots :
       Carries(b, t)' <=> Carries(b, t) \/ (b = a /\ t = s)

Releasing(a, s) ==
  /\ Carries(a, s)
  /\ pending' = pending \ {s}
  /\ UNCHANGED queue
  /\ \A b \in Actors, t \in Slots : Carries(b, t)' <=> Carries(b, t) /\ b # a

MarkerMove == \E a \in Actors, s \in Slots : \/ Adding(a, s) \/ Pushing(a, s)
                                             \/ Popping(a, s) \/ Releasing(a, s)

LEMMA MoveIntro ==
  ASSUME NEW a \in Actors, NEW s \in Slots,
         Adding(a, s) \/ Pushing(a, s) \/ Popping(a, s) \/ Releasing(a, s)
  PROVE  MarkerMove
  BY DEF MarkerMove

LEMMA DropIntro ==
  ASSUME NEW a \in Actors, Fails(a), Dropping(a)
  PROVE  Dropped
  BY DEF Dropped

LEMMA CallAtOf ==
  /\ \A at, p, front : EnqueueCall(at, p, front).at = at
  /\ \A c, at : CallNext(c, at).at = at /\ CallNext(c, at).job = c.job
  /\ NoCall.at = "none"
  BY DEF EnqueueCall, CallNext, NoCall

LEMMA MarkerStep == TypeInv /\ [Next]_vars => Quiet \/ Dropped \/ MarkerMove
<1> SUFFICES ASSUME TypeInv, [Next]_vars PROVE Quiet \/ Dropped \/ MarkerMove
  OBVIOUS
<1>a. /\ step \in [Workers -> Steps] /\ call \in [Actors -> Call \cup {NoCall}]
      /\ marker \in [Workers -> JobIds \cup {NoJob}] /\ queue \in Seq(JobIds)
      /\ after \in [Workers -> {"loop", "claim", "down"}]
      /\ failures \in Nat /\ CallSteps
  BY BoundsAssumption DEF TypeInv, TypeOK, WorkerTypeOK, RedisTypeOK
<1> USE <1>a, CallAtOf, ActorsAssumption DEF Carries, CallSlot, Slot, HoldSteps, Goto, Forget
<1>1. ASSUME NEW c \in Clients, NEW j \in JobIds, NEW front \in Priorities,
             Enqueue(c, j, front)
     PROVE Quiet
  BY <1>1 DEF Quiet, Enqueue
<1>2. ASSUME NEW w \in Workers, HsetLatest(w)
     PROVE Quiet
  BY <1>2 DEF Quiet, HsetLatest, CallSteps
<1>3. ASSUME NEW a \in Actors, SaddNew(a)
     PROVE MarkerMove
  <2>1. CallSlot(a) \in Slots
    BY <1>3, CallAtFacts DEF SaddNew, CallAts
  <2>2. PICK s \in Slots : s = CallSlot(a)
    BY <2>1
  <2>3. /\ call' = [call EXCEPT ![a] = CallNext(call[a], "push")]
        /\ call'[a].at = "push" /\ call'[a].job = call[a].job
    BY <1>3 DEF SaddNew
  <2>4. Adding(a, s)
    BY <1>3, <2>2, <2>3 DEF SaddNew, Added, Adding
  <2> QED
    BY <2>4, MoveIntro
<1>4. ASSUME NEW a \in Actors, SaddCoalesced(a)
     PROVE Quiet
  BY <1>4 DEF Quiet, SaddCoalesced, EnqueueReturns, NextEntry, CallSteps
<1>5. ASSUME NEW a \in Actors, PushMarker(a)
     PROVE MarkerMove
  <2>1. CallSlot(a) \in Slots /\ call[a].job.id \in JobIds
    BY <1>5, CallAtFacts, PayloadFacts DEF PushMarker, CallAts
  <2>2. PICK s \in Slots : s = CallSlot(a)
    BY <2>1
  <2>3. Pushing(a, s)
    BY <1>5, <2>1, <2>2 DEF PushMarker, EnqueueReturns, NextEntry, Pushing, CallSteps
  <2> QED
    BY <2>3, MoveIntro
<1>6. ASSUME NEW w \in Workers, BootRecover(w)
     PROVE Quiet
  BY <1>6 DEF Quiet, BootRecover, Recover, MetaEntries
<1>7. ASSUME NEW w \in Workers, StaleRecover(w)
     PROVE Quiet
  BY <1>7 DEF Quiet, StaleRecover, Recover, MetaEntries
<1>8. ASSUME NEW w \in Workers, RecoverLrem(w)
     PROVE Quiet
  BY <1>8 DEF Quiet, RecoverLrem
<1>9. ASSUME NEW w \in Workers, RecoverHdel(w)
     PROVE Quiet
  <2>1. PICK p : call' = [call EXCEPT ![w] = EnqueueCall("hset", p, FALSE)]
    BY <1>9 DEF RecoverHdel
  <2>2. w \in Actors /\ call[w].at = "none"
    BY <1>9 DEF RecoverHdel, CallSteps
  <2>3. call'[w].at = "hset" /\ \A b \in Actors \ {w} : call'[b] = call[b]
    <3>1. /\ call'[w] = EnqueueCall("hset", p, FALSE)
          /\ \A b \in Actors \ {w} : call'[b] = call[b]
      BY <2>1, <2>2
    <3>2. EnqueueCall("hset", p, FALSE).at = "hset"
      BY CallAtOf
    <3> QED
      BY <3>1, <3>2
  <2>4. step[w] \notin HoldSteps /\ step'[w] \notin HoldSteps
        /\ \A v \in Workers \ {w} : step'[v] = step[v]
    BY <1>9 DEF RecoverHdel
  <2>5. UNCHANGED <<queue, pending, marker>>
    BY <1>9 DEF RecoverHdel
  <2> QED
    BY <2>2, <2>3, <2>4, <2>5 DEF Quiet
<1>10. ASSUME NEW w \in Workers, BlPop(w)
     PROVE MarkerMove
  <2>1. Head(queue) \in JobIds /\ SlotOf[Head(queue)] \in Slots
    BY <1>10, SlotsAssumption DEF BlPop
  <2>2. PICK s \in Slots : s = SlotOf[Head(queue)]
    BY <2>1
  <2>3. Popping(w, s)
    BY <1>10, <2>2 DEF BlPop, Popping
  <2> QED
    BY <2>3, MoveIntro
<1>11. ASSUME NEW w \in Workers, BlPopTimeout(w)
     PROVE Quiet
  BY <1>11 DEF Quiet, BlPopTimeout
<1>12. ASSUME NEW w \in Workers, RpushProcessing(w)
     PROVE Quiet
  BY <1>12 DEF Quiet, RpushProcessing
<1>13. ASSUME NEW w \in Workers, HgetLatest(w)
     PROVE Quiet
  BY <1>13 DEF Quiet, HgetLatest, ResolvedPayload, Slot
<1>14. ASSUME NEW w \in Workers, SremPending(w)
     PROVE MarkerMove
  <2>1. Slot(w) \in Slots
    BY <1>14, SlotsAssumption DEF SremPending, TypeInv, TypeOK, WorkerTypeOK
  <2>2. PICK s \in Slots : s = Slot(w)
    BY <2>1
  <2>3. Releasing(w, s)
    BY <1>14, <2>2 DEF SremPending, Releasing, CallSteps
  <2> QED
    BY <2>3, MoveIntro
<1>15. ASSUME NEW w \in Workers, HdelLatest(w)
     PROVE Quiet
  BY <1>15 DEF Quiet, HdelLatest, Slot
<1>16. ASSUME NEW w \in Workers, HsetMeta(w)
     PROVE Quiet
  BY <1>16 DEF Quiet, HsetMeta
<1>17. ASSUME NEW w \in Workers, Complete(w)
     PROVE Quiet
  BY <1>17 DEF Quiet, Complete, Slot
<1>18. ASSUME NEW w \in Workers, LockTimeout(w)
     PROVE Quiet
  <2>1. PICK p : call' = [call EXCEPT ![w] = EnqueueCall("hset", p, FALSE)]
    BY <1>18 DEF LockTimeout
  <2>2. w \in Actors /\ call[w].at = "none"
    BY <1>18 DEF LockTimeout, CallSteps
  <2>3. call'[w].at = "hset" /\ \A b \in Actors \ {w} : call'[b] = call[b]
    <3>1. /\ call'[w] = EnqueueCall("hset", p, FALSE)
          /\ \A b \in Actors \ {w} : call'[b] = call[b]
      BY <2>1, <2>2
    <3>2. EnqueueCall("hset", p, FALSE).at = "hset"
      BY CallAtOf
    <3> QED
      BY <3>1, <3>2
  <2>4. step[w] \notin HoldSteps /\ step'[w] \notin HoldSteps
        /\ \A v \in Workers \ {w} : step'[v] = step[v]
    BY <1>18 DEF LockTimeout
  <2>5. UNCHANGED <<queue, pending, marker>>
    BY <1>18 DEF LockTimeout
  <2> QED
    BY <2>2, <2>3, <2>4, <2>5 DEF Quiet
<1>19. ASSUME NEW w \in Workers, AckLrem(w)
     PROVE Quiet
  BY <1>19 DEF Quiet, AckLrem
<1>20. ASSUME NEW w \in Workers, AckScan(w)
     PROVE Quiet
  BY <1>20 DEF Quiet, AckScan, Slot
<1>21. ASSUME NEW w \in Workers, AckLremSame(w)
     PROVE Quiet
  BY <1>21 DEF Quiet, AckLremSame
<1>22. ASSUME NEW w \in Workers, AckHdel(w)
     PROVE Quiet
  BY <1>22 DEF Quiet, AckHdel
<1>23. ASSUME NEW w \in Workers, Restart(w)
     PROVE Quiet
  BY <1>23 DEF Quiet, Restart
<1>24. ASSUME NEW w \in Workers, Crash(w)
     PROVE Dropped
  <2>d. Dropping(w)
    BY <1>24 DEF Dropping, Fail, Crash
  <2>f. Fails(w)
    BY <1>24 DEF Fails, WorkerFails
  <2> QED
    BY <2>d, <2>f, DropIntro
<1>25. ASSUME NEW w \in Workers, ClaimRaises(w)
     PROVE Dropped
  <2>d. Dropping(w)
    BY <1>25 DEF Dropping, Fail, ClaimRaises
  <2>f. Fails(w)
    BY <1>25 DEF Fails, WorkerFails
  <2> QED
    BY <2>d, <2>f, DropIntro
<1>26. ASSUME NEW w \in Workers, RecoverReadRaises(w)
     PROVE Dropped
  <2>d. Dropping(w)
    BY <1>26 DEF Dropping, Fail, RecoverReadRaises
  <2>f. Fails(w)
    BY <1>26 DEF Fails, WorkerFails
  <2> QED
    BY <2>d, <2>f, DropIntro
<1>27. ASSUME NEW w \in Workers, RecoverDropRaises(w)
     PROVE Dropped
  <2>d. Dropping(w)
    <3>1. PICK p : call' = [call EXCEPT ![w] = EnqueueCall("hset", p, FALSE)]
      BY <1>27 DEF RecoverDropRaises
    <3>2. w \in Actors
      OBVIOUS
    <3>3. call'[w].at = "hset" /\ \A b \in Actors \ {w} : call'[b] = call[b]
      <4>1. /\ call'[w] = EnqueueCall("hset", p, FALSE)
            /\ \A b \in Actors \ {w} : call'[b] = call[b]
        BY <3>1, <3>2
      <4>2. EnqueueCall("hset", p, FALSE).at = "hset"
        BY CallAtOf
      <4> QED
        BY <4>1, <4>2
    <3>4. step'[w] \notin HoldSteps /\ \A v \in Workers \ {w} : step'[v] = step[v]
      BY <1>27 DEF RecoverDropRaises
    <3>5. UNCHANGED <<queue, pending, marker>> /\ failures' > failures
      BY <1>27 DEF RecoverDropRaises, Fail
    <3> QED
      BY <3>2, <3>3, <3>4, <3>5 DEF Dropping
  <2>f. Fails(w)
    BY <1>27 DEF Fails, WorkerFails
  <2> QED
    BY <2>d, <2>f, DropIntro
<1>28. ASSUME NEW w \in Workers, RecoverEnqueueRaises(w)
     PROVE Dropped
  <2>d. Dropping(w)
    BY <1>28 DEF Dropping, Fail, RecoverEnqueueRaises
  <2>f. Fails(w)
    BY <1>28 DEF Fails, WorkerFails
  <2> QED
    BY <2>d, <2>f, DropIntro
<1>29. ASSUME NEW w \in Workers, RequeueRaises(w)
     PROVE Dropped
  <2>d. Dropping(w)
    <3>1. PICK c : call' = [call EXCEPT ![w] = c] /\ c.at \in {"hset", "none"}
      <4>1. CASE \E p : call' = [call EXCEPT ![w] = EnqueueCall("hset", p, FALSE)]
        <5>1. PICK p : call' = [call EXCEPT ![w] = EnqueueCall("hset", p, FALSE)]
          BY <4>1
        <5>2. EnqueueCall("hset", p, FALSE).at = "hset"
          BY CallAtOf
        <5> QED
          BY <5>1, <5>2
      <4>2. CASE call' = [call EXCEPT ![w] = NoCall]
        BY <4>2
      <4> QED
        BY <1>29, <4>1, <4>2 DEF RequeueRaises
    <3>2. w \in Actors
      OBVIOUS
    <3>3. call'[w].at # "push" /\ \A b \in Actors \ {w} : call'[b] = call[b]
      BY <3>1, <3>2
    <3>4. step'[w] \notin HoldSteps /\ \A v \in Workers \ {w} : step'[v] = step[v]
      BY <1>29 DEF RequeueRaises
    <3>5. UNCHANGED <<queue, pending, marker>> /\ failures' > failures
      BY <1>29 DEF RequeueRaises, Fail
    <3> QED
      BY <3>2, <3>3, <3>4, <3>5 DEF Dropping
  <2>f. Fails(w)
    BY <1>29 DEF Fails, WorkerFails
  <2> QED
    BY <2>d, <2>f, DropIntro
<1>30. ASSUME NEW w \in Workers, RetryRaises(w)
     PROVE Dropped
  <2>d. Dropping(w)
    BY <1>30 DEF Dropping, Fail, RetryRaises
  <2>f. Fails(w)
    BY <1>30 DEF Fails, WorkerFails
  <2> QED
    BY <2>d, <2>f, DropIntro
<1>31. ASSUME NEW w \in Workers, AckRaises(w)
     PROVE Dropped
  <2>d. Dropping(w)
    BY <1>31 DEF Dropping, Fail, AckRaises
  <2>f. Fails(w)
    BY <1>31 DEF Fails, WorkerFails
  <2> QED
    BY <2>d, <2>f, DropIntro
<1>32. ASSUME NEW c \in Clients, ClientAborts(c)
     PROVE Dropped
  <2>d. Dropping(c)
    BY <1>32 DEF Dropping, Fail, ClientAborts
  <2>f. Fails(c)
    BY <1>32 DEF Fails, WorkerFails
  <2> QED
    BY <2>d, <2>f, DropIntro
<1>33. CASE UNCHANGED vars
  BY <1>33 DEF vars, Quiet
<1> QED
  BY <1>1, <1>2, <1>3, <1>4, <1>5, <1>6, <1>7, <1>8, <1>9, <1>10, <1>11, <1>12, <1>13,
    <1>14, <1>15, <1>16, <1>17, <1>18, <1>19, <1>20, <1>21, <1>22, <1>23, <1>24,
    <1>25, <1>26, <1>27, <1>28, <1>29, <1>30, <1>31, <1>32, <1>33 DEF Next,
    WorkerNext, WorkerFails, Calling, Recovering, Claiming, Running, Acking

\* What OneMarker says of one slot.
OneMarkerOf(s) ==
  /\ HasMarker(s) => s \in pending
  /\ \A i, k \in 1..Len(queue) :
       SlotOf[queue[i]] = s /\ SlotOf[queue[k]] = s => i = k
  /\ \A a \in Actors : Carries(a, s) => ~Queued(s)
  /\ \A a, b \in Actors : Carries(a, s) /\ Carries(b, s) => a = b

LEMMA QueuedPushed ==
  ASSUME queue \in Seq(JobIds), NEW j \in JobIds,
         queue' = <<j>> \o queue \/ queue' = Append(queue, j), NEW t \in Slots
  PROVE  /\ Queued(t)' <=> Queued(t) \/ SlotOf[j] = t
         /\ (SlotOf[j] = t => ~Queued(t)) =>
            ((\A i, k \in 1..Len(queue) : SlotOf[queue[i]] = t /\ SlotOf[queue[k]] = t => i = k)
             => (\A i, k \in 1..Len(queue') :
                   SlotOf[queue'[i]] = t /\ SlotOf[queue'[k]] = t => i = k))
<1>1. CASE queue' = <<j>> \o queue
  <2>1. /\ Len(queue) \in Nat /\ Len(queue') = Len(queue) + 1 /\ queue'[1] = j
        /\ \A i \in 1..Len(queue) : queue'[i + 1] = queue[i]
        /\ \A i \in 2..Len(queue') : queue'[i] = queue[i - 1]
    BY <1>1
  <2>2. ASSUME Queued(t) PROVE Queued(t)'
    <3>1. PICK i \in 1..Len(queue) : SlotOf[queue[i]] = t
      BY <2>2 DEF Queued
    <3>2. i + 1 \in 1..Len(queue') /\ SlotOf[queue'[i + 1]] = t
      BY <2>1, <3>1
    <3> QED
      BY <3>2 DEF Queued
  <2>3. ASSUME SlotOf[j] = t PROVE Queued(t)'
    <3>1. 1 \in 1..Len(queue') /\ SlotOf[queue'[1]] = t
      BY <2>1, <2>3
    <3> QED
      BY <3>1 DEF Queued
  <2>4. ASSUME NEW i \in 1..Len(queue'), SlotOf[queue'[i]] = t
        PROVE  \/ i = 1 /\ SlotOf[j] = t
               \/ i - 1 \in 1..Len(queue) /\ SlotOf[queue[i - 1]] = t
    BY <2>1, <2>4
  <2>5. ASSUME Queued(t)' PROVE Queued(t) \/ SlotOf[j] = t
    <3>1. PICK i \in 1..Len(queue') : SlotOf[queue'[i]] = t
      BY <2>5 DEF Queued
    <3> QED
      BY <2>4, <3>1 DEF Queued
  <2>6. ASSUME SlotOf[j] = t => ~Queued(t),
               \A i, k \in 1..Len(queue) :
                 SlotOf[queue[i]] = t /\ SlotOf[queue[k]] = t => i = k,
               NEW i \in 1..Len(queue'), NEW k \in 1..Len(queue'),
               SlotOf[queue'[i]] = t, SlotOf[queue'[k]] = t
        PROVE  i = k
    <3>1. CASE SlotOf[j] = t
      BY <2>4, <2>6, <3>1 DEF Queued
    <3>2. CASE SlotOf[j] # t
      <4>1. i - 1 = k - 1
        BY <2>4, <2>6, <3>2
      <4> QED
        BY <4>1
    <3> QED
      BY <3>1, <3>2
  <2> QED
    BY <2>2, <2>3, <2>5, <2>6
<1>2. CASE queue' = Append(queue, j)
  <2>1. /\ Len(queue) \in Nat /\ Len(queue') = Len(queue) + 1 /\ queue'[Len(queue')] = j
        /\ \A i \in 1..Len(queue) : queue'[i] = queue[i]
    BY <1>2
  <2>2. Queued(t)' <=> Queued(t) \/ SlotOf[j] = t
    <3>1. \A i \in 1..Len(queue') : i \in 1..Len(queue) \/ i = Len(queue')
      BY <2>1
    <3>2. 1..Len(queue) \subseteq 1..Len(queue') /\ Len(queue') \in 1..Len(queue')
      BY <2>1
    <3> QED
      BY <2>1, <3>1, <3>2 DEF Queued
  <2>3. ASSUME SlotOf[j] = t => ~Queued(t),
               \A i, k \in 1..Len(queue) :
                 SlotOf[queue[i]] = t /\ SlotOf[queue[k]] = t => i = k,
               NEW i \in 1..Len(queue'), NEW k \in 1..Len(queue'),
               SlotOf[queue'[i]] = t, SlotOf[queue'[k]] = t
        PROVE  i = k
    <3>1. ASSUME NEW m \in 1..Len(queue'), SlotOf[queue'[m]] = t
          PROVE  \/ m \in 1..Len(queue) /\ SlotOf[queue[m]] = t
                 \/ m = Len(queue') /\ SlotOf[j] = t
      <4>1. m \in 1..Len(queue) \/ m = Len(queue')
        BY <2>1
      <4> QED
        BY <2>1, <3>1, <4>1
    <3>2. SlotOf[j] = t => \A m \in 1..Len(queue) : SlotOf[queue[m]] # t
      BY <2>3 DEF Queued
    <3> QED
      BY <2>3, <3>1, <3>2
  <2> QED
    BY <2>2, <2>3
<1> QED
  BY <1>1, <1>2

LEMMA QueuedPopped ==
  ASSUME queue \in Seq(JobIds), queue # <<>>, queue' = Tail(queue), NEW t \in Slots
  PROVE  /\ Queued(t) <=> Queued(t)' \/ SlotOf[Head(queue)] = t
         /\ (\A i, k \in 1..Len(queue) : SlotOf[queue[i]] = t /\ SlotOf[queue[k]] = t => i = k)
            => /\ \A i, k \in 1..Len(queue') :
                    SlotOf[queue'[i]] = t /\ SlotOf[queue'[k]] = t => i = k
               /\ SlotOf[Head(queue)] = t => ~Queued(t)'
<1>1. /\ Len(queue) \in Nat \ {0} /\ Len(queue') = Len(queue) - 1 /\ Head(queue) = queue[1]
      /\ \A i \in 1..Len(queue') : queue'[i] = queue[i + 1]
      /\ \A i \in 2..Len(queue) : queue'[i - 1] = queue[i]
  OBVIOUS
<1>2. Queued(t) <=> Queued(t)' \/ SlotOf[Head(queue)] = t
  <2>1. \A i \in 1..Len(queue) : i = 1 \/ i - 1 \in 1..Len(queue')
    BY <1>1
  <2>2. \A i \in 1..Len(queue') : i + 1 \in 1..Len(queue)
    BY <1>1
  <2>3. 1 \in 1..Len(queue)
    BY <1>1
  <2>4. ASSUME Queued(t) PROVE Queued(t)' \/ SlotOf[Head(queue)] = t
    <3>1. PICK i \in 1..Len(queue) : SlotOf[queue[i]] = t
      BY <2>4 DEF Queued
    <3>2. CASE i # 1
      <4>1. i \in 2..Len(queue) /\ queue'[i - 1] = queue[i]
        BY <1>1, <3>2
      <4> QED
        BY <2>1, <3>1, <3>2, <4>1 DEF Queued
    <3> QED
      BY <1>1, <3>1, <3>2
  <2>5. ASSUME Queued(t)' PROVE Queued(t)
    <3>1. PICK i \in 1..Len(queue') : SlotOf[queue'[i]] = t
      BY <2>5 DEF Queued
    <3> QED
      BY <1>1, <2>2, <3>1 DEF Queued
  <2>6. ASSUME SlotOf[Head(queue)] = t PROVE Queued(t)
    BY <1>1, <2>3, <2>6 DEF Queued
  <2> QED
    BY <2>4, <2>5, <2>6
<1>3. ASSUME \A i, k \in 1..Len(queue) :
               SlotOf[queue[i]] = t /\ SlotOf[queue[k]] = t => i = k
      PROVE  /\ \A i, k \in 1..Len(queue') :
                  SlotOf[queue'[i]] = t /\ SlotOf[queue'[k]] = t => i = k
             /\ SlotOf[Head(queue)] = t => ~Queued(t)'
  <2>1. ASSUME NEW i \in 1..Len(queue'), NEW k \in 1..Len(queue'),
               SlotOf[queue'[i]] = t, SlotOf[queue'[k]] = t
        PROVE  i = k
    <3>1. i + 1 \in 1..Len(queue) /\ k + 1 \in 1..Len(queue)
      BY <1>1
    <3>2. i + 1 = k + 1
      BY <1>1, <1>3, <2>1, <3>1
    <3> QED
      BY <3>2
  <2>2. ASSUME SlotOf[Head(queue)] = t, NEW i \in 1..Len(queue'), SlotOf[queue'[i]] = t
        PROVE  FALSE
    <3>1. i + 1 \in 1..Len(queue) /\ 1 \in 1..Len(queue)
      BY <1>1
    <3>2. i + 1 = 1
      BY <1>1, <1>3, <2>2, <3>1
    <3> QED
      BY <3>2
  <2> QED
    BY <2>1, <2>2 DEF Queued
<1> QED
  BY <1>2, <1>3

LEMMA QueuedSame ==
  ASSUME UNCHANGED queue, NEW t \in Slots
  PROVE  Queued(t)' <=> Queued(t)
  BY DEF Queued

\* An actor carries one marker at a time.
LEMMA CarriesOne ==
  ASSUME TypeInv, NEW a \in Actors, NEW s \in Slots, NEW t \in Slots,
         Carries(a, s), Carries(a, t)
  PROVE  s = t
<1>1. ASSUME call[a].at = "push", a \in Workers
      PROVE  step[a] \notin HoldSteps
  BY <1>1, CallAtOf DEF TypeInv, CallSteps, HoldSteps
<1> QED
  BY <1>1 DEF Carries

\* A step keeps OneMarker: SADD is only done for a slot without a marker, and
\* every other step moves the one there is.
LEMMA OneMarkerStep == TypeInv /\ OneMarker /\ [Next]_vars => OneMarker'
<1> SUFFICES ASSUME TypeInv, OneMarker, [Next]_vars, NEW t \in Slots
             PROVE  OneMarkerOf(t)'
  BY DEF OneMarker, OneMarkerOf
<1>q. queue \in Seq(JobIds)
  BY DEF TypeInv, TypeOK, RedisTypeOK
<1>t. OneMarkerOf(t)
  BY DEF OneMarker, OneMarkerOf
<1>1. CASE Quiet \/ Dropped
  <2>1. UNCHANGED <<queue, pending>> /\ \A b \in Actors : Carries(b, t)' => Carries(b, t)
    BY <1>1 DEF Quiet, Dropped, Dropping
  <2> QED
    BY <1>t, <2>1, QueuedSame DEF OneMarkerOf, HasMarker
<1>2. ASSUME NEW a \in Actors, NEW s \in Slots, Adding(a, s)
      PROVE  OneMarkerOf(t)'
  <2>1. UNCHANGED queue /\ pending' = pending \cup {s} /\ s \notin pending
    BY <1>2 DEF Adding
  <2>2. \A b \in Actors : Carries(b, t)' <=> Carries(b, t) \/ (b = a /\ t = s)
    BY <1>2 DEF Adding
  <2> QED
    BY <1>t, <2>1, <2>2, QueuedSame DEF OneMarkerOf, HasMarker
<1>3. ASSUME NEW a \in Actors, NEW s \in Slots, Pushing(a, s)
      PROVE  OneMarkerOf(t)'
  <2>1. PICK j \in JobIds : /\ SlotOf[j] = s
                            /\ queue' = <<j>> \o queue \/ queue' = Append(queue, j)
    BY <1>3 DEF Pushing
  <2>2. UNCHANGED pending /\ Carries(a, s)
        /\ \A b \in Actors : Carries(b, t)' <=> Carries(b, t) /\ b # a
    BY <1>3 DEF Pushing
  <2>3. Queued(t)' <=> Queued(t) \/ s = t
    BY <1>q, <2>1, QueuedPushed
  <2>4. s = t => ~Queued(t)
    BY <1>t, <2>2 DEF OneMarkerOf
  <2>5. \A i, k \in 1..Len(queue') :
          SlotOf[queue'[i]] = t /\ SlotOf[queue'[k]] = t => i = k
    BY <1>q, <1>t, <2>1, <2>4, QueuedPushed DEF OneMarkerOf
  <2> QED
    BY <1>t, <2>2, <2>3, <2>5 DEF OneMarkerOf, HasMarker
<1>4. ASSUME NEW a \in Actors, NEW s \in Slots, Popping(a, s)
      PROVE  OneMarkerOf(t)'
  <2>1. queue # <<>> /\ SlotOf[Head(queue)] = s /\ queue' = Tail(queue) /\ UNCHANGED pending
        /\ \A b \in Actors : Carries(b, t)' <=> Carries(b, t) \/ (b = a /\ t = s)
    BY <1>4 DEF Popping
  <2>2. Queued(t) <=> Queued(t)' \/ s = t
    BY <1>q, <2>1, QueuedPopped
  <2>3. /\ \A i, k \in 1..Len(queue') :
             SlotOf[queue'[i]] = t /\ SlotOf[queue'[k]] = t => i = k
        /\ s = t => ~Queued(t)'
    BY <1>q, <1>t, <2>1, QueuedPopped DEF OneMarkerOf
  <2> QED
    BY <1>t, <2>1, <2>2, <2>3 DEF OneMarkerOf, HasMarker
<1>5. ASSUME NEW a \in Actors, NEW s \in Slots, Releasing(a, s)
      PROVE  OneMarkerOf(t)'
  <2>1. UNCHANGED queue /\ pending' = pending \ {s} /\ Carries(a, s)
        /\ \A b \in Actors : Carries(b, t)' <=> Carries(b, t) /\ b # a
    BY <1>5 DEF Releasing
  <2> QED
    BY <1>t, <2>1, QueuedSame DEF OneMarkerOf, HasMarker
<1> QED
  BY <1>1, <1>2, <1>3, <1>4, <1>5, MarkerStep DEF MarkerMove

LEMMA OneMarkerInit == Init => OneMarker
  BY CallAtOf DEF Init, OneMarker, HasMarker, Queued, Carries, HoldSteps

\* However API threads, workers and recoveries interleave and whatever fails,
\* a slot has at most one marker, queued or in someone's hands, and only while
\* it is pending: enqueue_job's SADD against claim_job's SREM.
THEOREM MarkersUnique == Spec => []OneMarker
<1>1. Init => TypeInv /\ OneMarker
  BY TypeInit, OneMarkerInit
<1>2. TypeInv /\ OneMarker /\ [Next]_vars => (TypeInv /\ OneMarker)'
  BY TypeStep, OneMarkerStep
<1> QED
  BY <1>1, <1>2, PTL DEF Spec
-----------------------------------------------------------------------------
(* Wedged slots *)

\* A slot is wedged by the failure of the actor that carries its marker.
LEMMA WedgeNeedsCarrier ==
  TypeInv /\ OneMarker /\ [Next]_vars =>
    \A t \in Wedged' \ Wedged :
      \E a \in Actors : Fails(a) /\ failures' > failures /\ Carries(a, t)
<1> SUFFICES ASSUME TypeInv, OneMarker, [Next]_vars, NEW t \in Wedged', t \notin Wedged
             PROVE  \E a \in Actors : Fails(a) /\ failures' > failures /\ Carries(a, t)
  OBVIOUS
<1>q. queue \in Seq(JobIds)
  BY DEF TypeInv, TypeOK, RedisTypeOK
<1>t. t \in pending' /\ ~Queued(t)' /\ (\A b \in Actors : ~Carries(b, t)')
  BY DEF Wedged, HasMarker
<1>s. t \in Slots
  <2>1. TypeInv'
    BY TypeStep
  <2> QED
    BY <1>t, <2>1 DEF TypeInv, TypeOK, RedisTypeOK
<1>1. CASE Quiet
  BY <1>1, <1>t, <1>s, QueuedSame DEF Quiet, Wedged, HasMarker
<1>2. ASSUME NEW a \in Actors, NEW s \in Slots, Adding(a, s)
      PROVE  t \in Wedged
  <2>1. UNCHANGED queue /\ pending' = pending \cup {s}
        /\ \A b \in Actors : Carries(b, t)' <=> Carries(b, t) \/ (b = a /\ t = s)
    BY <1>2, <1>s DEF Adding
  <2> QED
    BY <2>1, <1>t, <1>s, QueuedSame DEF Wedged, HasMarker
<1>3. ASSUME NEW a \in Actors, NEW s \in Slots, Pushing(a, s)
      PROVE  t \in Wedged
  <2>1. PICK j \in JobIds : /\ SlotOf[j] = s
                            /\ queue' = <<j>> \o queue \/ queue' = Append(queue, j)
    BY <1>3 DEF Pushing
  <2>2. Queued(t)' <=> Queued(t) \/ s = t
    BY <1>q, <1>s, <2>1, QueuedPushed
  <2>3. UNCHANGED pending /\ Carries(a, s)
        /\ \A b \in Actors : Carries(b, t)' <=> Carries(b, t) /\ b # a
    BY <1>3, <1>s DEF Pushing
  <2>4. ~Carries(a, t)
    BY CarriesOne, <1>s, <1>t, <2>2, <2>3
  <2> QED
    BY <2>2, <2>3, <2>4, <1>t DEF Wedged, HasMarker
<1>4. ASSUME NEW a \in Actors, NEW s \in Slots, Popping(a, s)
      PROVE  t \in Wedged
  <2>1. queue # <<>> /\ SlotOf[Head(queue)] = s /\ queue' = Tail(queue) /\ UNCHANGED pending
        /\ \A b \in Actors : Carries(b, t)' <=> Carries(b, t) \/ (b = a /\ t = s)
    BY <1>4, <1>s DEF Popping
  <2>2. Queued(t) <=> Queued(t)' \/ s = t
    BY <1>q, <1>s, <2>1, QueuedPopped
  <2> QED
    BY <2>1, <2>2, <1>t DEF Wedged, HasMarker
<1>5. ASSUME NEW a \in Actors, NEW s \in Slots, Releasing(a, s)
      PROVE  t \in Wedged
  <2>1. UNCHANGED queue /\ pending' = pending \ {s} /\ Carries(a, s)
        /\ \A b \in Actors : Carries(b, t)' <=> Carries(b, t) /\ b # a
    BY <1>5, <1>s DEF Releasing
  <2>2. ~Carries(a, t)
    <3>1. t # s
      BY <2>1, <1>t
    <3> QED
      BY <3>1, <2>1, <1>s, CarriesOne
  <2> QED
    BY <2>1, <2>2, <1>t, <1>s, QueuedSame DEF Wedged, HasMarker
<1>6. ASSUME NEW a \in Actors, Fails(a), Dropping(a)
      PROVE  failures' > failures /\ Carries(a, t)
  <2>1. UNCHANGED <<queue, pending>>
        /\ \A b \in Actors : Carries(b, t) /\ b # a => Carries(b, t)'
    BY <1>6, <1>s DEF Dropping
  <2>2. PICK b \in Actors : Carries(b, t)
    BY <2>1, <1>t, QueuedSame, <1>s DEF Wedged, HasMarker
  <2>3. b = a
    BY <2>1, <2>2, <1>t
  <2> QED
    BY <1>6, <2>2, <2>3 DEF Dropping
<1> QED
  BY <1>1, <1>2, <1>3, <1>4, <1>5, <1>6, MarkerStep DEF MarkerMove, Dropped

\* A step that fails nothing leaves no slot pending without its marker.
LEMMA WedgeNeedsFailure ==
  TypeInv /\ OneMarker /\ [Next]_vars => (failures' = failures => Wedged' \subseteq Wedged)
<1> SUFFICES ASSUME TypeInv, OneMarker, [Next]_vars, failures' = failures
             PROVE  Wedged' \subseteq Wedged
  OBVIOUS
<1>1. failures \in Nat
  BY BoundsAssumption DEF TypeInv, TypeOK
<1>2. ~(failures' > failures)
  BY <1>1
<1> QED
  BY <1>2, WedgeNeedsCarrier

LEMMA WedgeStays == TypeInv /\ OneMarker /\ [Next]_vars => Wedged \subseteq Wedged'
<1> SUFFICES ASSUME TypeInv, OneMarker, [Next]_vars, NEW t \in Wedged
             PROVE  t \in Wedged'
  OBVIOUS
<1>q. queue \in Seq(JobIds) /\ t \in Slots
  BY DEF TypeInv, TypeOK, RedisTypeOK, Wedged
<1>t. t \in pending /\ ~Queued(t) /\ \A b \in Actors : ~Carries(b, t)
  BY DEF Wedged, HasMarker
<1>1. CASE Quiet \/ Dropped
  <2>1. UNCHANGED <<queue, pending>> /\ \A b \in Actors : Carries(b, t)' => Carries(b, t)
    BY <1>1, <1>q DEF Quiet, Dropped, Dropping
  <2> QED
    BY <2>1, <1>t, <1>q, QueuedSame DEF Wedged, HasMarker
<1>2. ASSUME NEW a \in Actors, NEW s \in Slots, Adding(a, s)
      PROVE  t \in Wedged'
  <2>1. UNCHANGED queue /\ s \notin pending /\ pending' = pending \cup {s}
        /\ \A b \in Actors : Carries(b, t)' <=> Carries(b, t) \/ (b = a /\ t = s)
    BY <1>2, <1>q DEF Adding
  <2> QED
    BY <2>1, <1>t, <1>q, QueuedSame DEF Wedged, HasMarker
<1>3. ASSUME NEW a \in Actors, NEW s \in Slots, Pushing(a, s)
      PROVE  t \in Wedged'
  <2>1. PICK j \in JobIds : /\ SlotOf[j] = s
                            /\ queue' = <<j>> \o queue \/ queue' = Append(queue, j)
    BY <1>3 DEF Pushing
  <2>2. UNCHANGED pending /\ Carries(a, s)
        /\ \A b \in Actors : Carries(b, t)' <=> Carries(b, t) /\ b # a
    BY <1>3, <1>q DEF Pushing
  <2>3. s # t
    BY <2>2, <1>t
  <2>4. Queued(t)' <=> Queued(t) \/ s = t
    BY <1>q, <2>1, QueuedPushed
  <2> QED
    BY <2>2, <2>3, <2>4, <1>t DEF Wedged, HasMarker
<1>4. ASSUME NEW a \in Actors, NEW s \in Slots, Popping(a, s)
      PROVE  t \in Wedged'
  <2>1. queue # <<>> /\ SlotOf[Head(queue)] = s /\ queue' = Tail(queue) /\ UNCHANGED pending
        /\ \A b \in Actors : Carries(b, t)' <=> Carries(b, t) \/ (b = a /\ t = s)
    BY <1>4, <1>q DEF Popping
  <2>2. Queued(t) <=> Queued(t)' \/ s = t
    BY <1>q, <2>1, QueuedPopped
  <2> QED
    BY <2>1, <2>2, <1>t DEF Wedged, HasMarker
<1>5. ASSUME NEW a \in Actors, NEW s \in Slots, Releasing(a, s)
      PROVE  t \in Wedged'
  <2>1. UNCHANGED queue /\ pending' = pending \ {s} /\ Carries(a, s)
        /\ \A b \in Actors : Carries(b, t)' <=> Carries(b, t) /\ b # a
    BY <1>5, <1>q DEF Releasing
  <2>2. s # t
    BY <2>1, <1>t
  <2> QED
    BY <2>1, <2>2, <1>t, <1>q, QueuedSame DEF Wedged, HasMarker
<1> QED
  BY <1>1, <1>2, <1>3, <1>4, <1>5, MarkerStep DEF MarkerMove

\* Interleavings alone never leave a slot pending with no marker on its way;
\* only a crash or a failed command does.
THEOREM WedgesComeFromFailures == Spec => OnlyFailuresWedge
<1>1. Init => TypeInv /\ OneMarker
  BY TypeInit, OneMarkerInit
<1>2. TypeInv /\ OneMarker /\ [Next]_vars => (TypeInv /\ OneMarker)'
  BY TypeStep, OneMarkerStep
<1>3. TypeInv /\ OneMarker /\ [Next]_vars
      => [failures' = failures => Wedged' \subseteq Wedged]_vars
  BY WedgeNeedsFailure
<1> QED
  BY <1>1, <1>2, <1>3, PTL DEF Spec, OnlyFailuresWedge

\* And no step, of a new request, a retry, a recovery or a restart, ever gives a
\* wedged slot a marker again.
THEOREM WedgesStay == Spec => WedgeIsForever
<1>1. Init => TypeInv /\ OneMarker
  BY TypeInit, OneMarkerInit
<1>2. TypeInv /\ OneMarker /\ [Next]_vars => (TypeInv /\ OneMarker)'
  BY TypeStep, OneMarkerStep
<1>3. TypeInv /\ OneMarker /\ [Next]_vars => [Wedged \subseteq Wedged']_vars
  BY WedgeStays
<1> QED
  BY <1>1, <1>2, <1>3, PTL DEF Spec, WedgeIsForever
-----------------------------------------------------------------------------
(* The refinement: a slot is owed while it is in `pending`; worker w works  *)
(* on a slot from the SREM of its claim to the end of its run.  The SADD of *)
(* a new slot is Ask, the SREM is Start (OneMarker says the slot is still   *)
(* owed), and the end of a run, however it ends, is Stop; every other step  *)
(* changes neither.                                                         *)

Work(w) == IF step[w] \in WorkSteps THEN Slot(w) ELSE NoJob

SameWork == UNCHANGED pending /\ \A v \in Workers : Work(v)' = Work(v)

Asked(s) == /\ pending' = pending \cup {s}
            /\ \A v \in Workers : Work(v)' = Work(v)

Started(w) == /\ step[w] = "read" /\ step'[w] = "unpended"
              /\ pending' = pending \ {Slot(w)} /\ marker'[w] = marker[w]
              /\ \A v \in Workers \ {w} : Work(v)' = Work(v)

Stopped(w) == /\ step[w] \in WorkSteps /\ step'[w] \notin WorkSteps
              /\ UNCHANGED pending
              /\ \A v \in Workers \ {w} : Work(v)' = Work(v)

LEMMA WorkMove ==
  TypeInv /\ [Next]_vars =>
    \/ SameWork \/ \E s \in Slots : Asked(s)
    \/ \E w \in Workers : Started(w) \/ Stopped(w)
<1> SUFFICES ASSUME TypeInv, [Next]_vars
             PROVE  \/ SameWork \/ \E s \in Slots : Asked(s)
                    \/ \E w \in Workers : Started(w) \/ Stopped(w)
  OBVIOUS
<1>a. /\ step \in [Workers -> Steps] /\ marker \in [Workers -> JobIds \cup {NoJob}]
      /\ after \in [Workers -> {"loop", "claim", "down"}] /\ CallSteps
  BY DEF TypeInv, TypeOK, WorkerTypeOK
<1> USE <1>a, ActorsAssumption DEF Work, WorkSteps, Slot, Goto, Forget
<1>1. ASSUME NEW c \in Clients, NEW j \in JobIds, NEW front \in Priorities,
             Enqueue(c, j, front)
      PROVE SameWork
  BY <1>1 DEF SameWork, Enqueue
<1>2. ASSUME NEW c \in Clients, ClientAborts(c)
      PROVE SameWork
  BY <1>2 DEF SameWork, ClientAborts
<1>3. ASSUME NEW a \in Actors, SaddCoalesced(a)
      PROVE SameWork
  <2>1. \A w \in Workers : /\ step'[w] # step[w] => step[w] \in {"requeue", "retry", "rec_enq"}
                           /\ step'[w] \in {step[w], "ack", "rec_next", after[w]}
    BY <1>3, CallAtOf DEF SaddCoalesced, EnqueueReturns, NextEntry, CallSteps
  <2>2. UNCHANGED <<pending, marker>>
    BY <1>3 DEF SaddCoalesced, EnqueueReturns
  <2> QED
    BY <2>1, <2>2 DEF SameWork
<1>4. ASSUME NEW a \in Actors, PushMarker(a)
      PROVE SameWork
  <2>1. \A w \in Workers : /\ step'[w] # step[w] => step[w] \in {"requeue", "retry", "rec_enq"}
                           /\ step'[w] \in {step[w], "ack", "rec_next", after[w]}
    BY <1>4, CallAtOf DEF PushMarker, EnqueueReturns, NextEntry, CallSteps
  <2>2. UNCHANGED <<pending, marker>>
    BY <1>4 DEF PushMarker, EnqueueReturns
  <2> QED
    BY <2>1, <2>2 DEF SameWork
<1>5. ASSUME NEW w \in Workers, HsetLatest(w)
      PROVE SameWork
  BY <1>5 DEF SameWork, HsetLatest
<1>6. ASSUME NEW w \in Workers, BootRecover(w)
      PROVE SameWork
  BY <1>6 DEF SameWork, BootRecover, Recover
<1>7. ASSUME NEW w \in Workers, StaleRecover(w)
      PROVE SameWork
  BY <1>7 DEF SameWork, StaleRecover, Recover
<1>8. ASSUME NEW w \in Workers, RecoverLrem(w)
      PROVE SameWork
  BY <1>8 DEF SameWork, RecoverLrem
<1>9. ASSUME NEW w \in Workers, RecoverHdel(w)
      PROVE SameWork
  BY <1>9 DEF SameWork, RecoverHdel
<1>10. ASSUME NEW w \in Workers, BlPop(w)
      PROVE SameWork
  BY <1>10 DEF SameWork, BlPop
<1>11. ASSUME NEW w \in Workers, BlPopTimeout(w)
      PROVE SameWork
  BY <1>11 DEF SameWork, BlPopTimeout
<1>12. ASSUME NEW w \in Workers, RpushProcessing(w)
      PROVE SameWork
  BY <1>12 DEF SameWork, RpushProcessing
<1>13. ASSUME NEW w \in Workers, HgetLatest(w)
      PROVE SameWork
  BY <1>13 DEF SameWork, HgetLatest
<1>14. ASSUME NEW w \in Workers, HdelLatest(w)
      PROVE SameWork
  BY <1>14 DEF SameWork, HdelLatest
<1>15. ASSUME NEW w \in Workers, HsetMeta(w)
      PROVE SameWork
  BY <1>15 DEF SameWork, HsetMeta
<1>16. ASSUME NEW w \in Workers, AckLrem(w)
      PROVE SameWork
  BY <1>16 DEF SameWork, AckLrem
<1>17. ASSUME NEW w \in Workers, AckScan(w)
      PROVE SameWork
  BY <1>17 DEF SameWork, AckScan
<1>18. ASSUME NEW w \in Workers, AckLremSame(w)
      PROVE SameWork
  BY <1>18 DEF SameWork, AckLremSame
<1>19. ASSUME NEW w \in Workers, AckHdel(w)
      PROVE SameWork
  BY <1>19 DEF SameWork, AckHdel
<1>20. ASSUME NEW w \in Workers, Restart(w)
      PROVE SameWork
  BY <1>20 DEF SameWork, Restart
<1>21. ASSUME NEW w \in Workers, RecoverReadRaises(w)
      PROVE SameWork
  BY <1>21 DEF SameWork, RecoverReadRaises
<1>22. ASSUME NEW w \in Workers, RecoverDropRaises(w)
      PROVE SameWork
  BY <1>22 DEF SameWork, RecoverDropRaises
<1>23. ASSUME NEW w \in Workers, RecoverEnqueueRaises(w)
      PROVE SameWork
  BY <1>23 DEF SameWork, RecoverEnqueueRaises
<1>24. ASSUME NEW w \in Workers, RequeueRaises(w)
      PROVE SameWork
  BY <1>24 DEF SameWork, RequeueRaises
<1>25. ASSUME NEW w \in Workers, RetryRaises(w)
      PROVE SameWork
  BY <1>25 DEF SameWork, RetryRaises
<1>26. ASSUME NEW w \in Workers, AckRaises(w)
      PROVE SameWork
  BY <1>26 DEF SameWork, AckRaises, AckSteps
<1>27. ASSUME NEW a \in Actors, SaddNew(a)
      PROVE \E s \in Slots : Asked(s)
  <2>1. PICK s \in Slots : s = CallSlot(a)
    BY <1>27, CallAtFacts DEF SaddNew, CallAts
  <2>2. Asked(s)
    BY <1>27, <2>1 DEF SaddNew, Asked
  <2> QED
    BY <2>1, <2>2
<1>28. ASSUME NEW w \in Workers, SremPending(w)
      PROVE Started(w)
  BY <1>28 DEF SremPending, Started
<1>29. ASSUME NEW w \in Workers, Complete(w)
      PROVE Stopped(w)
  BY <1>29 DEF Complete, Stopped
<1>30. ASSUME NEW w \in Workers, LockTimeout(w)
      PROVE Stopped(w)
  BY <1>30 DEF LockTimeout, Stopped
<1>31. ASSUME NEW w \in Workers, Crash(w)
      PROVE SameWork \/ Stopped(w)
  BY <1>31 DEF Crash, SameWork, Stopped, ClaimSteps
<1>32. ASSUME NEW w \in Workers, ClaimRaises(w)
      PROVE SameWork \/ Stopped(w)
  BY <1>32 DEF ClaimRaises, SameWork, Stopped, ClaimSteps
<1>33. CASE UNCHANGED vars
  BY <1>33 DEF vars, SameWork
<1> QED
  BY <1>1, <1>2, <1>3, <1>4, <1>5, <1>6, <1>7, <1>8, <1>9, <1>10, <1>11, <1>12,
    <1>13, <1>14, <1>15, <1>16, <1>17, <1>18, <1>19, <1>20, <1>21, <1>22, <1>23,
    <1>24, <1>25, <1>26, <1>27, <1>28, <1>29, <1>30, <1>31, <1>32, <1>33 DEF
    Next, WorkerNext, WorkerFails, Calling, Recovering, Claiming, Running,
    Acking

LEMMA WorkingSame ==
  ASSUME \A v \in Workers : Work(v)' = Work(v)
  PROVE  Working' = Working
  BY DEF Work, Working

\* A step of the queue is a step of CoalescingQueue, or changes neither of its
\* variables.
LEMMA AbstractStep ==
  TypeInv /\ OneMarker /\ [Next]_vars => [Abstract!Next]_<<pending, Working>>
<1> SUFFICES ASSUME TypeInv, OneMarker, [Next]_vars
             PROVE  [Abstract!Next]_<<pending, Working>>
  OBVIOUS
<1>1. CASE SameWork
  BY <1>1, WorkingSame DEF SameWork
<1>2. ASSUME NEW s \in Slots, Asked(s)
      PROVE  Abstract!Next
  <2>1. Abstract!Ask(s)
    BY <1>2, WorkingSame DEF Asked, Abstract!Ask
  <2> QED
    BY <2>1 DEF Abstract!Next
<1>m. ASSUME NEW w \in Workers, step[w] \in WorkSteps \cup {"read"}
      PROVE  marker[w] \in JobIds /\ Slot(w) \in Slots
  <2>1. step[w] \in HoldSteps \cup OwnSteps \cup {"dropped"}
    BY <1>m DEF WorkSteps, HoldSteps, OwnSteps, RunSteps
  <2> QED
    BY <2>1, SlotsAssumption DEF TypeInv, TypeOK, WorkerTypeOK, Slot, OwnSteps
<1>3. ASSUME NEW w \in Workers, Started(w)
      PROVE  Abstract!Next
  <2>1. PICK s \in Slots : s = Slot(w)
    BY <1>3, <1>m DEF Started
  <2>2. s \in pending
    <3>1. w \in Actors /\ Carries(w, s)
      BY <1>3, <2>1 DEF Carries, Started, HoldSteps
    <3> QED
      BY <3>1 DEF OneMarker, HasMarker
  <2>3. Working[w] = NoJob
    BY <1>3 DEF Started, Working, WorkSteps
  <2>4. Working' = [Working EXCEPT ![w] = s]
    <3>1. Work(w)' = s
      BY <1>3, <2>1 DEF Started, Work, WorkSteps, Slot
    <3>2. Working' = [v \in Workers |-> Work(v)'] /\ Working = [v \in Workers |-> Work(v)]
      BY DEF Working, Work
    <3> QED
      BY <1>3, <3>1, <3>2 DEF Started
  <2>5. Abstract!Start(w, s)
    BY <1>3, <2>1, <2>2, <2>3, <2>4 DEF Started, Abstract!Start
  <2> QED
    BY <2>5 DEF Abstract!Next
<1>4. ASSUME NEW w \in Workers, Stopped(w)
      PROVE  Abstract!Next
  <2>1. Working[w] # NoJob
    BY <1>4, <1>m, NoJobAssumption DEF Stopped, Working
  <2>2. Working' = [Working EXCEPT ![w] = NoJob]
    <3>1. Work(w)' = NoJob
      BY <1>4 DEF Stopped, Work
    <3>2. Working' = [v \in Workers |-> Work(v)'] /\ Working = [v \in Workers |-> Work(v)]
      BY DEF Working, Work
    <3> QED
      BY <1>4, <3>1, <3>2 DEF Stopped
  <2>3. Abstract!Stop(w)
    BY <1>4, <2>1, <2>2 DEF Stopped, Abstract!Stop
  <2> QED
    BY <2>3 DEF Abstract!Next
<1> QED
  BY <1>1, <1>2, <1>3, <1>4, WorkMove

\* The queue implements CoalescingQueue: a worker starts on a slot only if that
\* slot was asked for since the last start, whatever coalesces, is requeued, is
\* recovered twice or fails in between.
THEOREM QueueRefines == Spec => RefinesCoalescingQueue
<1>1. Init => TypeInv /\ OneMarker
  BY TypeInit, OneMarkerInit
<1>2. TypeInv /\ OneMarker /\ [Next]_vars => (TypeInv /\ OneMarker)'
  BY TypeStep, OneMarkerStep
<1>3. Init => Abstract!Init
  BY DEF Init, Abstract!Init, Working, WorkSteps
<1>4. TypeInv /\ OneMarker /\ [Next]_vars => [Abstract!Next]_Abstract!vars
  BY AbstractStep DEF Abstract!vars
<1> QED
  BY <1>1, <1>2, <1>3, <1>4, PTL DEF Spec, RefinesCoalescingQueue, Abstract!Spec
=============================================================================
