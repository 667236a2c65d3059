----------------------- MODULE JobQueueRequestProofs -----------------------
(***************************************************************************)
(* What becomes of a request the API accepted, and of the payloads and     *)
(* entries written for it, for any numbers of clients, workers, slots and  *)
(* job ids: a request is lost only by the failure of an actor that had it  *)
(* in its hands alone, and without failures neither a request nor a        *)
(* payload nor an entry is left behind.                                    *)
(***************************************************************************)
EXTENDS JobQueueMarkerProofs

USE DEF Actors, redis, history, bounds
-----------------------------------------------------------------------------
(* Who writes what *)

Returns(c) == SaddCoalesced(c) \/ PushMarker(c)

\* A step that is not w's own leaves w's variables alone, but that an answer to
\* a client may make its run stale.
Kept(w) ==
  /\ step'[w] = step[w] /\ call'[w] = call[w] /\ todo'[w] = todo[w]
  /\ marker'[w] = marker[w] /\ job'[w] = job[w]
  /\ \/ fresh'[w] = fresh[w]
     \/ \E c \in Clients : Returns(c) /\ Slot(w) = CallSlot(c)

LEMMA OthersKeep ==
  ASSUME TypeInv, [Next]_vars, NEW w \in Workers, ~WorkerNext(w), ~WorkerFails(w)
  PROVE  Kept(w)
<1>a. /\ step \in [Workers -> Steps] /\ call \in [Actors -> Call \cup {NoCall}]
      /\ marker \in [Workers -> JobIds \cup {NoJob}] /\ fresh \in [Workers -> BOOLEAN]
      /\ job \in [Workers -> Payload \cup {NoPayload}] /\ todo \in [Workers -> SUBSET Entry]
  BY DEF TypeInv, TypeOK, WorkerTypeOK
<1> USE <1>a, ActorsAssumption DEF Kept, Goto, Forget
<1>1. ASSUME NEW v \in Workers, v # w, Recovering(v)
      PROVE  Kept(w)
  BY <1>1 DEF Recovering, BootRecover, StaleRecover, Recover, RecoverLrem, RecoverHdel
<1>2. ASSUME NEW v \in Workers, v # w, Claiming(v)
      PROVE  Kept(w)
  BY <1>2 DEF Claiming, BlPop, BlPopTimeout, RpushProcessing, HgetLatest, SremPending,
              HdelLatest, HsetMeta
<1>3. ASSUME NEW v \in Workers, v # w, Running(v) \/ Restart(v) \/ HsetLatest(v)
      PROVE  Kept(w)
  BY <1>3 DEF Running, Complete, LockTimeout, Restart, HsetLatest
<1>4. ASSUME NEW v \in Workers, v # w, Acking(v)
      PROVE  Kept(w)
  BY <1>4 DEF Acking, AckLrem, AckScan, AckLremSame, AckHdel
<1>5. ASSUME NEW v \in Workers, v # w, WorkerFails(v)
      PROVE  Kept(w)
  <2>1. CASE RequeueRaises(v)
    BY <1>5, <2>1 DEF RequeueRaises
  <2>2. CASE RecoverDropRaises(v)
    BY <1>5, <2>2 DEF RecoverDropRaises
  <2> QED
    BY <1>5, <2>1, <2>2 DEF WorkerFails, Crash, ClaimRaises, RecoverReadRaises,
              RecoverEnqueueRaises, RetryRaises, AckRaises
<1>6. ASSUME NEW a \in Actors, a # w, Calling(a)
      PROVE  Kept(w)
  <2>1. CASE SaddNew(a)
    BY <1>6, <2>1 DEF SaddNew
  <2>2. CASE Returns(a)
    <3>1. /\ EnqueueReturns(a)
      BY <2>2 DEF Returns, SaddCoalesced, PushMarker
    <3>2. /\ step'[w] = step[w] /\ call'[w] = call[w] /\ todo'[w] = todo[w]
          /\ marker'[w] = marker[w] /\ job'[w] = job[w]
      BY <1>6, <3>1 DEF EnqueueReturns
    <3>3. CASE a \in Clients
      <4>1. fresh'[w] = (fresh[w] /\ (marker[w] \in JobIds => SlotOf[marker[w]] # CallSlot(a)))
        BY <3>1, <3>3, Zenon DEF EnqueueReturns
      <4>2. fresh[w] \in BOOLEAN
        OBVIOUS
      <4>3. fresh'[w] = fresh[w] \/ Slot(w) = CallSlot(a)
        BY <4>1, <4>2, Zenon DEF Slot
      <4> QED
        BY <2>2, <3>2, <3>3, <4>3
    <3>4. CASE a \notin Clients
      BY <3>1, <3>2, <3>4 DEF EnqueueReturns
    <3> QED
      BY <3>3, <3>4
  <2> QED
    BY <1>6, <2>1, <2>2 DEF Calling, Returns
<1>7. ASSUME NEW c \in Clients, ClientAborts(c) \/
             \E j \in JobIds, front \in Priorities : Enqueue(c, j, front)
      PROVE  Kept(w)
  BY <1>7 DEF ClientAborts, Enqueue
<1>8. CASE UNCHANGED vars
  BY <1>8 DEF vars
<1> HIDE DEF Kept
<1>9. ASSUME NEW v \in Workers, v # w, WorkerNext(v)
      PROVE  Kept(w)
  BY <1>1, <1>2, <1>3, <1>4, <1>6, <1>9 DEF WorkerNext
<1>10. ASSUME NEW c \in Clients, Calling(c)
       PROVE  Kept(w)
  BY <1>6, <1>10
<1> QED
  BY <1>5, <1>7, <1>8, <1>9, <1>10 DEF Next

\* The next command of a worker, by the step it is at.
LEMMA NextCommand ==
  ASSUME TypeInv, NEW w \in Workers, WorkerNext(w)
  PROVE  /\ step[w] = "rec_next" => RecoverLrem(w)
         /\ step[w] = "rec_hdel" => RecoverHdel(w)
         /\ step[w] \in {"boot", "loop"} => BootRecover(w) \/ StaleRecover(w)
         /\ step[w] = "read" => SremPending(w)
         /\ step[w] = "unpended" => HdelLatest(w)
         /\ step[w] = "dropped" => HsetMeta(w)
         /\ step[w] = "running" => Complete(w) \/ LockTimeout(w)
         /\ step[w] \in AckSteps => Acking(w)
         /\ call[w].at \in CallAts => HsetLatest(w) \/ SaddNew(w) \/ Returns(w)
         /\ step[w] \in {"requeue", "retry", "rec_enq"} =>
              HsetLatest(w) \/ SaddNew(w) \/ Returns(w)
<1>1. call[w].at \in CallAts => step[w] \in {"requeue", "retry", "rec_enq"}
  BY CallAtFacts DEF TypeInv, CallSteps
<1>2. HsetLatest(w) \/ Calling(w) => call[w].at \in CallAts
  BY DEF HsetLatest, Calling, SaddNew, SaddCoalesced, PushMarker, CallAts
<1>3. Recovering(w) => /\ step[w] \in {"boot", "loop", "rec_next", "rec_hdel"}
                       /\ step[w] \in {"boot", "loop"} => BootRecover(w) \/ StaleRecover(w)
                       /\ step[w] = "rec_next" => RecoverLrem(w)
                       /\ step[w] = "rec_hdel" => RecoverHdel(w)
  BY DEF Recovering, BootRecover, StaleRecover, RecoverLrem, RecoverHdel
<1>4. Claiming(w) => /\ step[w] \in ClaimSteps \/ step[w] = "claim"
                     /\ step[w] = "read" => SremPending(w)
                     /\ step[w] = "unpended" => HdelLatest(w)
                     /\ step[w] = "dropped" => HsetMeta(w)
  BY DEF Claiming, BlPop, BlPopTimeout, RpushProcessing, HgetLatest, SremPending,
         HdelLatest, HsetMeta, ClaimSteps
<1>5. /\ Running(w) => step[w] = "running"
      /\ Acking(w) => step[w] \in AckSteps
      /\ Restart(w) => step[w] = "down"
  BY DEF Running, Complete, LockTimeout, Acking, AckLrem, AckScan, AckLremSame, AckHdel,
         Restart, AckSteps
<1> QED
  BY <1>1, <1>2, <1>3, <1>4, <1>5
     DEF WorkerNext, Calling, Returns, ClaimSteps, AckSteps, Running

\* Which steps write the Redis keys and the history of requests.
LEMMA Writers ==
  ASSUME TypeInv, [Next]_vars
  PROVE  /\ pending' = pending \/ (\E a \in Actors : SaddNew(a))
                               \/ \E w \in Workers : SremPending(w)
         /\ \/ latest' = latest
            \/ \E c \in Clients, j \in JobIds, front \in Priorities : Enqueue(c, j, front)
            \/ \E w \in Workers : HsetLatest(w) \/ HdelLatest(w)
         /\ \/ meta' = meta
            \/ \E w \in Workers : HsetMeta(w) \/ RecoverHdel(w) \/ AckHdel(w)
         /\ need' \subseteq need \/ \E c \in Clients : Returns(c)
<1>1. ASSUME NEW w \in Workers, Recovering(w)
      PROVE  /\ UNCHANGED <<pending, latest, need>>
             /\ meta' = meta \/ RecoverHdel(w)
  BY <1>1 DEF Recovering, BootRecover, StaleRecover, Recover, RecoverLrem, RecoverHdel
<1>2. ASSUME NEW w \in Workers, Claiming(w)
      PROVE  /\ UNCHANGED need /\ (pending' = pending \/ SremPending(w))
             /\ latest' = latest \/ HdelLatest(w)
             /\ meta' = meta \/ HsetMeta(w)
  BY <1>2 DEF Claiming, BlPop, BlPopTimeout, RpushProcessing, HgetLatest, SremPending,
              HdelLatest, HsetMeta
<1>3. ASSUME NEW w \in Workers, Running(w) \/ Restart(w)
      PROVE  UNCHANGED <<pending, latest, meta>> /\ need' \subseteq need
  BY <1>3 DEF Running, Complete, LockTimeout, Restart
<1>4. ASSUME NEW w \in Workers, Acking(w)
      PROVE  UNCHANGED <<pending, latest, need>> /\ (meta' = meta \/ AckHdel(w))
  BY <1>4 DEF Acking, AckLrem, AckScan, AckLremSame, AckHdel
<1>5. ASSUME NEW w \in Workers, WorkerFails(w)
      PROVE  UNCHANGED <<pending, latest, meta>> /\ need' \subseteq need
  BY <1>5 DEF WorkerFails, Crash, ClaimRaises, RecoverReadRaises, RecoverDropRaises,
              RecoverEnqueueRaises, RequeueRaises, RetryRaises, AckRaises
<1>6. ASSUME NEW a \in Actors, Calling(a)
      PROVE  /\ UNCHANGED <<latest, meta>> /\ (pending' = pending \/ SaddNew(a))
             /\ need' = need \/ (a \in Clients /\ Returns(a))
  BY <1>6 DEF Calling, SaddNew, Returns, SaddCoalesced, PushMarker, EnqueueReturns
<1>7. ASSUME NEW w \in Workers, HsetLatest(w)
      PROVE  UNCHANGED <<pending, meta, need>>
  BY <1>7 DEF HsetLatest
<1>8. ASSUME NEW c \in Clients, ClientAborts(c)
      PROVE  UNCHANGED <<pending, latest, meta, need>>
  BY <1>8 DEF ClientAborts
<1>9. ASSUME NEW c \in Clients, NEW j \in JobIds, NEW front \in Priorities,
             Enqueue(c, j, front)
      PROVE  UNCHANGED <<pending, meta, need>>
  BY <1>9 DEF Enqueue
<1>10. CASE UNCHANGED vars
  BY <1>10 DEF vars
<1>11. ASSUME NEW w \in Workers, WorkerNext(w)
       PROVE  /\ pending' = pending \/ SaddNew(w) \/ SremPending(w)
              /\ latest' = latest \/ HsetLatest(w) \/ HdelLatest(w)
              /\ meta' = meta \/ HsetMeta(w) \/ RecoverHdel(w) \/ AckHdel(w)
              /\ need' \subseteq need
  BY <1>1, <1>2, <1>3, <1>4, <1>6, <1>7, <1>11, ActorsAssumption DEF WorkerNext
<1>12. ASSUME NEW c \in Clients, Calling(c)
       PROVE  /\ UNCHANGED <<latest, meta>> /\ (pending' = pending \/ SaddNew(c))
              /\ need' = need \/ Returns(c)
  BY <1>6, <1>12
<1> QED
  BY <1>5, <1>8, <1>9, <1>10, <1>11, <1>12 DEF Next

\* Failures are counted, by the actor that fails.
LEMMA FailuresCount ==
  ASSUME TypeInv, [Next]_vars
  PROVE  /\ failures \in Nat /\ failures' \in Nat
         /\ failures' = failures \/ failures' = failures + 1
         /\ \A a \in Actors : Fails(a) => failures' = failures + 1
<1>n. failures \in Nat
  BY BoundsAssumption DEF TypeInv, TypeOK
<1>1. ASSUME NEW w \in Workers, WorkerFails(w)
      PROVE  failures' = failures + 1
  BY <1>1 DEF WorkerFails, Crash, ClaimRaises, RecoverReadRaises, RecoverDropRaises,
              RecoverEnqueueRaises, RequeueRaises, RetryRaises, AckRaises, Fail
<1>2. ASSUME NEW w \in Workers, Recovering(w) \/ Claiming(w)
      PROVE  failures' = failures
  BY <1>2 DEF Recovering, BootRecover, StaleRecover, Recover, RecoverLrem, RecoverHdel,
              Claiming, BlPop, BlPopTimeout, RpushProcessing, HgetLatest, SremPending,
              HdelLatest, HsetMeta
<1>3. ASSUME NEW w \in Workers, Running(w) \/ Restart(w) \/ HsetLatest(w) \/ Acking(w)
      PROVE  failures' = failures
  BY <1>3 DEF Running, Complete, LockTimeout, Restart, HsetLatest, Acking, AckLrem, AckScan,
              AckLremSame, AckHdel
<1>4. ASSUME NEW a \in Actors, Calling(a)
      PROVE  failures' = failures
  BY <1>4 DEF Calling, SaddNew, SaddCoalesced, PushMarker, EnqueueReturns
<1>5. ASSUME NEW c \in Clients
      PROVE  /\ ClientAborts(c) => failures' = failures + 1
             /\ \A j \in JobIds, front \in Priorities :
                  Enqueue(c, j, front) => failures' = failures
  BY DEF ClientAborts, Fail, Enqueue
<1>6. ASSUME UNCHANGED vars
      PROVE  failures' = failures
  BY <1>6 DEF vars
<1>7. failures' = failures \/ failures' = failures + 1
  BY <1>1, <1>2, <1>3, <1>4, <1>5, <1>6 DEF Next, WorkerNext
<1> QED
  BY <1>n, <1>1, <1>5, <1>7 DEF Fails
-----------------------------------------------------------------------------
(* Slots: a payload is kept and worked on under the slot of its id          *)

LatestSlot == \A s \in Slots : latest[s] # NoPayload => SlotOf[latest[s].id] = s

SlotSteps == {"read", "unpended", "dropped"} \cup RunSteps

SameSlotOf(w) ==
  /\ step[w] \in SlotSteps => SlotOf[job[w].id] = Slot(w)
  /\ step[w] \in {"requeue", "retry"} /\ call[w] # NoCall => CallSlot(w) = Slot(w)

SameSlot == \A w \in Workers : SameSlotOf(w)

TodoStepsOf(w) == todo[w] # {} => step[w] \in {"rec_next", "rec_hdel", "rec_enq"}

\* Only a recovery has entries to requeue.
TodoSteps == \A w \in Workers : TodoStepsOf(w)

RequestInv == TypeInv /\ OneMarker /\ LatestSlot /\ SameSlot /\ TodoSteps

LEMMA LatestSlotStep == TypeInv /\ LatestSlot /\ [Next]_vars => LatestSlot'
<1> SUFFICES ASSUME TypeInv, LatestSlot, [Next]_vars, NEW s \in Slots, latest'[s] # NoPayload
             PROVE  SlotOf[latest'[s].id] = s
  BY DEF LatestSlot
<1>l. latest \in [Slots -> Payload \cup {NoPayload}]
  BY DEF TypeInv, TypeOK, RedisTypeOK
<1>1. ASSUME NEW c \in Clients, NEW j \in JobIds, NEW front \in Priorities,
             Enqueue(c, j, front)
      PROVE  SlotOf[latest'[s].id] = s
  BY <1>1, <1>l DEF Enqueue, LatestSlot
<1>2. ASSUME NEW w \in Workers, HsetLatest(w)
      PROVE  SlotOf[latest'[s].id] = s
  BY <1>2, <1>l DEF HsetLatest, LatestSlot, CallSlot
<1>3. ASSUME NEW w \in Workers, HdelLatest(w)
      PROVE  SlotOf[latest'[s].id] = s
  BY <1>3, <1>l DEF HdelLatest, LatestSlot
<1>4. CASE latest' = latest
  BY <1>4 DEF LatestSlot
<1> QED
  BY <1>1, <1>2, <1>3, <1>4, Writers

LEMMA SameSlotStep ==
  ASSUME TypeInv, LatestSlot, [Next]_vars, NEW w \in Workers, SameSlotOf(w), TodoStepsOf(w)
  PROVE  SameSlotOf(w)' /\ TodoStepsOf(w)'
<1>a. /\ step \in [Workers -> Steps] /\ call \in [Actors -> Call \cup {NoCall}]
      /\ marker \in [Workers -> JobIds \cup {NoJob}] /\ todo \in [Workers -> SUBSET Entry]
      /\ job \in [Workers -> Payload \cup {NoPayload}]
      /\ after \in [Workers -> {"loop", "claim", "down"}]
      /\ call[w] # NoCall => step[w] \in {"requeue", "retry", "rec_enq"}
  BY DEF TypeInv, TypeOK, WorkerTypeOK, CallSteps
<1>t. todo[w] # {} => step[w] \in {"rec_next", "rec_hdel", "rec_enq"}
  BY DEF TodoStepsOf
<1> DEFINE Off == /\ step'[w] \notin SlotSteps
                  /\ todo'[w] # {} => step'[w] \in {"rec_next", "rec_hdel", "rec_enq"}
<1>o. ASSUME Off PROVE SameSlotOf(w)' /\ TodoStepsOf(w)'
  BY <1>o DEF SameSlotOf, TodoStepsOf, SlotSteps, RunSteps
<1>1. CASE ~WorkerNext(w) /\ ~WorkerFails(w)
  <2>1. Kept(w)
    BY <1>1, OthersKeep
  <2> QED
    BY <2>1 DEF Kept, SameSlotOf, TodoStepsOf, CallSlot, Slot
<1>2. CASE Recovering(w)
  BY <1>2, <1>a, <1>o, <1>t DEF Recovering, BootRecover, StaleRecover, Recover, RecoverLrem,
     RecoverHdel, Goto, SlotSteps, RunSteps
<1>3. CASE Claiming(w)
  <2>1. todo' = todo /\ todo[w] = {}
    BY <1>3, <1>t DEF Claiming, BlPop, BlPopTimeout, RpushProcessing, HgetLatest,
       SremPending, HdelLatest, HsetMeta
  <2>2. CASE HgetLatest(w)
    <3>1. marker[w] \in JobIds /\ Slot(w) \in Slots
      BY <2>2, SlotsAssumption DEF HgetLatest, TypeInv, TypeOK, WorkerTypeOK, HoldSteps, Slot
    <3>2. SlotOf[ResolvedPayload(w).id] = Slot(w)
      BY <3>1 DEF ResolvedPayload, LatestSlot, Slot
    <3>3. step'[w] = "read" /\ job'[w] = ResolvedPayload(w) /\ marker'[w] = marker[w]
      BY <2>2, <1>a DEF HgetLatest, Goto
    <3> QED
      BY <2>1, <3>2, <3>3 DEF SameSlotOf, TodoStepsOf, SlotSteps, RunSteps, Slot
  <2>3. CASE SremPending(w) \/ HdelLatest(w) \/ HsetMeta(w)
    <3>1. /\ step[w] \in SlotSteps /\ step'[w] \in {"unpended", "dropped", "running"}
          /\ job'[w] = job[w] /\ marker'[w] = marker[w]
      BY <2>3, <1>a DEF SremPending, HdelLatest, HsetMeta, Goto, SlotSteps
    <3> QED
      BY <2>1, <3>1 DEF SameSlotOf, TodoStepsOf, SlotSteps, RunSteps, Slot
  <2> QED
    BY <1>3, <1>a, <1>o, <2>1, <2>2, <2>3 DEF Claiming, BlPop, BlPopTimeout,
       RpushProcessing, Goto, SlotSteps, RunSteps
<1>4. CASE Running(w)
  <2>1. todo' = todo /\ todo[w] = {}
    BY <1>4, <1>t DEF Running, Complete, LockTimeout
  <2>2. CASE LockTimeout(w)
    <3>1. /\ step[w] = "running" /\ step'[w] = "requeue"
          /\ job'[w] = job[w] /\ marker'[w] = marker[w]
          /\ call' = [call EXCEPT ![w] = EnqueueCall("hset", job[w], FALSE)]
      BY <2>2, <1>a DEF LockTimeout, Goto
    <3>2. job[w] \in Payload
      BY <3>1 DEF TypeInv, TypeOK, WorkerTypeOK, OwnSteps, RunSteps
    <3>3. call'[w].job = job[w]
      BY <1>a, <3>1, <3>2, EnqueueCallFacts DEF CallAts
    <3> QED
      BY <2>1, <3>1, <3>3 DEF SameSlotOf, TodoStepsOf, SlotSteps, RunSteps, Slot, CallSlot
  <2>3. CASE Complete(w)
    BY <2>1, <2>3, <1>a, <1>o DEF Complete, Goto, SlotSteps, RunSteps
  <2> QED
    BY <1>4, <2>2, <2>3 DEF Running
<1>5. CASE Acking(w)
  BY <1>5, <1>a, <1>o, <1>t DEF Acking, AckLrem, AckScan, AckLremSame, AckHdel, Goto,
     SlotSteps, RunSteps
<1>6. CASE Restart(w)
  BY <1>6, <1>a, <1>o, <1>t DEF Restart, Goto, SlotSteps, RunSteps
<1>7. CASE HsetLatest(w) \/ SaddNew(w)
  <2>1. PICK at \in CallAts : call' = [call EXCEPT ![w] = CallNext(call[w], at)]
    BY <1>7 DEF HsetLatest, SaddNew, CallAts
  <2>2. call[w] \in Call /\ call[w] # NoCall
    BY <1>7, CallAtFacts DEF HsetLatest, SaddNew, CallAts
  <2>3. call'[w].job = call[w].job
    BY <1>a, <2>1, <2>2, CallNextFacts
  <2>4. UNCHANGED <<step, marker, job, todo>>
    BY <1>7 DEF HsetLatest, SaddNew
  <2> QED
    BY <2>2, <2>3, <2>4 DEF SameSlotOf, TodoStepsOf, CallSlot, Slot
<1>8. CASE Returns(w)
  <2>1. call[w].at \in CallAts /\ EnqueueReturns(w)
    BY <1>8 DEF Returns, SaddCoalesced, PushMarker, CallAts
  <2>2. step[w] \in {"requeue", "retry", "rec_enq"}
    BY <1>a, <2>1, CallAtFacts
  <2> QED
    BY <1>a, <1>o, <1>t, <2>1, <2>2 DEF EnqueueReturns, NextEntry, SlotSteps, RunSteps
<1>9. CASE RequeueRaises(w)
  <2>1. step[w] = "requeue" /\ UNCHANGED <<job, marker, todo>>
    BY <1>9 DEF RequeueRaises
  <2>2. CASE ShouldRequeue(job[w])
    <3>1. PICK j \in JobIds :
            /\ SlotOf[j] = Slot(w)
            /\ call' = [call EXCEPT ![w] =
                          EnqueueCall("hset", [id |-> j, attempt |-> job[w].attempt + 1], FALSE)]
      BY <1>9, <2>2 DEF RequeueRaises
    <3>2. call'[w].job.id = j
      BY <1>a, <3>1 DEF EnqueueCall
    <3>3. step'[w] = "retry"
      BY <1>9, <1>a, <2>2 DEF RequeueRaises, Goto
    <3> QED
      BY <1>t, <2>1, <3>1, <3>2, <3>3 DEF SameSlotOf, TodoStepsOf, CallSlot, Slot, SlotSteps,
         RunSteps
  <2>3. CASE ~ShouldRequeue(job[w])
    <3>1. step'[w] = "ack"
      BY <1>9, <1>a, <2>3 DEF RequeueRaises, Goto
    <3> QED
      BY <1>o, <1>t, <2>1, <3>1 DEF SlotSteps, RunSteps
  <2> QED
    BY <2>2, <2>3
<1>10. CASE RecoverDropRaises(w)
  <2>1. step'[w] = "rec_enq"
    BY <1>10, <1>a DEF RecoverDropRaises, Goto
  <2> QED
    BY <1>o, <2>1 DEF SlotSteps, RunSteps
<1>11. CASE WorkerFails(w) /\ ~RequeueRaises(w) /\ ~RecoverDropRaises(w)
  BY <1>11, <1>a, <1>o, <1>t DEF WorkerFails, Crash, ClaimRaises, RecoverReadRaises,
     RecoverEnqueueRaises, RetryRaises, AckRaises, Goto, ClaimSteps, AckSteps, SlotSteps,
     RunSteps
<1> QED
  BY <1>1, <1>2, <1>3, <1>4, <1>5, <1>6, <1>7, <1>8, <1>9, <1>10, <1>11
     DEF WorkerNext, Calling, Returns

LEMMA RequestInit == Init => RequestInv
<1> SUFFICES ASSUME Init PROVE RequestInv
  OBVIOUS
<1>1. LatestSlot /\ TodoSteps
  BY DEF Init, LatestSlot, TodoSteps, TodoStepsOf
<1>2. SameSlot
  BY DEF Init, SameSlot, SameSlotOf, SlotSteps, RunSteps
<1> QED
  BY <1>1, <1>2, TypeInit, OneMarkerInit DEF RequestInv

LEMMA RequestStep == RequestInv /\ [Next]_vars => RequestInv'
  BY TypeStep, OneMarkerStep, LatestSlotStep, SameSlotStep DEF RequestInv, SameSlot, TodoSteps
-----------------------------------------------------------------------------
(* A request on its way, step by step                                       *)

LEMMA StartingStep ==
  ASSUME TypeInv, [Next]_vars, NEW w \in Workers, NEW s \in Slots, Starting(w, s)
  PROVE  Starting(w, s)' \/ Serving(w, s)' \/ WorkerFails(w)
<1>a. /\ step \in [Workers -> Steps] /\ fresh \in [Workers -> BOOLEAN]
  BY DEF TypeInv, TypeOK, WorkerTypeOK
<1>1. CASE ~WorkerNext(w) /\ ~WorkerFails(w)
  BY <1>1, OthersKeep DEF Kept, Starting, Slot
<1>2. CASE HdelLatest(w)
  BY <1>2, <1>a DEF HdelLatest, Goto, Starting, Slot
<1>3. CASE HsetMeta(w)
  BY <1>3, <1>a DEF HsetMeta, Goto, Starting, Serving, Slot
<1> QED
  BY <1>1, <1>2, <1>3, NextCommand DEF Starting

LEMMA ServingStep ==
  ASSUME TypeInv, [Next]_vars, NEW w \in Workers, SameSlotOf(w), NEW s \in Slots, Serving(w, s)
  PROVE  \/ Serving(w, s)' \/ Requeuing(w, s)' \/ WorkerFails(w)
         \/ s \notin need' \/ \E c \in Clients : Returns(c) /\ CallSlot(c) = s
<1>a. /\ step \in [Workers -> Steps] /\ fresh \in [Workers -> BOOLEAN]
      /\ call \in [Actors -> Call \cup {NoCall}]
  BY DEF TypeInv, TypeOK, WorkerTypeOK
<1>s. step[w] = "running" /\ Slot(w) = s /\ fresh[w]
  BY DEF Serving
<1>1. CASE ~WorkerNext(w) /\ ~WorkerFails(w)
  <2>1. Kept(w)
    BY <1>1, OthersKeep
  <2>2. CASE fresh'[w] = fresh[w]
    BY <1>s, <2>1, <2>2 DEF Kept, Serving, Slot
  <2> QED
    BY <1>s, <2>1, <2>2 DEF Kept
<1>2. CASE LockTimeout(w)
  <2>1. call' = [call EXCEPT ![w] = EnqueueCall("hset", job[w], FALSE)]
    BY <1>2 DEF LockTimeout
  <2>2. job[w] \in Payload /\ SlotOf[job[w].id] = s
    BY <1>s DEF TypeInv, TypeOK, WorkerTypeOK, OwnSteps, RunSteps, SameSlotOf, SlotSteps
  <2>3. call'[w].at = "hset" /\ call'[w].job = job[w]
    BY <1>a, <2>1, <2>2, EnqueueCallFacts DEF CallAts
  <2> QED
    BY <2>2, <2>3 DEF Requeuing, CallSlot
<1>3. CASE Complete(w)
  BY <1>3, <1>s DEF Complete
<1> QED
  BY <1>1, <1>2, <1>3, <1>s, NextCommand

LEMMA RequeuingStep ==
  ASSUME TypeInv, TodoSteps, [Next]_vars, NEW w \in Workers, NEW s \in Slots,
         Requeuing(w, s)
  PROVE  \/ Requeuing(w, s)' \/ WorkerFails(w)
         \/ (SaddNew(w) \/ Returns(w)) /\ CallSlot(w) = s
<1>a. /\ step \in [Workers -> Steps] /\ call \in [Actors -> Call \cup {NoCall}]
      /\ job \in [Workers -> Payload \cup {NoPayload}] /\ todo \in [Workers -> SUBSET Entry]
  BY DEF TypeInv, TypeOK, WorkerTypeOK
<1>1. CASE ~WorkerNext(w) /\ ~WorkerFails(w)
  BY <1>1, OthersKeep DEF Kept, Requeuing, CallSlot
<1>2. CASE WorkerNext(w) /\ call[w].at \in {"hset", "sadd"} /\ CallSlot(w) = s
  <2>1. HsetLatest(w) \/ SaddNew(w) \/ Returns(w)
    BY <1>2, NextCommand DEF CallAts
  <2>2. CASE HsetLatest(w)
    <3>1. call[w] \in Call /\ call' = [call EXCEPT ![w] = CallNext(call[w], "sadd")]
      BY <2>2, CallAtFacts DEF HsetLatest, CallAts
    <3>2. call'[w].at = "sadd" /\ call'[w].job = call[w].job
      BY <1>a, <3>1, CallNextFacts DEF CallAts
    <3> QED
      BY <1>2, <3>2 DEF Requeuing, CallSlot
  <2> QED
    BY <1>2, <2>1, <2>2
<1>3. CASE WorkerNext(w) /\ step[w] = "rec_hdel" /\ SlotOf[job[w].id] = s
  <2>1. RecoverHdel(w)
    BY <1>3, NextCommand
  <2>2. job[w] \in Payload
    BY <1>3 DEF TypeInv, TypeOK, WorkerTypeOK
  <2>3. call'[w].at = "hset" /\ call'[w].job = job[w]
    BY <1>a, <2>1, <2>2, EnqueueCallFacts DEF RecoverHdel, CallAts
  <2> QED
    BY <1>3, <2>3 DEF Requeuing, CallSlot
<1>4. CASE WorkerNext(w) /\ \E e \in todo[w] : SlotOf[e.job.id] = s
  <2>1. PICK e \in todo[w] : SlotOf[e.job.id] = s
    BY <1>4
  <2>2. step[w] \in {"rec_next", "rec_hdel", "rec_enq"}
    BY <2>1 DEF TodoSteps, TodoStepsOf
  <2>3. CASE step[w] = "rec_next"
    <3>1. PICK d \in todo[w] : /\ todo' = [todo EXCEPT ![w] = @ \ {d}]
                               /\ job' = [job EXCEPT ![w] = d.job]
      BY <1>4, <2>3, NextCommand DEF RecoverLrem
    <3>2. step'[w] = "rec_hdel"
      BY <1>4, <1>a, <2>3, NextCommand DEF RecoverLrem, Goto
    <3>3. CASE e = d
      <4>1. SlotOf[job'[w].id] = s
        BY <1>a, <2>1, <3>1, <3>3
      <4> QED
        BY <3>2, <4>1 DEF Requeuing
    <3>4. CASE e # d
      <4>1. e \in todo'[w]
        BY <1>a, <3>1, <3>4
      <4> QED
        BY <2>1, <4>1 DEF Requeuing
    <3> QED
      BY <3>3, <3>4
  <2>4. CASE step[w] # "rec_next"
    <3>1. todo' = todo
      BY <1>4, <2>2, <2>4, NextCommand DEF RecoverHdel, HsetLatest, SaddNew, Returns,
         SaddCoalesced, PushMarker, EnqueueReturns
    <3> QED
      BY <2>1, <3>1 DEF Requeuing
  <2> QED
    BY <2>3, <2>4
<1> QED
  BY <1>1, <1>2, <1>3, <1>4 DEF Requeuing

\* What a worker between its claim and its ack does with the job it has.
LEMMA JobStep ==
  ASSUME TypeInv, [Next]_vars, NEW w \in Workers, step'[w] \in RunSteps \cup AckSteps
  PROVE  /\ job'[w] = job[w]
         /\ step[w] \in RunSteps \cup AckSteps \/ HsetMeta(w)
<1>a. /\ step \in [Workers -> Steps] /\ after \in [Workers -> {"loop", "claim", "down"}]
      /\ job \in [Workers -> Payload \cup {NoPayload}]
  BY DEF TypeInv, TypeOK, WorkerTypeOK
<1> USE <1>a DEF Goto, RunSteps, AckSteps
<1>1. CASE ~WorkerNext(w) /\ ~WorkerFails(w)
  BY <1>1, OthersKeep DEF Kept
<1>2. CASE Recovering(w)
  BY <1>2 DEF Recovering, BootRecover, StaleRecover, Recover, RecoverLrem, RecoverHdel
<1>3. CASE Claiming(w)
  BY <1>3 DEF Claiming, BlPop, BlPopTimeout, RpushProcessing, HgetLatest, SremPending,
              HdelLatest, HsetMeta
<1>4. CASE Running(w) \/ Restart(w)
  BY <1>4 DEF Running, Complete, LockTimeout, Restart
<1>5. CASE Acking(w)
  BY <1>5 DEF Acking, AckLrem, AckScan, AckLremSame, AckHdel
<1>6. CASE HsetLatest(w) \/ SaddNew(w)
  BY <1>6 DEF HsetLatest, SaddNew
<1>7. CASE Returns(w)
  <2>1. call[w].at \in CallAts /\ EnqueueReturns(w)
    BY <1>7 DEF Returns, SaddCoalesced, PushMarker, CallAts
  <2>2. step[w] \in {"requeue", "retry", "rec_enq"}
    BY <2>1, CallAtFacts DEF TypeInv, CallSteps
  <2> QED
    BY <2>1, <2>2 DEF EnqueueReturns, NextEntry
<1>8. CASE WorkerFails(w)
  <2>1. CASE RecoverDropRaises(w)
    BY <2>1 DEF RecoverDropRaises
  <2> QED
    BY <1>8, <2>1 DEF WorkerFails, Crash, ClaimRaises, RecoverReadRaises,
       RecoverEnqueueRaises, RequeueRaises, RetryRaises, AckRaises
<1> QED
  BY <1>1, <1>2, <1>3, <1>4, <1>5, <1>6, <1>7, <1>8 DEF WorkerNext, Calling, Returns

\* An entry nobody is about to delete stays, or is requeued or started again.
LEMMA RecoverableStep ==
  ASSUME TypeInv, SameSlot, [Next]_vars, NEW id \in JobIds, Recoverable(id, {})
  PROVE  \/ Recoverable(id, {})'
         \/ \E w \in Workers : Requeuing(w, SlotOf[id])' \/ Serving(w, SlotOf[id])'
<1>a. /\ step \in [Workers -> Steps] /\ call \in [Actors -> Call \cup {NoCall}]
      /\ fresh \in [Workers -> BOOLEAN] /\ meta \in [JobIds -> Entry \cup {NoEntry}]
  BY DEF TypeInv, TypeOK, WorkerTypeOK, RedisTypeOK
<1>r. /\ meta[id] # NoEntry
      /\ \A w \in Workers : step[w] \in RunSteps \cup AckSteps => job[w].id # id
  BY DEF Recoverable
<1>1. ASSUME NEW w \in Workers, HsetMeta(w), job[w].id = id
      PROVE  Serving(w, SlotOf[id])'
  <2>1. Slot(w) = SlotOf[id]
    BY <1>1 DEF SameSlot, SameSlotOf, SlotSteps, HsetMeta
  <2>2. step'[w] = "running" /\ marker' = marker
    BY <1>1, <1>a DEF HsetMeta, Goto
  <2>3. fresh'[w]
    BY <1>1, <1>a DEF HsetMeta
  <2> QED
    BY <2>1, <2>2, <2>3 DEF Serving, Slot
<1>2. ASSUME NEW w \in Workers, RecoverHdel(w), job[w].id = id
      PROVE  Requeuing(w, SlotOf[id])'
  <2>1. job[w] \in Payload
    BY <1>2 DEF RecoverHdel, TypeInv, TypeOK, WorkerTypeOK
  <2>2. call'[w].at = "hset" /\ call'[w].job = job[w]
    BY <1>a, <1>2, <2>1, EnqueueCallFacts DEF RecoverHdel, CallAts
  <2> QED
    BY <1>2, <2>2 DEF Requeuing, CallSlot
<1>3. CASE \A w \in Workers : HsetMeta(w) \/ RecoverHdel(w) => job[w].id # id
  <2>1. ASSUME NEW w \in Workers, AckHdel(w)
        PROVE  meta'[id] = meta[id]
    <3>1. job[w].id # id
      BY <1>r, <2>1 DEF AckHdel, AckSteps
    <3> QED
      BY <1>a, <2>1, <3>1 DEF AckHdel
  <2>2. ASSUME NEW w \in Workers, HsetMeta(w) \/ RecoverHdel(w)
        PROVE  meta'[id] = meta[id]
    BY <1>a, <1>3, <2>2 DEF HsetMeta, RecoverHdel
  <2>3. meta'[id] = meta[id]
    BY <2>1, <2>2, Writers
  <2>4. ASSUME NEW w \in Workers, step'[w] \in RunSteps \cup AckSteps
        PROVE  job'[w].id # id
    BY <1>r, <1>3, <2>4, JobStep
  <2> QED
    BY <1>r, <2>3, <2>4 DEF Recoverable
<1> QED
  BY <1>1, <1>2, <1>3

\* A worker that fails while it drives the terminal leaves its entry behind.
LEMMA ServingFails ==
  ASSUME TypeInv, [Next]_vars, NEW w \in Workers, NEW s \in Slots, Serving(w, s),
         WorkerFails(w), NEW id \in JobIds, job[w].id = id, Recoverable(id, {w})
  PROVE  Recoverable(id, {})'
<1>a. step \in [Workers -> Steps] /\ job \in [Workers -> Payload \cup {NoPayload}]
  BY DEF TypeInv, TypeOK, WorkerTypeOK
<1>1. Crash(w)
  BY DEF Serving, WorkerFails, Crash, ClaimRaises, RecoverReadRaises, RecoverDropRaises,
     RecoverEnqueueRaises, RequeueRaises, RetryRaises, AckRaises, ClaimSteps, AckSteps
<1>2. /\ meta' = meta /\ step'[w] = "down"
      /\ \A v \in Workers \ {w} : step'[v] = step[v] /\ job'[v] = job[v]
  BY <1>1, <1>a DEF Crash, Goto, Forget
<1> QED
  BY <1>2 DEF Recoverable, RunSteps, AckSteps
-----------------------------------------------------------------------------
(* No request is lost but by the failure of who had it alone                *)

\* Whatever enqueue_job finds or adds, its slot is pending when it returns.
LEMMA CallLeavesPending ==
  ASSUME TypeInv, OneMarker, NEW a \in Actors, SaddNew(a) \/ Returns(a)
  PROVE  CallSlot(a) \in pending'
<1>1. CASE SaddNew(a)
  BY <1>1 DEF SaddNew
<1>2. CASE SaddCoalesced(a)
  BY <1>2 DEF SaddCoalesced, Added
<1>3. CASE PushMarker(a)
  <2>1. CallSlot(a) \in Slots
    BY <1>3, CallAtFacts DEF PushMarker, CallAts
  <2>2. PICK s \in Slots : s = CallSlot(a)
    BY <2>1
  <2>3. Carries(a, s)
    BY <1>3, <2>2 DEF PushMarker, Carries
  <2>4. s \in pending
    BY <2>3 DEF OneMarker, HasMarker
  <2> QED
    BY <1>3, <2>2, <2>4 DEF PushMarker
<1> QED
  BY <1>1, <1>2, <1>3 DEF Returns

\* A slot leaves `pending` only by the SREM of its claim.
LEMMA PendingLeaves ==
  ASSUME TypeInv, [Next]_vars, NEW s \in Slots, s \in pending, s \notin pending'
  PROVE  \E w \in Workers : SremPending(w) /\ Slot(w) = s
<1>1. ASSUME NEW a \in Actors, SaddNew(a)
      PROVE  FALSE
  BY <1>1 DEF SaddNew
<1>2. ASSUME NEW w \in Workers, SremPending(w)
      PROVE  Slot(w) = s
  BY <1>2 DEF SremPending
<1> QED
  BY <1>1, <1>2, Writers

LEMMA LossStep ==
  RequestInv /\ [Next]_vars =>
    \A s \in Lost' \ Lost : s \in Wedged \/ \E a \in Actors : Fails(a) /\ Fragile(a, s)
<1> SUFFICES ASSUME RequestInv, [Next]_vars, NEW s \in Lost', s \notin Lost, s \notin Wedged
             PROVE  \E a \in Actors : Fails(a) /\ Fragile(a, s)
  OBVIOUS
<1>i. TypeInv /\ OneMarker /\ SameSlot /\ TodoSteps /\ TypeInv' /\ OneMarker'
  BY RequestStep DEF RequestInv
<1>a. /\ s \in Slots /\ s \in need' /\ ~Accounted(s)'
      /\ step \in [Workers -> Steps] /\ step' \in [Workers -> Steps]
  BY <1>i DEF Lost, TypeInv, TypeOK, WorkerTypeOK
<1>n. /\ ~HasMarker(s)'
      /\ \A w \in Workers : ~Starting(w, s)' /\ ~Serving(w, s)'
      /\ s \notin pending' =>
           /\ \A w \in Workers : ~Requeuing(w, s)'
           /\ \A id \in JobIds : SlotOf[id] = s => ~Recoverable(id, {})'
  BY <1>a DEF Accounted
<1>1. CASE s \in pending'
  <2>1. s \in Wedged'
    BY <1>1, <1>n DEF Wedged
  <2>2. PICK a \in Actors : Fails(a) /\ Carries(a, s)
    BY <1>i, <2>1, WedgeNeedsCarrier
  <2> QED
    BY <2>2 DEF Fragile
<1>2. CASE s \notin pending'
  <2>1. \A w \in Workers : WorkerFails(w) => Fails(w)
    BY DEF Fails
  <2>2. \A a \in Actors : SaddNew(a) \/ Returns(a) => CallSlot(a) # s
    BY <1>2, <1>i, CallLeavesPending
  <2>3. s \in need
    <3>1. ASSUME NEW c \in Clients, Returns(c), s \notin need
          PROVE  FALSE
      <4>1. need' = need \cup {CallSlot(c)}
        BY <3>1 DEF Returns, SaddCoalesced, PushMarker, EnqueueReturns
      <4> QED
        BY <1>a, <2>2, <3>1, <4>1
    <3> QED
      BY <1>a, <1>i, <3>1, Writers
  <2>4. Accounted(s)
    BY <2>3 DEF Lost
  <2>5. ASSUME HasMarker(s)
        PROVE  FALSE
    <3>1. s \in pending
      BY <1>a, <1>i, <2>5 DEF OneMarker
    <3>2. PICK w \in Workers : SremPending(w) /\ Slot(w) = s
      BY <1>2, <1>a, <1>i, <3>1, PendingLeaves
    <3>3. Starting(w, s)'
      BY <1>a, <3>2 DEF SremPending, Starting, Goto, Slot
    <3> QED
      BY <1>n, <3>3
  <2>6. ASSUME NEW w \in Workers, Starting(w, s)
        PROVE  \E a \in Actors : Fails(a) /\ Fragile(a, s)
    <3>1. WorkerFails(w)
      BY <1>a, <1>i, <1>n, <2>6, StartingStep
    <3> QED
      BY <2>1, <2>6, <3>1 DEF Fragile
  <2>7. ASSUME NEW w \in Workers, Serving(w, s)
        PROVE  \E a \in Actors : Fails(a) /\ Fragile(a, s)
    <3>1. WorkerFails(w)
      BY <1>2, <1>a, <1>i, <1>n, <2>2, <2>7, ServingStep DEF SameSlot
    <3>2. job[w] \in Payload /\ SlotOf[job[w].id] = s
      BY <1>i, <2>7 DEF Serving, TypeInv, TypeOK, WorkerTypeOK, OwnSteps, RunSteps, SameSlot,
         SameSlotOf, SlotSteps
    <3>3. PICK id \in JobIds : id = job[w].id
      BY <3>2, PayloadFacts
    <3>4. ~Recoverable(id, {w})
      BY <1>2, <1>a, <1>i, <1>n, <2>7, <3>1, <3>2, <3>3, ServingFails
    <3> QED
      BY <2>1, <2>7, <3>1, <3>3, <3>4 DEF Fragile
  <2>8. ASSUME NEW w \in Workers, Requeuing(w, s)
        PROVE  \E a \in Actors : Fails(a) /\ Fragile(a, s)
    <3>1. WorkerFails(w)
      BY <1>2, <1>a, <1>i, <1>n, <2>2, <2>8, RequeuingStep
    <3> QED
      BY <2>1, <2>8, <3>1 DEF Fragile
  <2>9. ASSUME NEW id \in JobIds, SlotOf[id] = s, Recoverable(id, {})
        PROVE  FALSE
    BY <1>2, <1>i, <1>n, <2>9, RecoverableStep
  <2> QED
    BY <2>4, <2>5, <2>6, <2>7, <2>8, <2>9 DEF Accounted
<1> QED
  BY <1>1, <1>2

\* A request the API accepted is lost only where the actor that holds it alone
\* fails (between BLPOP and HSET of claim_job, in enqueue_job, in a requeue or
\* a recovery that has deleted the entry), or if its slot is wedged.
THEOREM LossesExplained == Spec => LossNeedsFragileFailure
<1>1. RequestInv /\ [Next]_vars =>
        [\A s \in Lost' \ Lost : \/ s \in Wedged
                                 \/ \E a \in Actors : Fails(a) /\ Fragile(a, s)]_vars
  BY LossStep
<1> QED
  BY RequestInit, RequestStep, <1>1, PTL DEF Spec, LossNeedsFragileFailure

\* Only client c, by its next command or its own failure, changes its call.
LEMMA ClientKeeps ==
  ASSUME TypeInv, [Next]_vars, NEW c \in Clients, ~Calling(c), ~ClientAborts(c)
  PROVE  \/ call'[c] = call[c]
         \/ \E j \in JobIds, front \in Priorities : call[c] = NoCall /\ Enqueue(c, j, front)
<1>a. call \in [Actors -> Call \cup {NoCall}] /\ c \notin Workers
  BY ActorsAssumption DEF TypeInv, TypeOK
<1>1. ASSUME NEW w \in Workers, Recovering(w) \/ Claiming(w)
      PROVE  call'[c] = call[c]
  BY <1>1, <1>a DEF Recovering, BootRecover, StaleRecover, Recover, RecoverLrem, RecoverHdel,
     Claiming, BlPop, BlPopTimeout, RpushProcessing, HgetLatest, SremPending, HdelLatest,
     HsetMeta
<1>2. ASSUME NEW w \in Workers, Running(w) \/ Restart(w) \/ HsetLatest(w) \/ Acking(w)
      PROVE  call'[c] = call[c]
  BY <1>2, <1>a DEF Running, Complete, LockTimeout, Restart, HsetLatest, Acking, AckLrem,
     AckScan, AckLremSame, AckHdel
<1>3. ASSUME NEW w \in Workers, WorkerFails(w)
      PROVE  call'[c] = call[c]
  <2>1. CASE RequeueRaises(w)
    BY <1>a, <2>1 DEF RequeueRaises
  <2>2. CASE RecoverDropRaises(w)
    BY <1>a, <2>2 DEF RecoverDropRaises
  <2> QED
    BY <1>3, <1>a, <2>1, <2>2 DEF WorkerFails, Crash, ClaimRaises, RecoverReadRaises,
       RecoverEnqueueRaises, RetryRaises, AckRaises
<1>4. ASSUME NEW a \in Actors, a # c, Calling(a)
      PROVE  call'[c] = call[c]
  BY <1>4, <1>a DEF Calling, SaddNew, SaddCoalesced, PushMarker, EnqueueReturns
<1>5. ASSUME NEW d \in Clients, \/ d # c /\ ClientAborts(d)
                                \/ \E j \in JobIds, front \in Priorities :
                                     d # c /\ Enqueue(d, j, front)
      PROVE  call'[c] = call[c]
  BY <1>5, <1>a DEF ClientAborts, Enqueue
<1>6. CASE UNCHANGED vars
  BY <1>6 DEF vars
<1>7. ASSUME NEW j \in JobIds, NEW front \in Priorities, Enqueue(c, j, front)
      PROVE  call[c] = NoCall
  BY <1>7 DEF Enqueue
<1> QED
  BY <1>a, <1>1, <1>2, <1>3, <1>4, <1>5, <1>6, <1>7 DEF Next, WorkerNext
-----------------------------------------------------------------------------
(* Without failures                                                         *)

NoWedge == failures = 0 => Wedged = {}

LEMMA NoFailure ==
  ASSUME TypeInv, [Next]_vars, failures' = 0
  PROVE  failures = 0 /\ failures' = failures /\ \A a \in Actors : ~Fails(a)
<1>1. failures = 0 /\ failures' = failures
  BY FailuresCount
<1>2. \A a \in Actors : Fails(a) => failures' = failures + 1
  BY FailuresCount
<1> QED
  BY <1>1, <1>2

LEMMA NoWedgeStep == RequestInv /\ NoWedge /\ [Next]_vars => NoWedge'
<1> SUFFICES ASSUME RequestInv, NoWedge, [Next]_vars, failures' = 0
             PROVE  Wedged' = {}
  BY DEF NoWedge
<1>1. failures = 0 /\ failures' = failures
  BY NoFailure DEF RequestInv
<1>2. Wedged' \subseteq Wedged
  BY <1>1, WedgeNeedsFailure DEF RequestInv
<1> QED
  BY <1>1, <1>2 DEF NoWedge

LEMMA NothingLostStep ==
  RequestInv /\ NoWedge /\ NothingLost /\ [Next]_vars => NothingLost'
<1> SUFFICES ASSUME RequestInv, NoWedge, NothingLost, [Next]_vars, failures' = 0
             PROVE  Lost' = {}
  BY DEF NothingLost
<1>1. failures = 0 /\ \A a \in Actors : ~Fails(a)
  BY NoFailure DEF RequestInv
<1> QED
  BY <1>1, LossStep DEF NoWedge, NothingLost

LEMMA QuietInit == Init => NoWedge /\ NothingLost
<1> SUFFICES ASSUME Init PROVE Wedged = {} /\ Lost = {}
  BY DEF NoWedge, NothingLost
<1>1. pending = {} /\ need = {}
  BY DEF Init
<1> QED
  BY <1>1 DEF Wedged, Lost

\* Without failures every request the API answered "queued" has a marker, or a
\* worker that starts, runs or requeues it, or an entry that brings it back.
THEOREM RequestsKept == Spec => []NothingLost
<1>1. Init => RequestInv /\ NoWedge /\ NothingLost
  BY RequestInit, QuietInit
<1>2. RequestInv /\ NoWedge /\ NothingLost /\ [Next]_vars
      => (RequestInv /\ NoWedge /\ NothingLost)'
  BY RequestStep, NoWedgeStep, NothingLostStep
<1> QED
  BY <1>1, <1>2, PTL DEF Spec
-----------------------------------------------------------------------------
(* Payloads and entries without failures                                    *)

Claimed(s) ==
  \/ HasMarker(s)
  \/ \E a \in Actors : call[a].at = "sadd" /\ CallSlot(a) = s
  \/ \E w \in Workers : step[w] = "unpended" /\ Slot(w) = s

\* A slot whose payload stays keeps its claim.
LEMMA ClaimedStep ==
  ASSUME RequestInv, NoWedge, [Next]_vars, failures' = 0, NEW s \in Slots, Claimed(s)
  PROVE  Claimed(s)' \/ \E w \in Workers : HdelLatest(w) /\ Slot(w) = s
<1>i. TypeInv /\ OneMarker /\ NoWedge'
  BY NoWedgeStep DEF RequestInv
<1>f. \A a \in Actors : ~Fails(a)
  BY <1>i, NoFailure
<1>a. /\ step \in [Workers -> Steps] /\ call \in [Actors -> Call \cup {NoCall}]
  BY <1>i DEF TypeInv, TypeOK, WorkerTypeOK
<1>1. ASSUME s \in pending'
      PROVE  Claimed(s)'
  <2>1. s \notin Wedged'
    BY <1>i DEF NoWedge
  <2>2. HasMarker(s)'
    BY <1>1, <2>1 DEF Wedged
  <2> QED
    BY <2>2 DEF Claimed
<1>2. CASE HasMarker(s) /\ s \notin pending'
  <2>1. s \in pending
    BY <1>2, <1>i DEF OneMarker
  <2>2. PICK w \in Workers : SremPending(w) /\ Slot(w) = s
    BY <1>2, <1>i, <2>1, PendingLeaves
  <2>3. step'[w] = "unpended" /\ Slot(w)' = s
    BY <1>a, <2>2 DEF SremPending, Goto, Slot
  <2> QED
    BY <2>3 DEF Claimed
<1>3. ASSUME NEW c \in Clients, call[c].at = "sadd", CallSlot(c) = s
      PROVE  Claimed(s)'
  <2>1. CASE Calling(c)
    <3>1. SaddNew(c) \/ Returns(c)
      BY <2>1 DEF Calling, Returns
    <3> QED
      BY <1>1, <1>3, <1>i, <3>1, CallLeavesPending
  <2>2. CASE ~Calling(c)
    <3>1. ~ClientAborts(c)
      BY <1>f DEF Fails
    <3>2. call[c] # NoCall
      BY <1>3, CallFacts
    <3>3. call'[c] = call[c]
      BY <1>i, <2>2, <3>1, <3>2, ClientKeeps
    <3> QED
      BY <1>3, <3>3 DEF Claimed, CallSlot
  <2> QED
    BY <2>1, <2>2
<1>4. ASSUME NEW w \in Workers, call[w].at = "sadd", CallSlot(w) = s
      PROVE  Claimed(s)'
  <2>1. ~WorkerFails(w)
    BY <1>f DEF Fails
  <2>2. CASE WorkerNext(w)
    <3>1. SaddNew(w) \/ Returns(w)
      BY <1>4, <1>i, <2>2, NextCommand DEF HsetLatest, CallAts
    <3> QED
      BY <1>1, <1>4, <1>i, <3>1, CallLeavesPending
  <2>3. CASE ~WorkerNext(w)
    <3>1. call'[w] = call[w]
      BY <1>i, <2>1, <2>3, OthersKeep DEF Kept
    <3> QED
      BY <1>4, <3>1 DEF Claimed, CallSlot
  <2> QED
    BY <2>2, <2>3
<1>5. ASSUME NEW w \in Workers, step[w] = "unpended", Slot(w) = s, ~HdelLatest(w)
      PROVE  Claimed(s)'
  <2>1. ~WorkerFails(w) /\ ~WorkerNext(w)
    BY <1>5, <1>f, <1>i, NextCommand DEF Fails
  <2>2. step'[w] = step[w] /\ marker'[w] = marker[w]
    BY <1>i, <2>1, OthersKeep DEF Kept
  <2> QED
    BY <1>5, <2>2 DEF Claimed, Slot
<1> QED
  BY <1>1, <1>2, <1>3, <1>4, <1>5 DEF Claimed

LEMMA LatestIsClaimedStep ==
  RequestInv /\ NoWedge /\ LatestIsClaimed /\ [Next]_vars => LatestIsClaimed'
<1> SUFFICES ASSUME RequestInv, NoWedge, LatestIsClaimed, [Next]_vars, failures' = 0,
                    NEW s \in Slots, latest'[s] # NoPayload
             PROVE  Claimed(s)'
  BY DEF LatestIsClaimed, Claimed
<1>i. TypeInv /\ failures = 0
  BY NoFailure DEF RequestInv
<1>a. /\ call \in [Actors -> Call \cup {NoCall}]
      /\ latest \in [Slots -> Payload \cup {NoPayload}]
  BY <1>i DEF TypeInv, TypeOK, RedisTypeOK
<1>1. ASSUME NEW c \in Clients, NEW j \in JobIds, NEW front \in Priorities,
             Enqueue(c, j, front), SlotOf[j] = s
      PROVE  Claimed(s)'
  <2>1. call'[c] = EnqueueCall("sadd", [id |-> j, attempt |-> 0], front)
    BY <1>1, <1>a DEF Enqueue
  <2>2. call'[c].at = "sadd" /\ call'[c].job.id = j
    BY <2>1 DEF EnqueueCall
  <2> QED
    BY <1>1, <2>2 DEF Claimed, CallSlot
<1>2. ASSUME NEW w \in Workers, HsetLatest(w), CallSlot(w) = s
      PROVE  Claimed(s)'
  <2>1. call[w] \in Call /\ call' = [call EXCEPT ![w] = CallNext(call[w], "sadd")]
    BY <1>2, <1>i, CallAtFacts DEF HsetLatest, CallAts
  <2>2. call'[w].at = "sadd" /\ call'[w].job = call[w].job
    BY <1>a, <2>1, CallNextFacts DEF CallAts
  <2> QED
    BY <1>2, <2>2 DEF Claimed, CallSlot
<1>3. ASSUME NEW w \in Workers, HdelLatest(w)
      PROVE  Slot(w) # s
  BY <1>3, <1>a DEF HdelLatest
<1>4. CASE latest'[s] = latest[s]
  <2>1. Claimed(s)
    BY <1>4, <1>i DEF LatestIsClaimed, Claimed
  <2> QED
    BY <1>3, <2>1, ClaimedStep
<1>5. latest'[s] = latest[s] \/ \/ \E w \in Workers : HsetLatest(w) /\ CallSlot(w) = s
                                \/ \E c \in Clients, j \in JobIds, front \in Priorities :
                                     Enqueue(c, j, front) /\ SlotOf[j] = s
  <2>1. ASSUME NEW c \in Clients, NEW j \in JobIds, NEW front \in Priorities,
               Enqueue(c, j, front)
        PROVE  latest'[s] = latest[s] \/ SlotOf[j] = s
    BY <2>1, <1>a DEF Enqueue
  <2>2. ASSUME NEW w \in Workers, HsetLatest(w)
        PROVE  latest'[s] = latest[s] \/ CallSlot(w) = s
    BY <2>2, <1>a DEF HsetLatest
  <2>3. ASSUME NEW w \in Workers, HdelLatest(w)
        PROVE  latest'[s] = latest[s]
    BY <2>3, <1>a, <1>3 DEF HdelLatest
  <2> QED
    BY <1>i, <2>1, <2>2, <2>3, Writers
<1> QED
  BY <1>1, <1>2, <1>4, <1>5

\* Without failures a payload in `latest` is never a leftover: its slot has a
\* marker, gets one, or its claimer is about to delete it.
THEOREM LatestClaimed == Spec => []LatestIsClaimed
<1>1. Init => RequestInv /\ NoWedge /\ LatestIsClaimed
  BY RequestInit, QuietInit DEF Init, LatestIsClaimed
<1>2. RequestInv /\ NoWedge /\ LatestIsClaimed /\ [Next]_vars
      => (RequestInv /\ NoWedge /\ LatestIsClaimed)'
  BY RequestStep, NoWedgeStep, LatestIsClaimedStep
<1> QED
  BY <1>1, <1>2, PTL DEF Spec

\* Without failures each entry belongs to a worker between its claim and its ack.
EntriesLive ==
  failures = 0 =>
    \A id \in JobIds : meta[id] # NoEntry =>
      \E w \in Workers : step[w] \in RunSteps \cup AckSteps /\ job[w].id = id

\* Only its ack ends what a worker does with a job, unless it fails.
LEMMA JobStays ==
  ASSUME TypeInv, [Next]_vars, NEW w \in Workers, step[w] \in RunSteps \cup AckSteps,
         ~WorkerFails(w)
  PROVE  step'[w] \in RunSteps \cup AckSteps \/ AckHdel(w)
<1>a. /\ step \in [Workers -> Steps]
  BY DEF TypeInv, TypeOK, WorkerTypeOK
<1>1. CASE ~WorkerNext(w)
  BY <1>1, OthersKeep DEF Kept
<1>2. CASE WorkerNext(w) /\ step[w] = "running"
  BY <1>2, <1>a, NextCommand DEF Complete, LockTimeout, Goto, RunSteps, AckSteps
<1>3. CASE WorkerNext(w) /\ step[w] \in AckSteps
  BY <1>3, <1>a, NextCommand DEF Acking, AckLrem, AckScan, AckLremSame, Goto, AckSteps
<1>4. CASE WorkerNext(w) /\ step[w] \in {"requeue", "retry"}
  <2>1. HsetLatest(w) \/ SaddNew(w) \/ Returns(w)
    BY <1>4, NextCommand
  <2>2. step'[w] \in {step[w], "ack"}
    BY <1>4, <1>a, <2>1 DEF HsetLatest, SaddNew, Returns, SaddCoalesced, PushMarker,
       EnqueueReturns
  <2> QED
    BY <2>2, <1>4 DEF RunSteps, AckSteps
<1> QED
  BY <1>1, <1>2, <1>3, <1>4 DEF RunSteps

LEMMA EntriesLiveStep == TypeInv /\ EntriesLive /\ [Next]_vars => EntriesLive'
<1> SUFFICES ASSUME TypeInv, EntriesLive, [Next]_vars, failures' = 0,
                    NEW id \in JobIds, meta'[id] # NoEntry
             PROVE  \E w \in Workers : step'[w] \in RunSteps \cup AckSteps /\ job'[w].id = id
  BY DEF EntriesLive
<1>f. failures = 0 /\ \A w \in Workers : ~WorkerFails(w)
  BY NoFailure DEF Fails
<1>a. /\ step \in [Workers -> Steps] /\ meta \in [JobIds -> Entry \cup {NoEntry}]
  BY DEF TypeInv, TypeOK, WorkerTypeOK, RedisTypeOK
<1>1. ASSUME NEW w \in Workers, HsetMeta(w), job[w].id = id
      PROVE  step'[w] \in RunSteps \cup AckSteps /\ job'[w].id = id
  BY <1>1, <1>a DEF HsetMeta, Goto, RunSteps
<1>2. CASE meta'[id] = meta[id]
  <2>1. PICK w \in Workers : step[w] \in RunSteps \cup AckSteps /\ job[w].id = id
    BY <1>2, <1>f DEF EntriesLive
  <2>2. ~AckHdel(w)
    BY <2>1, <1>a DEF AckHdel
  <2>3. step'[w] \in RunSteps \cup AckSteps
    BY <1>f, <2>1, <2>2, JobStays
  <2> QED
    BY <2>1, <2>3, JobStep
<1>3. meta'[id] = meta[id] \/ \E w \in Workers : HsetMeta(w) /\ job[w].id = id
  BY <1>a, Writers DEF HsetMeta, RecoverHdel, AckHdel
<1> QED
  BY <1>1, <1>2, <1>3

\* Without failures, once every call has returned and every worker is back in
\* its loop, `processing_meta`, `pending` and `latest` are empty.
THEOREM QueueDrains == Spec => []EntriesDrained
<1>1. Init => RequestInv /\ NoWedge /\ LatestIsClaimed /\ EntriesLive
  BY RequestInit, QuietInit DEF Init, LatestIsClaimed, EntriesLive
<1>2. RequestInv /\ NoWedge /\ LatestIsClaimed /\ EntriesLive /\ [Next]_vars
      => (RequestInv /\ NoWedge /\ LatestIsClaimed /\ EntriesLive)'
  BY RequestStep, NoWedgeStep, LatestIsClaimedStep, EntriesLiveStep DEF RequestInv
<1>3. RequestInv /\ NoWedge /\ LatestIsClaimed /\ EntriesLive => EntriesDrained
  <2> SUFFICES ASSUME RequestInv, NoWedge, LatestIsClaimed, EntriesLive, failures = 0, Idle
               PROVE  MetaEntries = {} /\ pending = {} /\ \A s \in Slots : latest[s] = NoPayload
    BY DEF EntriesDrained
  <2>1. \A s \in Slots : ~HasMarker(s)
    BY CallFacts DEF Idle, HasMarker, Queued, Carries, HoldSteps
  <2>2. pending \subseteq Slots
    BY DEF RequestInv, TypeInv, TypeOK, RedisTypeOK
  <2>3. pending = {}
    BY <2>1, <2>2 DEF NoWedge, Wedged
  <2>4. ASSUME NEW s \in Slots PROVE latest[s] = NoPayload
    BY <2>1, CallFacts DEF LatestIsClaimed, Idle
  <2>5. \A id \in JobIds : meta[id] = NoEntry
    BY DEF EntriesLive, Idle, RunSteps, AckSteps
  <2>6. MetaEntries = {}
    BY <2>5 DEF MetaEntries
  <2> QED
    BY <2>3, <2>4, <2>6
<1> QED
  BY <1>1, <1>2, <1>3, PTL DEF Spec
=============================================================================
