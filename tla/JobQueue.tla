------------------------------ MODULE JobQueue ------------------------------
(***************************************************************************)
(* The job queue of the bridge (jobqueue/redis_queue.py) and the worker    *)
(* loop that drains it (workers/run_worker.py), one action per Redis       *)
(* command, so that the API's calls and the workers' interleave between    *)
(* any two commands and any of them can die there.                         *)
(*                                                                         *)
(* Redis keys: the list of markers `queue`, the set `pending` of slots,    *)
(* the hash `latest` (slot -> newest payload), the list `processing` of    *)
(* claimed markers and the hash `processing_meta` (job id -> what was      *)
(* claimed).  A slot is a coalesce id "<account>:<job type>".              *)
(***************************************************************************)
EXTENDS Integers, Sequences, FiniteSets, SequencesExt

CONSTANTS
  Clients,          \* API request threads
  Workers,          \* worker processes
  Slots,            \* coalesce ids
  VerifySlots,      \* those of job type "verify"; the others are "sync"
  JobIds,           \* the ids new_job_id can draw (BOUND: finitely many)
  SlotOf,           \* the slot each id is drawn for
  NoJob,            \* no job id
  MaxFailures,      \* BOUND: crashes and failed Redis commands
  MaxLockTimeouts,  \* BOUND: terminal-lock waits that time out
  Priorities,       \* values of `priority == "front"` the API passes for a sync
  RunsOutliveStale  \* may a live run last longer than processing_stale_seconds?

ASSUME ActorsAssumption == Clients \cap Workers = {}
ASSUME SlotsAssumption == VerifySlots \subseteq Slots /\ SlotOf \in [JobIds -> Slots]
ASSUME NoJobAssumption == NoJob \notin JobIds /\ NoJob \notin Slots
ASSUME BoundsAssumption == /\ MaxFailures \in Nat
                           /\ MaxLockTimeouts \in Nat
                           /\ RunsOutliveStale \in BOOLEAN
                           /\ Priorities \subseteq BOOLEAN

VARIABLES
  queue,        \* LIST: markers, each named by the job id it was pushed for
  pending,      \* SET: slots that have a marker on its way
  latest,       \* HASH: slot -> newest payload
  processing,   \* LIST: markers of claimed jobs
  meta,         \* HASH processing_meta: job id -> [marker, job]
  issued,       \* job ids drawn so far
  call,         \* call[a]: the enqueue_job call actor a is executing
  step,         \* step[w]: the next command of worker w
  marker, job,  \* worker w's marker and resolved payload
  todo,         \* entries that recover_stale_processing has still to requeue
  after,        \* step that follows the ack or the recovery under way
  failures, lockTimeouts,   \* counters for the bounds
  need,         \* HISTORY: slots whose accepted request no finished run served
  fresh         \* HISTORY: did w's run start after the last request for its slot?

redis   == <<queue, pending, latest, processing, meta>>
history == <<need, fresh>>
bounds  == <<failures, lockTimeouts>>
vars == <<queue, pending, latest, processing, meta, issued, call, step, marker,
          job, todo, after, failures, lockTimeouts, need, fresh>>
-----------------------------------------------------------------------------
Actors    == Clients \cup Workers
Payload   == [id : JobIds, attempt : 0..1]
NoPayload == [id |-> NoJob, attempt |-> 0]
Entry     == [marker : JobIds, job : Payload]
NoEntry   == [marker |-> NoJob, job |-> NoPayload]
NoCall    == [at |-> "none", job |-> NoPayload, front |-> FALSE]
Call      == [at : {"hset", "sadd", "push"}, job : Payload, front : BOOLEAN]

\* An enqueue_job call about to execute command `at`; verify jobs always jump
\* the queue.
EnqueueCall(at, p, front) ==
  [at |-> at, job |-> p, front |-> (SlotOf[p.id] \in VerifySlots \/ front)]

CallNext(c, at) == [at |-> at, job |-> c.job, front |-> c.front]

AckSteps   == {"ack", "ack_scan", "ack_lrem", "ack_meta"}
ClaimSteps == {"claim", "popped", "listed", "read", "unpended", "dropped"}
HoldSteps  == {"popped", "listed", "read"}      \* marker taken, slot still pending
RunSteps   == {"running", "requeue", "retry"}   \* the job, until its ack
OwnSteps   == {"read", "unpended", "dropped"} \cup RunSteps \cup AckSteps
Steps      == {"down", "boot", "loop", "rec_next", "rec_hdel", "rec_enq"}
              \cup ClaimSteps \cup RunSteps \cup AckSteps

RedisTypeOK ==
  /\ queue \in Seq(JobIds) /\ processing \in Seq(JobIds)
  /\ pending \in SUBSET Slots
  /\ latest \in [Slots -> Payload \cup {NoPayload}]
  /\ meta \in [JobIds -> Entry \cup {NoEntry}]

WorkerTypeOK ==
  /\ step \in [Workers -> Steps]
  /\ marker \in [Workers -> JobIds \cup {NoJob}]
  /\ job \in [Workers -> Payload \cup {NoPayload}]
  /\ todo \in [Workers -> SUBSET Entry]
  /\ after \in [Workers -> {"loop", "claim", "down"}]
  /\ \A w \in Workers :
       /\ step[w] \in HoldSteps \cup OwnSteps => marker[w] \in JobIds
       /\ step[w] \in OwnSteps \cup {"rec_hdel"} => job[w] \in Payload

TypeOK ==
  /\ RedisTypeOK /\ WorkerTypeOK
  /\ call \in [Actors -> Call \cup {NoCall}]
  /\ issued \in SUBSET JobIds /\ need \in SUBSET Slots
  /\ fresh \in [Workers -> BOOLEAN]
  /\ failures \in 0..MaxFailures /\ lockTimeouts \in 0..MaxLockTimeouts

Init ==
  /\ queue = <<>> /\ processing = <<>> /\ pending = {} /\ need = {} /\ issued = {}
  /\ latest = [s \in Slots |-> NoPayload] /\ meta = [j \in JobIds |-> NoEntry]
  /\ call = [a \in Actors |-> NoCall]
  /\ step = [w \in Workers |-> "boot"]
  /\ marker = [w \in Workers |-> NoJob] /\ job = [w \in Workers |-> NoPayload]
  /\ todo = [w \in Workers |-> {}] /\ after = [w \in Workers |-> "loop"]
  /\ failures = 0 /\ lockTimeouts = 0
  /\ fresh = [w \in Workers |-> FALSE]
-----------------------------------------------------------------------------
\* LREM processing 1 <m>, for a marker m of the set: the first match goes.
LremProcessing(markers) ==
  \/ \E i \in 1..Len(processing) :
       /\ processing[i] \in markers
       /\ \A k \in 1..(i - 1) : processing[k] \notin markers
       /\ processing' = RemoveAt(processing, i)
  \/ /\ \A i \in 1..Len(processing) : processing[i] \notin markers
     /\ UNCHANGED processing

Goto(w, s) == step' = [step EXCEPT ![w] = s]

\* The loop turns: the variables of the job or entry just handled are dead.
Forget(w) == /\ marker' = [marker EXCEPT ![w] = NoJob]
             /\ job' = [job EXCEPT ![w] = NoPayload]
             /\ fresh' = [fresh EXCEPT ![w] = FALSE]

\* Live jobs: a worker is between its claim and its ack.
LiveEntry(e) == \E w \in Workers : step[w] \in RunSteps \cup AckSteps /\ job[w] = e.job
MetaEntries == {meta[j] : j \in JobIds} \ {NoEntry}
-----------------------------------------------------------------------------
(* enqueue_job, run by the API and by workers that requeue.  The secret    *)
(* keys are left out: no caller passes a password any more.                *)

\* POST /jobs/sync and /jobs/verify draw an id and write the payload.
Enqueue(c, j, front) ==
  /\ call[c] = NoCall /\ j \notin issued
  /\ issued' = issued \cup {j}
  /\ latest' = [latest EXCEPT ![SlotOf[j]] = [id |-> j, attempt |-> 0]]
  /\ call' = [call EXCEPT ![c] = EnqueueCall("sadd", [id |-> j, attempt |-> 0], front)]
  /\ UNCHANGED <<queue, pending, processing, meta, step, marker, job, todo, after,
                 bounds, history>>

CallSlot(a) == SlotOf[call[a].job.id]

\* A worker's call, made for a requeue, a retry or a recovery.
HsetLatest(w) ==
  /\ call[w].at = "hset"
  /\ latest' = [latest EXCEPT ![CallSlot(w)] = call[w].job]
  /\ call' = [call EXCEPT ![w] = CallNext(@, "sadd")]
  /\ UNCHANGED <<queue, pending, processing, meta, issued, step, marker, job,
                 todo, after, bounds, history>>

\* The next entry of a recovery, or what follows it.
NextEntry(w) == IF todo[w] = {} THEN after[w] ELSE "rec_next"

\* The call returns: the API has answered "queued", a worker goes on.
EnqueueReturns(a) ==
  /\ call' = [call EXCEPT ![a] = NoCall]
  /\ step' = [w \in Workers |-> IF w # a THEN step[w]
                                ELSE IF step[w] = "rec_enq" THEN NextEntry(w) ELSE "ack"]
  /\ IF a \in Clients
     THEN /\ need' = need \cup {CallSlot(a)}
          /\ fresh' = [w \in Workers |-> fresh[w] /\ (marker[w] \in JobIds
                                                      => SlotOf[marker[w]] # CallSlot(a))]
     ELSE UNCHANGED history
  /\ UNCHANGED <<latest, processing, meta, issued, marker, job, todo, after, bounds>>

AlwaysAdded(a) == TRUE   \* mutant: the answer of SADD is ignored

\* SADD pending answers 1 for a slot that had no marker on its way, else 0.
Added(a) == CallSlot(a) \notin pending

SaddNew(a) ==
  /\ call[a].at = "sadd" /\ Added(a)
  /\ pending' = pending \cup {CallSlot(a)}
  /\ call' = [call EXCEPT ![a] = CallNext(@, "push")]
  /\ UNCHANGED <<queue, latest, processing, meta, issued, step, marker, job,
                 todo, after, bounds, history>>

SaddCoalesced(a) ==
  /\ call[a].at = "sadd" /\ ~Added(a)
  /\ EnqueueReturns(a)
  /\ UNCHANGED <<queue, pending>>

PushMarker(a) ==
  /\ call[a].at = "push"
  /\ queue' = IF call[a].front THEN <<call[a].job.id>> \o queue
                               ELSE Append(queue, call[a].job.id)
  /\ EnqueueReturns(a)
  /\ UNCHANGED pending
-----------------------------------------------------------------------------
(* recover_stale_processing: at start with max_age 0, which takes every    *)
(* entry, and every 30 s with processing_stale_seconds.                    *)

RecoverNothing(w, entries, next) ==   \* mutant: entries are never requeued
  /\ after' = [after EXCEPT ![w] = next]
  /\ Goto(w, next)
  /\ UNCHANGED <<redis, issued, call, marker, job, todo, bounds, history>>

Recover(w, entries, next) ==
  /\ todo' = [todo EXCEPT ![w] = entries]
  /\ after' = [after EXCEPT ![w] = next]
  /\ Goto(w, IF entries = {} THEN next ELSE "rec_next")
  /\ UNCHANGED <<redis, issued, call, marker, job, bounds, history>>

BootRecover(w) ==
  /\ step[w] = "boot"
  /\ Recover(w, MetaEntries, "loop")

\* The entries older than processing_stale_seconds; none when not due.
StaleRecover(w) ==
  /\ step[w] = "loop"
  /\ \E stale \in SUBSET {e \in MetaEntries : LiveEntry(e) => RunsOutliveStale} :
       Recover(w, stale, "claim")

\* The next entry: its marker leaves the processing list.
RecoverLrem(w) ==
  /\ step[w] = "rec_next"
  /\ \E e \in todo[w] :
       /\ todo' = [todo EXCEPT ![w] = @ \ {e}]
       /\ job' = [job EXCEPT ![w] = e.job]
       /\ LremProcessing({e.marker})
  /\ Goto(w, "rec_hdel")
  /\ UNCHANGED <<queue, pending, latest, meta, issued, call, marker, after, bounds,
                 history>>

RecoverForgets(w) ==   \* mutant: the entry is dropped but not enqueued
  /\ step[w] = "rec_hdel"
  /\ meta' = [meta EXCEPT ![job[w].id] = NoEntry]
  /\ Goto(w, NextEntry(w))
  /\ UNCHANGED <<queue, pending, latest, processing, issued, call, marker, job, todo,
                 after, bounds, history>>

RecoverHdel(w) ==
  /\ step[w] = "rec_hdel"
  /\ meta' = [meta EXCEPT ![job[w].id] = NoEntry]
  /\ call' = [call EXCEPT ![w] = EnqueueCall("hset", job[w], FALSE)]
  /\ Goto(w, "rec_enq")
  /\ UNCHANGED <<queue, pending, latest, processing, issued, marker, job, todo,
                 after, bounds, history>>
-----------------------------------------------------------------------------
(* claim_job *)

BlPop(w) ==
  /\ step[w] = "claim" /\ queue # <<>>
  /\ marker' = [marker EXCEPT ![w] = Head(queue)]
  /\ queue' = Tail(queue)
  /\ Goto(w, "popped")
  /\ UNCHANGED <<pending, latest, processing, meta, issued, call, job, todo, after,
                 bounds, history>>

BlPopTimeout(w) ==
  /\ step[w] = "claim" /\ queue = <<>>
  /\ Goto(w, "loop")
  /\ UNCHANGED <<redis, issued, call, marker, job, todo, after, bounds, history>>

RpushProcessing(w) ==
  /\ step[w] = "popped"
  /\ processing' = Append(processing, marker[w])
  /\ Goto(w, "listed")
  /\ UNCHANGED <<queue, pending, latest, meta, issued, call, marker, job, todo,
                 after, bounds, history>>

Slot(w) == SlotOf[marker[w]]

MarkerOnly(w) == [id |-> marker[w], attempt |-> 0]   \* mutant: `latest` ignored
LatestOnly(w) == latest[Slot(w)]   \* mutant: no fallback to the marker

\* The newest payload of the slot, or the marker itself (it has no attempt).
ResolvedPayload(w) == IF latest[Slot(w)] # NoPayload
                      THEN latest[Slot(w)] ELSE [id |-> marker[w], attempt |-> 0]

HgetLatest(w) ==
  /\ step[w] = "listed"
  /\ job' = [job EXCEPT ![w] = ResolvedPayload(w)]
  /\ Goto(w, "read")
  /\ UNCHANGED <<redis, issued, call, marker, todo, after, bounds, history>>

SremForgotten(w) ==   \* mutant: the slot stays pending
  /\ step[w] = "read"
  /\ Goto(w, "unpended")
  /\ UNCHANGED <<redis, issued, call, marker, job, todo, after, bounds, history>>

SremPending(w) ==
  /\ step[w] = "read"
  /\ pending' = pending \ {Slot(w)}
  /\ Goto(w, "unpended")
  /\ UNCHANGED <<queue, latest, processing, meta, issued, call, marker, job, todo,
                 after, bounds, history>>

HdelForgotten(w) ==   \* mutant: the payload stays in `latest`
  /\ step[w] = "unpended"
  /\ Goto(w, "dropped")
  /\ UNCHANGED <<redis, issued, call, marker, job, todo, after, bounds, history>>

HdelLatest(w) ==
  /\ step[w] = "unpended"
  /\ latest' = [latest EXCEPT ![Slot(w)] = NoPayload]
  /\ Goto(w, "dropped")
  /\ UNCHANGED <<queue, pending, processing, meta, issued, call, marker, job, todo,
                 after, bounds, history>>

\* The claim is recorded and the job starts.
HsetMeta(w) ==
  /\ step[w] = "dropped"
  /\ meta' = [meta EXCEPT ![job[w].id] = [marker |-> marker[w], job |-> job[w]]]
  /\ fresh' = [fresh EXCEPT ![w] = TRUE]
  /\ Goto(w, "running")
  /\ UNCHANGED <<queue, pending, latest, processing, issued, call, marker, job, todo,
                 after, bounds, need>>
-----------------------------------------------------------------------------
(* The job, from its claim to the `finally` that acks it *)

\* The request is answered: done, failed, or credentials refused.
Complete(w) ==
  /\ step[w] = "running"
  /\ need' = IF fresh[w] THEN need \ {Slot(w)} ELSE need
  /\ after' = [after EXCEPT ![w] = "loop"]
  /\ Goto(w, "ack")
  /\ UNCHANGED <<redis, issued, call, marker, job, todo, bounds, fresh>>

LockTimeoutDropped(w) ==   \* mutant: acked without the requeue
  /\ step[w] = "running" /\ Slot(w) \notin VerifySlots
  /\ lockTimeouts < MaxLockTimeouts
  /\ lockTimeouts' = lockTimeouts + 1
  /\ after' = [after EXCEPT ![w] = "loop"]
  /\ Goto(w, "ack")
  /\ UNCHANGED <<redis, issued, call, marker, job, todo, failures, history>>

\* mt5_lock_timeout of a sync: the same job is enqueued again, then acked.
LockTimeout(w) ==
  /\ step[w] = "running" /\ Slot(w) \notin VerifySlots
  /\ lockTimeouts < MaxLockTimeouts
  /\ lockTimeouts' = lockTimeouts + 1
  /\ call' = [call EXCEPT ![w] = EnqueueCall("hset", job[w], FALSE)]
  /\ after' = [after EXCEPT ![w] = "loop"]
  /\ Goto(w, "requeue")
  /\ UNCHANGED <<redis, issued, marker, job, todo, failures, history>>

\* ack_job: LREM of the marker that carries the job's own id ...
AckLrem(w) ==
  /\ step[w] = "ack"
  /\ LremProcessing({job[w].id})
  /\ Goto(w, IF processing' = processing THEN "ack_scan" ELSE "ack_meta")
  /\ UNCHANGED <<queue, pending, latest, meta, issued, call, marker, job, todo,
                 after, bounds, history>>

\* ... or else, as coalescing changes ids, the first of the same slot, ...
AckScan(w) ==
  /\ step[w] = "ack_scan"
  /\ LET same == {i \in 1..Len(processing) : SlotOf[processing[i]] = Slot(w)}
     IN \/ \E i \in same : /\ \A k \in same : i <= k
                           /\ marker' = [marker EXCEPT ![w] = processing[i]]
                           /\ Goto(w, "ack_lrem")
        \/ same = {} /\ Goto(w, "ack_meta") /\ UNCHANGED marker
  /\ UNCHANGED <<redis, issued, call, job, todo, after, bounds, history>>

AckLremSame(w) ==
  /\ step[w] = "ack_lrem"
  /\ LremProcessing({marker[w]})
  /\ Goto(w, "ack_meta")
  /\ UNCHANGED <<queue, pending, latest, meta, issued, call, marker, job, todo,
                 after, bounds, history>>

AckHdelMarker(w) ==   \* mutant: the entry is sought under the marker's id
  /\ step[w] = "ack_meta"
  /\ meta' = [meta EXCEPT ![marker[w]] = NoEntry]
  /\ Goto(w, after[w]) /\ Forget(w)
  /\ UNCHANGED <<queue, pending, latest, processing, issued, call, todo, after,
                 bounds, need>>

\* ... and HDEL of the job's entry, whoever wrote it.
AckHdel(w) ==
  /\ step[w] = "ack_meta"
  /\ meta' = [meta EXCEPT ![job[w].id] = NoEntry]
  /\ Goto(w, after[w]) /\ Forget(w)
  /\ UNCHANGED <<queue, pending, latest, processing, issued, call, todo, after,
                 bounds, need>>
-----------------------------------------------------------------------------
(* Failures: a worker dies, or one of its Redis commands raises.  A        *)
(* command that raises has had no effect.                                  *)

Fail == failures < MaxFailures /\ failures' = failures + 1

\* The worker process dies; the terminal, the lock and Redis keep their state.
Crash(w) ==
  /\ step[w] # "down" /\ Fail
  /\ Goto(w, "down")
  /\ call' = [call EXCEPT ![w] = NoCall]
  /\ todo' = [todo EXCEPT ![w] = {}]
  /\ Forget(w)
  /\ UNCHANGED <<redis, issued, after, lockTimeouts, need>>

\* The supervisor starts a worker again.
Restart(w) ==
  /\ step[w] = "down"
  /\ Goto(w, "boot")
  /\ UNCHANGED <<redis, issued, call, marker, job, todo, after, bounds, history>>

\* claim_job raises: logged, one second of sleep, and the loop goes on.
ClaimRaises(w) ==
  /\ step[w] \in ClaimSteps /\ Fail
  /\ Goto(w, "loop") /\ Forget(w)
  /\ UNCHANGED <<redis, issued, call, todo, after, lockTimeouts, need>>

\* HGETALL raises: nothing is recovered.
RecoverReadRaises(w) ==
  /\ step[w] \in {"boot", "loop"} /\ Fail
  /\ Goto(w, IF step[w] = "boot" THEN "loop" ELSE "claim")
  /\ UNCHANGED <<redis, issued, call, marker, job, todo, after, lockTimeouts, history>>

\* LREM or HDEL raises: swallowed, and the job is enqueued all the same.
RecoverDropRaises(w) ==
  /\ Fail
  /\ \/ /\ step[w] = "rec_next"
        /\ \E e \in todo[w] :
             /\ todo' = [todo EXCEPT ![w] = @ \ {e}]
             /\ job' = [job EXCEPT ![w] = e.job]
             /\ call' = [call EXCEPT ![w] = EnqueueCall("hset", e.job, FALSE)]
     \/ /\ step[w] = "rec_hdel"
        /\ call' = [call EXCEPT ![w] = EnqueueCall("hset", job[w], FALSE)]
        /\ UNCHANGED <<todo, job>>
  /\ Goto(w, "rec_enq")
  /\ UNCHANGED <<redis, issued, marker, after, lockTimeouts, history>>

\* enqueue_job raises inside the recovery: the rest of it is abandoned.
RecoverEnqueueRaises(w) ==
  /\ step[w] = "rec_enq" /\ Fail
  /\ call' = [call EXCEPT ![w] = NoCall]
  /\ todo' = [todo EXCEPT ![w] = {}]
  /\ Goto(w, after[w]) /\ Forget(w)
  /\ UNCHANGED <<redis, issued, after, lockTimeouts, need>>

ShouldRequeue(p) == p.attempt < 1

\* The requeue after a lock timeout raises: the one place where the generic
\* handler runs.  It retries once, under a new id, or gives the request up.
RequeueRaises(w) ==
  /\ step[w] = "requeue" /\ Fail
  /\ \/ /\ ShouldRequeue(job[w])
        /\ \E j \in JobIds \ issued :
             /\ SlotOf[j] = Slot(w)
             /\ issued' = issued \cup {j}
             /\ call' = [call EXCEPT ![w] =
                           EnqueueCall("hset", [id |-> j, attempt |-> job[w].attempt + 1], FALSE)]
        /\ Goto(w, "retry")
        /\ UNCHANGED need
     \/ /\ ~ShouldRequeue(job[w])
        /\ call' = [call EXCEPT ![w] = NoCall]
        /\ Goto(w, "ack")
        /\ need' = IF fresh[w] THEN need \ {Slot(w)} ELSE need
        /\ UNCHANGED issued
  /\ UNCHANGED <<redis, marker, job, todo, after, lockTimeouts, fresh>>

\* The retry raises too: `finally` acks and the exception ends the process.
RetryRaises(w) ==
  /\ step[w] = "retry" /\ Fail
  /\ call' = [call EXCEPT ![w] = NoCall]
  /\ after' = [after EXCEPT ![w] = "down"]
  /\ Goto(w, "ack")
  /\ UNCHANGED <<redis, issued, marker, job, todo, lockTimeouts, history>>

\* ack_job swallows the error and leaves the rest undone.
AckRaises(w) ==
  /\ step[w] \in AckSteps /\ Fail
  /\ Goto(w, after[w]) /\ Forget(w)
  /\ UNCHANGED <<redis, issued, call, todo, after, lockTimeouts, need>>

\* The API thread dies or its command raises: the caller gets no answer.
ClientAborts(c) ==
  /\ call[c] # NoCall /\ Fail
  /\ call' = [call EXCEPT ![c] = NoCall]
  /\ UNCHANGED <<redis, issued, step, marker, job, todo, after, lockTimeouts, history>>
-----------------------------------------------------------------------------
Calling(a) == SaddNew(a) \/ SaddCoalesced(a) \/ PushMarker(a)

Recovering(w) == \/ BootRecover(w) \/ StaleRecover(w) \/ RecoverLrem(w)
                 \/ RecoverHdel(w)
Claiming(w) == \/ BlPop(w) \/ BlPopTimeout(w) \/ RpushProcessing(w) \/ HgetLatest(w)
               \/ SremPending(w) \/ HdelLatest(w) \/ HsetMeta(w)
Running(w) == Complete(w) \/ LockTimeout(w)
Acking(w)  == AckLrem(w) \/ AckScan(w) \/ AckLremSame(w) \/ AckHdel(w)
WorkerNext(w) == \/ Calling(w) \/ HsetLatest(w) \/ Recovering(w) \/ Claiming(w) \/ Running(w)
                 \/ Acking(w) \/ Restart(w)
WorkerFails(w) == \/ Crash(w) \/ ClaimRaises(w) \/ RecoverReadRaises(w)
                  \/ RecoverDropRaises(w) \/ RecoverEnqueueRaises(w)
                  \/ RequeueRaises(w) \/ RetryRaises(w) \/ AckRaises(w)

Next == \/ \E c \in Clients : \/ \E j \in JobIds, front \in Priorities : Enqueue(c, j, front)
                              \/ Calling(c) \/ ClientAborts(c)
        \/ \E w \in Workers : WorkerNext(w) \/ WorkerFails(w)

Spec == Init /\ [][Next]_vars

\* A recovery that finds every entry of a dead worker old enough.
RecoverDead(w) == /\ StaleRecover(w)
                  /\ \A e \in MetaEntries : LiveEntry(e) \/ e \in todo'[w]

\* A process that can execute its next command does so: threads and processes
\* are scheduled, BLPOP times out, a job ends or times out.  And as the loop
\* repeats its recovery every 30 s, an entry of a dead worker gets old enough.
Fairness == /\ \A c \in Clients : WF_vars(Calling(c))
            /\ \A w \in Workers : WF_vars(WorkerNext(w)) /\ SF_vars(RecoverDead(w))
FairSpec == Spec /\ Fairness
-----------------------------------------------------------------------------
(* Safety of the markers *)

Queued(s) == \E i \in 1..Len(queue) : SlotOf[queue[i]] = s

\* Actor a carries the marker of s: about to push it, or popped it and has not
\* removed s from `pending` yet.
Carries(a, s) ==
  \/ call[a].at = "push" /\ CallSlot(a) = s
  \/ a \in Workers /\ step[a] \in HoldSteps /\ Slot(a) = s

HasMarker(s) == Queued(s) \/ \E a \in Actors : Carries(a, s)

\* A pending slot without a marker: enqueue_job adds none, so no worker will
\* ever pop one and the account is stuck.
Wedged == {s \in pending : ~HasMarker(s)}

\* Coalescing: however API threads, workers and recoveries interleave, there is
\* at most one marker per slot, queued or in someone's hands, and only while
\* the slot is in `pending` (enqueue_job's SADD guard against claim_job's SREM).
OneMarker ==
  \A s \in Slots :
    /\ HasMarker(s) => s \in pending
    /\ \A i, k \in 1..Len(queue) :
         SlotOf[queue[i]] = s /\ SlotOf[queue[k]] = s => i = k
    /\ \A a \in Actors : Carries(a, s) => ~Queued(s)
    /\ \A a, b \in Actors : Carries(a, s) /\ Carries(b, s) => a = b

\* Interleaving alone never wedges a slot; it takes a crash or a failed command.
OnlyFailuresWedge == [][failures' = failures => Wedged' \subseteq Wedged]_vars

\* And nothing in the queue's code gets a wedged slot going again, neither new
\* requests nor retries nor the recovery of stale entries.
WedgeIsForever == [][Wedged \subseteq Wedged']_vars

\* A payload left in `latest` will be read: its slot has a marker, or is about
\* to get one, or its claimer is about to drop it (claim_job's HDEL).
LatestIsClaimed ==
  failures = 0 =>
    \A s \in Slots : latest[s] # NoPayload =>
      \/ HasMarker(s)
      \/ \E a \in Actors : call[a].at = "sadd" /\ CallSlot(a) = s
      \/ \E w \in Workers : step[w] = "unpended" /\ Slot(w) = s
-----------------------------------------------------------------------------
(* Safety of the requests *)

\* The entry of id would be there for a recovery, were it not for the workers
\* `but`: no other worker is on its way to an ack that deletes it.
Recoverable(id, but) ==
  /\ meta[id] # NoEntry
  /\ \A w \in Workers \ but : step[w] \in RunSteps \cup AckSteps => job[w].id # id

Starting(w, s) == step[w] \in {"unpended", "dropped"} /\ Slot(w) = s
Serving(w, s)  == step[w] = "running" /\ Slot(w) = s /\ fresh[w]

\* Worker w is going to enqueue a job for s again.
Requeuing(w, s) ==
  \/ call[w].at \in {"hset", "sadd"} /\ CallSlot(w) = s
  \/ step[w] = "rec_hdel" /\ SlotOf[job[w].id] = s
  \/ \E e \in todo[w] : SlotOf[e.job.id] = s

\* Something in the system will lead to a run that serves s.
Accounted(s) ==
  \/ HasMarker(s)
  \/ \E w \in Workers : Starting(w, s) \/ Serving(w, s)
  \/ /\ s \notin pending
     /\ \/ \E w \in Workers : Requeuing(w, s)
        \/ \E id \in JobIds : SlotOf[id] = s /\ Recoverable(id, {})

Lost == {s \in need : ~Accounted(s)}

\* A failure of a here loses the request for s, recovery or not: a carries its
\* only marker, or a claim or requeue of it that no entry backs up.
Fragile(a, s) ==
  \/ Carries(a, s)
  \/ /\ a \in Workers
     /\ \/ Starting(a, s) \/ Requeuing(a, s)
        \/ Serving(a, s) /\ ~Recoverable(job[a].id, {a})

Fails(a) == \/ a \in Clients /\ ClientAborts(a)
            \/ a \in Workers /\ WorkerFails(a)

\* A request the API accepted is lost only where an actor fails in one of those
\* windows of its own, or if its slot is wedged already: a crash of a worker that
\* drives the terminal loses nothing as long as its entry is intact.
LossNeedsFragileFailure ==
  [][\A s \in Lost' \ Lost :
       \/ s \in Wedged
       \/ \E a \in Actors : Fails(a) /\ Fragile(a, s)]_vars

\* Without failures no accepted request is lost, whatever the lock timeouts and
\* the recoveries of entries whose worker is alive.
NothingLost == failures = 0 => Lost = {}

Idle == /\ queue = <<>>
        /\ \A a \in Actors : call[a] = NoCall
        /\ \A w \in Workers : step[w] \in {"loop", "claim"}

\* Once everything is acked, without failures, the hashes hold no leftover that
\* a later recovery or claim would revive, though workers ack and recover each
\* other's entries.
EntriesDrained ==
  failures = 0 /\ Idle =>
    MetaEntries = {} /\ pending = {} /\ \A s \in Slots : latest[s] = NoPayload

\* Every accepted request is served by a run that started after it, unless it
\* was lost: crashes, retries, requeues and recoveries end in a run.  (With no
\* failures nothing is lost, by NothingLost.)
ServedOrLost == \A s \in Slots : s \in need ~> (s \notin need \/ s \in Lost)
-----------------------------------------------------------------------------
(* The queue implements CoalescingQueue: a slot is owed while it is in     *)
(* `pending`, and a worker works on it from its SREM to the end of its run *)

WorkSteps == {"unpended", "dropped", "running"}
Working == [w \in Workers |-> IF step[w] \in WorkSteps THEN Slot(w) ELSE NoJob]

Abstract == INSTANCE CoalescingQueue WITH NoSlot <- NoJob, owed <- pending,
                                          working <- Working

\* No run without a request of its own: each SREM of a claim takes a slot that
\* some enqueue_job put there, so recoveries and retries never multiply runs
\* beyond what was enqueued.
RefinesCoalescingQueue == Abstract!Spec
-----------------------------------------------------------------------------
(* What the source says of the queue and the code does not do (see         *)
(* README.md, "Findings")                                                  *)

\* claim_job: "Claim the next job into a processing list (crash-recoverable)".
ClaimIsCrashRecoverable ==
  [][\A w \in Workers : step[w] \in ClaimSteps /\ step'[w] = "down"
                        => Lost' \subseteq Lost]_vars

\* recover_stale_processing: "Re-queue jobs stuck in processing (worker crash)".
RecoversOnlyCrashed ==
  [][\A w \in Workers : \A e \in todo'[w] \ todo[w] : ~LiveEntry(e)]_vars

\* enqueue_job on a pending slot replaces the payload, and the claim gets the
\* newest one: a claim deletes no payload but the one it has read.
NewestPayloadClaimed ==
  [][\A w \in Workers : step[w] = "unpended" /\ step'[w] = "dropped"
                        => latest[Slot(w)] \in {NoPayload, job[w]}]_vars
=============================================================================
