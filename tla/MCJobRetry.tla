---------------------------- MODULE MCJobRetry ----------------------------
(* The retries of a sync request: JobQueue with the number of automatic    *)
(* retries behind each job id.  A retry draws a new id and passes its      *)
(* budget on in the payload's attempt; the count kept here is of the       *)
(* retries made, whatever the payload says.                                *)
EXTENDS JobQueue, TLC

CONSTANTS w1, w2, c1, sync, j1, j2, j3

OneSlot == j1 :> sync @@ j2 :> sync @@ j3 :> sync

Sym == Permutations(Workers) \cup Permutations(JobIds)

VARIABLE retries   \* HISTORY: retries[j]: automatic retries that led to id j

\* The only failure of interest: a requeue after a lock timeout raises, and the
\* generic handler of run_worker retries.
Retries(w) ==
  /\ RequeueRaises(w)
  /\ retries' = [j \in JobIds |-> IF j \in issued' \ issued
                                  THEN retries[job[w].id] + 1 ELSE retries[j]]

RetryInit == Init /\ retries = [j \in JobIds |-> 0]

RetryNext ==
  \/ \E c \in Clients :
       /\ \/ \E j \in JobIds, front \in Priorities : Enqueue(c, j, front)
          \/ Calling(c)
       /\ UNCHANGED retries
  \/ \E w \in Workers : Retries(w) \/ (WorkerNext(w) /\ UNCHANGED retries)

RetrySpec == RetryInit /\ [][RetryNext]_<<vars, retries>>

\* "Sync jobs still only auto-retry once on unhandled exceptions" (SETUP.txt): no
\* id stands at the end of two automatic retries.  The budget is in the payload
\* (should_requeue, mark_requeue); the claim of another worker deletes what the
\* slot has in `latest`, and the retry's marker, which has no attempt, is run.
RetriedOnce == \A j \in JobIds : retries[j] <= 1
=============================================================================
