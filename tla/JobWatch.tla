------------------------------ MODULE JobWatch ------------------------------
(***************************************************************************)
(* What watches jobs from outside: the counters of plugins/Metrics.ts, told*)
(* by the hooks of the queue and by onFailure, and the promises of         *)
(* job/JobBatch.ts, told by a caller that forwards COMPLETED and FAILED.   *)
(* Jobs run concurrently; a plugin behind Metrics may refuse or discard a  *)
(* job that Metrics has counted, and a job that is retried or expires is   *)
(* reported to neither onComplete nor onFail.                              *)
(***************************************************************************)
EXTENDS Integers, FiniteSets

CONSTANTS
  WatchedJobs,
  Awaiters,      \* callers of awaitAll
  MaxEvents      \* bound: events of the queue

ASSUME WatchAssumption == IsFiniteSet(WatchedJobs) /\ MaxEvents \in Nat

VARIABLES
  watched,      \* where each job is
  metrics,    \* _processed, _failed, _retried, _expired, _activeCount
  times,      \* jobs with an entry in startTimes
  promises,   \* the promises track has made, numbered, and how they were settled
  promiseOf,    \* the number of each tracked job's promise; 0 if it is not tracked
  awaited,    \* promises each caller of awaitAll waits for
  answered,   \* callers whose awaitAll has returned
  events,
  slips,      \* history: counted starts that no hook took back
  resets

watchVars == <<watched, metrics, times, promises, promiseOf, awaited, answered, events, slips, resets>>

WatchTypeOK ==
  /\ watched \in [WatchedJobs -> {"queued", "running", "done", "failed", "expired", "discarded"}]
  /\ metrics \in [{"processed", "failed", "retried", "expired", "active"} -> Nat]
  /\ times \subseteq WatchedJobs
  /\ \A n \in DOMAIN promises : promises[n] \in [job : WatchedJobs, by : {"nobody", "complete", "fail"}]
  /\ promiseOf \in [WatchedJobs -> {0} \cup DOMAIN promises]
  /\ awaited \in [Awaiters -> SUBSET DOMAIN promises] /\ answered \subseteq Awaiters

NoMetrics == [m \in {"processed", "failed", "retried", "expired", "active"} |-> 0]

WatchInit ==
  /\ watched = [j \in WatchedJobs |-> "queued"] /\ metrics = NoMetrics /\ times = {}
  /\ promises = <<>> /\ promiseOf = [j \in WatchedJobs |-> 0]
  /\ awaited = [a \in Awaiters |-> {}] /\ answered = {}
  /\ events = 0 /\ slips = 0 /\ resets = 0

Event == events < MaxEvents /\ events' = events + 1
batchVars0 == <<promises, promiseOf, awaited, answered>>

\* onProcess of Metrics, then the plugins behind it.
StartCounted(j, outcome) ==
  /\ Event /\ watched[j] = "queued"
  /\ metrics' = [metrics EXCEPT !["active"] = @ + 1] /\ times' = times \cup {j}
  /\ watched' = [watched EXCEPT ![j] = outcome]
  /\ slips' = IF outcome = "running" THEN slips ELSE slips + 1
  /\ UNCHANGED <<batchVars0, resets>>

LessOne(n) == IF n > 0 THEN n - 1 ELSE 0

\* complete and fail of JobBatch, for a job that is tracked.
Settle(j, how) ==
  /\ promises' = IF promiseOf[j] = 0 THEN promises ELSE [promises EXCEPT ![promiseOf[j]].by = how]
  /\ promiseOf' = [promiseOf EXCEPT ![j] = 0]

CompleteCounted(j) ==
  /\ Event /\ watched[j] = "running" /\ watched' = [watched EXCEPT ![j] = "done"]
  /\ metrics' = [metrics EXCEPT !["processed"] = @ + 1, !["active"] = LessOne(@)]
  /\ times' = times \ {j}
  /\ Settle(j, "complete")
  /\ UNCHANGED <<awaited, answered, slips, resets>>

FailCounted(j) ==
  /\ Event /\ watched[j] = "running" /\ watched' = [watched EXCEPT ![j] = "failed"]
  /\ metrics' = [metrics EXCEPT !["failed"] = @ + 1, !["active"] = LessOne(@)]
  /\ times' = times \ {j}
  /\ Settle(j, "fail")
  /\ UNCHANGED <<awaited, answered, slips, resets>>

\* recordRetry: the attempt is over and _activeCount keeps it.
RetryCounted(j) ==
  /\ Event /\ watched[j] = "running" /\ watched' = [watched EXCEPT ![j] = "queued"]
  /\ metrics' = [metrics EXCEPT !["retried"] = @ + 1] /\ slips' = slips + 1
  /\ UNCHANGED <<batchVars0, times, resets>>

ExpireCounted(j) ==
  /\ Event /\ watched[j] = "queued" /\ watched' = [watched EXCEPT ![j] = "expired"]
  /\ metrics' = [metrics EXCEPT !["expired"] = @ + 1]
  /\ UNCHANGED <<batchVars0, times, slips, resets>>

ResetMetrics ==
  /\ Event /\ metrics' = NoMetrics /\ times' = {} /\ resets' = resets + 1
  /\ UNCHANGED <<batchVars0, watched, slips>>

\* track: the promise there is, or a new one, for a job that has ended too.
Track(j) ==
  /\ promiseOf[j] = 0 /\ Event
  /\ promises' = [n \in DOMAIN promises \cup {Cardinality(DOMAIN promises) + 1} |->
                    IF n \in DOMAIN promises THEN promises[n] ELSE [job |-> j, by |-> "nobody"]]
  /\ promiseOf' = [promiseOf EXCEPT ![j] = Cardinality(DOMAIN promises')]
  /\ UNCHANGED <<watched, metrics, times, awaited, answered, slips, resets>>

\* awaitAll takes the promises that are pending now; one that is settled already
\* is not in its answer.
AwaitAll(a) ==
  /\ Event /\ awaited[a] = {} /\ a \notin answered
  /\ awaited' = [awaited EXCEPT ![a] = {promiseOf[j] : j \in WatchedJobs} \ {0}]
  /\ answered' = IF awaited'[a] = {} THEN answered \cup {a} ELSE answered
  /\ UNCHANGED <<watched, metrics, times, promises, promiseOf, slips, resets>>

Answers(a) ==
  /\ awaited[a] # {} /\ a \notin answered
  /\ \A n \in awaited[a] : promises[n].by # "nobody"
  /\ answered' = answered \cup {a}
  /\ UNCHANGED <<watched, metrics, times, promises, promiseOf, awaited, events, slips, resets>>

WatchNext ==
  \/ \E j \in WatchedJobs :
       \/ \E outcome \in {"running", "queued", "discarded"} : StartCounted(j, outcome)
       \/ CompleteCounted(j) \/ FailCounted(j) \/ RetryCounted(j) \/ ExpireCounted(j) \/ Track(j)
  \/ \E a \in Awaiters : AwaitAll(a) \/ Answers(a)
  \/ ResetMetrics

WatchSpec == WatchInit /\ [][WatchNext]_watchVars

----------------------------------------------------------------------------
(* Properties.                                                             *)

Running == {j \in WatchedJobs : watched[j] = "running"}

\* Until the counters are reset, activeWorkers is the number of jobs that run plus
\* one for every start that was retried, refused or discarded: it never falls
\* below, and never comes back to, what runs once that happened.
ActiveDrifts == resets = 0 => metrics["active"] = Cardinality(Running) + slips

\* A latency is measured of every job that completes: the start of a running job
\* is on record unless the counters were reset while it ran.
StartsOnRecord == resets = 0 => Running \subseteq times

\* awaitAll waits no longer than its jobs take: a promise of a job that completed or
\* failed since it was tracked is settled, and says which of the two it was.
PromisesSettle ==
  \A n \in DOMAIN promises :
    /\ promises[n].by = "complete" => watched[promises[n].job] = "done"
    /\ promises[n].by = "fail" => watched[promises[n].job] = "failed"
    /\ promises[n].by = "nobody" <=> promiseOf[promises[n].job] = n

WatchSound == WatchTypeOK /\ ActiveDrifts /\ StartsOnRecord /\ PromisesSettle
=============================================================================
