------------------------------ MODULE JobQueue ------------------------------
(***************************************************************************)
(* JobQueue (packages/queueovn/src/core/JobQueue.ts): enqueue, the process *)
(* loop, the worker wrappers it dispatches, retries, drain, pause, shutdown. *)
(*                                                                         *)
(* The queue runs on one JavaScript thread: an action is what runs between *)
(* two awaits, and the awaits are where other callbacks interleave.        *)
(* startProcessLoop enters the loop synchronously, so the actions that call*)
(* it end with the loop's own first steps, up to the pop() it awaits.      *)
(*                                                                         *)
(* The adapter is MemoryAdapter.  (Over OvnDbAdapter no pop ever claims a  *)
(* job in this engine, so the loop has nothing to run: see OvnStore.)      *)
(*                                                                         *)
(* Abstracted: the order pop() returns jobs in (PriorityHeap; any job may  *)
(* come next), events, metrics and the WAL.  At least one plugin has an    *)
(* onProcess hook, so the loop awaits between pop() and running += 1.      *)
(***************************************************************************)
EXTENDS Integers, FiniteSets

CONSTANTS
  Jobs,           \* jobs that may be enqueued, each once (ids are generated)
  NoJob,          \* pop() returned null
  Drainers,       \* calls to drain(), one each
  MaxWorkers,     \* workers.max
  MaxAttempts,    \* maxAttempts of every job
  MaxQueueSize,   \* maxQueueSize, 0 when undefined
  MaxConcurrent,  \* maxConcurrent of the Throttle plugin, 0 without it
  TtlJobs,        \* jobs with a ttl, the JobTTL plugin being installed
  DelayedJobs,    \* jobs with a runAt in the future
  DiscardJobs,    \* jobs a plugin discards in onProcess
  UnknownJobs,    \* jobs whose type has no handler
  Calls           \* the public methods the application calls

ASSUME JobQueueAssumption ==
  /\ NoJob \notin Jobs
  /\ IsFiniteSet(Jobs)
  /\ MaxWorkers \in Nat \ {0}
  /\ MaxAttempts \in Nat \ {0}
  /\ MaxQueueSize \in Nat
  /\ MaxConcurrent \in Nat
  /\ TtlJobs \subseteq Jobs /\ DelayedJobs \subseteq Jobs
  /\ DiscardJobs \subseteq Jobs /\ UnknownJobs \subseteq Jobs
  /\ Calls \subseteq {"enqueue", "enqueueBatch", "pause", "drain", "clear",
                      "shutdown"}

VARIABLES
  queue,      \* jobs pop() can return: the heap
  scheduled,  \* scheduler entries
  entering,   \* enqueue() calls past the size check, in the onEnqueue hooks
  waking,     \* pushes whose continuation (startProcessLoop) has not run
  batch,      \* jobs an enqueueBatch() still has to push
  batching,   \* an enqueueBatch() has not returned
  loop,       \* runProcessLoop: where it is and the job it holds
  workers,    \* dispatchJob wrappers: job, attempt, "handler" or "finally"
  attempts,   \* per job: attempts finished
  status,     \* per job: what became of it
  ttl,        \* jobs with a JobTTL timer armed
  expired,    \* jobs handleExpire was called for
  throttle,   \* Throttle.activeCount
  paused,     \* isPaused
  closed,     \* isClosed
  down,       \* shutdown() has returned
  awaited,    \* the activePromises shutdown() awaits, as it found them
  drainer,    \* per drain() call: where it is
  checks      \* size() reads of checkDrain that found 0, not yet answered

adapter == <<queue, scheduled, entering, waking, batch, batching>>
ends    == <<paused, closed, down, awaited>>
drains  == <<drainer, checks>>
timers  == <<ttl, expired>>
vars == <<queue, scheduled, entering, waking, batch, batching, loop, workers,
          attempts, status, ttl, expired, throttle, paused, closed, down,
          awaited, drainer, checks>>

Statuses == {"new", "rejected", "live", "done", "failed", "discarded",
             "cleared"}
Worker   == [job : Jobs, try : 1 .. MaxAttempts, at : {"handler", "finally"}]
LoopAt   == {"off", "popped", "holding", "refused"}
Off      == [at |-> "off", job |-> NoJob]

Handling == {w.job : w \in {v \in workers : v.at = "handler"}}
Held     == {loop.job} \ {NoJob}
Promises == {<<w.job, w.try>> : w \in workers}   \* activePromises
Settled  == {j \in Jobs : status[j] \notin {"new", "live"}} \cup expired

-----------------------------------------------------------------------------
(* The process loop                                                        *)

\* pop() extracts from q, or finds it empty; either way the loop awaits it.
Pop(q) ==
  \/ /\ q = {}
     /\ loop' = [at |-> "popped", job |-> NoJob]
     /\ queue' = q
  \/ \E j \in q :
       /\ loop' = [at |-> "popped", job |-> j]
       /\ queue' = q \ {j}

\* Mutant: the concurrency limit is tested with <=.
LoopTurnOffByOne(q) ==
  IF ~closed' /\ ~paused' /\ Cardinality(workers') <= MaxWorkers
  THEN Pop(q)
  ELSE loop' = Off /\ queue' = q

\* Mutant: the loop does not look at isPaused between two jobs.
LoopTurnPaused(q) ==
  IF ~closed' /\ Cardinality(workers') < MaxWorkers
  THEN Pop(q)
  ELSE loop' = Off /\ queue' = q

\* The while condition of runProcessLoop, then pop().
LoopTurn(q) ==
  IF ~closed' /\ ~paused' /\ Cardinality(workers') < MaxWorkers
  THEN Pop(q)
  ELSE loop' = Off /\ queue' = q

\* startProcessLoop, with q the queue as the action leaves it.
StartProcessLoop(q) ==
  IF loop.at = "off" /\ ~closed' /\ ~paused'
  THEN LoopTurn(q)
  ELSE UNCHANGED loop /\ queue' = q

\* The loop has yet to learn that its pop() found nothing.  That continuation was
\* queued when pop() looked, ahead of the one of a push that came later.
Unseen == loop.at = "popped" /\ loop.job = NoJob

\* A push returns in one turn of the microtask queue, a wrapper that releases the
\* Throttle needs more to reach its finally clause.
Refusing == loop.at = "refused"

\* A timer's callback runs when no microtask is left.
TimerTurn ==
  /\ loop.at \in {"off", "holding"}
  /\ waking = {} /\ checks = 0
  /\ \A w \in workers : w.at = "handler"

LoopEnds ==
  /\ \/ loop.at = "popped" /\ loop.job = NoJob
     \/ loop.at = "refused"
  /\ loop' = Off
  /\ UNCHANGED <<adapter, workers, attempts, status, throttle, ends, drains,
                 timers>>

\* A plugin threw DiscardJobError: the job is consumed, the loop goes on.
Discard ==
  /\ loop.at = "popped" /\ loop.job \in DiscardJobs
  /\ status' = [status EXCEPT ![loop.job] = "discarded"]
  /\ UNCHANGED <<scheduled, entering, waking, batch, batching, workers, attempts,
                 throttle, ends, drains, timers>>
  /\ LoopTurn(queue)

\* Throttle is at its cap: the job is pushed back and the loop breaks.
Refuse ==
  /\ loop.at = "popped" /\ loop.job \in Jobs \ DiscardJobs
  /\ MaxConcurrent # 0 /\ throttle >= MaxConcurrent
  /\ queue' = queue \cup {loop.job}
  /\ loop' = [at |-> "refused", job |-> NoJob]
  /\ UNCHANGED <<scheduled, entering, waking, batch, batching, workers, attempts,
                 status, throttle, ends, drains, timers>>

\* The onProcess hooks accept the job; the loop awaits them and update().
Admit ==
  /\ loop.at = "popped" /\ loop.job \in Jobs \ DiscardJobs
  /\ MaxConcurrent = 0 \/ throttle < MaxConcurrent
  /\ throttle' = IF MaxConcurrent = 0 THEN throttle ELSE throttle + 1
  /\ loop' = [loop EXCEPT !.at = "holding"]
  /\ UNCHANGED <<adapter, workers, attempts, status, ends, drains, timers>>

\* running += 1, dispatchJob, and the loop's next turn.  Without a handler
\* lookup() throws before any try: the wrapper emits 'error' and ends.
Dispatch ==
  /\ loop.at = "holding"
  /\ LET j == loop.job
     IN  workers' = workers \cup
           {[job |-> j, try |-> attempts[j] + 1,
             at |-> IF j \in UnknownJobs THEN "finally" ELSE "handler"]}
  /\ UNCHANGED <<scheduled, entering, waking, batch, batching, attempts, status,
                 throttle, ends, drains, timers>>
  /\ LoopTurn(queue)

-----------------------------------------------------------------------------
(* Workers                                                                 *)

\* Mutant: a failed attempt is not counted.
EndedUncounted(w) ==
  /\ w \in workers /\ w.at = "handler"
  /\ workers' = (workers \ {w}) \cup {[w EXCEPT !.at = "finally"]}
  /\ UNCHANGED attempts

\* The handler of w ended and its wrapper is left with the finally clause.
Ended(w) ==
  /\ w \in workers /\ w.at = "handler"
  /\ workers' = (workers \ {w}) \cup {[w EXCEPT !.at = "finally"]}
  /\ attempts' = [attempts EXCEPT ![w.job] = @ + 1]

\* onComplete / onFail of the Throttle and JobTTL plugins.
Released(j) ==
  /\ throttle' = IF throttle = 0 THEN 0 ELSE throttle - 1
  /\ ttl' = ttl \ {j}
  /\ UNCHANGED expired

OnSuccess(w) ==
  /\ Ended(w)
  /\ status' = [status EXCEPT ![w.job] = "done"]
  /\ Released(w.job)
  /\ UNCHANGED <<adapter, loop, ends, drains>>

\* Mutant: a retry is only taken when its delay is positive.
RetryDropsImmediate(w, delayed) ==
  /\ Ended(w)
  /\ attempts[w.job] + 1 < MaxAttempts
  /\ scheduled' = IF delayed THEN scheduled \cup {w.job} ELSE scheduled
  /\ UNCHANGED <<queue, entering, waking, batch, batching, loop, status, throttle,
                 ends, drains, timers>>

\* onFailure with attempts left: through the scheduler when the policy's delay
\* is positive, else straight back.  No plugin is told.
Retry(w, delayed) ==
  /\ Ended(w)
  /\ attempts[w.job] + 1 < MaxAttempts
  /\ IF delayed THEN scheduled' = scheduled \cup {w.job} /\ UNCHANGED queue
     ELSE queue' = queue \cup {w.job} /\ UNCHANGED scheduled
  /\ UNCHANGED <<entering, waking, batch, batching, loop, status, throttle, ends,
                 drains, timers>>

\* onFailure without attempts left, or the policy gives up earlier.
OnFailure(w) ==
  /\ Ended(w)
  /\ status' = [status EXCEPT ![w.job] = "failed"]
  /\ Released(w.job)
  /\ UNCHANGED <<adapter, loop, ends, drains>>

\* The finally clause: running -= 1, checkDrain, startProcessLoop.  After an
\* immediate retry it was queued behind the push (see Unseen).
Finally(w) ==
  /\ w \in workers /\ w.at = "finally"
  /\ ~(w.job \in queue /\ Unseen) /\ ~Refusing
  /\ workers' = workers \ {w}
  /\ checks' = IF workers' = {} /\ loop.at = "off" /\ scheduled = {} /\ queue = {}
               THEN checks + 1 ELSE checks
  /\ UNCHANGED <<scheduled, entering, waking, batch, batching, attempts, status,
                 throttle, ends, drainer, timers>>
  /\ StartProcessLoop(queue)

\* checkDrain's size() answered 0 when it was asked.
CheckAnswered ==
  /\ checks > 0
  /\ checks' = checks - 1
  /\ drainer' = IF workers # {} THEN drainer
                ELSE [d \in Drainers |-> IF drainer[d] = "waiting" THEN "resolved"
                                         ELSE drainer[d]]
  /\ UNCHANGED <<adapter, loop, workers, attempts, status, throttle, ends, timers>>

-----------------------------------------------------------------------------
(* Timers                                                                  *)

\* The scheduler's timer: the entry goes and onReady pushes the job.
Due(j) ==
  /\ j \in scheduled /\ TimerTurn
  /\ scheduled' = scheduled \ {j}
  /\ queue' = queue \cup {j}
  /\ waking' = waking \cup {j}
  /\ UNCHANGED <<entering, batch, batching, loop, workers, attempts, status,
                 throttle, ends, drains, timers>>

\* The JobTTL timer: handleExpire removes the job from the adapter.
Expire(j) ==
  /\ j \in ttl /\ TimerTurn
  /\ ttl' = ttl \ {j}
  /\ expired' = expired \cup {j}
  /\ queue' = queue \ {j}
  /\ UNCHANGED <<scheduled, entering, waking, batch, batching, loop, workers,
                 attempts, status, throttle, ends, drains>>

-----------------------------------------------------------------------------
(* Calls of the application                                                *)

\* enqueue(): checkOpen and the size check.
Enqueue(j) ==
  /\ "enqueue" \in Calls /\ ~closed /\ status[j] = "new"
  /\ IF MaxQueueSize # 0 /\ Cardinality(queue) >= MaxQueueSize
     THEN status' = [status EXCEPT ![j] = "rejected"] /\ UNCHANGED entering
     ELSE /\ status' = [status EXCEPT ![j] = "live"]
          /\ entering' = entering \cup {j}
  /\ UNCHANGED <<queue, scheduled, waking, batch, batching, loop, workers, attempts,
                 throttle, ends, drains, timers>>

\* The hooks ran: the job goes to the scheduler or is pushed.
Entered(j) ==
  /\ j \in entering
  /\ entering' = entering \ {j}
  /\ ttl' = ttl \cup ({j} \cap TtlJobs)
  /\ IF j \in DelayedJobs
     THEN scheduled' = scheduled \cup {j} /\ UNCHANGED <<queue, waking>>
     ELSE /\ queue' = queue \cup {j}
          /\ waking' = waking \cup {j}
          /\ UNCHANGED scheduled
  /\ UNCHANGED <<batch, batching, loop, workers, attempts, status, expired,
                 throttle, ends, drains>>

\* What follows the await of a push: startProcessLoop.
Wake(j) ==
  /\ j \in waking
  /\ ~Unseen
  /\ waking' = waking \ {j}
  /\ UNCHANGED <<scheduled, entering, batch, batching, workers, attempts, status,
                 throttle, ends, drains, timers>>
  /\ StartProcessLoop(queue)

\* enqueueBatch(): no size check; delayed jobs go to the scheduler at once.
EnqueueBatch(jobs) ==
  /\ "enqueueBatch" \in Calls /\ ~closed /\ ~batching
  /\ jobs # {} /\ \A j \in jobs : status[j] = "new"
  /\ status' = [j \in Jobs |-> IF j \in jobs THEN "live" ELSE status[j]]
  /\ ttl' = ttl \cup (jobs \cap TtlJobs)
  /\ scheduled' = scheduled \cup (jobs \cap DelayedJobs)
  /\ batch' = jobs \ DelayedJobs
  /\ batching' = TRUE
  /\ UNCHANGED <<queue, entering, waking, loop, workers, attempts, expired,
                 throttle, ends, drains>>

\* One push of the batch; none of them wakes the loop.
BatchPush(j) ==
  /\ j \in batch
  /\ batch' = batch \ {j}
  /\ queue' = queue \cup {j}
  /\ UNCHANGED <<scheduled, entering, waking, batching, loop, workers, attempts,
                 status, throttle, ends, drains, timers>>

\* The single wakeup, after the last chunk's setImmediate.
BatchEnd ==
  /\ batching /\ batch = {}
  /\ TimerTurn
  /\ batching' = FALSE
  /\ UNCHANGED <<scheduled, entering, waking, batch, workers, attempts, status,
                 throttle, ends, drains, timers>>
  /\ StartProcessLoop(queue)

Pause ==
  /\ "pause" \in Calls /\ ~paused
  /\ paused' = TRUE
  /\ UNCHANGED <<adapter, loop, workers, attempts, status, throttle, closed, down,
                 awaited, drains, timers>>

\* Mutant: resume() only clears the flag.
ResumeOnly ==
  /\ paused
  /\ paused' = FALSE
  /\ UNCHANGED <<adapter, loop, workers, attempts, status, throttle, closed, down,
                 awaited, drains, timers>>

Resume ==
  /\ paused
  /\ paused' = FALSE
  /\ UNCHANGED <<scheduled, entering, waking, batch, batching, workers, attempts,
                 status, throttle, closed, down, awaited, drains, timers>>
  /\ StartProcessLoop(queue)

\* clear() empties the adapter.
Clear ==
  /\ "clear" \in Calls /\ ~down
  /\ queue' = {}
  /\ status' = [j \in Jobs |-> IF j \in queue THEN "cleared" ELSE status[j]]
  /\ UNCHANGED <<scheduled, entering, waking, batch, batching, loop, workers,
                 attempts, throttle, ends, drains, timers>>

\* drain() asks for the size ...
Drain(d) ==
  /\ "drain" \in Calls /\ drainer[d] = "idle" /\ ~down
  /\ drainer' = [drainer EXCEPT ![d] = IF queue = {} THEN "empty" ELSE "nonempty"]
  /\ UNCHANGED <<adapter, loop, workers, attempts, status, throttle, ends, checks,
                 timers>>

\* ... and returns, or waits for a checkDrain.
DrainSized(d) ==
  /\ drainer[d] \in {"empty", "nonempty"}
  /\ drainer' = [drainer EXCEPT ![d] =
                   IF @ = "empty" /\ workers = {} THEN "resolved" ELSE "waiting"]
  /\ UNCHANGED <<adapter, loop, workers, attempts, status, throttle, ends, checks,
                 timers>>

\* shutdown(): no new work, scheduled jobs dropped, then await the wrappers.
Shutdown ==
  /\ "shutdown" \in Calls /\ ~closed
  /\ closed' = TRUE
  /\ scheduled' = {}
  /\ awaited' = Promises
  /\ UNCHANGED <<queue, entering, waking, batch, batching, loop, workers, attempts,
                 status, throttle, paused, down, drains, timers>>

\* The awaited wrappers settled: close the adapter, which forgets its jobs, disarm
\* the TTL timers, return.
ShutdownReturns ==
  /\ closed /\ ~down
  /\ awaited \cap Promises = {}
  /\ down' = TRUE
  /\ queue' = {}
  /\ ttl' = {}
  /\ UNCHANGED <<scheduled, entering, waking, batch, batching, loop, workers,
                 attempts, status, expired, throttle, paused, closed, awaited,
                 drains>>

-----------------------------------------------------------------------------
Init ==
  /\ queue = {} /\ scheduled = {} /\ entering = {} /\ waking = {}
  /\ batch = {} /\ batching = FALSE
  /\ loop = Off
  /\ workers = {}
  /\ attempts = [j \in Jobs |-> 0]
  /\ status = [j \in Jobs |-> "new"]
  /\ ttl = {} /\ expired = {}
  /\ throttle = 0
  /\ paused = FALSE /\ closed = FALSE /\ down = FALSE /\ awaited = {}
  /\ drainer = [d \in Drainers |-> "idle"]
  /\ checks = 0

\* What the event loop runs without being asked.
LoopStep == LoopEnds \/ Discard \/ Refuse \/ Admit \/ Dispatch
HandlerEnds(w) ==
  \/ OnSuccess(w) \/ OnFailure(w)
  \/ \E delayed \in BOOLEAN : Retry(w, delayed)

Next ==
  \/ LoopEnds \/ Discard \/ Refuse \/ Admit \/ Dispatch
  \/ \E w \in workers :
       \/ OnSuccess(w) \/ OnFailure(w) \/ Finally(w)
       \/ \E delayed \in BOOLEAN : Retry(w, delayed)
  \/ \E j \in Jobs :
       Due(j) \/ Expire(j) \/ Enqueue(j) \/ Entered(j) \/ Wake(j) \/ BatchPush(j)
  \/ \E jobs \in SUBSET Jobs : EnqueueBatch(jobs)
  \/ BatchEnd \/ Pause \/ Resume \/ Clear
  \/ \E d \in Drainers : Drain(d) \/ DrainSized(d)
  \/ CheckAnswered \/ Shutdown \/ ShutdownReturns

Spec == Init /\ [][Next]_vars

\* The event loop runs every continuation that is ready and every timer that is
\* due, and handlers end (maxDuration bounds them); nobody has to call the API.
Fairness ==
  /\ WF_vars(LoopStep)
  /\ \A w \in Worker : WF_vars(HandlerEnds(w)) /\ WF_vars(Finally(w))
  /\ \A j \in Jobs : WF_vars(Due(j)) /\ WF_vars(Entered(j)) /\ WF_vars(Wake(j))
  /\ WF_vars(\E j \in Jobs : BatchPush(j)) /\ WF_vars(BatchEnd)
  /\ \A d \in Drainers : WF_vars(DrainSized(d))
  /\ WF_vars(CheckAnswered)
FairSpec == Spec /\ Fairness

-----------------------------------------------------------------------------
(* Properties                                                              *)

\* Every variable has the type its declaration states.
TypeOK ==
  /\ queue \subseteq Jobs /\ scheduled \subseteq Jobs
  /\ entering \subseteq Jobs /\ waking \subseteq Jobs
  /\ batch \subseteq Jobs /\ batching \in BOOLEAN
  /\ loop \in [at : LoopAt, job : Jobs \cup {NoJob}]
  /\ workers \subseteq Worker
  /\ attempts \in [Jobs -> 0 .. MaxAttempts]
  /\ status \in [Jobs -> Statuses]
  /\ ttl \subseteq Jobs /\ expired \subseteq Jobs
  /\ throttle \in Nat
  /\ paused \in BOOLEAN /\ closed \in BOOLEAN /\ down \in BOOLEAN
  /\ awaited \subseteq Jobs \X (1 .. MaxAttempts)
  /\ drainer \in [Drainers -> {"idle", "empty", "nonempty", "waiting", "resolved"}]
  /\ checks \in Nat

\* workers.max bounds the jobs dispatched at once, although running is only
\* incremented several awaits after the loop tested it.
WorkersBounded == Cardinality(workers) <= MaxWorkers

\* A job is in one place: with its enqueue, with its batch, in the adapter, in
\* the scheduler, in the loop's hands, or with one handler - so no attempt of a
\* job ever runs beside another, and none is queued twice.
OnePlace ==
  /\ \A j \in Jobs :
       Cardinality({i \in 1 .. 6 :
         j \in <<entering, batch, queue, scheduled, Held, Handling>>[i]}) <= 1
  /\ \A v, w \in workers :
       v.at = "handler" /\ w.at = "handler" /\ v.job = w.job => v = w

\* An accepted job that has not settled is somewhere it can be processed from,
\* unless its type has no handler (shutdown drops what is left, by design).
NoJobLost ==
  closed \/ \A j \in Jobs \ UnknownJobs :
    status[j] = "live" /\ j \notin expired =>
      j \in entering \cup batch \cup queue \cup scheduled \cup Held \cup Handling

\* Jobs are never left in the adapter with nobody to start the loop: there is a
\* push whose wakeup is pending, a batch that ends with one, or a worker that
\* does - or Throttle has no slot left, and then none can come free.
NoLostWakeup ==
  queue # {} /\ loop.at = "off" /\ ~paused /\ ~closed =>
    \/ waking # {} \/ batching \/ workers # {}
    \/ MaxConcurrent # 0 /\ throttle >= MaxConcurrent

\* Throttle: at most maxConcurrent jobs are handled at once, although slots are
\* taken before the dispatch and given back by other callbacks.
ThrottleCaps == MaxConcurrent # 0 => Cardinality(Handling) <= MaxConcurrent

\* pause() lets at most the one job the loop already holds start: the loop ends
\* with that dispatch, and stays off until resume().
PauseStartsAtMostOne ==
  [][paused /\ paused' =>
       /\ Dispatch => loop' = Off
       /\ loop.at = "off" => loop' = Off]_vars

\* shutdown() waits for the jobs in flight, but for one at most: the job the
\* loop held when shutdown() looked runs on after shutdown() has returned.
AtMostOneStraggler ==
  down => Cardinality(workers) + (IF loop.at = "holding" THEN 1 ELSE 0) <= 1

\* What every await of the loop must leave true: workers and Throttle slots are
\* not exceeded, no job is in two places, shutdown() misses one job at most.
CallsSound ==
  TypeOK /\ WorkersBounded /\ ThrottleCaps /\ OnePlace /\ AtMostOneStraggler

\* A job that is accepted is completed, failed for good, or taken out.
EveryJobSettles ==
  \A j \in Jobs \ UnknownJobs : status[j] = "live" ~> j \in Settled

\* A drain() that waits is resolved once "all currently pending AND active jobs
\* complete" (JobQueue.ts:361).
DrainReturns ==
  \A d \in Drainers : drainer[d] = "waiting" ~> drainer[d] = "resolved"
=============================================================================
