----------------------------- MODULE Admission -----------------------------
(***************************************************************************)
(* How a job gets into the queue and what the plugins that guard the door  *)
(* remember of it: enqueue, enqueueBatch and runInProcess of               *)
(* packages/queueovn/src/core/JobQueue.ts, with the Deduplicator, Debounce,*)
(* RateLimiter and JobTTL plugins and the dead letter queue's retry.  Every*)
(* onEnqueue hook is awaited, so calls interleave between any two hooks.   *)
(* What the worker loop does with a job is in JobQueue; here a job is popped, *)
(* passes onProcess, runs and ends.                                        *)
(***************************************************************************)
EXTENDS Integers, Sequences, FiniteSets

CONSTANTS
  Arrivals,
  KeyOf(_),      \* the idempotency key, and the key Debounce goes by
  TtlJobs,       \* jobs with a ttl
  Ways,          \* the calls jobs come by: job -> "enqueue", "batch" or "inProcess"
  PluginLists,   \* cfg.plugins: sequences of "dedup", "debounce", "rate", "ttl"
  MaxQueueSize,
  Tokens, RateWindow,      \* RateLimiter: limit, windowMs
  DebounceWindow,
  MaxTime,       \* bound: the clock
  MaxRetakes     \* bound: jobs taken back from the dead letter queue

PluginNames == {"dedup", "debounce", "rate", "ttl"}

\* There is one table for each plugin: no list names a plugin twice.
ASSUME AdmissionAssumption ==
  /\ IsFiniteSet(Arrivals)
  /\ Ways \subseteq [Arrivals -> {"enqueue", "batch", "inProcess"}]
  /\ \A list \in PluginLists :
       /\ list \in Seq(PluginNames)
       /\ \A m, n \in DOMAIN list : list[m] = list[n] => m = n
  /\ MaxQueueSize \in Nat \ {0} /\ Tokens \in Nat \ {0}
  /\ RateWindow \in Nat \ {0} /\ DebounceWindow \in Nat \ {0}
  /\ MaxTime \in Nat /\ MaxRetakes \in Nat

Keys == {KeyOf(j) : j \in Arrivals}

VARIABLES
  how,         \* one of Ways
  hooks,       \* one of PluginLists
  phase,       \* of a job
  hook,        \* of a job at the door: the next of hooks
  waiting,       \* jobs in the adapter
  active,      \* Deduplicator: keys
  pending,     \* Debounce: key -> the latest job and when it came
  superseded,  \* Debounce
  bucket,      \* RateLimiter: tokens and resetAt (one job type)
  timers,      \* JobTTL: jobs with a timer
  clock, retakes,
  overlap,     \* history: jobs at the door since another was pushed
  grants,      \* history: when tokens were given, by job
  leaked,      \* history: keys of jobs that left without a hook telling
  freed        \* history: keys released or taken anew while their job lives on

adVars == <<how, hooks, phase, hook, waiting, active, pending, superseded, bucket, timers, clock,
            retakes, overlap, grants, leaked, freed>>
plugins == <<active, pending, superseded, bucket, timers>>
adHistory == <<overlap, grants, leaked, freed>>

Phases == {"new", "hooks", "held", "in", "popped", "running", "waiting", "done",
           "failed", "discarded", "expired", "refused", "cleared"}
Live(j) == phase[j] \in {"in", "popped", "running", "waiting"}
AtTheDoor(j) == phase[j] \in {"hooks", "held"}
Batch == {j \in Arrivals : how[j] = "batch"}

AdTypeOK ==
  /\ phase \in [Arrivals -> Phases]
  /\ waiting = {j \in Arrivals : phase[j] = "in"}
  /\ hook \in [Arrivals -> 1 .. Len(hooks) + 1]
  /\ active \subseteq Keys
  /\ bucket.tokens \in 0 .. Tokens
  /\ \A k \in DOMAIN pending : KeyOf(pending[k].latest) = k
  /\ timers \subseteq TtlJobs

AdInit ==
  /\ how \in Ways /\ hooks \in PluginLists
  /\ phase = [j \in Arrivals |-> "new"] /\ hook = [j \in Arrivals |-> 1]
  /\ waiting = {} /\ active = {} /\ superseded = {} /\ timers = {}
  /\ pending = [k \in {} |-> 0]
  /\ bucket = [tokens |-> 0, resetAt |-> 0]
  /\ clock = 0 /\ retakes = 0
  /\ overlap = {}
  /\ grants = [j \in {} |-> 0] /\ leaked = {} /\ freed = {}

\* Every job on its way in sees that one more is in.
Pushed(jobs) ==
  /\ waiting' = waiting \cup jobs
  /\ overlap' = {j \in Arrivals : AtTheDoor(j)} \ jobs

\* Mutant: one too many is let in.
EnterOneMore(j) ==
  /\ how[j] = "enqueue" /\ phase[j] = "new"
  /\ phase' = [phase EXCEPT ![j] = IF Cardinality(waiting) > MaxQueueSize
                                   THEN "refused" ELSE "hooks"]
  /\ UNCHANGED <<hook, waiting, plugins, clock, retakes, adHistory>>

\* enqueue up to its hooks: the size is tested, then everything is awaited.
Enter(j) ==
  /\ how[j] = "enqueue" /\ phase[j] = "new"
  /\ phase' = [phase EXCEPT ![j] = IF Cardinality(waiting) >= MaxQueueSize
                                   THEN "refused" ELSE "hooks"]
  /\ UNCHANGED <<hook, waiting, plugins, clock, retakes, adHistory>>

\* The other calls test no size; a batch takes its jobs through the hooks one
\* after the other.
EnterUntested(j) ==
  /\ how[j] # "enqueue" /\ phase[j] = "new"
  /\ how[j] = "batch" => \A k \in Batch : phase[k] \in {"new", "held"}
  /\ phase' = [phase EXCEPT ![j] = "hooks"]
  /\ UNCHANGED <<hook, waiting, plugins, clock, retakes, adHistory>>

\* ------------------------------------------------------ onEnqueue hooks

Passes(j) == hook' = [hook EXCEPT ![j] = @ + 1] /\ UNCHANGED phase

\* A hook throws: the call rejects, a batch with all its jobs.  No plugin that
\* let a job pass before is told.
Refuse(j) ==
  LET out == IF how[j] = "batch" THEN {k \in Batch : AtTheDoor(k) \/ phase[k] = "new"} ELSE {j}
      told == {k \in out : phase[k] = "held" \/ (k = j /\ "dedup" \in {hooks[n] : n \in 1 .. hook[j] - 1})}
  IN /\ phase' = [k \in Arrivals |-> IF k \in out THEN "refused" ELSE phase[k]]
     /\ leaked' = leaked \cup {KeyOf(k) : k \in told}
     /\ UNCHANGED hook

Dedup(j) ==
  IF KeyOf(j) \in active
  THEN Refuse(j) /\ UNCHANGED active
  ELSE active' = active \cup {KeyOf(j)} /\ Passes(j) /\ UNCHANGED leaked

\* Mutant: the job that arrives is the one put off.
DebounceNew(j) ==
  LET k == KeyOf(j)
  IN /\ superseded' = IF k \in DOMAIN pending /\ clock - pending[k].at < DebounceWindow
                      THEN superseded \cup {j} ELSE superseded
     /\ pending' = [q \in DOMAIN pending \cup {k} |->
                      IF q = k THEN [latest |-> j, at |-> clock] ELSE pending[q]]

Debounce(j) ==
  LET k == KeyOf(j)
  IN /\ superseded' = IF k \in DOMAIN pending /\ clock - pending[k].at < DebounceWindow
                      THEN superseded \cup {pending[k].latest} ELSE superseded
     /\ pending' = [q \in DOMAIN pending \cup {k} |->
                      IF q = k THEN [latest |-> j, at |-> clock] ELSE pending[q]]

Bucket == IF clock >= bucket.resetAt
          THEN [tokens |-> Tokens, resetAt |-> clock + RateWindow] ELSE bucket

Rate(j) ==
  IF Bucket.tokens = 0
  THEN bucket' = Bucket /\ Refuse(j) /\ UNCHANGED grants
  ELSE /\ bucket' = [Bucket EXCEPT !.tokens = @ - 1]
       /\ grants' = [k \in DOMAIN grants \cup {j} |-> IF k = j THEN clock ELSE grants[k]]
       /\ Passes(j) /\ UNCHANGED leaked

RunHook(j) ==
  /\ phase[j] = "hooks" /\ hook[j] <= Len(hooks)
  /\ CASE hooks[hook[j]] = "dedup" ->
            Dedup(j) /\ UNCHANGED <<pending, superseded, bucket, timers, grants>>
       [] hooks[hook[j]] = "debounce" ->
            Debounce(j) /\ Passes(j)
            /\ UNCHANGED <<active, bucket, timers, grants, leaked>>
       [] hooks[hook[j]] = "rate" ->
            Rate(j) /\ UNCHANGED <<active, pending, superseded, timers>>
       [] hooks[hook[j]] = "ttl" ->
            /\ timers' = timers \cup ({j} \cap TtlJobs)
            /\ Passes(j)
            /\ UNCHANGED <<active, pending, superseded, bucket, grants, leaked>>
  /\ UNCHANGED <<waiting, clock, retakes, overlap, freed>>

\* --------------------------------------------------------------- inside

\* The hooks are done: enqueue pushes the job, a batch waits for its others,
\* runInProcess goes on to the onProcess hooks.
Through(j) ==
  /\ phase[j] = "hooks" /\ hook[j] > Len(hooks)
  /\ \/ how[j] = "enqueue" /\ phase' = [phase EXCEPT ![j] = "in"] /\ Pushed({j})
     \/ how[j] = "batch" /\ phase' = [phase EXCEPT ![j] = "held"] /\ UNCHANGED <<waiting, overlap>>
     \/ how[j] = "inProcess" /\ phase' = [phase EXCEPT ![j] = "popped"] /\ UNCHANGED <<waiting, overlap>>
  /\ UNCHANGED <<hook, plugins, clock, retakes, grants, leaked, freed>>

BatchIn ==
  /\ Batch # {} /\ \A j \in Batch : phase[j] = "held"
  /\ phase' = [j \in Arrivals |-> IF j \in Batch THEN "in" ELSE phase[j]]
  /\ Pushed(Batch)
  /\ UNCHANGED <<hook, plugins, clock, retakes, grants, leaked, freed>>

TakeNext(j) ==
  /\ j \in waiting /\ waiting' = waiting \ {j}
  /\ phase' = [phase EXCEPT ![j] = "popped"]
  /\ UNCHANGED <<hook, plugins, clock, retakes, adHistory>>

\* onProcess: Debounce throws a DiscardJobError.
Process(j) ==
  /\ phase[j] = "popped"
  /\ superseded' = superseded \ {j}
  /\ IF j \in superseded
     THEN phase' = [phase EXCEPT ![j] = "discarded"] /\ leaked' = leaked \cup {KeyOf(j)}
     ELSE phase' = [phase EXCEPT ![j] = "running"] /\ UNCHANGED leaked
  /\ UNCHANGED <<hook, waiting, active, pending, bucket, timers, clock, retakes, overlap,
                 grants, freed>>

\* onComplete and onFail, and Debounce's and the Deduplicator's onExpire.
CleanUp(j) ==
  /\ pending' = IF KeyOf(j) \in DOMAIN pending /\ pending[KeyOf(j)].latest = j
                THEN [k \in DOMAIN pending \ {KeyOf(j)} |-> pending[k]] ELSE pending
  /\ superseded' = superseded \ {j}
  /\ active' = active \ {KeyOf(j)}

\* The handler is done, or has failed for good.
End(j, end) ==
  /\ phase[j] = "running"
  /\ phase' = [phase EXCEPT ![j] = end]
  /\ CleanUp(j)
  /\ timers' = timers \ {j}
  /\ leaked' = leaked \ {KeyOf(j)}
  /\ UNCHANGED <<hook, waiting, bucket, clock, retakes, overlap, grants, freed>>

\* A failed attempt that is retried tells no plugin; the scheduler holds the job.
RetryLater(j) ==
  /\ how[j] # "inProcess" /\ phase[j] = "running"
  /\ phase' = [phase EXCEPT ![j] = "waiting"]
  /\ UNCHANGED <<hook, waiting, plugins, clock, retakes, adHistory>>

Due(j) ==
  /\ phase[j] = "waiting"
  /\ phase' = [phase EXCEPT ![j] = "in"] /\ Pushed({j})
  /\ UNCHANGED <<hook, plugins, clock, retakes, grants, leaked, freed>>

\* The dead letter queue puts a failed job back without the hooks.
Retake(j) ==
  /\ phase[j] = "failed" /\ how[j] # "inProcess" /\ retakes < MaxRetakes
  /\ retakes' = retakes + 1
  /\ phase' = [phase EXCEPT ![j] = "in"] /\ Pushed({j})
  /\ freed' = freed \cup {KeyOf(j)}
  /\ UNCHANGED <<hook, plugins, clock, grants, leaked>>

\* The TTL timer goes off, wherever the job is: only one in the adapter is
\* removed, but every plugin is told that it has expired.
Expire(j) ==
  /\ j \in timers /\ timers' = timers \ {j}
  /\ waiting' = waiting \ {j}
  /\ phase' = [phase EXCEPT ![j] = IF @ = "in" THEN "expired" ELSE @]
  /\ CleanUp(j)
  /\ leaked' = leaked \ {KeyOf(j)}
  /\ freed' = IF \E k \in Arrivals : KeyOf(k) = KeyOf(j) /\ (AtTheDoor(k)' \/ Live(k)')
              THEN freed \cup {KeyOf(j)} ELSE freed
  /\ UNCHANGED <<hook, bucket, clock, retakes, overlap, grants>>

Clear ==
  /\ waiting # {} /\ waiting' = {}
  /\ phase' = [j \in Arrivals |-> IF j \in waiting THEN "cleared" ELSE phase[j]]
  /\ leaked' = leaked \cup {KeyOf(j) : j \in waiting}
  /\ UNCHANGED <<hook, plugins, clock, retakes, overlap, grants, freed>>

AdClock ==
  /\ clock < MaxTime /\ clock' = clock + 1
  /\ UNCHANGED <<phase, hook, waiting, plugins, retakes, adHistory>>

AdNext ==
  /\ UNCHANGED <<how, hooks>>
  /\ \/ \E j \in Arrivals : Enter(j)
     \/ \E j \in Arrivals : EnterUntested(j)
     \/ \E j \in Arrivals : RunHook(j)
     \/ \E j \in Arrivals : Through(j)
     \/ BatchIn
     \/ \E j \in Arrivals : TakeNext(j)
     \/ \E j \in Arrivals : Process(j)
     \/ \E j \in Arrivals, end \in {"done", "failed"} : End(j, end)
     \/ \E j \in Arrivals : RetryLater(j)
     \/ \E j \in Arrivals : Due(j)
     \/ \E j \in Arrivals : Retake(j)
     \/ \E j \in Arrivals : Expire(j)
     \/ Clear \/ AdClock

\* --------------------------------------------------------- properties

\* The Deduplicator lets no second job of a key in while one lives - waiting,
\* running or to be retried - except where the key was given up under a living
\* job: its TTL timer went off, or it came back from the dead letter queue.
OneLiveJobPerKey ==
  (\E n \in DOMAIN hooks : hooks[n] = "dedup") =>
  \A j, k \in Arrivals :
    j # k /\ KeyOf(j) = KeyOf(k) /\ Live(j) /\ Live(k) => KeyOf(j) \in freed

\* A key is held for a job that lives or is at the door, or was left behind by
\* one no hook told of: discarded, cleared, or refused by a later plugin.
KeysHeldForJobs ==
  \A k \in active : k \in leaked \/ \E j \in Arrivals : KeyOf(j) = k /\ (Live(j) \/ AtTheDoor(j))

\* The job that came last is never the one Debounce throws away.
NewestNotSuperseded == \A k \in DOMAIN pending : pending[k].latest \notin superseded

\* In no stretch as long as the window does RateLimiter let in twice its limit,
\* though its windows are fixed ones.
NeverTwiceTheLimit ==
  \A t \in 0 .. MaxTime :
    Cardinality({j \in DOMAIN grants : grants[j] \in t .. t + RateWindow - 1}) < 2 * Tokens

\* enqueue overfills the queue only with jobs that others pushed between its
\* test of the size and its own push.
OverfullOnlyByOverlap ==
  [][\A j \in Arrivals :
       phase[j] = "hooks" /\ phase'[j] = "in" /\ Cardinality(waiting') > MaxQueueSize
       => j \in overlap]_adVars

\* The plugins' own tables stay true to the jobs in the queue, whatever order the
\* hooks of concurrent calls, timers and retries run in.
AdmissionSound ==
  /\ AdTypeOK /\ OneLiveJobPerKey /\ KeysHeldForJobs
  /\ NewestNotSuperseded /\ NeverTwiceTheLimit
=============================================================================
