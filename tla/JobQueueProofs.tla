--------------------------- MODULE JobQueueProofs ---------------------------
(***************************************************************************)
(* Theorems about JobQueue, for every number of jobs, workers and attempts,*)
(* with and without plugins: the bounds that hold at every await           *)
(* (CallsSound), what pause() lets through, and that no job and no wakeup  *)
(* is lost.                                                                *)
(*                                                                         *)
(* The process loop reads what other callbacks change while it awaits: the *)
(* invariants say what stays true of a test between the read and its use.  *)
(***************************************************************************)
EXTENDS JobQueue, FiniteSetTheorems, TLAPS

-----------------------------------------------------------------------------
(* The inductive invariant                                                 *)

Placed == entering \cup batch \cup queue \cup scheduled \cup Held \cup Handling
Busy   == loop.at \in {"popped", "holding"}

\* The loop holds a job from pop() to the dispatch only.
LoopOK ==
  /\ loop.at \in {"off", "refused"} => loop.job = NoJob
  /\ loop.at = "off" => loop = Off
  /\ loop.at = "holding" => loop.job \in Jobs

\* No job has two handlers.
OneWrapper ==
  \A v, w \in workers :
    v.at = "handler" /\ w.at = "handler" /\ v.job = w.job => v = w

\* Only a live job is anywhere, and it is in one place.
Apart ==
  /\ \A j \in Placed : status[j] = "live"
  /\ \A j \in entering :
       j \notin batch \cup queue \cup scheduled \cup Held \cup Handling
  /\ \A j \in batch : j \notin queue \cup scheduled \cup Held \cup Handling
  /\ \A j \in queue : j \notin scheduled \cup Held \cup Handling
  /\ \A j \in scheduled : j \notin Held \cup Handling
  /\ \A j \in Held : j \notin Handling
  /\ OneWrapper
  /\ batch # {} => batching

\* A job that is still to be processed has an attempt left.
TriesLeft == \A j \in Jobs : status[j] \in {"new", "live"} => attempts[j] < MaxAttempts

\* The limit the loop tested stays free until it dispatches.
RoomLeft ==
  /\ IsFiniteSet(workers) /\ Cardinality(workers) <= MaxWorkers
  /\ Busy => Cardinality(workers) < MaxWorkers

\* Every handler, and the job the loop is about to dispatch, has a slot of Throttle.
SlotsTaken ==
  MaxConcurrent # 0 =>
    /\ throttle <= MaxConcurrent
    /\ Cardinality(Handling) + (IF loop.at = "holding" THEN 1 ELSE 0) <= throttle

\* Of what runs after shutdown() looked it awaits all but one job of the loop.
Unawaited == {w \in workers : <<w.job, w.try>> \notin awaited}
LoopCount == IF Busy THEN 1 ELSE 0
Stragglers ==
  /\ down => closed
  /\ closed => Cardinality(Unawaited) + LoopCount <= 1
  /\ down => Cardinality(workers) + LoopCount <= 1

IInv ==
  TypeOK /\ LoopOK /\ Apart /\ TriesLeft /\ RoomLeft /\ SlotsTaken /\ Stragglers

\* What will start the loop once it is off and j is queued.
Carried(j) ==
  j \in waking \/ batching \/ \E w \in workers : w.at = "finally" /\ w.job = j

\* A job the loop has not seen is carried; a loop that was refused leaves a worker
\* behind, or no slot to wait for.
WakeInv ==
  /\ \A j \in queue : Unseen => Carried(j) \/ closed
  /\ loop.at = "refused" =>
       MaxConcurrent # 0 /\ (workers # {} \/ throttle >= MaxConcurrent)
  /\ NoLostWakeup

\* What a step does to NoJobLost.
NothingLost == NoJobLost => NoJobLost'


-----------------------------------------------------------------------------
(* What the steps of the loop and of the wrappers do to the places of jobs *)

\* One element more.
LEMMA AddOne ==
  ASSUME NEW S, NEW x, IsFiniteSet(S)
  PROVE  /\ IsFiniteSet(S \cup {x}) /\ Cardinality(S \cup {x}) \in Nat
         /\ Cardinality(S \cup {x}) <= Cardinality(S) + 1
<1>1. Cardinality(S) \in Nat
  BY FS_CardinalityType
<1>2. /\ IsFiniteSet(S \cup {x})
      /\ Cardinality(S \cup {x}) \in {Cardinality(S), Cardinality(S) + 1}
  BY FS_AddElement
<1> QED  BY <1>1, <1>2

\* A handler that ends takes its job, and only that, out of handling.
LEMMA EndedHandling ==
  ASSUME IInv, NEW w \in workers, Ended(w)
  PROVE  /\ w.job \in Handling /\ w.job \in Jobs /\ status[w.job] = "live"
         /\ Handling' = Handling \ {w.job}
<1>1. /\ w.at = "handler" /\ w \in Worker
      /\ workers' = (workers \ {w}) \cup {[w EXCEPT !.at = "finally"]}
  BY DEF Ended, IInv, TypeOK
<1>2. w.job \in Handling /\ w.job \in Jobs
  BY <1>1 DEF Handling, Worker
<1>3. status[w.job] = "live"
  BY <1>2 DEF IInv, Apart, Placed
<1> DEFINE done == [w EXCEPT !.at = "finally"]
<1>4. done.at = "finally"
  BY <1>1 DEF Worker
<1> HIDE DEF done
<1>5. \A v \in workers : v.at = "handler" /\ v.job = w.job => v = w
  BY <1>1 DEF IInv, Apart, OneWrapper
<1>6. Handling' = Handling \ {w.job}
  <2>1. ASSUME NEW j \in Handling' PROVE j \in Handling \ {w.job}
    <3>1. PICK v \in workers' : v.at = "handler" /\ v.job = j
      BY DEF Handling
    <3>2. v \in workers /\ v # w
      BY <1>1, <1>4, <3>1 DEF done
    <3> QED  BY <1>5, <3>1, <3>2 DEF Handling
  <2>2. ASSUME NEW j \in Handling, j # w.job PROVE j \in Handling'
    <3>1. PICK v \in workers : v.at = "handler" /\ v.job = j
      BY DEF Handling
    <3>2. v \in workers'
      BY <1>1, <2>2, <3>1
    <3> QED  BY <3>1, <3>2 DEF Handling
  <2> QED  BY <2>1, <2>2
<1> QED  BY <1>2, <1>3, <1>6

\* An ended attempt keeps its entry among the promises.
LEMMA EndedPromises ==
  ASSUME IInv, NEW w \in workers, Ended(w)
  PROVE  /\ workers' \subseteq Worker /\ IsFiniteSet(workers')
         /\ Cardinality(workers') <= Cardinality(workers)
         /\ \A v \in workers' : v.at = "handler" => v \in workers
         /\ [w EXCEPT !.at = "finally"] \in workers'
         /\ awaited' = awaited => /\ IsFiniteSet(Unawaited')
                                  /\ Cardinality(Unawaited') <= Cardinality(Unawaited)
<1> DEFINE done == [w EXCEPT !.at = "finally"]
<1>1. /\ w \in Worker /\ workers \subseteq Worker /\ IsFiniteSet(workers)
      /\ workers' = (workers \ {w}) \cup {done}
  BY DEF Ended, IInv, TypeOK, RoomLeft
<1>2. /\ done \in Worker /\ done.job = w.job /\ done.try = w.try /\ done.at = "finally"
  BY <1>1 DEF Worker
<1> HIDE DEF done
<1>3. Cardinality(workers) \in Nat
  BY <1>1, FS_CardinalityType
<1>4. /\ IsFiniteSet(workers \ {w})
      /\ Cardinality(workers \ {w}) = Cardinality(workers) - 1
  BY <1>1, FS_RemoveElement
<1>5. /\ IsFiniteSet(workers') /\ Cardinality(workers') <= Cardinality(workers)
  <2> DEFINE rest == workers \ {w}
  <2>1. IsFiniteSet(rest) /\ Cardinality(rest) = Cardinality(workers) - 1
    BY <1>4
  <2> HIDE DEF rest
  <2>2. /\ IsFiniteSet(rest \cup {done}) /\ Cardinality(rest \cup {done}) \in Nat
        /\ Cardinality(rest \cup {done}) <= Cardinality(rest) + 1
    BY <2>1, AddOne
  <2>3. workers' = rest \cup {done}
    BY <1>1 DEF rest
  <2> QED  BY <1>3, <2>1, <2>2, <2>3
<1>6. ASSUME awaited' = awaited
      PROVE  /\ IsFiniteSet(Unawaited')
             /\ Cardinality(Unawaited') <= Cardinality(Unawaited)
  <2>1. IsFiniteSet(Unawaited) /\ Cardinality(Unawaited) \in Nat
    <3>1. Unawaited \in SUBSET workers
      BY DEF Unawaited
    <3> QED  BY <1>1, <3>1, FS_Subset, FS_CardinalityType
  <2>2. CASE w \in Unawaited
    <3>1. Unawaited' = (Unawaited \ {w}) \cup {done}
      BY <1>1, <1>2, <1>6, <2>2 DEF Unawaited
    <3>2. /\ IsFiniteSet(Unawaited \ {w})
          /\ Cardinality(Unawaited \ {w}) = Cardinality(Unawaited) - 1
      BY <2>1, <2>2, FS_RemoveElement
    <3> DEFINE rest == Unawaited \ {w}
    <3>3. IsFiniteSet(rest) /\ Cardinality(rest) = Cardinality(Unawaited) - 1
      BY <3>2
    <3> HIDE DEF rest
    <3>4. /\ IsFiniteSet(rest \cup {done}) /\ Cardinality(rest \cup {done}) \in Nat
          /\ Cardinality(rest \cup {done}) <= Cardinality(rest) + 1
      BY <3>3, AddOne
    <3>5. Unawaited' = rest \cup {done}
      BY <3>1 DEF rest
    <3> QED  BY <2>1, <3>3, <3>4, <3>5
  <2>3. CASE w \notin Unawaited
    <3>1. Unawaited' = Unawaited
      BY <1>1, <1>2, <1>6, <2>3 DEF Unawaited
    <3> QED  BY <2>1, <3>1
  <2> QED  BY <2>2, <2>3
<1>7. \A v \in workers' : v.at = "handler" => v \in workers
  BY <1>1, <1>2
<1> QED  BY <1>1, <1>2, <1>5, <1>6, <1>7 DEF done

\* A turn of the loop with q in the adapter takes one job or none, and goes on only
\* with room for it.
LEMMA TurnTakes ==
  ASSUME NEW q \in SUBSET Jobs, LoopTurn(q)
  PROVE  /\ loop' \in [at : LoopAt, job : Jobs \cup {NoJob}]
         /\ LoopOK' /\ Held' \subseteq q /\ queue' = q \ Held'
         /\ loop'.at \in {"off", "popped"}
         /\ Busy' => ~closed' /\ ~paused' /\ Cardinality(workers') < MaxWorkers
         /\ ~Busy' => closed' \/ paused' \/ ~(Cardinality(workers') < MaxWorkers)
         /\ loop'.at = "popped" /\ loop'.job = NoJob => queue' = {}
<1> DEFINE room == ~closed' /\ ~paused' /\ Cardinality(workers') < MaxWorkers
<1>1. CASE ~room
  <2>1. loop' = Off /\ queue' = q
    BY <1>1 DEF LoopTurn
  <2>2. Held' = {}
    BY <2>1 DEF Held, Off
  <2> QED  BY <1>1, <2>1, <2>2 DEF Off, LoopOK, Busy, LoopAt
<1>3. CASE room /\ q = {} /\ queue' = q
           /\ loop' = [at |-> "popped", job |-> NoJob]
  <2>1. Held' = {}
    BY <1>3 DEF Held
  <2> QED  BY <1>3, <2>1 DEF LoopOK, Busy, LoopAt
<1>4. ASSUME room, NEW j \in q, queue' = q \ {j},
             loop' = [at |-> "popped", job |-> j]
      PROVE  /\ loop' \in [at : LoopAt, job : Jobs \cup {NoJob}]
             /\ LoopOK' /\ Held' \subseteq q /\ queue' = q \ Held'
             /\ loop'.at \in {"off", "popped"}
             /\ Busy' /\ loop'.job # NoJob
  <2>1. j # NoJob
    BY JobQueueAssumption
  <2>2. Held' = {j}
    BY <1>4, <2>1 DEF Held
  <2> QED  BY <1>4, <2>1, <2>2 DEF LoopOK, Busy, LoopAt
<1>5. CASE room
  <2>1. LoopTurn(q) <=> Pop(q)
    BY <1>5 DEF LoopTurn
  <2>2. \/ q = {} /\ loop' = [at |-> "popped", job |-> NoJob] /\ queue' = q
        \/ \E j \in q : /\ loop' = [at |-> "popped", job |-> j]
                        /\ queue' = q \ {j}
    BY <1>5, <2>1 DEF Pop
  <2> QED  BY <1>3, <1>4, <1>5, <2>2
<1> QED  BY <1>1, <1>5

\* startProcessLoop does nothing to a loop that runs, or may not run.
LEMMA StartTakes ==
  ASSUME IInv, StartProcessLoop(queue)
  PROVE  \/ /\ loop' = loop /\ queue' = queue
            /\ loop.at # "off" \/ closed' \/ paused'
         \/ /\ LoopTurn(queue) /\ ~closed' /\ ~paused'
            /\ loop = Off /\ Held = {}
BY DEF StartProcessLoop, IInv, LoopOK, Held, Off

\* Whatever has a place is a job, and the sets counted are finite.
LEMMA Sets ==
  ASSUME IInv
  PROVE  /\ Held \subseteq Jobs /\ Handling \subseteq Jobs /\ Placed \subseteq Jobs
         /\ IsFiniteSet(workers) /\ Cardinality(workers) \in Nat
         /\ IsFiniteSet(Handling) /\ Cardinality(Handling) \in Nat
         /\ IsFiniteSet(Unawaited) /\ Cardinality(Unawaited) \in Nat
<1>1. Held \subseteq Jobs
  BY DEF Held, IInv, TypeOK
<1>2. Handling \subseteq Jobs
  BY DEF Handling, Worker, IInv, TypeOK
<1>3. Placed \subseteq Jobs
  BY <1>1, <1>2 DEF Placed, IInv, TypeOK
<1>4. IsFiniteSet(workers) /\ Cardinality(workers) \in Nat
  BY FS_CardinalityType DEF IInv, RoomLeft
<1>5. IsFiniteSet(Handling) /\ Cardinality(Handling) \in Nat
  BY <1>2, FS_Subset, FS_CardinalityType, JobQueueAssumption
<1>6. IsFiniteSet(Unawaited) /\ Cardinality(Unawaited) \in Nat
  <2>1. Unawaited \subseteq workers
    BY DEF Unawaited
  <2> QED  BY <1>4, <2>1, FS_Subset, FS_CardinalityType
<1> QED  BY <1>1, <1>2, <1>3, <1>4, <1>5, <1>6

\* A step that touches neither loop nor workers, nor what they are counted against.
LEMMA QuietKeeps ==
  ASSUME IInv, UNCHANGED <<loop, workers, throttle, closed, down, awaited>>
  PROVE  /\ Held' = Held /\ Handling' = Handling
         /\ LoopOK' /\ OneWrapper' /\ RoomLeft' /\ SlotsTaken' /\ Stragglers'
<1>1. Held' = Held /\ Handling' = Handling
  BY DEF Held, Handling
<1>2. Unawaited' = Unawaited /\ LoopCount' = LoopCount /\ Busy' = Busy
  BY DEF Unawaited, LoopCount, Busy
<1>3. LoopOK' /\ OneWrapper'
  BY DEF IInv, LoopOK, Apart, OneWrapper
<1>4. RoomLeft' /\ Stragglers'
  BY <1>2 DEF IInv, RoomLeft, Stragglers
<1>5. SlotsTaken'
  BY <1>1 DEF IInv, SlotsTaken
<1> QED  BY <1>1, <1>3, <1>4, <1>5

\* Fewer workers, with the same handlers, leave every bound.
LEMMA FewerWorkers ==
  ASSUME IInv, workers' \subseteq workers, awaited' = awaited
  PROVE  /\ IsFiniteSet(workers') /\ Cardinality(workers') \in Nat
         /\ Cardinality(workers') <= Cardinality(workers)
         /\ IsFiniteSet(Unawaited') /\ Cardinality(Unawaited') \in Nat
         /\ Cardinality(Unawaited') <= Cardinality(Unawaited)
<1>1. Unawaited' \subseteq Unawaited
  BY DEF Unawaited
<1> QED  BY <1>1, Sets, FS_Subset, FS_CardinalityType

\* A step that ends in startProcessLoop, with the handlers that there were.
LEMMA StartKeeps ==
  ASSUME IInv, StartProcessLoop(queue),
         workers' \subseteq workers, Handling' = Handling,
         batch' \subseteq batch, batch' # {} => batching',
         UNCHANGED <<scheduled, entering, attempts, status, throttle, closed, down,
                     awaited>>
  PROVE  /\ queue' \subseteq Jobs
         /\ loop' \in [at : LoopAt, job : Jobs \cup {NoJob}]
         /\ LoopOK' /\ Apart' /\ TriesLeft' /\ RoomLeft' /\ SlotsTaken' /\ Stragglers'
         /\ queue \cup Held = queue' \cup Held'
<1> USE FewerWorkers, Sets
<1>1. queue \in SUBSET Jobs
  BY DEF IInv, TypeOK
<1>2. OneWrapper' /\ TriesLeft'
  BY DEF IInv, Apart, OneWrapper, TriesLeft
<1>3. CASE loop' = loop /\ queue' = queue
  <2>1. Held' = Held /\ LoopCount' = LoopCount /\ Busy' = Busy
    BY <1>3 DEF Held, LoopCount, Busy
  <2>2. LoopOK' /\ Apart'
    BY <1>2, <1>3, <2>1 DEF IInv, LoopOK, Apart, Placed
  <2>3. RoomLeft'
    BY <2>1, JobQueueAssumption DEF IInv, RoomLeft
  <2>4. SlotsTaken'
    BY <1>3 DEF IInv, SlotsTaken
  <2>5. Stragglers'
    BY <2>1 DEF IInv, Stragglers, LoopCount
  <2> QED  BY <1>1, <1>2, <1>3, <2>1, <2>2, <2>3, <2>4, <2>5 DEF IInv, TypeOK
<1>4. CASE LoopTurn(queue) /\ ~closed' /\ Held = {}
  <2>1. /\ loop' \in [at : LoopAt, job : Jobs \cup {NoJob}]
        /\ LoopOK' /\ Held' \subseteq queue /\ queue' = queue \ Held'
        /\ loop'.at \in {"off", "popped"}
        /\ Busy' => Cardinality(workers') < MaxWorkers
    BY <1>1, <1>4, TurnTakes
  <2>2. Apart'
    BY <1>2, <1>4, <2>1 DEF IInv, Apart, Placed
  <2>3. RoomLeft'
    BY <2>1, JobQueueAssumption DEF IInv, RoomLeft
  <2>4. SlotsTaken'
    BY <2>1, JobQueueAssumption DEF IInv, SlotsTaken, TypeOK
  <2>5. Stragglers'
    BY <1>4 DEF IInv, Stragglers
  <2> QED  BY <1>1, <1>2, <1>4, <2>1, <2>2, <2>3, <2>4, <2>5
<1> QED  BY <1>3, <1>4, StartTakes

-----------------------------------------------------------------------------
(* The invariant is inductive                                              *)

LEMMA InitKeeps == Init => IInv
<1> SUFFICES ASSUME Init PROVE IInv
  OBVIOUS
<1>1. /\ Handling = {} /\ Held = {} /\ Unawaited = {} /\ ~Busy /\ LoopCount = 0
  BY DEF Init, Handling, Held, Unawaited, Busy, LoopCount, Off
<1>2. IsFiniteSet({}) /\ Cardinality({}) = 0
  BY FS_EmptySet
<1>3. TypeOK
  <2>1. loop \in [at : LoopAt, job : Jobs \cup {NoJob}]
    BY DEF Init, Off, LoopAt
  <2>2. attempts \in [Jobs -> 0 .. MaxAttempts] /\ status \in [Jobs -> Statuses]
    BY JobQueueAssumption DEF Init, Statuses
  <2>3. drainer \in [Drainers -> {"idle", "empty", "nonempty", "waiting", "resolved"}]
    BY DEF Init
  <2> QED  BY <2>1, <2>2, <2>3 DEF Init, TypeOK
<1>4. LoopOK /\ Apart
  BY <1>1 DEF Init, LoopOK, Apart, OneWrapper, Placed, Off
<1>5. TriesLeft /\ RoomLeft
  BY <1>1, <1>2, JobQueueAssumption DEF Init, TriesLeft, RoomLeft
<1>6. SlotsTaken /\ Stragglers
  BY <1>1, <1>2, JobQueueAssumption DEF Init, SlotsTaken, Stragglers, Off
<1> QED  BY <1>3, <1>4, <1>5, <1>6 DEF IInv

\* Calls and timers that leave the loop and the workers alone.
LEMMA CallsKeep ==
  ASSUME IInv,
         \/ \E j \in Jobs : Due(j) \/ Expire(j) \/ Enqueue(j) \/ Entered(j)
         \/ \E j \in Jobs : BatchPush(j)
         \/ \E jobs \in SUBSET Jobs : EnqueueBatch(jobs)
         \/ Pause \/ Clear \/ CheckAnswered
         \/ \E d \in Drainers : Drain(d) \/ DrainSized(d)
  PROVE  IInv' /\ NothingLost
<1> USE Sets DEF adapter, ends, drains, timers
<1>1. UNCHANGED <<loop, workers, throttle, closed, down, awaited, attempts>>
  BY DEF Due, Expire, Enqueue, Entered, EnqueueBatch, BatchPush, Pause, Clear,
         CheckAnswered, Drain, DrainSized
<1>2. /\ Held' = Held /\ Handling' = Handling
      /\ LoopOK' /\ OneWrapper' /\ RoomLeft' /\ SlotsTaken' /\ Stragglers'
  BY <1>1, QuietKeeps
<1>3. SUFFICES TypeOK' /\ Apart' /\ TriesLeft' /\ NothingLost
  BY <1>2 DEF IInv
<1>4. ASSUME NEW j \in Jobs, Due(j) PROVE TypeOK' /\ Apart' /\ TriesLeft' /\ NothingLost
  <2>1. TypeOK'
    BY <1>4 DEF Due, IInv, TypeOK
  <2>2. Apart'
    BY <1>2, <1>4 DEF Due, IInv, Apart, Placed
  <2>3. NothingLost
    BY <1>1, <1>2, <1>4 DEF Due, IInv, Stragglers, NothingLost, NoJobLost
  <2> QED  BY <1>4, <2>1, <2>2, <2>3 DEF Due, IInv, TriesLeft
<1>5. ASSUME NEW j \in Jobs, Expire(j) PROVE TypeOK' /\ Apart' /\ TriesLeft' /\ NothingLost
  <2>1. TypeOK'
    BY <1>5 DEF Expire, IInv, TypeOK
  <2>2. Apart'
    BY <1>2, <1>5 DEF Expire, IInv, Apart, Placed
  <2>3. NothingLost
    BY <1>1, <1>2, <1>5 DEF Expire, IInv, Stragglers, NothingLost, NoJobLost
  <2> QED  BY <1>5, <2>1, <2>2, <2>3 DEF Expire, IInv, TriesLeft
<1>6. ASSUME NEW j \in Jobs, Enqueue(j) PROVE TypeOK' /\ Apart' /\ TriesLeft' /\ NothingLost
  <2>1. /\ \/ /\ status' = [status EXCEPT ![j] = "rejected"] /\ entering' = entering
           \/ /\ status' = [status EXCEPT ![j] = "live"]
              /\ entering' = entering \cup {j}
        /\ status \in [Jobs -> Statuses] /\ status[j] = "new" /\ j \notin Placed
        /\ UNCHANGED <<queue, scheduled, waking, batch, batching, attempts, paused,
                       drainer, checks, ttl, expired>>
    BY <1>6 DEF Enqueue, IInv, TypeOK, Apart
  <2>2. TypeOK'
    BY <1>1, <2>1 DEF IInv, TypeOK, Statuses
  <2>3. Apart'
    BY <1>2, <2>1 DEF IInv, Apart, Placed
  <2>4. TriesLeft'
    BY <2>1 DEF IInv, TriesLeft
  <2>5. NothingLost
    BY <1>1, <1>2, <2>1 DEF IInv, Stragglers, NothingLost, NoJobLost
  <2> QED  BY <2>2, <2>3, <2>4, <2>5
<1>7. ASSUME NEW j \in Jobs, Entered(j) PROVE TypeOK' /\ Apart' /\ TriesLeft' /\ NothingLost
  <2>1. TypeOK'
    BY <1>7 DEF Entered, IInv, TypeOK
  <2>2. Apart'
    BY <1>2, <1>7 DEF Entered, IInv, Apart, Placed
  <2>3. NothingLost
    BY <1>1, <1>2, <1>7 DEF Entered, IInv, Stragglers, NothingLost, NoJobLost
  <2> QED  BY <1>7, <2>1, <2>2, <2>3 DEF Entered, IInv, TriesLeft
<1>8. ASSUME NEW jobs \in SUBSET Jobs, EnqueueBatch(jobs)
      PROVE  TypeOK' /\ Apart' /\ TriesLeft' /\ NothingLost
  <2>1. /\ \A j \in jobs : status[j] = "new" /\ j \notin Placed
        /\ batch = {} /\ batch' = jobs \ DelayedJobs /\ batching'
        /\ scheduled' = scheduled \cup (jobs \cap DelayedJobs)
        /\ status' = [j \in Jobs |-> IF j \in jobs THEN "live" ELSE status[j]]
        /\ UNCHANGED <<queue, entering, expired>>
    BY <1>8 DEF EnqueueBatch, IInv, Apart
  <2>2. TypeOK'
    BY <1>8 DEF EnqueueBatch, IInv, TypeOK, Statuses
  <2>3. Apart'
    BY <1>2, <2>1 DEF IInv, Apart, Placed
  <2>4. TriesLeft'
    BY <1>1, <2>1 DEF IInv, TriesLeft
  <2>5. NothingLost
    BY <1>1, <1>2, <2>1 DEF IInv, Stragglers, NothingLost, NoJobLost
  <2> QED  BY <2>2, <2>3, <2>4, <2>5
<1>9. ASSUME NEW j \in Jobs, BatchPush(j)
      PROVE  TypeOK' /\ Apart' /\ TriesLeft' /\ NothingLost
  <2>1. TypeOK'
    BY <1>9 DEF BatchPush, IInv, TypeOK
  <2>2. Apart'
    BY <1>2, <1>9 DEF BatchPush, IInv, Apart, Placed
  <2>3. NothingLost
    BY <1>1, <1>2, <1>9 DEF BatchPush, IInv, Stragglers, NothingLost, NoJobLost
  <2> QED  BY <1>9, <2>1, <2>2, <2>3 DEF BatchPush, IInv, TriesLeft
<1>10. CASE Clear
  <2>1. TypeOK'
    BY <1>10 DEF Clear, IInv, TypeOK, Statuses
  <2>2. Apart'
    BY <1>2, <1>10 DEF Clear, IInv, Apart, Placed
  <2>3. NothingLost
    BY <1>1, <1>2, <1>10 DEF Clear, IInv, Stragglers, NothingLost, NoJobLost
  <2> QED  BY <1>10, <2>1, <2>2, <2>3 DEF Clear, IInv, TriesLeft
<1>11. CASE Pause \/ CheckAnswered \/ \E d \in Drainers : Drain(d) \/ DrainSized(d)
  <2>1. UNCHANGED <<queue, scheduled, entering, waking, batch, batching, status, ttl,
                    expired>>
    BY <1>11 DEF Pause, CheckAnswered, Drain, DrainSized
  <2>2. paused' \in BOOLEAN
    BY <1>11 DEF Pause, CheckAnswered, Drain, DrainSized, IInv, TypeOK
  <2>6. checks' \in Nat
    BY <1>11 DEF Pause, CheckAnswered, Drain, DrainSized, IInv, TypeOK
  <2>3. drainer' \in [Drainers -> {"idle", "empty", "nonempty", "waiting", "resolved"}]
    BY <1>11 DEF Pause, CheckAnswered, Drain, DrainSized, IInv, TypeOK
  <2>4. TypeOK'
    BY <1>1, <2>1, <2>2, <2>3, <2>6 DEF IInv, TypeOK
  <2>5. Apart'
    BY <1>2, <2>1 DEF IInv, Apart, Placed
  <2>7. NothingLost
    BY <1>1, <1>2, <2>1 DEF IInv, Stragglers, NothingLost, NoJobLost
  <2> QED  BY <1>1, <2>1, <2>4, <2>5, <2>7 DEF IInv, TriesLeft
<1> QED  BY <1>4, <1>5, <1>6, <1>7, <1>8, <1>9, <1>10, <1>11

\* Steps of the loop that leave the workers alone.
LEMMA LoopKeeps ==
  ASSUME IInv, LoopEnds \/ Discard \/ Refuse \/ Admit
  PROVE  IInv' /\ NothingLost
<1> USE Sets DEF adapter, ends, drains, timers
<1>1. /\ UNCHANGED <<scheduled, entering, waking, batch, batching, workers, attempts,
                     paused, closed, down, awaited, drainer, checks, ttl, expired>>
      /\ loop.at \in {"popped", "refused"}
      /\ Handling' = Handling /\ Unawaited' = Unawaited
  <2>1. UNCHANGED <<scheduled, entering, waking, batch, batching, workers, attempts,
                    paused, closed, down, awaited, drainer, checks, ttl, expired>>
    BY DEF LoopEnds, Discard, Refuse, Admit
  <2>2. loop.at \in {"popped", "refused"}
    BY DEF LoopEnds, Discard, Refuse, Admit
  <2> QED  BY <2>1, <2>2 DEF Handling, Unawaited
<1>2. OneWrapper'
  BY <1>1 DEF IInv, Apart, OneWrapper
<1>3. SUFFICES /\ queue' \subseteq Jobs /\ throttle' \in Nat
               /\ status' \in [Jobs -> Statuses]
               /\ loop' \in [at : LoopAt, job : Jobs \cup {NoJob}]
               /\ LoopOK' /\ Apart' /\ TriesLeft' /\ SlotsTaken' /\ NothingLost
               /\ Busy' => Busy /\ (closed => loop.at # "refused")
  <2>1. RoomLeft'
    BY <1>1, <1>3 DEF IInv, RoomLeft
  <2>2. Stragglers'
    BY <1>1, <1>3 DEF IInv, Stragglers, LoopCount
  <2>3. TypeOK'
    BY <1>1, <1>3 DEF IInv, TypeOK
  <2> QED  BY <1>3, <2>1, <2>2, <2>3 DEF IInv
<1>5. CASE LoopEnds
  <2>1. /\ loop' = Off /\ Held' = {} /\ Held = {}
        /\ UNCHANGED <<queue, status, throttle>>
    BY <1>5 DEF LoopEnds, Held, Off, IInv, LoopOK
  <2>2. Apart'
    BY <1>1, <1>2, <2>1 DEF IInv, Apart, Placed
  <2>3. SlotsTaken'
    BY <1>1, <2>1 DEF IInv, SlotsTaken, Off
  <2>4. NothingLost
    BY <1>1, <1>2, <2>1 DEF IInv, Stragglers, NothingLost, NoJobLost
  <2> QED  BY <1>1, <2>1, <2>2, <2>3, <2>4
           DEF IInv, TypeOK, TriesLeft, LoopOK, Off, LoopAt, Busy
<1>6. CASE Discard
  <2>1. /\ loop.at = "popped" /\ Busy /\ Held = {loop.job} /\ loop.job \in Jobs
        /\ status' = [status EXCEPT ![loop.job] = "discarded"] /\ throttle' = throttle
        /\ LoopTurn(queue) /\ queue \in SUBSET Jobs
    BY <1>6, JobQueueAssumption DEF Discard, Busy, Held, IInv, TypeOK
  <2>2. /\ loop' \in [at : LoopAt, job : Jobs \cup {NoJob}]
        /\ LoopOK' /\ Held' \subseteq queue /\ queue' = queue \ Held'
        /\ loop'.at \in {"off", "popped"}
    BY <2>1, TurnTakes
  <2>3. status' \in [Jobs -> Statuses]
    BY <2>1 DEF IInv, TypeOK, Statuses
  <2>4. Apart'
    BY <1>1, <1>2, <2>1, <2>2 DEF IInv, TypeOK, Apart, Placed
  <2>5. SlotsTaken'
    BY <1>1, <2>1, <2>2 DEF IInv, SlotsTaken
  <2>6. TriesLeft'
    BY <1>1, <2>1 DEF IInv, TypeOK, TriesLeft
  <2>7. NothingLost
    BY <1>1, <1>2, <2>1, <2>2 DEF TypeOK, IInv, Stragglers, NothingLost, NoJobLost
  <2> QED  BY <2>1, <2>2, <2>3, <2>4, <2>5, <2>6, <2>7 DEF IInv, TypeOK
<1>7. CASE Refuse
  <2>1. /\ loop' = [at |-> "refused", job |-> NoJob]
        /\ Held = {loop.job} /\ Held' = {} /\ loop.job \in Jobs
        /\ queue' = queue \cup {loop.job}
        /\ UNCHANGED <<status, throttle>>
    BY <1>7, JobQueueAssumption DEF Refuse, Held
  <2>2. Apart'
    BY <1>1, <1>2, <2>1 DEF IInv, Apart, Placed
  <2>3. SlotsTaken'
    BY <1>1, <2>1 DEF IInv, SlotsTaken
  <2>4. LoopOK' /\ ~Busy'
    BY <2>1 DEF LoopOK, Busy, Off
  <2>5. NothingLost
    BY <1>1, <1>2, <1>7, <2>1
    DEF Refuse, IInv, Stragglers, NothingLost, NoJobLost
  <2> QED  BY <1>1, <2>1, <2>2, <2>3, <2>4, <2>5 DEF IInv, TypeOK, TriesLeft, LoopAt
<1>8. CASE Admit
  <2>1. /\ loop.at = "popped" /\ loop.job \in Jobs
        /\ loop' = [loop EXCEPT !.at = "holding"]
        /\ throttle' = IF MaxConcurrent = 0 THEN throttle ELSE throttle + 1
        /\ MaxConcurrent = 0 \/ throttle < MaxConcurrent
        /\ UNCHANGED <<queue, status>>
    BY <1>8 DEF Admit
  <2>2. /\ loop'.at = "holding" /\ loop'.job = loop.job /\ Held' = Held /\ Busy
        /\ loop' \in [at : LoopAt, job : Jobs \cup {NoJob}]
    BY <2>1 DEF IInv, TypeOK, LoopAt, Held, Busy
  <2>3. Apart'
    BY <1>1, <1>2, <2>1, <2>2 DEF IInv, Apart, Placed
  <2>4. SlotsTaken'
    BY <1>1, <2>1, <2>2, JobQueueAssumption DEF IInv, TypeOK, SlotsTaken
  <2>5. throttle' \in Nat /\ LoopOK'
    BY <2>1, <2>2 DEF IInv, TypeOK, LoopOK
  <2>6. NothingLost
    BY <1>1, <1>2, <2>1, <2>2 DEF IInv, Stragglers, NothingLost, NoJobLost
  <2> QED  BY <1>1, <2>1, <2>2, <2>3, <2>4, <2>5, <2>6 DEF IInv, TypeOK, TriesLeft
<1> QED  BY <1>5, <1>6, <1>7, <1>8

\* The loop's job gets a worker: within the limit that the loop tested before it
\* popped the job, in the slot that it took when it was admitted.
LEMMA DispatchKeeps == ASSUME IInv, Dispatch PROVE IInv' /\ NothingLost
<1> USE Sets DEF adapter, ends, drains, timers
<1> DEFINE j == loop.job
           new == [job |-> j, try |-> attempts[j] + 1,
                   at |-> IF j \in UnknownJobs THEN "finally" ELSE "handler"]
<1>1. /\ loop.at = "holding" /\ j \in Jobs /\ Held = {j} /\ Busy
      /\ j \in Placed /\ j \notin Handling /\ status[j] = "live"
      /\ workers' = workers \cup {new} /\ LoopTurn(queue) /\ queue \in SUBSET Jobs
      /\ UNCHANGED <<scheduled, entering, waking, batch, batching, attempts, status,
                     throttle, paused, closed, down, awaited, drainer, checks, ttl,
                     expired>>
  BY JobQueueAssumption DEF Dispatch, IInv, TypeOK, LoopOK, Held, Busy, Apart, Placed
<1>2. /\ loop' \in [at : LoopAt, job : Jobs \cup {NoJob}]
      /\ LoopOK' /\ Held' \subseteq queue /\ queue' = queue \ Held'
      /\ loop'.at \in {"off", "popped"}
      /\ Busy' => ~closed' /\ Cardinality(workers') < MaxWorkers
  BY <1>1, TurnTakes
<1>3. attempts[j] \in Nat /\ attempts[j] < MaxAttempts
  BY <1>1, JobQueueAssumption DEF IInv, TypeOK, TriesLeft
<1>4. new \in Worker
  BY <1>1, <1>3, JobQueueAssumption DEF Worker
<1>5. TypeOK'
  BY <1>1, <1>2, <1>4 DEF IInv, TypeOK
<1>6. /\ new.job = j /\ (new.at = "handler" <=> j \notin UnknownJobs)
      /\ \A w \in workers : w.at = "handler" => w.job # j
  BY <1>1 DEF Handling
<1> HIDE DEF new
<1>7. Handling' = Handling \cup ({j} \ UnknownJobs)
  <2>1. ASSUME NEW k \in Handling' PROVE k \in Handling \cup ({j} \ UnknownJobs)
    <3>1. PICK w \in workers' : w.at = "handler" /\ w.job = k
      BY DEF Handling
    <3> QED  BY <1>1, <1>6, <3>1 DEF Handling
  <2>2. ASSUME NEW k \in Handling \cup ({j} \ UnknownJobs) PROVE k \in Handling'
    <3>1. PICK w \in workers' : w.at = "handler" /\ w.job = k
      BY <1>1, <1>6 DEF Handling
    <3> QED  BY <3>1 DEF Handling
  <2> QED  BY <2>1, <2>2
<1>8. OneWrapper'
  BY <1>1, <1>6 DEF IInv, Apart, OneWrapper
<1>9. Apart'
  BY <1>1, <1>2, <1>7, <1>8 DEF IInv, Apart, Placed
<1>10. RoomLeft'
  <2>1. IsFiniteSet(workers') /\ Cardinality(workers') <= Cardinality(workers) + 1
    BY <1>1, AddOne
  <2>2. Cardinality(workers') \in Nat /\ Cardinality(workers) < MaxWorkers
    BY <1>1, <2>1, FS_CardinalityType DEF IInv, RoomLeft
  <2> QED  BY <1>2, <2>1, <2>2, JobQueueAssumption DEF RoomLeft
<1>11. SlotsTaken'
  <2>1. Handling' = Handling \/ Handling' = Handling \cup {j}
    BY <1>7
  <2>2. /\ Cardinality(Handling') \in Nat
        /\ Cardinality(Handling') <= Cardinality(Handling) + 1
    <3>1. IsFiniteSet(Handling) /\ Cardinality(Handling) \in Nat
      BY Sets
    <3>2. /\ Cardinality(Handling \cup {j}) \in Nat
          /\ Cardinality(Handling \cup {j}) <= Cardinality(Handling) + 1
      BY <3>1, AddOne
    <3>3. Cardinality(Handling') \in {Cardinality(Handling), Cardinality(Handling \cup {j})}
      BY <2>1, Zenon
    <3> QED  BY <3>1, <3>2, <3>3
  <2> QED  BY <1>1, <1>2, <2>2, JobQueueAssumption DEF IInv, TypeOK, SlotsTaken
<1>12. Stragglers'
  <2>1. IsFiniteSet(workers') /\ Cardinality(workers') <= Cardinality(workers) + 1
        /\ Cardinality(workers') \in Nat
    BY <1>1, AddOne
  <2>2. closed => Cardinality(Unawaited') <= Cardinality(Unawaited) + 1
                  /\ Cardinality(Unawaited') \in Nat
    <3>1. Unawaited' \subseteq Unawaited \cup {new}
      BY <1>1 DEF Unawaited
    <3>2. /\ IsFiniteSet(Unawaited \cup {new})
          /\ Cardinality(Unawaited \cup {new}) <= Cardinality(Unawaited) + 1
          /\ Cardinality(Unawaited \cup {new}) \in Nat
      BY AddOne
    <3> QED  BY <3>1, <3>2, FS_Subset, FS_CardinalityType
  <2>3. closed => ~Busy'
    BY <1>1, <1>2
  <2> QED  BY <1>1, <2>1, <2>2, <2>3 DEF IInv, Stragglers, LoopCount
<1>13. NothingLost
  BY <1>1, <1>2, <1>7 DEF NothingLost, NoJobLost
<1> QED  BY <1>1, <1>2, <1>5, <1>9, <1>10, <1>11, <1>12, <1>13 DEF IInv, TriesLeft

\* A handler ends: its job is settled, or goes back with an attempt left.
LEMMA HandlerKeeps ==
  ASSUME IInv, NEW w \in workers, HandlerEnds(w)
  PROVE  IInv' /\ NothingLost
<1> USE Sets DEF adapter, ends, drains, timers
<1> DEFINE j == w.job
<1>1. /\ Ended(w) /\ w.at = "handler"
      /\ UNCHANGED <<entering, batch, batching, loop, paused, closed, down, awaited,
                     drainer, checks>>
      /\ attempts' = [attempts EXCEPT ![j] = @ + 1]
  BY DEF HandlerEnds, OnSuccess, OnFailure, Retry, Ended
<1>2. /\ j \in Handling /\ j \in Jobs /\ status[j] = "live"
      /\ Handling' = Handling \ {j}
  BY <1>1, EndedHandling
<1>3. /\ workers' \subseteq Worker /\ IsFiniteSet(workers')
      /\ Cardinality(workers') <= Cardinality(workers) /\ Cardinality(workers') \in Nat
      /\ \A v \in workers' : v.at = "handler" => v \in workers
      /\ IsFiniteSet(Unawaited') /\ Cardinality(Unawaited') \in Nat
      /\ Cardinality(Unawaited') <= Cardinality(Unawaited)
  BY <1>1, EndedPromises, FS_CardinalityType
<1>4. /\ Held' = Held /\ Busy' = Busy /\ LoopCount' = LoopCount
      /\ LoopOK' /\ OneWrapper' /\ RoomLeft' /\ Stragglers'
  <2>1. Held' = Held /\ Busy' = Busy /\ LoopCount' = LoopCount
    BY <1>1 DEF Held, Busy, LoopCount
  <2>2. LoopOK' /\ OneWrapper'
    BY <1>1, <1>3 DEF IInv, LoopOK, Apart, OneWrapper
  <2>3. RoomLeft'
    BY <1>3, <2>1, JobQueueAssumption DEF IInv, RoomLeft
  <2>4. Stragglers'
    BY <1>1, <1>3, <2>1 DEF IInv, Stragglers, LoopCount
  <2> QED  BY <2>1, <2>2, <2>3, <2>4
<1>5. /\ attempts[j] \in Nat /\ attempts[j] < MaxAttempts
      /\ attempts' \in [Jobs -> 0 .. MaxAttempts]
  BY <1>1, <1>2, JobQueueAssumption DEF IInv, TypeOK, TriesLeft
<1>6. Cardinality(Handling') = Cardinality(Handling) - 1
  BY <1>2, FS_RemoveElement
<1>7. ASSUME Released(j), UNCHANGED <<queue, scheduled, waking>>,
             NEW s \in {"done", "failed"}, status' = [status EXCEPT ![j] = s]
      PROVE  IInv' /\ NothingLost
  <2>1. TypeOK'
    BY <1>1, <1>3, <1>5, <1>7 DEF Released, IInv, TypeOK, Statuses
  <2>2. Apart'
    BY <1>1, <1>2, <1>4, <1>7 DEF IInv, TypeOK, Apart, Placed
  <2>3. TriesLeft'
    BY <1>1, <1>2, <1>7 DEF IInv, TypeOK, TriesLeft
  <2>4. SlotsTaken'
    BY <1>1, <1>6, <1>7, JobQueueAssumption DEF Released, IInv, TypeOK, SlotsTaken
  <2>5. NothingLost
    BY <1>1, <1>2, <1>4, <1>7 DEF Released, IInv, TypeOK, NothingLost, NoJobLost
  <2> QED  BY <1>4, <2>1, <2>2, <2>3, <2>4, <2>5 DEF IInv
<1>8. ASSUME NEW delayed \in BOOLEAN, Retry(w, delayed) PROVE IInv' /\ NothingLost
  <2>1. /\ queue' \in {queue, queue \cup {j}}
        /\ scheduled' \in {scheduled, scheduled \cup {j}}
        /\ queue' = queue \/ scheduled' = scheduled
        /\ waking' \in {waking, waking \cup {j}}
        /\ attempts[j] + 1 < MaxAttempts
        /\ UNCHANGED <<status, throttle, ttl, expired>>
    BY <1>8 DEF Retry
  <2>2. TypeOK'
    BY <1>1, <1>2, <1>3, <1>5, <2>1 DEF IInv, TypeOK
  <2>3. Apart'
    BY <1>1, <1>2, <1>4, <2>1 DEF IInv, Apart, Placed
  <2>4. TriesLeft'
    BY <1>1, <1>2, <2>1 DEF IInv, TypeOK, TriesLeft
  <2>5. SlotsTaken'
    BY <1>1, <1>6, <2>1, JobQueueAssumption DEF IInv, TypeOK, SlotsTaken
  <2>6. NothingLost
    BY <1>1, <1>2, <1>4, <1>8, <2>1
    DEF Retry, IInv, Stragglers, NothingLost, NoJobLost
  <2> QED  BY <1>4, <2>2, <2>3, <2>4, <2>5, <2>6 DEF IInv
<1>9. CASE OnSuccess(w)
  BY <1>7, <1>9 DEF OnSuccess
<1>10. CASE OnFailure(w)
  BY <1>7, <1>10 DEF OnFailure
<1> QED  BY <1>8, <1>9, <1>10 DEF HandlerEnds

\* Steps that end in startProcessLoop.
LEMMA WakingKeeps ==
  ASSUME IInv,
         \/ BatchEnd \/ Resume
         \/ \E j \in Jobs : Wake(j)
         \/ \E w \in workers : Finally(w)
  PROVE  IInv' /\ NothingLost
<1> USE Sets DEF adapter, ends, drains, timers
<1>1. /\ UNCHANGED <<scheduled, entering, attempts, status, throttle, closed, down,
                     awaited, drainer, ttl, expired>>
      /\ StartProcessLoop(queue)
  BY DEF BatchEnd, Resume, Wake, Finally
<1>2. /\ batch' \subseteq batch /\ waking' \subseteq waking /\ batching' \in BOOLEAN
      /\ batch' = batch \/ closed
      /\ batch' # {} => batching'
      /\ paused' \in BOOLEAN /\ checks' \in Nat
  <2>1. checks \in Nat /\ (batch # {} => batching)
    BY DEF IInv, TypeOK, Apart
  <2>2. batching \in BOOLEAN /\ paused \in BOOLEAN
    BY DEF IInv, TypeOK
  <2>3. /\ batch' \subseteq batch /\ waking' \subseteq waking
        /\ batch' = batch \/ closed
    BY DEF IInv, Stragglers, BatchEnd, Resume, Wake, Finally
  <2>4. /\ UNCHANGED batching \/ batching' = FALSE
        /\ UNCHANGED paused \/ paused' = FALSE
    BY DEF BatchEnd, Resume, Wake, Finally
  <2>5. UNCHANGED <<batch, batching>> \/ batch' = {}
    BY DEF BatchEnd, Resume, Wake, Finally
  <2>6. batch' # {} => batching'
    BY <2>1, <2>5, Zenon
  <2>7. batching' \in BOOLEAN /\ paused' \in BOOLEAN
    BY <2>2, <2>4, Zenon
  <2>8. checks' \in Nat
    BY <2>1 DEF BatchEnd, Resume, Wake, Finally
  <2> QED  BY <2>3, <2>6, <2>7, <2>8
<1>3. workers' \subseteq workers /\ Handling' = Handling
  <2>1. CASE UNCHANGED workers
    BY <2>1 DEF Handling
  <2>2. ASSUME NEW w \in workers, Finally(w)
        PROVE  workers' \subseteq workers /\ Handling' = Handling
    BY <2>2 DEF Finally, Handling
  <2> QED  BY <2>1, <2>2 DEF BatchEnd, Resume, Wake
<1>4. /\ queue' \subseteq Jobs
      /\ loop' \in [at : LoopAt, job : Jobs \cup {NoJob}]
      /\ LoopOK' /\ Apart' /\ TriesLeft' /\ RoomLeft' /\ SlotsTaken' /\ Stragglers'
      /\ queue \cup Held = queue' \cup Held'
  BY <1>1, <1>2, <1>3, StartKeeps
<1>5. TypeOK'
  BY <1>1, <1>2, <1>3, <1>4 DEF IInv, TypeOK
<1>6. NothingLost
  BY <1>1, <1>2, <1>3, <1>4 DEF NothingLost, NoJobLost
<1> QED  BY <1>4, <1>5, <1>6 DEF IInv

\* shutdown() awaits what runs when it looks: all but the job the loop holds.
LEMMA ShutdownKeeps == ASSUME IInv, Shutdown \/ ShutdownReturns PROVE IInv' /\ NothingLost
<1> USE Sets DEF adapter, ends, drains, timers
<1>1. /\ UNCHANGED <<entering, waking, batch, batching, loop, workers, attempts, status,
                     throttle, paused, expired, drainer, checks>>
      /\ Held' = Held /\ Handling' = Handling /\ Busy' = Busy /\ LoopCount' = LoopCount
  BY DEF Shutdown, ShutdownReturns, Held, Handling, Busy, LoopCount
<1>2. LoopOK' /\ OneWrapper' /\ RoomLeft' /\ SlotsTaken' /\ TriesLeft'
  BY <1>1 DEF IInv, LoopOK, Apart, OneWrapper, RoomLeft, SlotsTaken, TriesLeft
<1>3. CASE Shutdown
  <2>1. Promises \subseteq Jobs \X (1 .. MaxAttempts)
    BY DEF Promises, IInv, TypeOK, Worker
  <2>2. TypeOK'
    BY <1>1, <1>3, <2>1 DEF Shutdown, IInv, TypeOK
  <2>3. Apart'
    BY <1>1, <1>2, <1>3 DEF Shutdown, IInv, Apart, Placed
  <2>4. Unawaited' = {}
    BY <1>3 DEF Shutdown, Unawaited, Promises
  <2>5. Stragglers'
    <3>1. Cardinality(Unawaited') = 0
      BY <2>4, FS_EmptySet
    <3> QED  BY <1>1, <1>3, <3>1 DEF Shutdown, IInv, Stragglers, LoopCount
  <2>6. NothingLost
    BY <1>3 DEF Shutdown, NothingLost, NoJobLost
  <2> QED  BY <1>2, <2>2, <2>3, <2>5, <2>6 DEF IInv
<1>4. CASE ShutdownReturns
  <2>1. TypeOK'
    BY <1>1, <1>4 DEF ShutdownReturns, IInv, TypeOK
  <2>2. Apart'
    BY <1>1, <1>2, <1>4 DEF ShutdownReturns, IInv, Apart, Placed
  <2>3. Unawaited = workers /\ Unawaited' = Unawaited
    BY <1>4 DEF ShutdownReturns, Unawaited, Promises
  <2>4. Stragglers'
    BY <1>1, <1>4, <2>3 DEF ShutdownReturns, IInv, Stragglers
  <2>5. NothingLost
    BY <1>4 DEF ShutdownReturns, NothingLost, NoJobLost
  <2> QED  BY <1>2, <2>1, <2>2, <2>4, <2>5 DEF IInv
<1> QED  BY <1>3, <1>4

LEMMA StepKeeps == ASSUME IInv, [Next]_vars PROVE IInv' /\ NothingLost
<1>1. CASE UNCHANGED vars
  <2>1. /\ Held' = Held /\ Handling' = Handling
        /\ LoopOK' /\ OneWrapper' /\ RoomLeft' /\ SlotsTaken' /\ Stragglers'
    BY <1>1, QuietKeeps DEF vars
  <2>2. TypeOK' /\ TriesLeft'
    BY <1>1 DEF vars, IInv, TypeOK, TriesLeft
  <2>3. Apart'
    BY <1>1, <2>1 DEF vars, IInv, Apart, Placed
  <2>4. NothingLost
    BY <1>1, <2>1 DEF vars, NothingLost, NoJobLost
  <2> QED  BY <2>1, <2>2, <2>3, <2>4 DEF IInv
<1>2. CASE Next
  BY <1>2, CallsKeep, LoopKeeps, DispatchKeeps, HandlerKeeps, WakingKeeps, ShutdownKeeps
  DEF Next, HandlerEnds
<1> QED  BY <1>1, <1>2

-----------------------------------------------------------------------------
(* Theorems                                                                *)

\* No place of a job is one of two.
LEMMA InOnePlace == ASSUME IInv PROVE OnePlace
<1>1. ASSUME NEW j \in Jobs
      PROVE  Cardinality({i \in 1 .. 6 :
               j \in <<entering, batch, queue, scheduled, Held, Handling>>[i]}) <= 1
  <2> DEFINE places == <<entering, batch, queue, scheduled, Held, Handling>>
             P == {i \in 1 .. 6 : j \in places[i]}
  <2>1. /\ places[1] = entering /\ places[2] = batch /\ places[3] = queue
        /\ places[4] = scheduled /\ places[5] = Held /\ places[6] = Handling
    OBVIOUS
  <2> HIDE DEF places
  <2>2. \A m, n \in 1 .. 6 : m < n => ~(j \in places[m] /\ j \in places[n])
    <3>1. \A m, n \in {1, 2, 3, 4, 5, 6} :
            m < n => ~(j \in places[m] /\ j \in places[n])
      BY <2>1 DEF IInv, Apart
    <3> QED  BY <3>1
  <2>3. \A m, n \in P : m = n
    BY <2>2
  <2>4. CASE P = {}
    BY <2>4, FS_EmptySet DEF places
  <2>5. ASSUME NEW m \in P PROVE Cardinality(P) <= 1
    <3> HIDE DEF P
    <3>1. P = {m}
      BY <2>3, <2>5
    <3>2. Cardinality({m}) = 1
      BY FS_Singleton
    <3> QED  BY <3>1, <3>2
  <2> QED  BY <2>4, <2>5 DEF places
<1>2. OneWrapper
  BY DEF IInv, Apart
<1> QED  BY <1>1, <1>2 DEF OnePlace, OneWrapper

LEMMA Sound == ASSUME IInv PROVE CallsSound
<1>1. TypeOK /\ WorkersBounded
  BY DEF IInv, RoomLeft, WorkersBounded
<1>2. ThrottleCaps
  BY Sets, JobQueueAssumption DEF IInv, TypeOK, SlotsTaken, ThrottleCaps
<1>3. AtMostOneStraggler
  BY Sets DEF IInv, Stragglers, LoopCount, Busy, AtMostOneStraggler
<1> QED  BY <1>1, <1>2, <1>3, InOnePlace DEF CallsSound

LEMMA Inductive == Spec => []IInv
<1>1. IInv /\ [Next]_vars => IInv'
  BY StepKeeps
<1> QED  BY InitKeeps, <1>1, PTL DEF Spec

\* At every await of the process loop: workers.max and maxConcurrent are kept, no job
\* is in two places or with two handlers, and shutdown() misses at most the one job
\* that the loop held when it looked.
THEOREM BoundsHold == Spec => []CallsSound
<1>1. IInv => CallsSound
  BY Sound
<1> QED  BY Inductive, <1>1, PTL

\* pause() lets the loop dispatch the job it already holds and no other.
THEOREM PauseHolds == Spec => PauseStartsAtMostOne
<1>1. ASSUME IInv, [Next]_vars, paused, paused'
      PROVE  (Dispatch => loop' = Off) /\ (loop.at = "off" => loop' = Off)
  <2>1. Dispatch => loop' = Off
    BY <1>1 DEF Dispatch, LoopTurn
  <2>2. ASSUME loop.at = "off" PROVE loop' = Off
    <3>1. loop = Off
      BY <1>1, <2>2 DEF IInv, LoopOK
    <3>2. CASE UNCHANGED loop
      BY <3>1, <3>2
    <3>3. CASE StartProcessLoop(queue)
      BY <1>1, <3>1, <3>3 DEF StartProcessLoop
    <3>4. CASE UNCHANGED vars
      BY <3>2, <3>4 DEF vars
    <3>5. CASE LoopEnds \/ Discard \/ Refuse \/ Admit \/ Dispatch
      BY <2>2, <3>5 DEF LoopEnds, Discard, Refuse, Admit, Dispatch
    <3>6. CASE \E w \in workers : HandlerEnds(w) \/ Finally(w)
      BY <3>2, <3>3, <3>6 DEF HandlerEnds, OnSuccess, OnFailure, Retry, Finally
    <3>7. CASE \E j \in Jobs : Due(j) \/ Expire(j) \/ Enqueue(j) \/ Entered(j) \/ Wake(j)
      BY <3>2, <3>3, <3>7 DEF Due, Expire, Enqueue, Entered, Wake
    <3>8. CASE (\E jobs \in SUBSET Jobs : EnqueueBatch(jobs)) \/ \E j \in Jobs : BatchPush(j)
      BY <3>2, <3>8 DEF EnqueueBatch, BatchPush
    <3>9. CASE BatchEnd \/ Pause \/ Resume \/ Clear \/ CheckAnswered \/ Shutdown
               \/ ShutdownReturns \/ \E d \in Drainers : Drain(d) \/ DrainSized(d)
      BY <3>2, <3>3, <3>9 DEF BatchEnd, Pause, Resume, Clear, CheckAnswered, Shutdown,
         ShutdownReturns, Drain, DrainSized
    <3> QED  BY <1>1, <3>4, <3>5, <3>6, <3>7, <3>8, <3>9 DEF Next, HandlerEnds
  <2> QED  BY <2>1, <2>2
<1>2. IInv /\ [Next]_vars =>
        [paused /\ paused' => /\ Dispatch => loop' = Off
                              /\ loop.at = "off" => loop' = Off]_vars
  BY <1>1
<1> QED  BY Inductive, <1>2, PTL DEF Spec, PauseStartsAtMostOne

\* No accepted job is lost between two awaits: of what leaves one place every job is
\* in another one by the end of the step, is settled, or has no handler.
THEOREM JobsKept == Spec => []NoJobLost
<1>1. Init => NoJobLost
  BY DEF Init, NoJobLost
<1>2. IInv /\ NoJobLost /\ [Next]_vars => NoJobLost'
  BY StepKeeps DEF NothingLost
<1> QED  BY Inductive, <1>1, <1>2, PTL DEF Spec

-----------------------------------------------------------------------------
(* Who starts the loop                                                     *)

\* A turn of the loop leaves nothing unseen; it ends the loop only when it is closed
\* or paused, or workers will start it again.
LEMMA TurnWakes ==
  ASSUME IInv, LoopTurn(queue), IsFiniteSet(workers')
  PROVE  WakeInv'
<1>1. queue \in SUBSET Jobs
  BY DEF IInv, TypeOK
<1>2. /\ queue' \subseteq queue
      /\ loop'.at \in {"off", "popped"}
      /\ ~Busy' => closed' \/ paused' \/ ~(Cardinality(workers') < MaxWorkers)
      /\ loop'.at = "popped" /\ loop'.job = NoJob => queue' = {}
  BY <1>1, TurnTakes
<1>3. workers' = {} => Cardinality(workers') < MaxWorkers
  BY FS_EmptySet, JobQueueAssumption
<1>4. \A j \in queue' : ~Unseen'
  BY <1>2 DEF Unseen
<1>5. NoLostWakeup'
  BY <1>2, <1>3 DEF NoLostWakeup, Busy
<1> QED  BY <1>2, <1>4, <1>5 DEF WakeInv

\* A step that leaves loop, workers and slots alone: whatever it queues, it carries.
LEMMA QuietWakes ==
  ASSUME WakeInv, UNCHANGED <<loop, workers, throttle, closed>>, paused => paused',
         waking \subseteq waking', batching => batching',
         \A j \in queue' \ queue : j \in waking' \/ batching' \/ closed'
  PROVE  WakeInv'
<1>1. ASSUME NEW j \in queue', Unseen' PROVE Carried(j)' \/ closed'
  <2>1. CASE j \in queue
    BY <1>1, <2>1 DEF WakeInv, Unseen, Carried
  <2> QED  BY <1>1, <2>1 DEF Carried
<1>2. NoLostWakeup'
  BY DEF WakeInv, NoLostWakeup
<1> QED  BY <1>1, <1>2 DEF WakeInv

\* startProcessLoop, called by a step that carried only what the loop has seen.
LEMMA StartWakes ==
  ASSUME IInv, WakeInv, StartProcessLoop(queue), workers' \subseteq workers,
         UNCHANGED <<throttle, closed>>,
         loop.at = "refused" => workers' = workers,
         \A j \in queue : Unseen /\ Carried(j) => Carried(j)'
  PROVE  WakeInv'
<1>1. CASE LoopTurn(queue)
  <2>1. IsFiniteSet(workers')
    BY Sets, FS_Subset
  <2> QED  BY <1>1, <2>1, TurnWakes
<1>2. CASE loop' = loop /\ queue' = queue /\ (loop.at # "off" \/ closed' \/ paused')
  <2>1. \A j \in queue' : Unseen' => Carried(j)' \/ closed'
    BY <1>2 DEF WakeInv, Unseen
  <2>2. NoLostWakeup'
    BY <1>2 DEF NoLostWakeup
  <2> QED  BY <1>2, <2>1, <2>2 DEF WakeInv
<1> QED  BY <1>1, <1>2, StartTakes

LEMMA StepWakes ==
  ASSUME IInv, WakeInv, [Next]_vars
  PROVE  WakeInv'
<1> USE DEF adapter, ends, drains, timers
<1>1. CASE \/ \E j \in Jobs : Due(j) \/ Expire(j) \/ Enqueue(j) \/ Entered(j)
           \/ \E j \in Jobs : BatchPush(j)
           \/ \E jobs \in SUBSET Jobs : EnqueueBatch(jobs)
           \/ Pause \/ Clear \/ CheckAnswered
           \/ \E d \in Drainers : Drain(d) \/ DrainSized(d)
           \/ UNCHANGED vars
  <2>1. /\ UNCHANGED <<loop, workers, throttle, closed>>
        /\ waking \subseteq waking'
    BY <1>1 DEF Due, Expire, Enqueue, Entered, EnqueueBatch, BatchPush, Pause, Clear,
       CheckAnswered, Drain, DrainSized, vars
  <2>2. /\ paused => paused'
        /\ batching => batching'
    BY <1>1 DEF Due, Expire, Enqueue, Entered, EnqueueBatch, BatchPush, Pause, Clear,
       CheckAnswered, Drain, DrainSized, vars
  <2>3. \A j \in queue' \ queue : j \in waking' \/ batching' \/ closed'
    BY <1>1 DEF Due, Expire, Enqueue, Entered, EnqueueBatch, BatchPush, Pause, Clear,
       CheckAnswered, Drain, DrainSized, vars, IInv, Stragglers, Apart
  <2> QED  BY <2>1, <2>2, <2>3, QuietWakes
<1>3. CASE LoopEnds
  <2>1. /\ loop' = Off
        /\ UNCHANGED <<queue, workers, waking, batching, throttle, closed>>
        /\ loop.at = "refused" \/ \A j \in queue : Unseen
    BY <1>3 DEF LoopEnds, Unseen
  <2>2. NoLostWakeup'
    BY <2>1 DEF WakeInv, NoLostWakeup, Carried
  <2> QED  BY <2>1, <2>2 DEF WakeInv, Unseen, Off
<1>4. CASE Discard
  BY <1>4, Sets, TurnWakes DEF Discard
<1>5. CASE Refuse
  <2>1. loop'.at = "refused" /\ MaxConcurrent # 0 /\ throttle' >= MaxConcurrent
    BY <1>5 DEF Refuse
  <2> QED  BY <2>1 DEF WakeInv, NoLostWakeup, Unseen
<1>6. CASE Admit
  <2>1. loop'.at = "holding"
    BY <1>6 DEF Admit, IInv, TypeOK
  <2> QED  BY <2>1 DEF WakeInv, NoLostWakeup, Unseen
<1>7. CASE Dispatch
  <2>1. IsFiniteSet(workers')
    BY <1>7, Sets, AddOne DEF Dispatch
  <2> QED  BY <1>7, <2>1, TurnWakes DEF Dispatch
<1>8. ASSUME NEW w \in workers, HandlerEnds(w) PROVE WakeInv'
  <2> DEFINE done == [w EXCEPT !.at = "finally"]
  <2>1. /\ w \in Worker /\ Ended(w)
        /\ UNCHANGED <<loop, batching, closed, paused>> /\ waking \subseteq waking'
    BY <1>8 DEF HandlerEnds, OnSuccess, OnFailure, Retry, IInv, TypeOK
  <2>2. /\ done.at = "finally" /\ done.job = w.job /\ done \in workers'
        /\ w.at = "handler" /\ \A v \in workers : v # w => v \in workers'
    BY <2>1 DEF Ended, Worker
  <2> HIDE DEF done
  <2>3. queue' \subseteq queue \cup {w.job}
    BY <1>8 DEF HandlerEnds, OnSuccess, OnFailure, Retry
  <2>4. ASSUME NEW j \in queue', Unseen' PROVE Carried(j)' \/ closed'
    <3>1. CASE j = w.job
      BY <2>2, <3>1 DEF Carried
    <3>2. CASE j \in queue
      <4>1. Carried(j) \/ closed
        BY <2>1, <2>4, <3>2 DEF WakeInv, Unseen
      <4> QED  BY <2>1, <2>2, <4>1 DEF Carried
    <3> QED  BY <2>3, <3>1, <3>2
  <2> QED  BY <2>1, <2>2, <2>4 DEF WakeInv, NoLostWakeup
<1>9. ASSUME NEW w \in workers, Finally(w) PROVE WakeInv'
  <2>1. /\ w.at = "finally" /\ workers' = workers \ {w} /\ StartProcessLoop(queue)
        /\ ~(w.job \in queue /\ Unseen) /\ ~Refusing
        /\ UNCHANGED <<throttle, closed, waking, batching>>
    BY <1>9 DEF Finally
  <2>2. loop.at # "refused"
    BY <2>1 DEF Refusing, WakeInv
  <2>3. ASSUME NEW j \in queue, Unseen, Carried(j) PROVE Carried(j)'
    BY <2>1, <2>3 DEF Carried
  <2> QED  BY <2>1, <2>2, <2>3, StartWakes
<1>10. ASSUME NEW j \in Jobs, Wake(j) PROVE WakeInv'
  <2>1. /\ ~Unseen /\ waking' = waking \ {j} /\ StartProcessLoop(queue)
        /\ UNCHANGED <<throttle, closed, workers, batching>>
    BY <1>10 DEF Wake
  <2>2. ASSUME NEW k \in queue, Unseen, Carried(k) PROVE Carried(k)'
    BY <2>1, <2>2 DEF Carried
  <2> QED  BY <2>1, <2>2, StartWakes
<1>11. CASE BatchEnd \/ Resume
  <2>1. /\ StartProcessLoop(queue) /\ UNCHANGED <<throttle, closed, workers, waking>>
        /\ batching' = batching \/ TimerTurn
    BY <1>11 DEF BatchEnd, Resume
  <2>2. ASSUME NEW k \in queue, Unseen, Carried(k) PROVE Carried(k)'
    BY <2>1, <2>2 DEF Carried, TimerTurn, Unseen
  <2> QED  BY <2>1, <2>2, StartWakes
<1>12. CASE Shutdown \/ ShutdownReturns
  BY <1>12 DEF Shutdown, ShutdownReturns, WakeInv, NoLostWakeup
<1> QED  BY <1>1, <1>3, <1>4, <1>5, <1>6, <1>7, <1>8, <1>9, <1>10, <1>11, <1>12
         DEF Next, HandlerEnds

\* No job is left in the adapter with nobody to start the loop: what pop() did not see
\* brings a wakeup that runs after pop() has returned.
THEOREM WakeupsKept == Spec => []NoLostWakeup
<1>1. Init => WakeInv
  BY DEF Init, WakeInv, NoLostWakeup, Off
<1>2. IInv /\ WakeInv /\ [Next]_vars => WakeInv'
  BY StepWakes
<1>3. WakeInv => NoLostWakeup
  BY DEF WakeInv
<1> QED  BY Inductive, <1>1, <1>2, <1>3, PTL DEF Spec
=============================================================================
