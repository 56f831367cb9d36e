------------------------------- MODULE Flows -------------------------------
(***************************************************************************)
(* FlowController and DeadLetterQueue (packages/queueovn/src): chains and  *)
(* dependency graphs that create the next jobs when a job completes, the   *)
(* dead letters a job ends in and is retried from, their records in the    *)
(* queue's log, and what a restart makes of the log.                       *)
(*                                                                         *)
(* The adapter is in memory: a crash empties it, flow jobs have no ENQUEUE *)
(* record, and a restart pushes what the newest snapshot holds.  The log is*)
(* written through a stream, so a crash keeps a prefix of it; the written  *)
(* part is represented by what its replay gives.                           *)
(* A job is <<chain, step>> or <<node, 0>>; its id and a chain's, being    *)
(* random, are never a node's name.  Graphs name their nodes apart.        *)
(***************************************************************************)
EXTENDS Integers, FiniteSets, Sequences, SequencesExt

CONSTANTS
  Chains,      \* calls of chain()
  Steps,       \* steps of every chain
  Dags,        \* calls of dag()
  Nodes,       \* node names, of all graphs
  NodesOf(_),  \* the nodes of a graph, in the order of its keys
  Deps(_),     \* dependsOn of a node
  Retriers,    \* calls of retry() and retryAll()
  MaxAttempts(_), \* maxAttempts of a job
  MaxUnwritten, \* bound: records the log's stream is behind
  FlowBudgets  \* bounds: what a run may see, chains and graphs, crashes, snapshots,
               \* retry calls, and jobs dropped from the queue in one life

ASSUME FlowsAssumption ==
  /\ Steps \in Nat \ {0} /\ MaxUnwritten \in Nat
  /\ \A g \in FlowBudgets :
       g.crashes \in Nat /\ g.snaps \in Nat /\ g.calls \subseteq Retriers /\ g.drops \in Nat
  /\ \A d \in Dags : NodesOf(d) \in Seq(Nodes) /\ IsInjective(NodesOf(d))
  /\ \A d, e \in Dags : d # e => ToSet(NodesOf(d)) \cap ToSet(NodesOf(e)) = {}
  /\ \A n \in Nodes : Deps(n) \subseteq Nodes
  /\ Chains \cap Nodes = {} /\ Chains \cap Dags = {}
  /\ ((Chains \X (1 .. Steps)) \cup (Nodes \X {0})) \cap Nodes = {}
  /\ \A j \in (Chains \X (1 .. Steps)) \cup (Nodes \X {0}) : MaxAttempts(j) \in Nat \ {0}

Jobs == (Chains \X (1 .. Steps)) \cup (Nodes \X {0})

VARIABLES
  chainMap,   \* currentIndex of a chain, 0 when it has no entry
  dagNodes,   \* the Map of nodes not unlocked yet, in its order (and roots)
  doneDeps,   \* completedDeps of a node
  tracked,    \* nodes whose job is in jobToNode
  rooting,    \* per dag() call: the roots it has yet to push
  unlocking,  \* unlockDAGDependents under way: <<completed node, visited>>
  queue,      \* jobs in the adapter
  running,    \* jobs whose handler runs
  twins,      \* jobs of which two copies run
  attempts,   \* job.attempts
  dlq,        \* the dead letters, in capture order
  retrying,   \* per retry call: the ids left and the job in its hands
  disk,       \* what restoreFromWAL makes of the records in the log file
  stream,     \* records appended and not yet written to the file
  entered,    \* jobs pushed into the adapter in this life
  snap,       \* jobs in the newest snapshot
  cutting,    \* a snapshot was renamed into place and the log is not cut yet
  crashes, snaps,
  flowBudget,     \* the bounds of this behaviour, one of FlowBudgets
  started,    \* history: chains and graphs registered
  created,    \* history: jobs ever created
  completed,  \* history: jobs that completed
  failed,     \* history of this life: jobs that failed for good
  dropped,    \* history of this life: jobs expired, discarded, cleared, purged
  revived     \* history: jobs a restart pushed from a snapshot

flows   == <<chainMap, dagNodes, doneDeps, tracked, rooting, unlocking>>
letters == <<dlq, retrying>>
workers == <<running, twins>>
life    == <<snap, cutting, crashes, snaps, flowBudget, revived>>
past    == <<started, created, completed, failed, dropped>>
flowVars == <<chainMap, dagNodes, doneDeps, tracked, rooting, unlocking, queue,
          running, twins, attempts, dlq, retrying, disk, stream, entered, snap, cutting,
          crashes, snaps, flowBudget, started, created, completed, failed, dropped,
          revived>>

Flow(j)  == j[1]
Hands(todo, hold) == [called |-> TRUE, todo |-> todo, hold |-> hold]
Uncalled == [called |-> FALSE, todo |-> <<>>, hold |-> {}]
NodeJob(n) == <<n, 0>>
Nothing  == [chain |-> [f \in Chains |-> 0], nodes |-> <<>>,
             deps |-> [n \in Nodes |-> {}], dlq |-> <<>>]

FlowTypeOK ==
  /\ chainMap \in [Chains -> 0 .. Steps]
  /\ dagNodes \in Seq(Nodes)
  /\ doneDeps \in [Nodes -> SUBSET Nodes]
  /\ tracked \subseteq Nodes
  /\ rooting \in [Dags -> Seq(Nodes)]
  /\ queue \subseteq Jobs /\ running \subseteq Jobs
  /\ entered \subseteq Jobs /\ snap \subseteq Jobs /\ cutting \in BOOLEAN
  /\ \A j \in Jobs : attempts[j] \in 0 .. MaxAttempts(j)
  /\ dlq \in Seq(Jobs)
  /\ \A r \in Retriers : retrying[r].hold \subseteq Jobs
  /\ flowBudget \in FlowBudgets
  /\ crashes \in 0 .. flowBudget.crashes /\ snaps \in 0 .. flowBudget.snaps

FlowInit ==
  /\ chainMap = [f \in Chains |-> 0]
  /\ dagNodes = <<>> /\ doneDeps = [n \in Nodes |-> {}]
  /\ tracked = {} /\ rooting = [d \in Dags |-> <<>>] /\ unlocking = {}
  /\ queue = {} /\ running = {} /\ twins = {} /\ attempts = [j \in Jobs |-> 0]
  /\ entered = {} /\ snap = {} /\ cutting = FALSE /\ snaps = 0 /\ revived = {}
  /\ dlq = <<>> /\ retrying = [r \in Retriers |-> Uncalled]
  /\ disk = Nothing /\ stream = <<>>
  /\ crashes = 0 /\ flowBudget \in FlowBudgets
  /\ started = {} /\ created = {} /\ completed = {} /\ failed = {}
  /\ dropped = {}

\* The elements of q that are not in S, in their order.
Without(q, S) ==
  LET kept[i \in 0 .. Len(q)] ==
        IF i = 0 THEN <<>> ELSE IF q[i] \in S THEN kept[i - 1] ELSE Append(kept[i - 1], q[i])
  IN kept[Len(q)]

\* Map.set: a key that is there keeps its place.
SetAll(m, ns) == m \o Without(ns, ToSet(m))

\* completedDeps of the nodes ns begin empty.
Cleared(deps, ns) == [n \in Nodes |-> IF n \in ToSet(ns) THEN {} ELSE deps[n]]

\* restoreFromWAL of both, for one record.
Restore(S, e) ==
  CASE e.op = "CHAIN_REGISTER" -> [S EXCEPT !.chain[e.id] = 1]
    [] e.op = "CHAIN_ADVANCE" ->
         IF S.chain[e.id] = 0 THEN S ELSE [S EXCEPT !.chain[e.id] = e.step]
    [] e.op = "CHAIN_COMPLETE" -> [S EXCEPT !.chain[e.id] = 0]
    [] e.op = "DAG_REGISTER" ->
         [S EXCEPT !.nodes = SetAll(@, e.nodes), !.deps = Cleared(@, e.nodes)]
    [] e.op = "DAG_COMPLETE_DEP" ->
         IF e.id \in ToSet(S.nodes) THEN [S EXCEPT !.deps[e.id] = @ \cup {e.dep}] ELSE S
    [] e.op = "DLQ_ADD" -> [S EXCEPT !.dlq = SetAll(@, <<e.id>>)]
    [] e.op = "DLQ_REMOVE" -> [S EXCEPT !.dlq = Without(@, {e.id})]

Replay(S, records) ==
  LET after[n \in 0 .. Len(records)] ==
        IF n = 0 THEN S ELSE Restore(after[n - 1], records[n])
  IN after[Len(records)]

\* append: through the stream, which is at most MaxUnwritten records behind.
Log(records) ==
  LET all  == stream \o records
      late == IF Len(all) > MaxUnwritten THEN Len(all) - MaxUnwritten ELSE 0
  IN IF crashes = flowBudget.crashes THEN UNCHANGED <<disk, stream>>
     ELSE /\ disk' = Replay(disk, SubSeq(all, 1, late))
          /\ stream' = SubSeq(all, late + 1, Len(all))

\* createJob and push: the jobs of S enter the adapter.
Create(S) ==
  /\ queue' = queue \cup S
  /\ entered' = entered \cup S
  /\ created' = created \cup S

----------------------------------------------------------------------------
(* Chains.                                                                 *)

Chain(f) ==
  /\ f \in flowBudget.starts \ started
  /\ started' = started \cup {f}
  /\ chainMap' = [chainMap EXCEPT ![f] = 1]
  /\ Log(<<[op |-> "CHAIN_REGISTER", id |-> f]>>)
  /\ Create({<<f, 1>>})
  /\ UNCHANGED <<dagNodes, doneDeps, tracked, rooting, unlocking, workers,
                 attempts, letters, life, completed, failed, dropped>>

\* Mutant: the log does not learn that a chain advanced.
AdvanceChainUnlogged(f, removed) ==
  IF chainMap[f] = Steps
  THEN /\ chainMap' = [chainMap EXCEPT ![f] = 0]
       /\ Log(removed \o <<[op |-> "CHAIN_COMPLETE", id |-> f]>>)
       /\ Create({})
  ELSE /\ chainMap' = [chainMap EXCEPT ![f] = @ + 1]
       /\ Log(removed)
       /\ Create({<<f, chainMap[f] + 1>>})

\* advanceChain: record, then create the next step; removed are the records of
\* the completion that come first.
AdvanceChain(f, removed) ==
  IF chainMap[f] = Steps
  THEN /\ chainMap' = [chainMap EXCEPT ![f] = 0]
       /\ Log(removed \o <<[op |-> "CHAIN_COMPLETE", id |-> f]>>)
       /\ Create({})
  ELSE /\ chainMap' = [chainMap EXCEPT ![f] = @ + 1]
       /\ Log(removed \o <<[op |-> "CHAIN_ADVANCE", id |-> f, step |-> chainMap[f] + 1]>>)
       /\ Create({<<f, chainMap[f] + 1>>})

----------------------------------------------------------------------------
(* Graphs.                                                                 *)

\* The nodes reached from x along deps, as the cancellation's search visits: they are
\* in every set that holds what depends on x or on a member.
Downstream(x) ==
  {n \in Nodes : \A S \in SUBSET Nodes :
     (\A q \in Nodes : x \in Deps(q) \/ Deps(q) \cap S # {} => q \in S) => n \in S}

\* Kahn's sort reaches every node of the graph: none are left that wait for each other.
Sortable(d) ==
  LET ns == ToSet(NodesOf(d)) IN
  /\ \A n \in ns : Deps(n) \subseteq ns
  /\ \A S \in SUBSET ns : S # {} => \E n \in S : Deps(n) \cap S = {}

\* dag(): the nodes are registered and logged with all others in the Map, then
\* the roots are pushed one by one, an await after each.  A cycle throws first.
Dag(d) ==
  /\ d \in flowBudget.starts \ started /\ Sortable(d)
  /\ started' = started \cup {d}
  /\ dagNodes' = SetAll(dagNodes, NodesOf(d))
  /\ doneDeps' = Cleared(doneDeps, NodesOf(d))
  /\ Log(<<[op |-> "DAG_REGISTER", id |-> d, nodes |-> dagNodes']>>)
  /\ rooting' = [rooting EXCEPT ![d] = Without(NodesOf(d), {n \in Nodes : Deps(n) # {}})]
  /\ UNCHANGED <<chainMap, tracked, unlocking, queue, entered, workers, attempts,
                 letters, life, created, completed, failed, dropped>>

DagPush(d) ==
  /\ rooting[d] # <<>>
  /\ rooting' = [rooting EXCEPT ![d] = Tail(@)]
  /\ tracked' = tracked \cup {Head(rooting[d])}
  /\ Create({NodeJob(Head(rooting[d]))})
  /\ UNCHANGED <<chainMap, dagNodes, doneDeps, unlocking, workers, attempts,
                 letters, disk, stream, life, started, completed, failed, dropped>>

\* completedDeps reaches the size of deps when c is added.
Ready(n, c) == doneDeps[n] \cup {c} = Deps(n)

\* The loop of unlockDAGDependents up to its next await: every dependent of c
\* met is marked and logged, the first one complete is unlocked.
UnlockFrom(c, visited, records) ==
  LET ns    == Without(dagNodes, visited)
      hits(s) == Without(s, {n \in Nodes : c \notin Deps(n)})
      ready == {k \in 1 .. Len(ns) : c \in Deps(ns[k]) /\ Ready(ns[k], c)}
      last  == IF ready = {} THEN Len(ns) ELSE CHOOSE k \in ready : \A q \in ready : k <= q
      seen  == SubSeq(ns, 1, last)
      unlocked == IF ready = {} THEN {} ELSE {ns[last]}
      marked == ToSet(hits(seen))
  IN /\ doneDeps' = [n \in Nodes |-> IF n \in marked THEN doneDeps[n] \cup {c} ELSE doneDeps[n]]
     /\ Log(records \o [k \in 1 .. Len(hits(seen)) |->
              [op |-> "DAG_COMPLETE_DEP", id |-> hits(seen)[k], dep |-> c]])
     /\ dagNodes' = Without(dagNodes, unlocked)
     /\ tracked' = (tracked \ {c}) \cup unlocked
     /\ Create({NodeJob(n) : n \in unlocked})
     /\ unlocking' = (unlocking \ {<<c, visited>>})
          \cup (IF ready = {} THEN {} ELSE {<<c, visited \cup ToSet(seen)>>})

UnlockNext(c, visited) ==
  /\ <<c, visited>> \in unlocking
  /\ UnlockFrom(c, visited, <<>>)
  /\ UNCHANGED <<chainMap, rooting, workers, attempts, letters, life, started,
                 completed, failed, dropped>>

----------------------------------------------------------------------------
(* Jobs: what the queue does with them, and what it then calls.            *)

\* A job a snapshot brought back is popped beside its copy from the dead letters.
Pop(j) ==
  /\ j \in queue
  /\ queue' = queue \ {j}
  /\ running' = running \cup {j}
  /\ twins' = twins \cup ({j} \cap running)
  /\ UNCHANGED <<flows, attempts, letters, disk, stream, entered, life, past>>

\* One copy of the job ends.
CopyEnds(j) ==
  /\ j \in running
  /\ running' = running \ ({j} \ twins)
  /\ twins' = twins \ {j}

\* An attempt more.  The copies of a job that a snapshot brought back have made
\* different numbers of attempts: theirs are not counted.
Attempted(j) == attempts' = [attempts EXCEPT ![j] = IF j \in revived THEN @ ELSE @ + 1]

\* onSuccess: DeadLetterQueue.onComplete, then onJobComplete.
Complete(j) ==
  LET removed == IF j \in ToSet(dlq) THEN <<[op |-> "DLQ_REMOVE", id |-> j]>> ELSE <<>>
  IN /\ CopyEnds(j)
     /\ completed' = completed \cup {j}
     /\ dlq' = Without(dlq, {j})
     /\ IF Flow(j) \in Chains /\ chainMap[Flow(j)] # 0
        THEN /\ AdvanceChain(Flow(j), removed)
             /\ UNCHANGED <<dagNodes, doneDeps, tracked, unlocking>>
        ELSE /\ IF Flow(j) \in tracked
                THEN UnlockFrom(Flow(j), {}, removed)
                ELSE /\ Create({}) /\ Log(removed)
                     /\ UNCHANGED <<dagNodes, doneDeps, tracked, unlocking>>
             /\ UNCHANGED chainMap
     /\ UNCHANGED <<rooting, attempts, retrying, life, started, failed, dropped>>

\* A failed attempt that is retried at once.
Retry(j) ==
  /\ CopyEnds(j) /\ (j \in revived \/ attempts[j] + 1 < MaxAttempts(j))
  /\ Attempted(j)
  /\ queue' = queue \cup {j}
  /\ UNCHANGED <<flows, letters, disk, stream, entered, life, past>>

\* onFailure for good: DeadLetterQueue.onFail, then onJobFail, whose
\* cancelDownstream searches the deps, which are names, for the job's id.
FailForGood(j) ==
  LET chained == Flow(j) \in Chains /\ chainMap[Flow(j)] # 0
  IN /\ CopyEnds(j) /\ (j \in revived \/ attempts[j] + 1 >= MaxAttempts(j))
     /\ Attempted(j)
     /\ failed' = failed \cup {j}
     /\ dlq' = SetAll(dlq, <<j>>)
     /\ chainMap' = [f \in Chains |-> IF f = Flow(j) THEN 0 ELSE chainMap[f]]
     /\ Log(<<[op |-> "DLQ_ADD", id |-> j]>>
              \o IF chained THEN <<[op |-> "CHAIN_COMPLETE", id |-> Flow(j)]>> ELSE <<>>)
     /\ dagNodes' = Without(dagNodes, Downstream(j))
     /\ UNCHANGED <<doneDeps, tracked, rooting, unlocking, queue, entered, retrying,
                    life, started, created, completed, dropped>>

\* The job expires, is discarded by a plugin or cleared: no flow is told.
Drop(j) ==
  /\ j \in queue /\ Cardinality(dropped) < flowBudget.drops
  /\ queue' = queue \ {j}
  /\ dropped' = dropped \cup {j}
  /\ UNCHANGED <<flows, workers, attempts, letters, disk, stream, entered, life, started,
                 created, completed, failed>>

----------------------------------------------------------------------------
(* Dead letters.                                                           *)

\* Mutant: retryAll empties the map before it starts.
RetryTakeClears(r, ids) ==
  IF ids = <<>> \/ Head(ids) \notin ToSet(dlq)
  THEN /\ retrying' = [retrying EXCEPT ![r] = Hands(<<>>, {})]
       /\ Log(<<>>) /\ UNCHANGED dlq
  ELSE /\ retrying' = [retrying EXCEPT ![r] = Hands(Tail(ids), {Head(ids)})]
       /\ Log(<<[op |-> "DLQ_REMOVE", id |-> Head(ids)]>>)
       /\ dlq' = <<>>

\* One iteration of retryAll up to its await: an id no longer there throws,
\* and ends the loop.
RetryTake(r, ids) ==
  IF ids = <<>> \/ Head(ids) \notin ToSet(dlq)
  THEN /\ retrying' = [retrying EXCEPT ![r] = Hands(<<>>, {})]
       /\ Log(<<>>) /\ UNCHANGED dlq
  ELSE /\ retrying' = [retrying EXCEPT ![r] = Hands(Tail(ids), {Head(ids)})]
       /\ Log(<<[op |-> "DLQ_REMOVE", id |-> Head(ids)]>>)
       /\ dlq' = Without(dlq, {Head(ids)})

RetryCall(r, ids) ==
  /\ r \in flowBudget.calls /\ ~retrying[r].called /\ ids # <<>>
  /\ RetryTake(r, ids)
  /\ UNCHANGED <<flows, queue, entered, workers, attempts, life, past>>

\* The entry's job is pushed with its attempts reset.
RetryPush(r) ==
  /\ retrying[r].hold # {}
  /\ queue' = queue \cup retrying[r].hold
  /\ entered' = entered \cup retrying[r].hold
  /\ attempts' = [j \in Jobs |-> IF j \in retrying[r].hold THEN 0 ELSE attempts[j]]
  /\ retrying' = [retrying EXCEPT ![r].hold = {}]
  /\ UNCHANGED <<flows, workers, dlq, disk, stream, life, past>>

RetryNext(r) ==
  /\ retrying[r].hold = {} /\ retrying[r].todo # <<>>
  /\ RetryTake(r, retrying[r].todo)
  /\ UNCHANGED <<flows, queue, entered, workers, attempts, life, past>>

\* purge(olderThan): the entries captured first go.
Purge(n) ==
  /\ n \in 1 .. Len(dlq)
  /\ dlq' = SubSeq(dlq, n + 1, Len(dlq))
  /\ Log([k \in 1 .. n |-> [op |-> "DLQ_REMOVE", id |-> dlq[k]]])
  /\ dropped' = dropped \cup {dlq[k] : k \in 1 .. n}
  /\ UNCHANGED <<flows, queue, entered, workers, attempts, retrying, life, started,
                 created, completed, failed>>

----------------------------------------------------------------------------
(* Snapshots and restart.                                                  *)

\* write() of the periodic snapshot ends with the rename.  It asked the adapter for its
\* jobs some awaits ago, those that run and those that ended among them: for a part of
\* what entered.
Snapshot ==
  /\ ~cutting /\ crashes < flowBudget.crashes /\ snaps < flowBudget.snaps
  /\ snap' = entered /\ cutting' = TRUE /\ snaps' = snaps + 1
  /\ UNCHANGED <<flows, queue, entered, workers, attempts, letters, disk, stream, crashes,
                 flowBudget, past, revived>>

\* onSuccess: the log is cut, flow and dead-letter records included.
Truncate ==
  /\ cutting /\ cutting' = FALSE
  /\ disk' = Nothing /\ stream' = <<>>
  /\ UNCHANGED <<flows, queue, entered, workers, attempts, letters, snap, crashes, snaps,
                 flowBudget, past, revived>>

\* The process dies when n of the records in the stream are in the file, and the
\* queue is started again.  Recovery.run pushes the jobs of the snapshot, back being
\* those it held that no record of a later end removes; then flows and dead letters
\* are restored.  The ids restored into jobToNode are the ones dag() logged, which no
\* job has.
Crash(n, back) ==
  LET S == Replay(disk, SubSeq(stream, 1, n))
  IN
  /\ crashes < flowBudget.crashes /\ n \in 0 .. Len(stream)
  /\ crashes' = crashes + 1
  /\ chainMap' = S.chain /\ dagNodes' = S.nodes /\ doneDeps' = S.deps
  /\ dlq' = S.dlq
  /\ disk' = (IF crashes' < flowBudget.crashes THEN S ELSE Nothing) /\ stream' = <<>>
  /\ tracked' = {} /\ rooting' = [d \in Dags |-> <<>>] /\ unlocking' = {}
  /\ back \subseteq snap
  /\ queue' = back /\ entered' = back /\ revived' = revived \cup back
  /\ running' = {} /\ twins' = {} /\ cutting' = FALSE
  /\ retrying' = [r \in Retriers |->
                    IF retrying[r].called THEN Hands(<<>>, {}) ELSE Uncalled]
  /\ attempts' = [j \in Jobs |-> 0] /\ failed' = {} /\ dropped' = {}
  /\ UNCHANGED <<snap, snaps, flowBudget, started, created, completed>>

----------------------------------------------------------------------------
FlowNext ==
  \/ \E f \in Chains : Chain(f)
  \/ \E d \in Dags : Dag(d)
  \/ \E d \in Dags : DagPush(d)
  \/ \E u \in unlocking : UnlockNext(u[1], u[2])
  \/ \E j \in Jobs : Pop(j)
  \/ \E j \in Jobs : Complete(j)
  \/ \E j \in Jobs : Retry(j)
  \/ \E j \in Jobs : FailForGood(j)
  \/ \E j \in Jobs : Drop(j)
  \/ \E r \in Retriers : RetryCall(r, dlq)
  \/ \E r \in Retriers, j \in Jobs : RetryCall(r, <<j>>)
  \/ \E r \in Retriers : RetryPush(r)
  \/ \E r \in Retriers : RetryNext(r)
  \/ \E n \in 1 .. Cardinality(Jobs) : Purge(n)
  \/ Snapshot
  \/ Truncate
  \/ \E n \in 0 .. MaxUnwritten, back \in SUBSET snap : Crash(n, back)

FlowSpec == FlowInit /\ [][FlowNext]_flowVars

----------------------------------------------------------------------------
(* Properties.                                                             *)

\* What must have completed before a job may exist.
Before(j) ==
  IF Flow(j) \in Chains
  THEN {<<Flow(j), s>> : s \in {j[2] - 1} \cap (1 .. Steps)}
  ELSE {NodeJob(n) : n \in Deps(Flow(j))}

\* A job of the flow, or the node's, came back from a snapshot: it may come back after
\* it ended, and beside what the log restored of its flow and of the dead letters.
Again(f) == \E j \in revived : Flow(j) = f

\* A chain step is created only after the step before it completed, a node only
\* after all it depends on, whatever was retried from the dead letters, and also
\* by a queue that was restarted from part of its log; not so the steps of a chain of
\* which a snapshot brought a job back.
NothingBeforeItsTime ==
  [][\A j \in created' \ created :
       ~Again(Flow(j)) => Before(j) \subseteq completed']_flowVars

\* No step and no node is created twice, in this life or a later one: what enters
\* the queue is new, a failed attempt, or a dead letter retried, if no snapshot brought
\* a job of the flow back.  Only a second restart may repeat a step then: the first can
\* give a failed step's chain back, the second the dead letter it was retried from.
NothingCreatedTwice ==
  [][\A j \in queue' \ queue :
       j \in created /\ (crashes <= 1 \/ Flow(j) \in Nodes) /\ ~Again(Flow(j))' =>
         attempts'[j] > attempts[j] \/ \E r \in Retriers : j \in retrying[r].hold]_flowVars

Letters == ToSet(dlq)
Held    == UNION {retrying[r].hold : r \in Retriers}

\* A job is in one place: the adapter, a worker, the dead letters or the hands of
\* one retry call, however many calls, purges and restarts overlap.  Only a job that a
\* snapshot brought back may be in two: it can have failed for good after the snapshot,
\* and the log restores its dead letter too.
OnePlace ==
  /\ queue \cap running \subseteq revived /\ Letters \cap Held \subseteq revived
  /\ (queue \cup running) \cap (Letters \cup Held) \subseteq revived
  /\ \A r, q \in Retriers : r # q => retrying[r].hold \cap retrying[q].hold \subseteq revived
  /\ IsInjective(dlq)

\* No job is lost while the process lives: it is somewhere until it completes,
\* expires, is cleared or purged, also when a purge makes retryAll throw half way.
NoJobLost ==
  crashes = 0 =>
    created \ (completed \cup dropped) \subseteq queue \cup running \cup Letters \cup Held

\* A chain whose step failed for good is over: it is not resumed even when that
\* step is retried from the dead letters and completes.
FailedChainStaysOver ==
  crashes = 0 => \A j \in failed : Flow(j) \in Chains => chainMap[Flow(j)] = 0

\* Nothing is left to do: no job queued, running or between hands, no loop half
\* way.
AtRest ==
  /\ queue = {} /\ running = {} /\ unlocking = {} /\ Held = {}
  /\ \A d \in Dags : rooting[d] = <<>>

Accepted == UNION {ToSet(NodesOf(d)) : d \in Dags \cap started}

\* When the queue is at rest every chain has ended, completed or failed, unless a
\* step of it was dropped: none waits for a job that nobody created.
ChainsEndAtRest ==
  AtRest /\ crashes = 0 =>
    \A f \in Chains : chainMap[f] = 0 \/ \E s \in 1 .. Steps : <<f, s>> \in dropped

\* When the queue is at rest every node of a graph that dag() accepted has got its
\* job, unless one it depends on, directly or not, failed or was dropped.
NodesRunAtRest ==
  AtRest /\ crashes = 0 =>
    \A n \in Accepted :
      \/ NodeJob(n) \in created
      \/ \E m \in Nodes : n \in Downstream(m) /\ NodeJob(m) \in failed \cup dropped

\* When the queue is at rest no node whose dependencies all completed is without
\* its job, also if one of them completed only when retried from the dead letters.
ReadyNodesRunAtRest ==
  AtRest /\ crashes = 0 =>
    \A n \in Accepted :
      {NodeJob(m) : m \in Deps(n)} \subseteq completed => NodeJob(n) \in created


\* A step or node is created once and only after what it waits for, unless a snapshot
\* brought a job of its flow back.
FlowOrder == NothingBeforeItsTime /\ NothingCreatedTwice

\* Flows and dead letters: no job is lost or in two places, a failed chain stays
\* over, and at rest no chain, no node and no ready node still waits.
FlowsSound ==
  /\ FlowTypeOK /\ OnePlace /\ NoJobLost /\ FailedChainStaysOver
  /\ ChainsEndAtRest /\ NodesRunAtRest /\ ReadyNodesRunAtRest
=============================================================================
