# Oblivinx: models, checks and proofs

TLA+ models of the parts of this repository whose correctness depends on
ordering, concurrency, crashes or boundaries, the TLC runs that check them on
small instances, and TLAPS proofs of what holds for every instance.
`PROJECT.json` maps each definition to the lines it models and lists the runs,
the mutants that show each property can fail, the hazards and the findings.

    tlc -workers 2 -config Storage.cfg MCStorage    # any run: cfg, then module
    tlapm EngineProofs.tla                            # the proofs of a component

## 1. The system

**The database**: `crates/ovn-core`, an embedded document store in Rust, bound to
Node by `crates/ovn-neon` (each export is one synchronous call on the thread that
makes it) and wrapped by the SDK `packages/oblivinx3x/src`.

**The job queue**: `packages/queueovn/src`, a TypeScript library on one
JavaScript thread, with adapters in memory, in a file, in SQLite or in the
database above, and stores and plugins for messaging bots.

| component | state it keeps | operations | what is hard, and what makes it correct | modules |
|---|---|---|---|---|
| MVCC manager (`mvcc/mod.rs`) | last txid, active table, version chains, horizon | begin, commit, abort, add_version, read_version, update_horizon, gc | each call is several critical sections. Snapshots do not change, gc keeps what they read | `Mvcc` |
| hybrid clock (`mvcc/hlc.rs`) | one atomic word | now, recv, advance_to | compare-and-swap loops; fields that come round. Stamps increase | `HybridClock` |
| write-ahead log (`storage/wal.rs`) | HMAC chain, pending buffer, offset | append, flush_pending, checkpoint, replay | three locks per append, failing I/O, power loss. Acknowledged transactions survive, whole and once | `Wal`, `DurableLog` |
| engine file (`engine/mod.rs`) | pages, registry, log offset | checkpoint, close, open, writes | log, registry and page generations share a file; the process is killed between writes | `Engine` |
| documents, index (`engine/crud.rs`, `index/secondary.rs`) | B+ tree, memtable, entries by value | insert, update, delete, find, create and drop an index | three structures, three locks. A find returns what is there | `Documents` |
| blobs, page cache (`storage/blob.rs`, `buffer_pool.rs`) | page lists, cached pages | put, get, allocate, evict | read and extend without one lock | `Blobs` |
| SDK handles (`transaction.ts`, `database.ts`, `collection.ts`) | savepoint names, status | begin, savepoint, commit, withTransaction, findOneAnd* | two stacks in two languages; calls between awaits | `Sdk` |
| SDK libraries | cursor buffer, filters, diffs, buckets, backups, relations | builders, fetches, restore, cascade, lookup | other writers between batches; calls that replace what earlier calls said | `Queries`, `Updates`, `Cursor`, `Sql`, `Versions`, `TokenBucket`, `Backups`, `Relations`, `Ids` |
| queue loop (`core/JobQueue.ts`) | loop promise, running, activePromises, paused, closed | enqueue, process loop, dispatch, retry, pause, resume, drain, clear, shutdown | every await lets other callbacks in. Limits hold, no job is lost, doubled or left waiting | `JobQueue` |
| the door and the watchers | keys, timers, counters, promises | hooks of the plugins | hooks are awaited one by one | `Admission`, `JobWatch` |
| adapters | heap and maps, file, rows, documents | push, pushMany, pop, update, remove | find and claim are two calls; partial failures | `Heap`, `PriorityQueue`, `StoredJobs`, `OvnStore`, `JobBatches` |
| queue persistence (`persistence/`) | log, stream buffer, snapshot, sequence | append, truncate, snapshot, recovery | crash between any two steps | `QueueRecovery` |
| flows, dead letters | chains, graph nodes, id maps | chain, dag, complete, fail, retryAll, restore | state spread over log, adapter and maps | `Flows` |
| cron | next and last run, counts, in-flight set | tick, fire, runNow, add, remove | ticks overlap while a fire is awaited | `Cron` |
| IPC sharding (`ipc/`) | pending requests, slots, waiters | enqueue, answer, timeout, close | late answers, a child that dies or is replaced | `Ipc` |
| stores and bot plugins | entries with expiry, sessions, subscriptions, scores | set, incr, ifStep, publish, award, flush | expiry and eviction under those who hold a key | `KvStore`, `BotStores`, `PubSub`, `SortedSet`, `Breaker` |

How they interact: the SDK calls the binding, which calls one `OvnEngine`
method; a write appends to the log, then changes memtable, B+ tree, version
chains and indexes. Background workers (GC, checkpoint, flush) take the same
managers through `Arc`s. In the queue, the loop calls the adapter and the plugins
and awaits each; wrappers of running jobs, timers and API calls run at those
awaits and share the loop's fields. With `OvnDbAdapter` the queue stores its jobs
in the database.

## 2. The modules

Each header comment says what the state stands for and what is abstracted; here
is how state and actions correspond to the code.

**Mvcc.** One action per critical section: `begin_transaction` is `BeginTakeId`
(atomic increment), `BeginSnapshot` (read lock), `BeginRegister` (write lock), then
`ComputeHorizon` and `StoreHorizon`, which share a read guard (`TableUnlocked`
keeps writers of the table out in between). A versioned write is `WriteTakeId` and
`AddVersion`; gc is `GcLoadHorizon` and `GcPurge`. The conflict branch of `commit`
is dead code (section 5) and `record_read` writes what nobody reads: neither has an
action. With several threads three comments of the code do not hold as they are
written (172, 174, 188); the properties say what does: `HorizonBelowActive` of every
transaction whose begin has returned (`Begun`), `NewestFirst` of all pairs of writes but
those that overlapped (the history `overlapped`), `SnapshotStable` from the moment on
when the writes and collections under way at the begin are over (`Settled`).

**HybridClock.** Threads load the word, compute and compare-and-exchange; the
wall clock may go anywhere; parts keep their width.

**Wal, DurableLog.** `append` is `BeginTxn`/`CommitTxn`/`BeginCheckpoint` (HMAC
lock), `Push` (buffer lock), `AutoFlush` and one of `FinishData`, `FinishCommit`,
`FinishCkptAppend`; `CheckpointSync` ends a checkpoint. `ManagerFlush` is the public
`flush()`, which checkpoint, close and compaction call while others append; it syncs
at D2 only. `FlushPending` has the failures of `flush_pending`: a failed write leaves the file, a failed fsync leaves
the bytes in the file *and* in the buffer. `ProcessCrash` keeps the file;
`PowerLoss` a prefix that includes what was fsynced. `DurableLog` is the promise:
submitted, acknowledged, and after a crash a set in between; `Wal` implements it
with what is replayed or covered by the last checkpoint. Two histories name what the
code loses: `overtaken`, transactions above which a checkpoint took its txid before it
drained them, and `slipped`, those whose commit record another's flush wrote without
the fsync of a strict level (`Slip`). The mapping counts the first as recovered and the
second as acknowledged when an fsync reaches them. `DurableLog` acknowledges sets of
transactions, since one fsync may reach several.

**Engine.** The file is a function from page numbers to what the page holds.
`Checkpoint` and `Close` start a save whose writes (`SaveWal`, `SaveMarker`,
`SaveTree` with one `SaveEntry` per document, `SaveRegistry`, `SaveHeader`) happen
in the order of each call, with `Crash` possible between any two. `Open` rebuilds
the tree with `Loaded`. The history variables `saved`, `from` and `overrun` state
what a kill may cost.

**Documents.** A document is in tree and memtable, the index has one per value;
each write of one of the three is a step of its thread, a find takes its
candidates, then reads the tree, then the memtable.

**Blobs** has one step per lock section and file access. **Sdk** runs handles on
the engine's savepoint stack, a runner of `withTransaction` with its retries, and
takers of `findOneAndUpdate`/`findOneAndDelete`, with other calls at each await.
**Cursor**, **Backups** and **Relations** take one step per call of the database
and let others write in between. **Queries** and **Sql** keep of a filter the
documents it selects, **Versions** of a document its fields, **TokenBucket** tokens
in thousandths; **Ids** keeps the tuple that an identifier packs. **Queries** has also
the options of `QueryBuilder`, a tree of builders that grows by one with every call, and
`AggregateBuilder`, which changes in place; beside each builder it keeps the calls
that led to it, and the engine's sort, skip, limit and pipeline stages say what
both return. **Updates** has `UpdateBuilder`'s expression, `updateOne` with
`withRetry` around it while another caller deletes, `updateMany`, and
`apply_single_update` on documents of three fields.

**JobQueue.** An action is what JavaScript runs between two awaits;
`startProcessLoop` enters the loop at once, so actions that call it end with
`LoopTurn`. `loop.at` names the await the loop stands at: `popped`, `holding` (the onProcess hooks and `update()`),
`refused` (a plugin declined). `workers` are the `dispatchJob` wrappers. Three
definitions carry the timing of the JavaScript queues, without which impossible
orders would be reported: `Unseen` (continuations run first in, first out),
`Refusing` (a push in memory takes fewer microtasks than a wrapper's end) and
`TimerTurn` (timers run when no microtask is left). Any job may be popped next.

**Admission** has the onEnqueue hooks one await each, **JobWatch** the counters and
promises. **Heap** is the array of the binary heap and implements
**PriorityQueue**, a set of which the least is taken. **StoredJobs** has a
call of the file and SQLite adapters per step, **OvnStore** the chains of
collection calls of OvnDbAdapter, **JobBatches** the slices and chunks of a batch.

**QueueRecovery.** The log with its stream buffer, `truncate()` with the await at
its end, the snapshot with its rename, and `Recovery.run` over `MemoryAdapter`. A
crash falls between lines of the log (section 6).
**Flows** has the flows' and the dead letters' records of that log, `Snapshot` (the
rename), `Truncate` (the log is cut) and `Crash`, which keeps a prefix of the stream,
pushes what the newest snapshot holds and restores the rest. The snapshot holds the
adapter's jobs of some awaits before its rename, so any part of what entered the
adapter in that life may come back (`back`). A job that came back (`revived`) may run
beside its copy from the dead letters (`twins`).
**Cron** restarts from its file. `Dateless` says where `_computeNext` throws:
`FireThrows` and `EnableThrows` are what then happened before the throw, and `unfound`
the schedules it left so.
**Ipc** has one action per message, timer and event, and `Quiet` says when the
event loop gets to them. The last part of **Cron** follows one schedule's expression on a
calendar given as a constant. **KvStore** is a record and operations on it, used by
one caller of its hashes, lists and scans, and in **BotStores** by the locks, limiters
and sessions of a bot and by the sessions of many users; the first and the last
compare each call with a store without lazy deletion; **PubSub** keeps the places of a JavaScript `Set` under iteration;
its last part is `MessageBufferPlugin`. **SortedSet** and **Breaker** are as they say.

`WalProofs`, `RecoveryProofs`, `DocumentsProofs`, `EngineProofs`, `JobQueueProofs`,
`QueuePartsProofs`, `QueueProofs` and, for the small modules, `LibraryProofs` hold the
theorems (section 4).

`MCWal`, `MCStorage`, `MCQueueParts` and `MCLibraries` give values to constants and put
parts side by side that share no state: `part`, chosen in the initial state, says
which part a behaviour is of, the others keep one initial state. A property named
for several parts (`AdaptersSound`, `DataSound`, ...) is a conjunction with one
conjunct per part. This checks each part as if alone.

## 3. The runs

| run | question and bounds |
|---|---|
| `storage_parts` | `Mvcc` with two client threads and one GC worker, one key, four identifiers (two overlapping transactions or writes, versions of which one is shadowed; the proofs cover all values); `Documents` with two threads, two documents, two values, three calls; `Wal` with two threads, three transactions and `flush()`: with failing I/O at D1Strict, or with checkpoints and full groups at D1 (`MCSetups`); `Engine` with two documents, two records to a page, a log limit of two records, three saves and lives; `QueueRecovery` with two jobs, one delayed, one retried, and two snapshots at rest and a crash, or one and two crashes (`MaxMishaps`) |
| `queue_calls` | three jobs, two workers, two attempts, `maxQueueSize` 2, Throttle at one slot, a TTL job, a job of unknown type, every API call |
| `queue_live` | a delayed and a discarded job, batches, retries, clear: every accepted job settles |
| `queue_parts` | the nine parts around the loop. Flows: a chain, a joining graph, a cycle; per behaviour (`FlowBudgets`) a crash, a snapshot and a crash, a dropped job, or two overlapping retry calls. Cron: per behaviour (`Budgets`) overlapping ticks, an `addOne`, a restart, `runNow`s or a search that finds no date, over `MaxClock` moments (one beside `addOne` and `runNow`). Expressions: one of each kind, an interval of length 0 and one that does not come again, ticks in time and late. Admission: three jobs, two plugin lists. Heap: four jobs of two urgencies, `Depth` 4. Documents, stored jobs, batches, watchers |
| `libraries` | twenty-one parts: stores, SDK, clock and blobs; two or three uses of a store share its two keys, so that they evict each other (`Uses`); cursors without and with a limit past which they go on; handles with two savepoints, or takers; three documents that agree in one of two sort keys, chains of three builder calls; two update calls of seventeen, three documents of which some do not suit them, two attempts; three calls on keys of each kind while two milliseconds pass; three users, two of them written alike, in two groups |
| `ipc` | one enqueue and the two calls of `shutdown()`, two shards with one slot each, two children, three faults; answers late, failing or never, children that disconnect, exit or are replaced |
| `wal_strict_commit`, `engine_checkpoint`, `index_find`, `recovery_seq_reset`, `queue_drain_hangs`, `sdk_rollback` | violations: section 5 |

Bounds that belong to the model and not to the code are named `Max...` and stand in
guards. They are as small as the cases allow: three jobs for a refused, a held and
a running one at once; three lives for a generation written by the second to meet
the log of the third; two threads for a race; a logical clock part of one bit and
a snowflake sequence of one bit for both to come round; three keys in a store
of two for an eviction. Where a boundary is what matters (`Width`, `MaxSequence`,
`RecordsPerPage`, `CachePages`, `MaxBuffer`) the instance is past it.

`CHECK_DEADLOCK FALSE` wherever the system may stop: a crashed process, a queue
with nothing left to do, budgets used up.

**Fairness** is stated in `JobQueue` and `Ipc` only: weak fairness of the loop's
steps, of wrappers' ends, timers that are due and pending continuations, because
the event loop runs everything that is ready; and of a handler's end, because
`maxDuration` bounds it. In `Ipc` also of the timeout of a request. None for API
calls. A ready continuation stays ready until it runs, so weak fairness is enough.

## 4. The proofs

Eight modules hold the theorems; the ones about a small module stand in the proof
module of a larger one.

`EngineProofs`, on `Mvcc`, for any number of clients, workers, keys and identifiers:

- `TypeCorrect`: `Spec => []MvccTypeOK`, and `GcIsSafe`: `Spec =>
  GcSparesAboveHorizon`, both without restriction on the threads. The inductive
  invariant `VersionsInv` adds to the type that identifiers are issued once (`IdsOK`): a
  version's identifier is never a transaction's, and none is above `lastIssued`.
  Without it a snapshot could be confused with the version at the cut. `GcIsSafe`
  rests on `PurgeIsPrefix` (what a purge leaves is a prefix, empty only if the
  chain was) and `PurgeKeepsFirstVisible` (the cut lies at or after the version a
  snapshot at or above the horizon reads).
- `HorizonIsSafe`, `SnapshotsAreStable` and `ChainsStaySound`, for any number of client
  threads and GC workers as well. The horizon is at or below every transaction whose
  begin has returned, because `HorizonInv` says the same of the horizon a thread has
  computed and not yet stored, of every transaction in the table, and the table is
  locked in between. A transaction stays `Settled` once it is (what begins later takes
  a newer identifier: `FreshIds`), and then a new version is above its snapshot and a
  purge below it. `OrderInv` says of the writes under way what `NewestFirst` says of
  the versions: one is newer than another, or the pair overlapped. Without the
  exceptions that the properties name the statements are false in the code (section 5).

`WalProofs` proves, for any number of threads, transactions and setups:

- `TypeCorrect`, without restriction.
- `AcknowledgedAlwaysSurvive` (`AckedSurvive`) and `LogIsDurable` (`Implements`: the
  log refines `DurableLog` under the mapping above, step by step), without restriction:
  any thread may append, flush, checkpoint, fill a group and fail. What the code does
  lose is in the histories `overtaken` and `slipped` and excused by the properties;
  `wal_strict_commit` shows that the second is lost.
- The invariant follows a commit record from the thread that holds it, through the
  pending buffer (`CommitsOnTheirWay`), into the part of the file that a crash spares
  (`Safe`: fsynced at the strict levels, or of a transaction that slipped), where
  `AckedSafe` says it stays; `RecordsOK` says that a checkpoint record covers all below
  it but what it overtook, since replay skips all below it.
- `ReplayIsSound` (`ReplaySound`), without restriction: a transaction is replayed whole,
  each record once unless a flush failed, and the log of one appending thread follows
  the HMAC chain. The invariant (`LogInv`) speaks of the file followed by what is
  pending, so that a flush changes nothing and a crash leaves a prefix: there every commit
  follows data of its transaction (`Led`), a checkpoint's transaction has nothing else
  (`Unmixed`), and places in the chain are given once, the ones threads about to push
  hold included (`PlacesOK`). `RecordsOf`, which picks a transaction's records, is a
  recursive function; what it picks are lemmas about it.

`RecoveryProofs`, on `QueueRecovery`, for any number of jobs, attempts, snapshots and crashes:
`LogAloneRecovers` (as long as no snapshot was begun, no job in the file is lost, no
finished one comes back, and the heap has one entry for each body) and, if snapshots are
taken at rest (`SnapAtRest`), `JobsAreRecovered` (`JobsRecovered`). `RecoveryInv` says of the log
that it is numbered in its order (`Numbered`), that a completion a recovery would read is
of a job that finished and was not enqueued again (`DoneOK`), and that nothing is
logged while a snapshot is written and each covers what the ones before it covered
(`RestOK`). Not at rest this is false: `truncate()` sets the sequence back, and
what is logged since is numbered below the snapshot and ignored by the next start,
which is what `recovery_seq_reset` shows (section 5).

`DocumentsProofs` proves `DocumentsHold` (`DocumentsSound`) for any number of threads,
documents, values and calls, the steps between two lock sections of a call
interleaved with those of all others. The invariant follows a document from the
call that writes it (`HalfWritten`: what this call has made of tree, memtable and
index so far) to the moment nobody does (`Clean`); `CallShape` says what each kind of
call has left to do. The property speaks of finds and their index, so the
invariant ties these to the histories: the index has a document that was alone with
its value all along and was not moved by an update (`IndexOK`, `HeldOK`), and
`FindOK` says what a find at each of its steps has collected of the documents nobody
wrote since it started.

`EngineProofs`, on `Engine`, for any number of documents, writes, saves, lives and
records to a page: `FileWellFormed` (the type, and no gap in the file), `CloseLosesNothing`
(`CloseKeepsLive`), `SavesSurvive` (`UnspoiltSaveSurvives`) and `RegistryStays`
(`RegistryKept`). None of them is inductive. What carries them is that a generation is
appended, so that while one is written it is the file's end (`GenerationOK`); that a
call of `close()` past its tree has the last page of every document
(`CloseOK`, `LastPage`); and that from the newest complete generation on every page of a
document is at least as new as the save (`SavedOK`, `SavedStays`), which a half-written
generation does not change. `WroteOK` is the case that decides: a generation may
start on page 2, where the registry goes, only in a file without pages, and a session
with documents in such a file has written, so that `close()` puts its marker there
first. `checkpoint()` writes no marker; that is what `engine_checkpoint` shows.

`JobQueueProofs` proves, for any number of jobs, calls and workers and any choice of
plugins:

- `BoundsHold` (`CallsSound`) and `PauseHolds`. `IInv` says what stays true of
  something the loop read before an await: the room it tested is still there while
  it is `Busy` (`RoomLeft`), a job it holds has its Throttle slot (`SlotsTaken`), and of
  what runs after `shutdown()` looked all but the loop's own job is awaited
  (`Stragglers`). `Apart` keeps a job in one of the places it passes, batch and hooks
  included, and `TriesLeft` an attempt for each live one.
- `JobsKept` (`NoJobLost`) and `WakeupsKept` (`NoLostWakeup`). `WakeInv` adds that what `pop()` did not see is
  carried (`Carried`): a continuation, a batch or a wrapper's end that starts the loop
  is still to come, and that a refused loop leaves a worker behind.

`QueuePartsProofs`, on `Ipc`, for any number of calls, keys, children and slots, however
often children close, exit, are replaced or deregistered: `SlotsAccounted` (`RouterSound`),
`AnswersTrue` (`AnswersSound`) and `OtherKeysSpared` (`CloseSparesOtherKeys`). Slots are
counted per entry, requests are rejected per key, and a key outlives its entries:
`Entry` therefore says of every child what its counter and queue are worth, while
its key leads to it, after it was reset, after it left the map (`Gone`: late answers
still give back slots nobody counts) and after it was overwritten. `CallsOK` says
that a failed send whose callback is due belongs to a pending call or to an entry
that was reset, without which that callback could free another call's slot.

`QueuePartsProofs`, on `Flows`, for any graphs, any number of chains, jobs, retry calls,
crashes, snapshots and dropped jobs: `FlowsAreSound` (`FlowsSound`) and `FlowsAreOrdered` (`FlowOrder`).
What a snapshot may bring back, in whatever state, is kept apart: `CopiesOK` says that
only such a job runs twice, that what entered an adapter or a snapshot was created, and
that nothing comes back before the first restart; the rest speaks of the jobs and flows
that did not. Of a chain only the current step is anywhere (`ChainsOK`, `OrderOK`); of a graph nothing
will be pushed any more since a restart (`Dead`), or nothing that may be pushed was
created (`Fresh`); every prefix of the log that a crash may keep replays to a state
of which this is true (`LogOK`); and until a restart every job is followed, and a
node without a job waits for a dependency or for a loop under way (`FirstLife`, `Waits`). What
replaying a log gives is a recursive function; its lemmas are proved by the least entry at
which they would fail. `NodesRunAtRest` is the same argument on nodes: of those that
wait, one that comes first in the sorted order waits for nobody.

`QueueProofs`, the parts around the process loop.

- Cron, for any number of schedules, overlapping ticks, `runNow` calls, periods, limits
  and restarts, and any expressions and calendar: `SchedulesHold` (`SchedulesSound`) and
  `MissedRunsAreOne` (`MissedRunsCoalesce`). An entry that ticks fired n times is due no
  earlier than n + 1 (`EntryAt`), which bounds its runs by the clock. `SavesAll` says what
  may differ between memory and file: runs that were started and not saved, and the
  mark that all were had. `MarksOK` says that a fire's schedule is marked unless another
  fire of it settled and took the mark away; a mark without a fire is of a schedule in
  `unfound`; `CountOK` that each job that ticks queued,
  or are about to queue, was counted as a run before, below the limit, or is among those
  a restart forgot. `LastOK`, that an entry is due a period after a tick last fired it,
  gives the second theorem. `TimesInv` says of an expression that the next run is always
  what `parseCron` gives from the last one: a minute that matches, lies after it and
  before the next run does not exist (`ParseFinds`), as long as no search ended without
  a date (`marked`).
- `OvnDbAdapter`: `DocumentsRunOnce`. `InOnePlace` says of every job that it runs, or one
  loop has popped it, or its document waits, whichever document an update finds;
  `LoopsOK` that a loop claims only what it listed.
- `FileAdapter` and `SqliteAdapter`: `RowsAndFileHold`. `Placed` gives each job that is
  not over one place: memory, the next process's file, a loop's hands, a worker, a timer.
- Admission: `AdmissionHolds` (`AdmissionSound`) and `OverfullByOverlap`
  (`OverfullOnlyByOverlap`). `KeysOK` holds of jobs that are past the Deduplicator but
  still at the door, or held in a batch, what `OneLiveJobPerKey` says of those inside;
  `RoomOK` says that the size `enqueue` tested before its awaits is still right for whom
  nobody was pushed past. `WindowOK` counts RateLimiter's tokens: a window opens with a
  grant, so who looks at less than the whole of a window misses one of its grants, which
  is why two windows that meet hold less than twice the limit.
- Batches: `BatchesHold` (`BatchesSound`). `Written` is the place the call has reached;
  behind it a document is missing only as `MayMiss` allows, and from it on only what was
  there before the batch is in the collection, so that a duplicate `pushMany` meets is
  always one of `known`, and its upserts stay within one slice.
- Metrics and JobBatch: `WatchHolds`; promises are numbered in one line, and the one a job
  is tracked by is its own.

`LibraryProofs`, the small modules:

- `StateFollowsTheCount`: a circuit is closed only while its count is
  below the threshold, whatever the order of answers.
- `DiffsLoseNothing`: a restored version shows what was saved, for
  every equality on values, the ones that equate different values included: the
  invariant says that a diff was made from the very document it is applied to.
- `BurstsAreBounded`: no window sees more operations than capacity
  and rate allow; the invariant relates the tokens left to the operations since
  any earlier moment.
- `TimestampsIncrease`: stamps increase and a merged one exceeds the
  remote one as long as no logical part came round in `recv` and no restart lost
  the last one; the invariant bounds every stamp a thread has read by the word.
- `HandlesKeepTheirWord` (`SdkSound`), for any number of documents, handles, savepoints
  and calls: the engine's savepoints are among the handle's and in its order (`InStep`),
  whatever is set, rolled back to and released; a handle that ended leaves nothing;
  no attempt of `withTransaction` ends with its handle open (`RunnersOK`); and no
  more documents are taken than calls were answered with one (`TakersOK`).
- `HeapImplementsQueue` (`ImplementsQueue`), for any number of jobs and urgencies: the
  array of `PriorityQueue.ts` implements a set from which the least is taken, step by
  step; and `IndexListsTheHeap`: the index lists the array's ids and the array is a
  heap. In the middle of a sift one entry may be out of order (`Near`), with its
  parent (`Fits`) or its children (`Over`); a turn of the loop moves it one level
  (`RiseTurn`, `SinkTurn`), and the loops, recursive functions, end with a heap
  (`BubbleUpSorts`, `SinkDownSorts`). A removal puts the last entry in the place
  that was freed, where it may have to go either way.

- `MessagesArrive` (`MessagesSound`), for any number of handlers, `Set`s and nested calls
  of `publish`: who is owed a message has a place ahead of the publish that owes it, or in
  a pattern's `Set` it has not visited (`Owes`), whatever is subscribed and dropped while
  handlers run; one who listens once has a place in the channel's `Set` while it
  waits, and in no other (`Listens`). For `MessageBufferPlugin`: what was flushed,
  followed by what is held, are the messages that were offered.
- `IdsAreNew` (`IdsSound`): until a millisecond is used up, a snowflake's sequence number
  is its number in that millisecond (`FlakesNumbered`), and the variable of the module
  is of the snowflake returned last, also when the clock was set back.
- `OrdersNameUsers` (`RelationsSound`): a key that was found valid is a user's or was
  changed since (`ValidOnce`), and the rows of a lookup are of the documents as they
  are, but for those written since it began (`RowsAreFresh`).
- `BlobsReadAsStored` (`BlobsSound`): a storer's list is increasing and below the page
  it works at (`ListOK`), nobody else works at a page of a storer that is not damaged
  (`Alone`), and such a page has its chunk, dirty in the cache until it is written and
  in the file from then on (`HasChunks`). Eviction needs that a full cache has an oldest
  page, which follows from the least of its sequence numbers.

**Induction over data.** The library's induction theorems cannot be instantiated here.
Where a proof needs one, the operator is a recursive function on numbers: it is shown to
exist, its equation is proved once, and a statement about all numbers follows from
`LeastOf`: if it failed there would be a least number at which it does.

**Only model-checked.**

- The liveness properties `EveryJobSettles` and `EveryCallSettles`: fairness is out of the
  prover's reach.
- `AdaptersSound` as one formula. It is the conjunction of five parts that share no
  state, and each part is proved: the heap (`IndexListsTheHeap`), documents
  (`DocumentsRunOnce`), rows and file (`RowsAndFileHold`), batches (`BatchesHold`) and
  watchers (`WatchHolds`).
- `QueriesSayWhatTheyDo`: `Sql` compiles statements by `RECURSIVE` operators, which the
  prover does not take, and `Queries` and `Updates` fold over what they are given.
- `StoresAndBoardsSound` and `EndsAndExpiriesKept`, whose stores fold over sets and
  sequences; `DataSound` as one formula: the identifiers (`IdsAreNew`), the relations
  (`OrdersNameUsers`) and the blobs (`BlobsReadAsStored`) are proved, the backups, which
  sort and filter sequences, are not. Their runs cover them.

## 5. What the models found

Six disagreements between the code and its own documents have a violation run
(`findings` in `PROJECT.json`): a commit record that another's flush, or a full
group, has written is acknowledged without an fsync; `checkpoint()` of a new database overwrites the
pages it has just written; a find on an indexed field misses documents; entries
logged after a truncation are ignored by recovery; `drain()` may never return; a
rolled back handle's insert stays.

These were met as well; the passing runs state the weaker fact that holds, or are
configured around them where that is said.

- **Mvcc**, two client threads: `begin_transaction` takes its identifier before it
  is registered (`mod.rs:190`), so the horizon can overtake it and gc can purge
  what it reads before its begin returns; writers can add versions out of order
  (`mod.rs:254`), so a chain is not newest first and a snapshot changes when the older
  write arrives; `commit` validates an empty read set because the active table keeps a
  clone (199). The comments at 172, 174 and 188 say otherwise.
- **HybridClock**: `recv` adds 1 to a u16 that comes round in release builds, so a
  merged stamp can be below the remote one; `from_persisted` compares physical
  parts only. Neither has a production caller.
- **Wal**: a checkpoint takes a txid above running transactions, which then commit
  below it and are skipped by replay, and above acknowledged ones that were not in the
  memtable when it was drained (`workers.rs:283`); at D0 and D1 a checkpoint record is fsynced
  only if it was still in the buffer (`wal.rs:363`); a flush retried after a failed
  fsync writes its records twice (498); concurrent appends can reach the log in
  another order than the HMAC chain (309).
- **Engine**: tombstones are not loaded, so a deleted document returns after a
  restart (`mod.rs:784`); a document larger than a page is never loaded (762); log
  replay starts at page 2 and decodes nothing (823), and CRUD appends no commit
  records; `drop_collection` (454) only unregisters a name.
- **Documents**: the index has one document per value, no update maintains it,
  `create_index` lists no document that is there, a delete removes the value's entry
  whichever document it names, `$lte` leaves out the bound, `$gt`/`$gte` are never
  served, `unique` is stored and never enforced, and an insert with a known `_id`
  overwrites. An overlapping update and delete leave tree and memtable
  disagreeing or bring the document back. A retryable write remembers only the last
  number of a session, and overlapping attempts both write (`crud.rs:47`). A
  non-UUID `_id` is replaced by a random id (`obe.rs:409`).
- **Blobs**: two threads can be given the same page (`buffer_pool.rs:185`); `evict_one`
  drops dirty pages unwritten; the blob directory is in memory only; trailing
  zeroes are stripped.
- **SDK**: handles' writes carry no transaction id and commit never conflicts; a
  function that commits itself and then throws a conflict is run again; names stay
  in the SDK's set after the engine popped them (`transaction.ts:593`); two
  `findOneAndUpdate` can take one document. A cursor ignores the builder's limit (`builder.ts:575`
  says the limit is of the documents returned): the model follows the code, and
  `CursorIsComplete` asks that what is wanted within the limit is delivered, in
  order and once, but not that the delivery stops there; two loops over a cursor
  share its buffer. A field and operator given twice replaces
  the first, as do `not` and `nor`; `FilterBuilder.create().or(a, b)` matches
  everything. `NOT LIKE` compiles to LIKE (`SqlLikeQuery.ts:442-464`; `CompiledSaysTheStatement`
  excuses the statements that contain it), clauses left over are ignored. Token
  buckets let 1.05 times the rate through at a burst (the comment says 1.5). A full
  backup never verifies; `importLogical` does not drop and skips empty collections.
  Sort keys reach the engine in alphabetical order, not as they were chained
  (`builder.ts:537` says they accumulate), and update operators likewise; a
  builder's `timeout` is never passed on and `match()`/`group()` drop its options;
  `first()` finds a document although the limit is 0 (`AnswersAgree` says so); a projection that names
  fields keeps `_id` even if it says `_id: 0`; `updateMany` that fails on a document
  leaves those before it updated. A lookup
  gives a one-to-one relation its first match, whatever else matches. Relation rule `restrict` does nothing; no one definition serves both the check and
  the cascades. The 4097th snowflake of a millisecond repeats the first.
- **JobQueue**: `pause()` lets one more job start (`JobQueue.ts:582`); `shutdown()` can
  miss one (382); a retry or a job of unknown type keeps its Throttle slot for ever
  (675, 619); a TTL expires jobs that run (`JobTTL.ts:39`), and an expired job can
  still start (723); concurrent enqueues exceed `maxQueueSize` (240). Over
  `OvnDbAdapter` no pop claims a job in this engine, so nothing runs; `JobQueue` is the
  loop over the in-memory adapter.
- **Admission**: a key leaks when a later plugin rejects, on discard and on clear;
  the TTL timer is not cancelled at onProcess; the limiter is a fixed window where
  its comment says sliding window. **JobWatch**: `activeWorkers` drifts up with every
  retry, refusal and discard; `awaitAll` omits jobs that have settled and hangs on
  expired ones.
- **Adapters**: `FileAdapter.pop` whose rewrite fails loses the job; a popped job not
  yet dispatched is lost at a crash. A filter on `_id` matches nothing in this
  engine, so over it OvnDbAdapter's claim never succeeds (`OvnStore` with `IdMatches`
  FALSE). `pushMany` over known jobs resets running and finished ones; a thrown
  `enqueueBatch` leaves a prefix stored and no wakeup.
- **QueueRecovery**: a snapshot taken while jobs run loses the entries truncated
  with it; finished jobs run again (`Recovery.ts:35`); delayed jobs are not logged.
  **Flows**: flow jobs have no ENQUEUE record, so a crash loses the ones no snapshot
  holds; `cancelDownstream` compares job ids with node names and cancels nothing; a
  restart re-registers a graph with no completed nodes; a snapshot's truncation drops
  flow and dead-letter records; a flow job in the snapshot comes back although it ended
  since (`Recovery.ts:32`), and is then in the adapter and among the dead letters, or its
  flow goes on twice.
- **Cron**: `runNow` passes by the in-flight mark and clears that of a tick's fire; a
  crash after the enqueue fires again; `updateOne` without upsert never stores. `_fire`
  computes the next run before its `try` (396): where `parseCron` finds none within 366
  days (a schedule for February 29, after it ran) it throws with the mark set and the
  run counted, nothing is queued, the ticks skip the schedule until a restart, and the
  rejected promise of `_tick` has no handler. A step counts from 0 whatever range stands before it (`0-30/10`).
- **Ipc**: replacing a shard whose child lives makes its waiters hang; a late exit
  event of an old child rejects the new one's requests.
- **Stores and plugins**: `incr` without a window in a key's last millisecond makes it
  permanent; `unlock` after the TTL deletes another holder's lock; `MessageBuffer`
  sends the message that fills the buffer twice; `subscribeOnce` can run twice;
  a list's range whose stop lies left of the list returns elements (`LRange`,
  `Zrange`: `slice` counts the end from the back once more), so `leaderboard` with limit
  0 lists everybody, where `SortedSet.ts:249` says "up to limit entries" (the property
  speaks of limits from 1); in its last millisecond a cooldown's `setnx` fails and the
  command goes through (`WhatsAppPlugins.ts:438-445`), which `ClaimsHold` allows for; a scan's cursor is an index, so a key that goes in between
  makes it skip one; users whose identifiers differ only in escaped characters
  share a session; a half-open circuit lets every concurrent call through and a late success closes
  an open one; a stale `ifStep` advances a session that was ended and started anew.

## 6. Not modelled

`PROJECT.json` gives a reason per component. In short: byte formats, compression and
cryptography, query evaluation over arbitrary documents, single-lock catalogue
maps, type declarations, examples and the CLI hold data or wording the properties
do not tell apart; the Raft module, `recovery.rs` and the ARC buffer are called by
their tests only; change streams are unbounded channels under one lock (on a
closed subscriber the collector sends an Invalidate event to the live ones). Errors
thrown by native calls inside the queue, pipeline stages that group, join or
unwind, sort keys that a document lacks, the width of `$inc`'s integers, globs and
access control are left out. A key of `KvStore`'s values is used for one kind of value only.

A crash inside a line of the queue's log: `readAll` skips a torn last line
(`WALWriter.ts:94-96`), but the next record is appended to it and skipped as well, and the
numbering starts at 0 again (59-61). The models' crashes keep whole lines. The manifest
record of a compaction, which replay ignores, is left out of `Wal`.

More than half of the TypeScript lines are comments, type declarations, an
example and forwarding calls: what remains to model there has little state.
