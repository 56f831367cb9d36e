--------------------------- MODULE QueueRecovery ----------------------------
(***************************************************************************)
(* Persistence of the job queue (packages/queueovn/src/persistence): the   *)
(* flat-file log WALWriter appends to, the periodic Snapshot followed by a *)
(* truncation of the log, and Recovery, which rebuilds MemoryAdapter after *)
(* a crash.                                                                *)
(*                                                                         *)
(* A log entry is its sequence number, operation and job; a WriteStream    *)
(* keeps what was not yet handed to the kernel in memory.  MemoryAdapter is*)
(* a heap of entries over a map of job bodies, and a store of the jobs that*)
(* are not pending; the order of the heap is abstracted.                   *)
(***************************************************************************)
EXTENDS Integers, Sequences

CONSTANTS
  Jobs,
  DelayedJobs,   \* jobs enqueued with a delay: the scheduler pushes them
  RetriedJobs,   \* jobs that may be attempted again ...
  MaxAttempts,   \* ... so many times in one life of the process
  MaxCrashes,    \* bound: crashes
  MaxSnapshots,  \* bound: snapshots
  SnapAtRest     \* TRUE: a snapshot starts when nothing runs, ends undisturbed

ASSUME QueueRecoveryAssumption ==
  /\ DelayedJobs \subseteq Jobs /\ RetriedJobs \subseteq Jobs
  /\ MaxAttempts \in Nat \ {0} /\ MaxCrashes \in Nat /\ MaxSnapshots \in Nat
  /\ SnapAtRest \in BOOLEAN

VARIABLES
  place,     \* per job: where the running process has it
  tries,     \* per job: attempts made in this life
  heap,      \* per job: entries in PriorityHeap.heap
  body,      \* PriorityHeap.jobs: jobs with a body
  store,     \* MemoryAdapter.store
  log,       \* entries appended to the log since its last truncation
  flushed,   \* how many of them are in the file
  seq,       \* WALWriter.seq
  ending,    \* truncate() awaits the end of the stream
  snap,      \* snapshot file: its seq and its jobs, with their multiplicity
  taking,    \* snapshot being written: <<>> or one record
  alive,     \* the process runs
  crashes, snaps,
  onDisk,    \* history: operations that ever reached the log file
  inSnapshot \* history: jobs in a snapshot file, and those in the log file and in the
             \* adapter when a snapshot was begun before there was one

adapter == <<heap, body, store>>
wal    == <<log, flushed, seq, ending>>
disk   == <<snap, taking, snaps, inSnapshot>>
recVars == <<place, tries, heap, body, store, log, flushed, seq, ending, snap,
          taking, alive, crashes, snaps, onDisk, inSnapshot>>

Places  == {"new", "pending", "scheduled", "popped", "active", "finished", "lost"}
Ops     == {"ENQUEUE", "ACTIVATE", "COMPLETE", "RETRY"}
Entries == [seq : Nat, op : Ops, job : Jobs]
NoSnap  == [seq |-> -1, jobs |-> [j \in Jobs |-> 0]]

-----------------------------------------------------------------------------
(* MemoryAdapter                                                           *)

Pushed(m, j) == [m EXCEPT !.heap[j] = @ + 1, !.body = @ \cup {j}]

\* remove(): the first heap entry with the id, and the body.
Removed(m, j) ==
  [m EXCEPT !.heap[j] = IF @ = 0 THEN 0 ELSE @ - 1,
            !.body = IF m.heap[j] = 0 THEN @ ELSE @ \ {j}]

\* getAll(): the bodies in the heap, then the store.
AllJobs ==
  [j \in Jobs |-> (IF j \in body THEN 1 ELSE 0) + (IF store[j] = "none" THEN 0 ELSE 1)]

\* Mutant: an activated job is taken for finished.
ReplayEntryDropsActive(m, e) ==
  IF e.op = "ENQUEUE" THEN Pushed(m, e.job)
  ELSE IF e.op \in {"COMPLETE", "ACTIVATE"} THEN Removed(m, e.job)
  ELSE m

\* Mutant: completions are not replayed.
ReplayEntryKeepsDone(m, e) ==
  IF e.op = "ENQUEUE" THEN Pushed(m, e.job) ELSE m

\* replayEntry: ACTIVATE and RETRY only change the state a job carries, which
\* MemoryAdapter.pop does not look at and run() resets.
ReplayEntry(m, e) ==
  IF e.op = "ENQUEUE" THEN Pushed(m, e.job)
  ELSE IF e.op = "COMPLETE" THEN Removed(m, e.job)
  ELSE m

\* readAfter(seq): what was logged after the snapshot, by its number.
ReadAfter(e) == e.seq > snap.seq

\* run(): the snapshot's jobs are pushed, whatever their state, then the log.
FromSnapshot == [heap |-> snap.jobs, body |-> {j \in Jobs : snap.jobs[j] > 0}]

Recovered(entries) ==
  LET upTo[n \in 0 .. Len(entries)] ==
        IF n = 0 THEN FromSnapshot
        ELSE IF ReadAfter(entries[n]) THEN ReplayEntry(upTo[n - 1], entries[n])
        ELSE upTo[n - 1]
  IN upTo[Len(entries)]

-----------------------------------------------------------------------------
(* WALWriter                                                               *)

\* append(): while truncate() awaits the end of the stream a write is an
\* error event nobody listens to, and Node exits.
Logged(op, j) ==
  IF ending THEN alive' = FALSE /\ UNCHANGED wal
  ELSE /\ log' = log \o <<[seq |-> seq, op |-> op, job |-> j]>>
       /\ seq' = seq + 1
       /\ UNCHANGED <<flushed, ending, alive>>

\* The stream hands its next chunk to the kernel.
Flush ==
  /\ alive /\ flushed < Len(log)
  /\ flushed' = flushed + 1
  /\ onDisk' = onDisk \cup {<<log[flushed + 1].op, log[flushed + 1].job>>}
  /\ UNCHANGED <<place, tries, adapter, log, seq, ending, disk, alive, crashes>>

\* Nothing else happens while a snapshot taken at rest is being written.
Undisturbed == alive /\ (SnapAtRest => taking = <<>> /\ ~ending)

-----------------------------------------------------------------------------
(* The queue                                                               *)

\* MemoryAdapter.push: an entry of the heap and a body.
Enters(j) ==
  /\ heap' = [heap EXCEPT ![j] = @ + 1]
  /\ body' = body \cup {j}
  /\ UNCHANGED store

\* enqueue(): push, then ENQUEUE.
Enqueue(j) ==
  /\ Undisturbed /\ place[j] = "new" /\ j \notin DelayedJobs
  /\ Enters(j)
  /\ Logged("ENQUEUE", j)
  /\ place' = [place EXCEPT ![j] = "pending"]
  /\ UNCHANGED <<tries, disk, crashes, onDisk>>

\* enqueue() with a delay only tells the scheduler.
EnqueueDelayed(j) ==
  /\ Undisturbed /\ place[j] = "new" /\ j \in DelayedJobs
  /\ place' = [place EXCEPT ![j] = "scheduled"]
  /\ UNCHANGED <<tries, adapter, wal, disk, alive, crashes, onDisk>>

\* The scheduler's onReady pushes without logging.
Due(j) ==
  /\ Undisturbed /\ place[j] = "scheduled"
  /\ Enters(j)
  /\ place' = [place EXCEPT ![j] = "pending"]
  /\ UNCHANGED <<tries, wal, disk, alive, crashes, onDisk>>

\* pop() takes the job out of the heap.
Pop(j) ==
  /\ Undisturbed /\ heap[j] > 0 /\ j \in body /\ place[j] = "pending"
  /\ heap' = [heap EXCEPT ![j] = @ - 1]
  /\ body' = body \ {j}
  /\ place' = [place EXCEPT ![j] = "popped"]
  /\ UNCHANGED <<tries, store, wal, disk, alive, crashes, onDisk>>

\* A heap entry without a body: extractMin drops it and pop() returns null.
PopGhost(j) ==
  /\ Undisturbed /\ heap[j] > 0 /\ j \notin body
  /\ heap' = [heap EXCEPT ![j] = @ - 1]
  /\ UNCHANGED <<place, tries, body, store, wal, disk, alive, crashes, onDisk>>

\* After the hooks: update() to the active state, ACTIVATE, dispatch.
Activate(j) ==
  /\ Undisturbed /\ place[j] = "popped"
  /\ store' = [store EXCEPT ![j] = "active"]
  /\ tries' = [tries EXCEPT ![j] = @ + 1]
  /\ Logged("ACTIVATE", j)
  /\ place' = [place EXCEPT ![j] = "active"]
  /\ UNCHANGED <<heap, body, disk, crashes, onDisk>>

\* onSuccess, or onFailure for good: update() and COMPLETE (FAIL).
Finish(j) ==
  /\ Undisturbed /\ place[j] = "active"
  /\ store' = [store EXCEPT ![j] = "done"]
  /\ Logged("COMPLETE", j)
  /\ place' = [place EXCEPT ![j] = "finished"]
  /\ UNCHANGED <<tries, heap, body, disk, crashes, onDisk>>

\* onFailure with attempts left, at once or through the scheduler.
Retry(j, delayed) ==
  /\ Undisturbed /\ place[j] = "active" /\ j \in RetriedJobs /\ tries[j] < MaxAttempts
  /\ IF delayed THEN UNCHANGED adapter ELSE Enters(j)
  /\ Logged("RETRY", j)
  /\ place' = [place EXCEPT ![j] = IF delayed THEN "scheduled" ELSE "pending"]
  /\ UNCHANGED <<tries, disk, crashes, onDisk>>

-----------------------------------------------------------------------------
(* Snapshot and truncation                                                 *)

\* write(): the log's seq and the adapter's jobs, then an awaited writeFile.
SnapshotBegin ==
  /\ alive /\ taking = <<>> /\ ~ending /\ snaps < MaxSnapshots
  /\ SnapAtRest => \A j \in Jobs : place[j] \in {"new", "pending"}
  /\ taking' = <<[seq |-> seq, jobs |-> AllJobs, renamed |-> FALSE]>>
  /\ snaps' = snaps + 1
  /\ inSnapshot' = inSnapshot \cup
       {j \in Jobs : snap = NoSnap /\ AllJobs[j] > 0 /\ <<"ENQUEUE", j>> \in onDisk}
  /\ UNCHANGED <<place, tries, adapter, wal, snap, alive, crashes, onDisk>>

SnapshotRename ==
  /\ alive /\ taking # <<>> /\ ~taking[1].renamed
  /\ snap' = [seq |-> taking[1].seq, jobs |-> taking[1].jobs]
  /\ taking' = <<[taking[1] EXCEPT !.renamed = TRUE]>>
  /\ inSnapshot' = inSnapshot \cup {j \in Jobs : taking[1].jobs[j] > 0}
  /\ UNCHANGED <<place, tries, adapter, wal, alive, crashes, snaps, onDisk>>

\* truncate(): the stream is ended, which flushes it ...
TruncateBegin ==
  /\ alive /\ taking # <<>> /\ taking[1].renamed
  /\ taking' = <<>>
  /\ ending' = TRUE
  /\ flushed' = Len(log)
  /\ onDisk' = onDisk \cup {<<log[i].op, log[i].job>> : i \in DOMAIN log}
  /\ UNCHANGED <<place, tries, adapter, log, seq, snap, alive, crashes, snaps, inSnapshot>>

\* ... and the file emptied; numbering starts again at 0.
TruncateEnd ==
  /\ alive /\ ending
  /\ log' = <<>> /\ flushed' = 0 /\ seq' = 0
  /\ ending' = FALSE
  /\ UNCHANGED <<place, tries, adapter, disk, alive, crashes, onDisk>>

-----------------------------------------------------------------------------
(* Crash and restart                                                       *)

Dies ==
  /\ alive /\ crashes < MaxCrashes
  /\ alive' = FALSE
  /\ UNCHANGED <<place, tries, adapter, wal, disk, crashes, onDisk>>

\* initialize(): the log's numbering goes on after its last entry, Recovery
\* rebuilds the adapter, and what it rebuilt is pending.
Restart ==
  /\ ~alive /\ crashes < MaxCrashes
  /\ crashes' = crashes + 1
  /\ alive' = TRUE
  /\ log' = SubSeq(log, 1, flushed)
  /\ seq' = IF flushed = 0 THEN 0 ELSE log[flushed].seq + 1
  /\ ending' = FALSE /\ taking' = <<>>
  /\ tries' = [j \in Jobs |-> 0]
  /\ store' = [j \in Jobs |-> "none"]
  /\ LET r == Recovered(log')
     IN  /\ heap' = r.heap /\ body' = r.body
         /\ place' = [j \in Jobs |->
              IF j \in r.body THEN "pending"
              ELSE IF place[j] \in {"new", "finished", "lost"} THEN place[j]
              ELSE "lost"]
  /\ UNCHANGED <<flushed, snap, snaps, onDisk, inSnapshot>>

RecInit ==
  /\ place = [j \in Jobs |-> "new"] /\ tries = [j \in Jobs |-> 0]
  /\ heap = [j \in Jobs |-> 0] /\ body = {} /\ store = [j \in Jobs |-> "none"]
  /\ log = <<>> /\ flushed = 0 /\ seq = 0 /\ ending = FALSE
  /\ snap = NoSnap /\ taking = <<>>
  /\ alive = TRUE /\ crashes = 0 /\ snaps = 0
  /\ onDisk = {} /\ inSnapshot = {}

RecNext ==
  \/ \E j \in Jobs :
       \/ Enqueue(j) \/ EnqueueDelayed(j) \/ Due(j) \/ Pop(j) \/ PopGhost(j)
       \/ Activate(j) \/ Finish(j)
       \/ \E delayed \in BOOLEAN : Retry(j, delayed)
  \/ Flush \/ SnapshotBegin \/ SnapshotRename \/ TruncateBegin \/ TruncateEnd
  \/ Dies \/ Restart

RecSpec == RecInit /\ [][RecNext]_recVars

-----------------------------------------------------------------------------
(* Properties                                                              *)

RecTypeOK ==
  /\ place \in [Jobs -> Places] /\ tries \in [Jobs -> 0 .. MaxAttempts]
  /\ heap \in [Jobs -> Nat] /\ body \subseteq Jobs
  /\ store \in [Jobs -> {"none", "active", "done"}]
  /\ log \in Seq(Entries) /\ flushed \in 0 .. Len(log) /\ seq \in Nat
  /\ ending \in BOOLEAN /\ alive \in BOOLEAN
  /\ snap \in [seq : Nat \cup {-1}, jobs : [Jobs -> Nat]]
  /\ onDisk \subseteq Ops \X Jobs /\ inSnapshot \subseteq Jobs

\* A job whose ENQUEUE record reached the file is there after any crash, until
\* it is finished ("replays any WAL entries ... to reconstruct in-flight jobs",
\* packages/queueovn/readme.md:836).
LoggedJobSurvives ==
  \A j \in Jobs : <<"ENQUEUE", j>> \in onDisk => place[j] # "lost"

\* The log alone keeps what it holds: as long as no snapshot was begun, a crash
\* at any moment loses no logged job.
LogAloneKeepsJobs == snaps = 0 => LoggedJobSurvives

\* A job that a snapshot taken at rest covers is there after any crash, whether it
\* falls between the rename and the truncation or after; under the first snapshot
\* a logged job also if it falls before the rename.  Under a later one it may not
\* be: what was logged since the first is numbered below its seq.
CoveredJobSurvives == \A j \in inSnapshot : place[j] # "lost"

\* A job whose COMPLETE record reached the log file is not run again (a snapshot
\* would bring it back: its jobs include the finished ones).
FinishedStaysFinished ==
  snaps = 0 /\ alive => \A j \in Jobs : <<"COMPLETE", j>> \in onDisk => place[j] = "finished"

\* size counts jobs: every heap entry has a body of its own, across crashes and
\* retries, until a snapshot is taken.
NoGhosts ==
  snaps = 0 => \A j \in Jobs : heap[j] = IF j \in body THEN 1 ELSE 0

\* What reached the disk is neither lost nor doubled by a crash: the log alone
\* keeps its jobs, a snapshot taken at rest keeps those it covers, and a job
\* that comes back comes back once.
LoggedJobsKept ==
  RecTypeOK /\ LogAloneKeepsJobs /\ CoveredJobSurvives /\ NoGhosts

\* The jobs a recovery finds: those logged and not finished are there, and those
\* that had finished are not.
JobsRecovered == LoggedJobsKept /\ FinishedStaysFinished
=============================================================================
