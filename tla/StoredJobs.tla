----------------------------- MODULE StoredJobs -----------------------------
(***************************************************************************)
(* FileAdapter and SqliteAdapter (packages/queueovn/src/adapters): the jobs*)
(* of a queue in a JSON file that one process keeps in memory and rewrites *)
(* after every change, or in the rows of a table that several processes    *)
(* open.  Neither awaits inside a call, so a call is a step; a rewrite of  *)
(* the file may fail, and the process may end between any two steps.       *)
(***************************************************************************)
EXTENDS Integers, FiniteSets

CONSTANTS
  KeptJobs,      \* numbered by priority
  Pollers,       \* process loops; the file has one, the table one per process
  FirstPoller,
  MaxTries,      \* bound: pushes of a job
  MaxFailed,     \* bound: rewrites of the file that fail
  MaxEnds        \* bound: times the processes end and start again

ASSUME StoredAssumption ==
  /\ KeptJobs \subseteq Nat /\ FirstPoller \in Pollers
  /\ MaxTries \in Nat \ {0} /\ MaxFailed \in Nat /\ MaxEnds \in Nat

VARIABLES
  medium,     \* which adapter it is
  stored,     \* the state of each job in memory (file) or in its row (table)
  onDisk,      \* what a process that starts finds
  tries,      \* pushes of the job so far
  popped,     \* the job a process loop has popped and not yet dispatched
  runs,       \* how many dispatched runs of the job there are
  delayed,    \* jobs a timer of the scheduler will push
  left,       \* history: why a job that is nowhere any more is not
  lostWrites,
  ends

storedVars == <<medium, stored, onDisk, tries, popped, runs, delayed, left, lostWrites, ends>>

Nothing0 == [j \in KeptJobs |-> "none"]

StoredTypeOK ==
  /\ medium \in {"file", "sqlite"}
  /\ stored \in [KeptJobs -> {"none", "waiting", "active", "over"}]
  /\ onDisk \in [KeptJobs -> {"none", "waiting", "active", "over"}]
  /\ tries \in [KeptJobs -> 0 .. MaxTries]
  /\ popped \in [Pollers -> SUBSET KeptJobs]
  /\ runs \in [KeptJobs -> Nat] /\ delayed \subseteq KeptJobs
  /\ left \in [KeptJobs -> {"no", "ended", "dropped", "lost"}]
  /\ lostWrites \in 0 .. MaxFailed /\ ends \in 0 .. MaxEnds

StoredInit ==
  /\ medium \in {"file", "sqlite"}
  /\ stored = Nothing0 /\ onDisk = Nothing0
  /\ tries = [j \in KeptJobs |-> 0] /\ popped = [p \in Pollers |-> {}]
  /\ runs = [j \in KeptJobs |-> 0] /\ delayed = {}
  /\ left = [j \in KeptJobs |-> "no"] /\ lostWrites = 0 /\ ends = 0

(***************************************************************************)
(* The adapters.  FileAdapter changes its object, then writes a temporary  *)
(* file and renames it; when that fails the call throws and the change stays *)
(* in memory.  A statement of the table is all or nothing.                 *)
(***************************************************************************)

Flush(m, ok) ==
  /\ stored' = m
  /\ IF ok THEN onDisk' = m /\ UNCHANGED lostWrites
           ELSE lostWrites < MaxFailed /\ lostWrites' = lostWrites + 1 /\ UNCHANGED onDisk

Statement(m) == stored' = m /\ onDisk' = m /\ UNCHANGED lostWrites

Rewrite(m, ok) ==
  \/ medium = "file" /\ Flush(m, ok)
  \/ medium = "sqlite" /\ ok /\ Statement(m)

FirstReady(m) ==
  CHOOSE j \in KeptJobs : m[j] = "waiting" /\ \A i \in KeptJobs : m[i] = "waiting" => j <= i

\* push and update: store.jobs[id] = job; INSERT OR REPLACE.
Put(j, s, ok) == Rewrite([stored EXCEPT ![j] = s], ok)

\* remove.
Take(j, ok) == Rewrite([stored EXCEPT ![j] = "none"], ok)

\* pop of the file deletes the job it returns; when the rewrite fails the job is
\* in memory no more and the process loop gets the error instead of it.
FilePop(p, ok) ==
  LET j == FirstReady(stored) IN
  /\ Flush([stored EXCEPT ![j] = "none"], ok)
  /\ popped' = IF ok THEN [popped EXCEPT ![p] = {j}] ELSE popped
  /\ left' = IF ok THEN left ELSE [left EXCEPT ![j] = "lost"]

\* pop of the table marks the row in the statement that finds it.
SqlitePop(p) ==
  LET j == FirstReady(stored) IN
  /\ Statement([stored EXCEPT ![j] = "active"])
  /\ popped' = [popped EXCEPT ![p] = {j}] /\ UNCHANGED left

(***************************************************************************)
(* The queue.                                                              *)
(***************************************************************************)

\* Only a process that has the file open may do something with it.
MayPoll(p) == medium = "sqlite" \/ p = FirstPoller

EnqueueStored(j, ok) ==
  /\ tries[j] = 0 /\ tries' = [tries EXCEPT ![j] = 1]
  /\ Put(j, "waiting", ok)
  /\ UNCHANGED <<medium, popped, runs, delayed, left, ends>>

PopStored(p, ok) ==
  /\ MayPoll(p) /\ popped[p] = {} /\ \E j \in KeptJobs : stored[j] = "waiting"
  /\ \/ medium = "file" /\ FilePop(p, ok)
     \/ medium = "sqlite" /\ ok /\ SqlitePop(p)
  /\ UNCHANGED <<medium, tries, runs, delayed, ends>>

\* The loop marks the job active, whether or not that can be saved, and runs it.
DispatchStored(p, j, ok) ==
  /\ popped[p] = {j} /\ popped' = [popped EXCEPT ![p] = {}]
  /\ Put(j, "active", ok)
  /\ runs' = [runs EXCEPT ![j] = @ + 1]
  /\ UNCHANGED <<medium, tries, delayed, left, ends>>

\* A plugin discards the job, or refuses it and it is pushed back.
DiscardStored(p, j) ==
  /\ popped[p] = {j} /\ popped' = [popped EXCEPT ![p] = {}]
  /\ left' = [left EXCEPT ![j] = "dropped"]
  /\ UNCHANGED <<medium, stored, onDisk, tries, runs, delayed, lostWrites, ends>>

PushBackStored(p, j, ok) ==
  /\ popped[p] = {j} /\ popped' = [popped EXCEPT ![p] = {}]
  /\ tries[j] < MaxTries /\ tries' = [tries EXCEPT ![j] = @ + 1]
  /\ Put(j, "waiting", ok)
  /\ UNCHANGED <<medium, runs, delayed, left, ends>>

\* Success, or failure for good.
FinishStored(j, ok) ==
  /\ runs[j] > 0 /\ runs' = [runs EXCEPT ![j] = @ - 1]
  /\ Put(j, "over", ok)
  /\ left' = [left EXCEPT ![j] = "ended"]
  /\ UNCHANGED <<medium, tries, popped, delayed, ends>>

RetryStored(j) ==
  /\ runs[j] > 0 /\ runs' = [runs EXCEPT ![j] = @ - 1]
  /\ tries[j] < MaxTries /\ delayed' = delayed \cup {j}
  /\ UNCHANGED <<medium, stored, onDisk, tries, popped, left, lostWrites, ends>>

DueStored(j, ok) ==
  /\ j \in delayed /\ delayed' = delayed \ {j}
  /\ tries' = [tries EXCEPT ![j] = @ + 1]
  /\ Put(j, "waiting", ok)
  /\ UNCHANGED <<medium, popped, runs, left, ends>>

ExpireStored(j, ok) ==
  /\ tries[j] > 0 /\ left[j] # "ended"
  /\ Take(j, ok)
  /\ left' = [left EXCEPT ![j] = "dropped"]
  /\ UNCHANGED <<medium, tries, popped, runs, delayed, ends>>

ClearStored(ok) ==
  /\ Rewrite(Nothing0, ok)
  /\ left' = [j \in KeptJobs |-> IF stored[j] \in {"waiting", "active"} THEN "dropped" ELSE left[j]]
  /\ UNCHANGED <<medium, tries, popped, runs, delayed, ends>>

\* The processes end and start again: initialize reads the file, or opens it.
\* Nothing pushes back a job that was popped from the file and not yet saved as
\* active.
RestartStored ==
  /\ ends < MaxEnds /\ ends' = ends + 1
  /\ stored' = onDisk
  /\ left' = [j \in KeptJobs |->
                IF left[j] = "no" /\ tries[j] > 0 /\ onDisk[j] = "none" THEN "lost" ELSE left[j]]
  /\ popped' = [p \in Pollers |-> {}] /\ runs' = [j \in KeptJobs |-> 0] /\ delayed' = {}
  /\ UNCHANGED <<medium, onDisk, tries, lostWrites>>

StoredNext ==
  \/ \E j \in KeptJobs, ok \in BOOLEAN :
       \/ EnqueueStored(j, ok) \/ FinishStored(j, ok) \/ DueStored(j, ok) \/ ExpireStored(j, ok)
  \/ \E p \in Pollers, ok \in BOOLEAN : PopStored(p, ok)
  \/ \E p \in Pollers, j \in KeptJobs, ok \in BOOLEAN :
       DispatchStored(p, j, ok) \/ PushBackStored(p, j, ok)
  \/ \E p \in Pollers, j \in KeptJobs : DiscardStored(p, j)
  \/ \E j \in KeptJobs : RetryStored(j)
  \/ \E ok \in BOOLEAN : ClearStored(ok)
  \/ RestartStored

StoredSpec == StoredInit /\ [][StoredNext]_storedVars

----------------------------------------------------------------------------
(* Properties.                                                             *)

Hands0(j) == runs[j] + Cardinality({p \in Pollers : popped[p] = {j}})

\* Neither adapter gives a job to two process loops, nor one that runs.
OneRunnerStored == \A j \in KeptJobs : Hands0(j) <= 1

\* A job that was accepted waits, runs or has a timer, unless it ended, was
\* dropped on purpose, or was in one of the two gaps of FileAdapter: a pop whose
\* rewrite failed, and an end of the process while the job was popped or before
\* the rewrite that would have saved it.
StoredJobsKept ==
  \A j \in KeptJobs : tries[j] > 0 /\ left[j] = "no" =>
    stored[j] \in {"waiting", "active"} \/ Hands0(j) > 0 \/ j \in delayed

\* The table has no such gap: what a process had popped is still in its row.
RowsKept == medium = "sqlite" => \A j \in KeptJobs : left[j] # "lost"

\* A job that ended is not run again, whatever rewrites failed and whenever the
\* process ended since.
EndedStaysEnded ==
  \A j \in KeptJobs : left[j] = "ended" =>
    Hands0(j) = 0 /\ j \notin delayed /\ stored[j] # "waiting"
=============================================================================
