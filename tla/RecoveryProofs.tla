--------------------------- MODULE RecoveryProofs ---------------------------
(***************************************************************************)
(* Theorems about the persistence of the job queue: what a recovery builds *)
(* from a snapshot and a log, and that what reached the disk is neither    *)
(* lost nor doubled by any number of crashes, for any jobs and attempts    *)
(* and, with no snapshot, at any moment.                                   *)
(***************************************************************************)
EXTENDS QueueRecovery, SequenceTheorems, WellFoundedInduction, TLAPS

\* A snapshot being written.
Takings == [seq : Nat, jobs : [Jobs -> Nat], renamed : BOOLEAN]

\* Where the process has a job and what the adapter has of it agree.
PlacesOK ==
  /\ taking = <<>> \/ (taking = <<taking[1]>> /\ taking[1] \in Takings)
  /\ snaps \in Nat
  /\ \A j \in Jobs :
       /\ place[j] \in {"new", "scheduled", "pending", "popped"} => tries[j] < MaxAttempts
       /\ j \in body <=> place[j] = "pending"
       /\ place[j] = "new" =>
            /\ store[j] = "none" /\ snap.jobs[j] = 0 /\ j \notin inSnapshot
            /\ taking # <<>> => taking[1].jobs[j] = 0

\* Until a snapshot is there nothing truncates the log.
SnapsOK ==
  /\ snaps = 0 => snap = NoSnap /\ taking = <<>>
  /\ snap = NoSnap => ~ending /\ (taking # <<>> => ~taking[1].renamed)

\* The log is numbered in its order, and the writer goes on above it.
Numbered ==
  /\ \A i, k \in 1 .. Len(log) : i < k => log[i].seq < log[k].seq
  /\ \A i \in 1 .. Len(log) : log[i].seq < seq

\* A completion that a recovery would read is of a job that finished, and the job was not
\* enqueued again: as long as there is no snapshot, or they are taken at rest.
DoneOK ==
  (snap = NoSnap \/ SnapAtRest) =>
    \A i \in 1 .. Len(log) :
      (log[i].op = "COMPLETE" /\ ReadAfter(log[i])) =>
        /\ place[log[i].job] = "finished"
        /\ \A k \in 1 .. Len(log) : (i < k /\ log[k].job = log[i].job) => log[k].op # "ENQUEUE"

\* Without a snapshot: the file is what ever reached it, a job is enqueued once, and is in
\* the process then; the heap has one entry for each body.
LogOnlyOK ==
  snap = NoSnap =>
    /\ onDisk = {<<log[i].op, log[i].job>> : i \in 1 .. flushed}
    /\ \A i \in 1 .. Len(log) : log[i].op = "ENQUEUE" =>
         /\ place[log[i].job] \notin {"new", "lost"}
         /\ \A k \in 1 .. Len(log) : (i # k /\ log[k].job = log[i].job) => log[k].op # "ENQUEUE"
    /\ \A j \in Jobs : heap[j] = IF j \in body THEN 1 ELSE 0
    /\ \A j \in inSnapshot : <<"ENQUEUE", j>> \in onDisk

\* Snapshots at rest: nothing is logged while one is being written, and each covers what
\* the ones before it covered.
RestOK ==
  SnapAtRest =>
    /\ taking # <<>> =>
         /\ \A j \in Jobs : place[j] \in {"new", "pending"}
         /\ \A j \in inSnapshot : taking[1].jobs[j] > 0
         /\ \A i \in 1 .. Len(log) : log[i].seq < taking[1].seq
    /\ snap # NoSnap => \A j \in inSnapshot : snap.jobs[j] > 0
    /\ \A j \in Jobs : snap.jobs[j] > 0 => place[j] # "lost"

RecoveryInv ==
  RecTypeOK /\ PlacesOK /\ SnapsOK /\ Numbered /\ DoneOK /\ LogOnlyOK /\ RestOK

-----------------------------------------------------------------------------
(* The log and its records.                                                *)

LEMMA LeastNatural ==
  ASSUME NEW ns \in SUBSET Nat, ns # {}
  PROVE  \E m \in ns : \A n \in ns : m <= n
<1> DEFINE less == OpToRel(<, Nat)
<1>1. IsWellFoundedOn(less, Nat)
  BY NatLessThanWellFounded
<1>2. \A m, n \in Nat : m < n => <<m, n>> \in less
  BY DEF OpToRel
<1> HIDE DEF less
<1>3. PICK m \in ns : \A n \in ns : ~ (<<n, m>> \in less)
  BY <1>1, WFMin
<1>4. ASSUME NEW n \in ns PROVE m <= n
  <2>1. m \in Nat /\ n \in Nat /\ ~(n < m)
    BY <1>2, <1>3
  <2> QED  BY <2>1
<1> QED  BY <1>3, <1>4

\* What the types say of the log.
LEMMA LogTypes ==
  ASSUME RecTypeOK
  PROVE  /\ log \in Seq(Entries) /\ Len(log) \in Nat /\ flushed \in 0 .. Len(log)
         /\ flushed \in Nat /\ flushed <= Len(log)
         /\ DOMAIN log = 1 .. Len(log)
         /\ \A i \in 1 .. Len(log) :
              /\ log[i] \in Entries /\ log[i].seq \in Nat /\ log[i].op \in Ops /\ log[i].job \in Jobs
         /\ seq \in Nat /\ snap.seq \in Nat \cup {-1} /\ snap.jobs \in [Jobs -> Nat]
<1>1. log \in Seq(Entries) /\ flushed \in 0 .. Len(log) /\ seq \in Nat
  BY DEF RecTypeOK
<1>2. Len(log) \in Nat /\ DOMAIN log = 1 .. Len(log) /\ \A i \in 1 .. Len(log) : log[i] \in Entries
  BY <1>1
<1>3. \A e \in Entries : e.seq \in Nat /\ e.op \in Ops /\ e.job \in Jobs
  BY DEF Entries
<1>4. snap.seq \in Nat \cup {-1} /\ snap.jobs \in [Jobs -> Nat]
  BY DEF RecTypeOK
<1> QED  BY <1>1, <1>2, <1>3, <1>4

\* append(): the log is longer by one record, above the others, or the process exits.
Appended(op, j) ==
  /\ log' \in Seq(Entries) /\ Len(log') = Len(log) + 1
  /\ \A i \in 1 .. Len(log) : log'[i] = log[i]
  /\ log'[Len(log) + 1] = [seq |-> seq, op |-> op, job |-> j]
  /\ seq' = seq + 1 /\ flushed' = flushed /\ ending' = ending /\ alive' = alive

LEMMA LoggedAppends ==
  ASSUME RecTypeOK, NEW op \in Ops, NEW j \in Jobs, Logged(op, j)
  PROVE  /\ ending => alive' = FALSE /\ UNCHANGED wal
         /\ ~ending => Appended(op, j)
<1>1. CASE ending
  BY <1>1 DEF Logged
<1>2. CASE ~ending
  <2>1. PICK e : e = [seq |-> seq, op |-> op, job |-> j]
    OBVIOUS
  <2>2. log \in Seq(Entries) /\ seq \in Nat
    BY DEF RecTypeOK
  <2>3. e \in Entries
    BY <2>1, <2>2 DEF Entries
  <2>4. /\ log' = log \o <<e>> /\ seq' = seq + 1
        /\ flushed' = flushed /\ ending' = ending /\ alive' = alive
    BY <1>2, <2>1 DEF Logged
  <2>5. /\ log' \in Seq(Entries) /\ Len(log') = Len(log) + 1
        /\ \A i \in 1 .. Len(log) : log'[i] = log[i]
        /\ log'[Len(log) + 1] = e
    BY <2>2, <2>3, <2>4
  <2> QED  BY <1>2, <2>1, <2>4, <2>5 DEF Appended
<1> QED  BY <1>1, <1>2

\* What is undisturbed at rest, or before a snapshot, logs.
LEMMA RestLogs ==
  ASSUME SnapsOK, Undisturbed, snap = NoSnap \/ SnapAtRest
  PROVE  ~ending
BY DEF SnapsOK, Undisturbed

\* The steps that log, and what they log.
Logging(op, j) ==
  \/ op = "ENQUEUE" /\ Enqueue(j)
  \/ op = "ACTIVATE" /\ Activate(j)
  \/ op = "COMPLETE" /\ Finish(j)
  \/ op = "RETRY" /\ \E delayed \in BOOLEAN : Retry(j, delayed)

\* The steps of the process that do not.
Quiet ==
  \/ \E j \in Jobs : EnqueueDelayed(j) \/ Due(j) \/ Pop(j) \/ PopGhost(j)
  \/ Flush \/ SnapshotBegin \/ SnapshotRename \/ TruncateBegin \/ Dies

LEMMA Steps ==
  ASSUME RecNext
  PROVE  \/ \E op \in Ops, j \in Jobs : Logging(op, j)
         \/ Quiet \/ TruncateEnd \/ Restart
BY DEF RecNext, Logging, Quiet, Ops

LEMMA LoggingLogs ==
  ASSUME NEW op \in Ops, NEW j \in Jobs, Logging(op, j)
  PROVE  /\ Logged(op, j) /\ Undisturbed /\ alive
         /\ UNCHANGED <<snap, taking, snaps, inSnapshot, crashes, onDisk>>
BY DEF Logging, Enqueue, Activate, Finish, Retry, disk, Undisturbed

LEMMA QuietKeepsLog ==
  ASSUME Quiet
  PROVE  UNCHANGED <<log, seq>>
BY DEF Quiet, EnqueueDelayed, Due, Pop, PopGhost, Flush, SnapshotBegin, SnapshotRename,
       TruncateBegin, Dies, wal

LEMMA RestartCuts ==
  ASSUME RecTypeOK, Restart
  PROVE  /\ log' \in Seq(Entries) /\ Len(log') = flushed
         /\ \A i \in 1 .. flushed : i \in 1 .. Len(log) /\ log'[i] = log[i]
         /\ flushed' = flushed
<1>1. log \in Seq(Entries) /\ flushed \in 0 .. Len(log) /\ Len(log) \in Nat
  BY LogTypes
<1>2. log' = SubSeq(log, 1, flushed) /\ flushed' = flushed
  BY DEF Restart
<1>3. SubSeq(log, 1, flushed) \in Seq(Entries) /\ Len(SubSeq(log, 1, flushed)) = flushed
  BY <1>1
<1>4. \A i \in 1 .. flushed : i \in 1 .. Len(log) /\ SubSeq(log, 1, flushed)[i] = log[i]
  BY <1>1
<1> QED  BY <1>2, <1>3, <1>4

-----------------------------------------------------------------------------
(* Numbers.                                                                *)

LEMMA NumberedKept ==
  ASSUME RecTypeOK, Numbered, SnapsOK, RecNext
  PROVE  Numbered'
<1>0. /\ Len(log) \in Nat /\ seq \in Nat /\ flushed \in Nat /\ flushed <= Len(log)
      /\ \A i \in 1 .. Len(log) : log[i].seq \in Nat
  BY LogTypes
<1>1. ASSUME NEW op \in Ops, NEW j \in Jobs, Logging(op, j) PROVE Numbered'
  <2>1. (ending => UNCHANGED wal) /\ (~ending => Appended(op, j))
    BY <1>1, LoggingLogs, LoggedAppends
  <2>2. CASE ending
    BY <2>1, <2>2 DEF wal, Numbered
  <2>3. CASE ~ending
    <3>1. /\ Len(log') = Len(log) + 1 /\ \A i \in 1 .. Len(log) : log'[i] = log[i]
          /\ log'[Len(log) + 1].seq = seq /\ seq' = seq + 1
      BY <2>1, <2>3 DEF Appended
    <3>2. \A i \in 1 .. Len(log') : log'[i].seq < seq'
      <4>1. \A i \in 1 .. Len(log') : i \in 1 .. Len(log) \/ i = Len(log) + 1
        BY <1>0, <3>1
      <4> QED  BY <1>0, <3>1, <4>1 DEF Numbered
    <3>3. \A i, k \in 1 .. Len(log') : i < k => log'[i].seq < log'[k].seq
      <4>1. \A i, k \in 1 .. Len(log') : i < k =>
              i \in 1 .. Len(log) /\ (k \in 1 .. Len(log) \/ k = Len(log) + 1)
        BY <1>0, <3>1
      <4> QED  BY <1>0, <3>1, <4>1 DEF Numbered
    <3> QED  BY <3>2, <3>3 DEF Numbered
  <2> QED  BY <2>2, <2>3
<1>2. CASE Quiet
  BY <1>2, QuietKeepsLog DEF Numbered
<1>3. CASE TruncateEnd
  <2>1. log' = <<>> /\ Len(log') = 0
    BY <1>3 DEF TruncateEnd
  <2> QED  BY <2>1 DEF Numbered
<1>4. CASE Restart
  <2>1. Len(log') = flushed /\ \A i \in 1 .. flushed : i \in 1 .. Len(log) /\ log'[i] = log[i]
    BY <1>4, RestartCuts
  <2>2. seq' = IF flushed = 0 THEN 0 ELSE log[flushed].seq + 1
    BY <1>4 DEF Restart
  <2>3. \A i \in 1 .. flushed : log[i].seq < seq'
    <3>1. ASSUME NEW i \in 1 .. flushed PROVE log[i].seq < seq'
      <4>1. flushed \in 1 .. Len(log) /\ i \in 1 .. Len(log) /\ flushed # 0 /\ (i < flushed \/ i = flushed)
        BY <1>0
      <4>2. log[i].seq \in Nat /\ log[flushed].seq \in Nat /\ (i < flushed => log[i].seq < log[flushed].seq)
        BY <1>0, <4>1 DEF Numbered
      <4> QED  BY <2>2, <4>1, <4>2
    <3> QED  BY <3>1
  <2>4. \A i, k \in 1 .. flushed : i < k => log[i].seq < log[k].seq
    BY <2>1 DEF Numbered
  <2> QED  BY <2>1, <2>3, <2>4 DEF Numbered
<1> QED  BY <1>1, <1>2, <1>3, <1>4, Steps

-----------------------------------------------------------------------------
(* What a recovery builds.                                                 *)

\* g is the recursive function of Recovered.
ReadStep(g, entries, n) ==
  IF n = 0 THEN FromSnapshot
  ELSE IF ReadAfter(entries[n]) THEN ReplayEntry(g[n - 1], entries[n]) ELSE g[n - 1]
IsRead(g, entries) == g = [n \in 0 .. Len(entries) |-> ReadStep(g, entries, n)]

LEMMA ReadIsThere ==
  ASSUME NEW entries \in Seq(Entries)
  PROVE  \E g : IsRead(g, entries)
<1> DEFINE At(g, i) == ReadStep(g, entries, i)
           Is(g, n) == g = [i \in 0 .. n |-> At(g, i)]
           bad == {n \in 0 .. Len(entries) : ~(\E g : Is(g, n))}
<1>0. Len(entries) \in Nat
  OBVIOUS
<1>1. Is([i \in 0 .. 0 |-> FromSnapshot], 0)
  BY DEF ReadStep
<1>2. ASSUME NEW m \in Nat \ {0}, NEW g, Is(g, m - 1)
      PROVE  \E h : Is(h, m)
  <2> DEFINE h == [i \in 0 .. m |-> IF i = m THEN At(g, m) ELSE g[i]]
  <2>1. \A i \in 0 .. m : At(h, i) = At(g, i)
    <3>1. \A i \in 0 .. m : i # 0 => i - 1 \in 0 .. m /\ i - 1 # m
      OBVIOUS
    <3> QED  BY <3>1 DEF ReadStep
  <2>2. \A i \in 0 .. m : i # m => g[i] = At(g, i)
    <3>1. \A i \in 0 .. m : i # m => i \in 0 .. m - 1
      OBVIOUS
    <3> HIDE DEF At
    <3> QED  BY <1>2, <3>1
  <2> HIDE DEF At
  <2>3. h = [i \in 0 .. m |-> At(h, i)]
    BY <2>1, <2>2
  <2> QED  BY <2>3
<1> HIDE DEF Is
<1>3. bad = {}
  <2> SUFFICES ASSUME bad # {} PROVE FALSE
    OBVIOUS
  <2>1. bad \subseteq Nat
    BY <1>0
  <2>2. PICK m \in bad : \A n \in bad : m <= n
    BY <2>1, LeastNatural
  <2>3. m \in Nat /\ m \in 0 .. Len(entries) /\ ~(\E g : Is(g, m))
    BY <1>0, <2>2
  <2>4. m # 0
    BY <1>1, <2>3
  <2>5. m - 1 \in 0 .. Len(entries) /\ ~(m <= m - 1)
    BY <1>0, <2>3, <2>4
  <2>6. PICK g : Is(g, m - 1)
    BY <2>2, <2>5
  <2> QED  BY <1>2, <2>3, <2>4, <2>6
<1>4. \E g : Is(g, Len(entries))
  BY <1>0, <1>3
<1> QED  BY <1>4 DEF Is, IsRead

\* What is read from the first n entries.  Every body has an entry in the heap.
Paired(r) ==
  /\ r \in [heap : [Jobs -> Nat], body : SUBSET Jobs]
  /\ \A j \in r.body : r.heap[j] > 0

\* A job of the snapshot, or of an ENQUEUE that is read, is there if no COMPLETE is read.
Covered(r, entries, n) ==
  \A j \in Jobs :
    \/ j \in r.body
    \/ \E i \in 1 .. n : entries[i].op = "COMPLETE" /\ entries[i].job = j /\ ReadAfter(entries[i])
    \/ /\ snap.jobs[j] = 0
       /\ \A i \in 1 .. n : (entries[i].op = "ENQUEUE" /\ entries[i].job = j) => ~ReadAfter(entries[i])

\* A job of which a COMPLETE is read, with no ENQUEUE after it, is not.
DoneGone(r, entries, n) ==
  \A i \in 1 .. n :
    (/\ entries[i].op = "COMPLETE" /\ ReadAfter(entries[i])
     /\ \A k \in 1 .. n : (i < k /\ entries[k].job = entries[i].job) => entries[k].op # "ENQUEUE")
    => entries[i].job \notin r.body

\* What is there was in the snapshot or enqueued ...
Came(r, entries, n) ==
  \A j \in r.body :
    snap.jobs[j] > 0 \/ \E i \in 1 .. n : entries[i].op = "ENQUEUE" /\ entries[i].job = j

\* ... and, from the log alone with no job enqueued twice, it is there once.
EnqueuedOnce(entries, n) ==
  \A i, k \in 1 .. n :
    (i # k /\ entries[i].op = "ENQUEUE" /\ entries[k].job = entries[i].job) => entries[k].op # "ENQUEUE"
Single(r, entries, n) ==
  (snap = NoSnap /\ EnqueuedOnce(entries, n)) => \A j \in Jobs : r.heap[j] = IF j \in r.body THEN 1 ELSE 0

Says(r, entries, n) ==
  /\ Paired(r) /\ Covered(r, entries, n) /\ DoneGone(r, entries, n)
  /\ Came(r, entries, n) /\ Single(r, entries, n)

\* The replay of one entry, job by job.
LEMMA ReplayEntryIs ==
  ASSUME NEW r, NEW e \in Entries, Paired(r), NEW n, n = ReplayEntry(r, e)
  PROVE  /\ Paired(n)
         /\ e.op = "ENQUEUE" =>
              /\ n.body = r.body \cup {e.job}
              /\ \A j \in Jobs : n.heap[j] = IF j = e.job THEN r.heap[j] + 1 ELSE r.heap[j]
         /\ e.op = "COMPLETE" =>
              /\ n.body = r.body \ {e.job}
              /\ \A j \in Jobs : j # e.job => n.heap[j] = r.heap[j]
              /\ r.heap[e.job] <= 1 => n.heap[e.job] = 0
         /\ e.op \notin {"ENQUEUE", "COMPLETE"} => n = r
<1>0. /\ r.heap \in [Jobs -> Nat] /\ r.body \subseteq Jobs /\ e.job \in Jobs
      /\ r \in [heap : [Jobs -> Nat], body : SUBSET Jobs] /\ \A j \in r.body : r.heap[j] > 0
      /\ \A j \in Jobs : r.heap[j] \in Nat
  BY DEF Paired, Entries
<1>h. PICK h \in [Jobs -> Nat], b \in SUBSET Jobs : r = [heap |-> h, body |-> b]
  BY <1>0
<1>1. CASE e.op = "ENQUEUE"
  <2>1. n = [r EXCEPT !.heap[e.job] = @ + 1, !.body = @ \cup {e.job}]
    BY <1>1 DEF ReplayEntry, Pushed
  <2>a. n = [heap |-> [h EXCEPT ![e.job] = @ + 1], body |-> b \cup {e.job}]
    BY <1>h, <2>1
  <2>b. [h EXCEPT ![e.job] = @ + 1] \in [Jobs -> Nat] /\ b \cup {e.job} \in SUBSET Jobs
    BY <1>0
  <2>2. n.heap = [r.heap EXCEPT ![e.job] = @ + 1] /\ n.body = r.body \cup {e.job}
        /\ n \in [heap : [Jobs -> Nat], body : SUBSET Jobs]
    <3>1. PICK h2 \in [Jobs -> Nat] : h2 = [h EXCEPT ![e.job] = @ + 1]
      BY <2>b
    <3>2. n = [heap |-> h2, body |-> b \cup {e.job}] /\ r.heap = h /\ r.body = b
      BY <1>h, <2>a, <3>1
    <3> QED  BY <2>b, <3>1, <3>2
  <2>3. \A j \in Jobs : n.heap[j] = IF j = e.job THEN r.heap[j] + 1 ELSE r.heap[j]
    BY <1>0, <2>2
  <2>4. \A j \in n.body : n.heap[j] > 0
    <3>1. ASSUME NEW j \in n.body PROVE n.heap[j] > 0
      <4>1. j \in Jobs /\ r.heap[j] \in Nat /\ (j = e.job \/ r.heap[j] > 0)
        BY <1>0, <2>2
      <4> QED  BY <2>3, <4>1
    <3> QED  BY <3>1
  <2> QED  BY <1>1, <2>2, <2>3, <2>4 DEF Paired
<1>2. CASE e.op = "COMPLETE"
  <2>1. n = [r EXCEPT !.heap[e.job] = IF @ = 0 THEN 0 ELSE @ - 1,
                      !.body = IF r.heap[e.job] = 0 THEN @ ELSE @ \ {e.job}]
    BY <1>2 DEF ReplayEntry, Removed
  <2>a. n = [heap |-> [h EXCEPT ![e.job] = IF @ = 0 THEN 0 ELSE @ - 1],
             body |-> IF h[e.job] = 0 THEN b ELSE b \ {e.job}]
    BY <1>h, <2>1
  <2>b. [h EXCEPT ![e.job] = IF @ = 0 THEN 0 ELSE @ - 1] \in [Jobs -> Nat]
    BY <1>0
  <2>2. n.heap = [r.heap EXCEPT ![e.job] = IF @ = 0 THEN 0 ELSE @ - 1]
        /\ n.body = (IF r.heap[e.job] = 0 THEN r.body ELSE r.body \ {e.job})
        /\ n \in [heap : [Jobs -> Nat], body : SUBSET Jobs]
    <3>1. PICK h2 \in [Jobs -> Nat] : h2 = [h EXCEPT ![e.job] = IF @ = 0 THEN 0 ELSE @ - 1]
      BY <2>b
    <3>2. PICK b2 \in SUBSET Jobs : b2 = (IF h[e.job] = 0 THEN b ELSE b \ {e.job})
      OBVIOUS
    <3>3. n = [heap |-> h2, body |-> b2] /\ r.heap = h /\ r.body = b
      BY <1>h, <2>a, <3>1, <3>2
    <3> QED  BY <3>1, <3>2, <3>3
  <2>3. n.body = r.body \ {e.job}
    BY <1>0, <2>2
  <2>4. \A j \in Jobs : j # e.job => n.heap[j] = r.heap[j]
    BY <1>0, <2>2
  <2>5. r.heap[e.job] <= 1 => n.heap[e.job] = 0
    BY <1>0, <2>2
  <2>6. \A j \in n.body : n.heap[j] > 0
    BY <1>0, <2>3, <2>4
  <2> QED  BY <1>2, <2>2, <2>3, <2>4, <2>5, <2>6 DEF Paired
<1>3. CASE e.op \notin {"ENQUEUE", "COMPLETE"}
  BY <1>3 DEF ReplayEntry
<1> QED  BY <1>1, <1>2, <1>3

\* Reading one more entry.
LEMMA SaysMore ==
  ASSUME NEW entries \in Seq(Entries), NEW m \in 1 .. Len(entries), NEW r, NEW n,
         snap.jobs \in [Jobs -> Nat], Says(r, entries, m - 1),
         n = IF ReadAfter(entries[m]) THEN ReplayEntry(r, entries[m]) ELSE r
  PROVE  Says(n, entries, m)
<1>0. /\ m \in Nat /\ m # 0 /\ m \in 1 .. m
      /\ \A i \in 1 .. m : i = m \/ (i \in 1 .. m - 1 /\ i < m)
      /\ \A i \in 1 .. m - 1 : i \in 1 .. m /\ i < m /\ i # m
  OBVIOUS
<1> DEFINE e == entries[m]
<1>1. e \in Entries /\ e.job \in Jobs
  <2>1. e \in Entries
    OBVIOUS
  <2> QED  BY <2>1 DEF Entries
<1> HIDE DEF e
<1>e. e = entries[m]
  BY DEF e
<1>2. Paired(r) /\ Paired(n)
  <2>1. Paired(r)
    BY DEF Says
  <2>2. CASE ReadAfter(e)
    <3>1. n = ReplayEntry(r, e)
      BY <1>e, <2>2
    <3> QED  BY <1>1, <2>1, <3>1, ReplayEntryIs
  <2> QED  BY <1>e, <2>1, <2>2
<1>t. /\ r.body \subseteq Jobs /\ n.body \subseteq Jobs
      /\ \A j \in Jobs : r.heap[j] \in Nat /\ n.heap[j] \in Nat
  BY <1>2 DEF Paired
<1>3. CASE ReadAfter(e) /\ e.op = "ENQUEUE"
  <2>1. /\ n.body = r.body \cup {e.job}
        /\ \A j \in Jobs : n.heap[j] = IF j = e.job THEN r.heap[j] + 1 ELSE r.heap[j]
    BY <1>e, <1>1, <1>2, <1>3, ReplayEntryIs
  <2>2. Covered(n, entries, m)
    BY <1>0, <1>e, <1>3, <2>1 DEF Says, Covered
  <2>3. DoneGone(n, entries, m)
    BY <1>0, <1>e, <1>3, <2>1 DEF Says, DoneGone
  <2>4. Came(n, entries, m)
    BY <1>0, <1>e, <1>3, <2>1 DEF Says, Came
  <2>5. ASSUME snap = NoSnap, EnqueuedOnce(entries, m)
        PROVE  \A j \in Jobs : n.heap[j] = IF j \in n.body THEN 1 ELSE 0
    <3>1. EnqueuedOnce(entries, m - 1)
      BY <1>e, <1>0, <2>5 DEF EnqueuedOnce
    <3>2. \A j \in Jobs : r.heap[j] = IF j \in r.body THEN 1 ELSE 0
      BY <2>5, <3>1 DEF Says, Single
    <3>3. e.job \notin r.body
      <4>1. ~(snap.jobs[e.job] > 0)
        <5>1. NoSnap.jobs = [j \in Jobs |-> 0]
          BY DEF NoSnap
        <5> QED  BY <1>1, <2>5, <5>1
      <4>2. ~(\E i \in 1 .. m - 1 : entries[i].op = "ENQUEUE" /\ entries[i].job = e.job)
        BY <1>e, <1>0, <1>3, <2>5 DEF EnqueuedOnce
      <4>3. e.job \in r.body => (snap.jobs[e.job] > 0
              \/ \E i \in 1 .. m - 1 : entries[i].op = "ENQUEUE" /\ entries[i].job = e.job)
        BY DEF Says, Came
      <4> QED  BY <4>1, <4>2, <4>3
    <3>4. \A j \in Jobs : j \in n.body <=> (j \in r.body \/ j = e.job)
      BY <2>1
    <3>5. n.heap[e.job] = 1
      BY <1>1, <2>1, <3>2, <3>3
    <3>6. ASSUME NEW j \in Jobs, j # e.job PROVE n.heap[j] = r.heap[j]
      BY <2>1, <3>6
    <3> QED  BY <3>2, <3>3, <3>4, <3>5, <3>6
  <2> QED  BY <1>2, <2>2, <2>3, <2>4, <2>5 DEF Says, Single
<1>4. CASE ReadAfter(e) /\ e.op = "COMPLETE"
  <2>1. /\ n.body = r.body \ {e.job}
        /\ \A j \in Jobs : j # e.job => n.heap[j] = r.heap[j]
        /\ r.heap[e.job] <= 1 => n.heap[e.job] = 0
    BY <1>e, <1>1, <1>2, <1>4, ReplayEntryIs
  <2>2. Covered(n, entries, m)
    BY <1>e, <1>0, <1>4, <2>1 DEF Says, Covered
  <2>3. DoneGone(n, entries, m)
    <3>1. ASSUME NEW i \in 1 .. m, entries[i].op = "COMPLETE", ReadAfter(entries[i]),
                 \A k \in 1 .. m : (i < k /\ entries[k].job = entries[i].job) => entries[k].op # "ENQUEUE"
          PROVE  entries[i].job \notin n.body
      <4>1. CASE i = m
        BY <1>e, <2>1, <4>1
      <4>2. CASE i # m
        <5>1. i \in 1 .. m - 1
          BY <1>e, <1>0, <4>2
        <5>2. entries[i].job \notin r.body
          BY <1>e, <1>0, <3>1, <5>1 DEF Says, DoneGone
        <5> QED  BY <2>1, <5>2
      <4> QED  BY <4>1, <4>2
    <3> QED  BY <3>1 DEF DoneGone
  <2>4. Came(n, entries, m)
    BY <1>e, <1>0, <2>1 DEF Says, Came
  <2>5. ASSUME snap = NoSnap, EnqueuedOnce(entries, m)
        PROVE  \A j \in Jobs : n.heap[j] = IF j \in n.body THEN 1 ELSE 0
    <3>1. EnqueuedOnce(entries, m - 1)
      BY <1>e, <1>0, <2>5 DEF EnqueuedOnce
    <3>2. \A j \in Jobs : r.heap[j] = IF j \in r.body THEN 1 ELSE 0
      BY <2>5, <3>1 DEF Says, Single
    <3>3. n.heap[e.job] = 0
      BY <1>1, <2>1, <3>2
    <3> QED  BY <1>1, <2>1, <3>2, <3>3
  <2> QED  BY <1>2, <2>2, <2>3, <2>4, <2>5 DEF Says, Single
<1>5. CASE ~ReadAfter(e) \/ e.op \notin {"ENQUEUE", "COMPLETE"}
  <2>1. n = r
    BY <1>e, <1>1, <1>2, <1>5, ReplayEntryIs
  <2>2. Covered(n, entries, m)
    BY <1>e, <1>0, <1>5, <2>1 DEF Says, Covered
  <2>3. DoneGone(n, entries, m)
    BY <1>e, <1>0, <1>5, <2>1 DEF Says, DoneGone
  <2>4. Came(n, entries, m)
    BY <1>e, <1>0, <2>1 DEF Says, Came
  <2>5. EnqueuedOnce(entries, m) => EnqueuedOnce(entries, m - 1)
    BY <1>e, <1>0 DEF EnqueuedOnce
  <2> QED  BY <1>2, <2>1, <2>2, <2>3, <2>4, <2>5 DEF Says, Single
<1> QED  BY <1>3, <1>4, <1>5

\* What Recovered returns, for any log and snapshot.
LEMMA RecoveredIs ==
  ASSUME NEW entries \in Seq(Entries), snap.jobs \in [Jobs -> Nat]
  PROVE  Says(Recovered(entries), entries, Len(entries))
<1> DEFINE upTo[n \in 0 .. Len(entries)] ==
             IF n = 0 THEN FromSnapshot
             ELSE IF ReadAfter(entries[n]) THEN ReplayEntry(upTo[n - 1], entries[n])
             ELSE upTo[n - 1]
           bad == {n \in 0 .. Len(entries) : ~Says(upTo[n], entries, n)}
<1>0. Len(entries) \in Nat
  OBVIOUS
<1>1. Recovered(entries) = upTo[Len(entries)]
  BY DEF Recovered
<1>2. upTo = [n \in 0 .. Len(entries) |-> ReadStep(upTo, entries, n)]
  <2>1. \E g : IsRead(g, entries)
    BY ReadIsThere
  <2>2. upTo = CHOOSE g : IsRead(g, entries)
    BY DEF IsRead, ReadStep
  <2> HIDE DEF upTo
  <2>3. IsRead(upTo, entries)
    BY <2>1, <2>2
  <2> QED  BY <2>3 DEF IsRead
<1> HIDE DEF upTo
<1>3. Says(upTo[0], entries, 0)
  <2>1. upTo[0] = FromSnapshot
    BY <1>0, <1>2 DEF ReadStep
  <2>2. PICK r : r = upTo[0]
    OBVIOUS
  <2>3. r.heap = snap.jobs /\ r.body = {j \in Jobs : snap.jobs[j] > 0}
        /\ r \in [heap : [Jobs -> Nat], body : SUBSET Jobs]
    BY <2>1, <2>2 DEF FromSnapshot
  <2>4. \A j \in Jobs : snap.jobs[j] \in Nat
    OBVIOUS
  <2>j. \A j \in Jobs : j \in r.body <=> snap.jobs[j] > 0
    BY <2>3
  <2>5. Paired(r) /\ Came(r, entries, 0)
    BY <2>3 DEF Paired, Came
  <2>z. \A i \in 1 .. 0 : FALSE
    OBVIOUS
  <2>6a. Covered(r, entries, 0)
    <3>1. \A j \in Jobs : j \in r.body \/ snap.jobs[j] = 0
      <4>1. PICK sj \in [Jobs -> Nat] : sj = snap.jobs
        OBVIOUS
      <4>2. \A j \in Jobs : j \in r.body <=> sj[j] > 0
        BY <2>j, <4>1
      <4>3. ASSUME NEW j \in Jobs PROVE j \in r.body \/ sj[j] = 0
        <5>1. sj[j] \in Nat /\ (j \in r.body <=> sj[j] > 0)
          BY <4>2
        <5>2. PICK k \in Nat : k = sj[j]
          BY <5>1
        <5>3. k > 0 \/ k = 0
          OBVIOUS
        <5> QED  BY <5>1, <5>2, <5>3
      <4> QED  BY <4>1, <4>3
    <3> QED  BY <2>z, <3>1 DEF Covered
  <2>6b. DoneGone(r, entries, 0)
    BY <2>z DEF DoneGone
  <2>7. snap = NoSnap => \A j \in Jobs : snap.jobs[j] = 0
    <3>1. NoSnap.jobs = [j \in Jobs |-> 0]
      BY DEF NoSnap
    <3> QED  BY <3>1
  <2>8. Single(r, entries, 0)
    <3>1. r.heap = snap.jobs
      BY <2>3
    <3>2. ASSUME snap = NoSnap, NEW j \in Jobs PROVE r.heap[j] = 0 /\ j \notin r.body
      <4>1. snap.jobs[j] = 0
        BY <2>7, <3>2
      <4>2. ~(snap.jobs[j] > 0)
        BY <4>1
      <4> QED  BY <2>j, <3>1, <4>1, <4>2
    <3> QED  BY <3>2 DEF Single
  <2> QED  BY <2>2, <2>5, <2>6a, <2>6b, <2>8 DEF Says
<1>4. bad = {}
  <2> SUFFICES ASSUME bad # {} PROVE FALSE
    OBVIOUS
  <2>1. bad \subseteq Nat
    BY <1>0
  <2>2. PICK m \in bad : \A n \in bad : m <= n
    BY <2>1, LeastNatural
  <2>3. m \in Nat /\ m \in 0 .. Len(entries) /\ ~Says(upTo[m], entries, m)
    BY <1>0, <2>2
  <2>4. m # 0
    BY <1>3, <2>3
  <2>5. m \in 1 .. Len(entries) /\ m - 1 \in 0 .. Len(entries) /\ ~(m <= m - 1)
    BY <1>0, <2>3, <2>4
  <2>6. Says(upTo[m - 1], entries, m - 1)
    BY <2>2, <2>5
  <2>7. upTo[m] = IF ReadAfter(entries[m]) THEN ReplayEntry(upTo[m - 1], entries[m]) ELSE upTo[m - 1]
    BY <1>2, <2>3, <2>4 DEF ReadStep
  <2> QED  BY <2>3, <2>5, <2>6, <2>7, SaysMore
<1>5. Len(entries) \in 0 .. Len(entries) /\ Len(entries) \notin bad
  BY <1>0, <1>4
<1> QED  BY <1>1, <1>5

-----------------------------------------------------------------------------
(* Types.                                                                  *)

\* What a snapshot being written says of its jobs.
LEMMA TakingTypes ==
  ASSUME PlacesOK, taking # <<>>
  PROVE  /\ taking = <<taking[1]>> /\ taking[1].seq \in Nat
         /\ taking[1].jobs \in [Jobs -> Nat] /\ taking[1].renamed \in BOOLEAN
<1>1. taking[1] \in Takings /\ taking = <<taking[1]>>
  BY DEF PlacesOK
<1>2. taking[1].seq \in Nat /\ taking[1].jobs \in [Jobs -> Nat]
  BY <1>1 DEF Takings
<1>3. taking[1].renamed \in BOOLEAN
  BY <1>1, Zenon DEF Takings
<1> QED  BY <1>1, <1>2, <1>3

\* The types of the log and its file, and of the process's state.
LogTypeOK ==
  /\ log \in Seq(Entries) /\ flushed \in 0 .. Len(log) /\ seq \in Nat
  /\ ending \in BOOLEAN /\ alive \in BOOLEAN
  /\ onDisk \subseteq Ops \X Jobs
JobsTypeOK ==
  /\ place \in [Jobs -> Places] /\ tries \in [Jobs -> 0 .. MaxAttempts]
  /\ heap \in [Jobs -> Nat] /\ body \subseteq Jobs
  /\ store \in [Jobs -> {"none", "active", "done"}]
SnapTypeOK ==
  /\ snap \in [seq : Nat \cup {-1}, jobs : [Jobs -> Nat]]
  /\ inSnapshot \subseteq Jobs

LEMMA TypeParts ==
  RecTypeOK <=> LogTypeOK /\ JobsTypeOK /\ SnapTypeOK
BY DEF RecTypeOK, LogTypeOK, JobsTypeOK, SnapTypeOK

\* AllJobs counts.
LEMMA AllJobsIs ==
  ASSUME RecTypeOK
  PROVE  /\ AllJobs \in [Jobs -> Nat]
         /\ \A j \in Jobs : AllJobs[j] > 0 <=> (j \in body \/ store[j] # "none")
         /\ \A j \in Jobs : (j \notin body /\ store[j] = "none") => AllJobs[j] = 0
BY DEF AllJobs, RecTypeOK

LEMMA JobsTypeKept ==
  ASSUME RecTypeOK, PlacesOK, RecNext
  PROVE  JobsTypeOK'
<1> USE TypeParts DEF JobsTypeOK
<1>a. MaxAttempts \in Nat /\ MaxAttempts # 0
  BY QueueRecoveryAssumption
<1>1. ASSUME NEW j \in Jobs, Enqueue(j) PROVE JobsTypeOK'
  BY <1>1 DEF Enqueue, Enters, Places
<1>2. ASSUME NEW j \in Jobs, EnqueueDelayed(j) PROVE JobsTypeOK'
  BY <1>2 DEF EnqueueDelayed, adapter, Places
<1>3. ASSUME NEW j \in Jobs, Due(j) PROVE JobsTypeOK'
  BY <1>3 DEF Due, Enters, Places
<1>4. ASSUME NEW j \in Jobs, Pop(j) PROVE JobsTypeOK'
  <2>1. heap' = [heap EXCEPT ![j] = @ - 1] /\ heap[j] > 0
    BY <1>4 DEF Pop
  <2>2. heap' \in [Jobs -> Nat]
    BY <2>1
  <2> QED  BY <1>4, <2>2 DEF Pop, Places
<1>5. ASSUME NEW j \in Jobs, PopGhost(j) PROVE JobsTypeOK'
  <2>1. heap' = [heap EXCEPT ![j] = @ - 1] /\ heap[j] > 0
    BY <1>5 DEF PopGhost
  <2>2. heap' \in [Jobs -> Nat]
    BY <2>1
  <2> QED  BY <1>5, <2>2 DEF PopGhost
<1>6. ASSUME NEW j \in Jobs, Activate(j) PROVE JobsTypeOK'
  <2>1. tries[j] < MaxAttempts /\ tries[j] \in 0 .. MaxAttempts
    BY <1>6 DEF Activate, PlacesOK
  <2>2. tries' = [tries EXCEPT ![j] = @ + 1] /\ tries[j] + 1 \in 0 .. MaxAttempts
    BY <1>a, <1>6, <2>1 DEF Activate
  <2>3. tries' \in [Jobs -> 0 .. MaxAttempts]
    BY <2>2
  <2> QED  BY <1>6, <2>3 DEF Activate, Places
<1>7. ASSUME NEW j \in Jobs, Finish(j) PROVE JobsTypeOK'
  BY <1>7 DEF Finish, Places
<1>8. ASSUME NEW j \in Jobs, NEW delayed \in BOOLEAN, Retry(j, delayed) PROVE JobsTypeOK'
  BY <1>8 DEF Retry, Enters, adapter, Places
<1>9. CASE Flush
  BY <1>9 DEF Flush, adapter
<1>10. CASE SnapshotBegin
  BY <1>10 DEF SnapshotBegin, adapter
<1>11. CASE SnapshotRename
  BY <1>11 DEF SnapshotRename, adapter
<1>12. CASE TruncateBegin
  BY <1>12 DEF TruncateBegin, adapter
<1>13. CASE TruncateEnd
  BY <1>13 DEF TruncateEnd, adapter
<1>14. CASE Dies
  BY <1>14 DEF Dies, adapter
<1>15. CASE Restart
  <2>1. log' \in Seq(Entries)
    BY <1>15, RestartCuts
  <2>2. snap.jobs \in [Jobs -> Nat]
    BY LogTypes
  <2>3. Paired(Recovered(log'))
    BY <2>1, <2>2, RecoveredIs DEF Says
  <2>4. heap' \in [Jobs -> Nat] /\ body' \subseteq Jobs
    BY <1>15, <2>3 DEF Restart, Paired
  <2>5. tries' \in [Jobs -> 0 .. MaxAttempts] /\ store' \in [Jobs -> {"none", "active", "done"}]
    BY <1>a, <1>15 DEF Restart
  <2>6. place' \in [Jobs -> Places]
    BY <1>15 DEF Restart, Places
  <2> QED  BY <2>4, <2>5, <2>6
<1> QED  BY <1>1, <1>2, <1>3, <1>4, <1>5, <1>6, <1>7, <1>8, <1>9, <1>10, <1>11, <1>12, <1>13,
            <1>14, <1>15 DEF RecNext

LEMMA LogTypeKept ==
  ASSUME RecTypeOK, RecNext
  PROVE  LogTypeOK'
<1>0. /\ log \in Seq(Entries) /\ flushed \in 0 .. Len(log) /\ Len(log) \in Nat /\ seq \in Nat
      /\ ending \in BOOLEAN /\ alive \in BOOLEAN /\ onDisk \subseteq Ops \X Jobs
      /\ \A i \in 1 .. Len(log) : log[i].op \in Ops /\ log[i].job \in Jobs /\ log[i].seq \in Nat
  BY LogTypes DEF RecTypeOK
<1>1. ASSUME NEW op \in Ops, NEW j \in Jobs, Logging(op, j) PROVE LogTypeOK'
  <2>1. (ending => alive' = FALSE /\ UNCHANGED wal) /\ (~ending => Appended(op, j)) /\ onDisk' = onDisk
    BY <1>1, LoggingLogs, LoggedAppends
  <2>2. CASE ending
    BY <1>0, <2>1, <2>2 DEF LogTypeOK, wal
  <2>3. CASE ~ending
    <3>1. flushed' \in 0 .. Len(log')
      BY <1>0, <2>1, <2>3 DEF Appended
    <3> QED  BY <1>0, <2>1, <2>3, <3>1 DEF LogTypeOK, Appended
  <2> QED  BY <2>2, <2>3
<1>2. ASSUME NEW j \in Jobs, EnqueueDelayed(j) \/ Due(j) \/ Pop(j) \/ PopGhost(j) PROVE LogTypeOK'
  BY <1>0, <1>2 DEF LogTypeOK, EnqueueDelayed, Due, Pop, PopGhost, wal
<1>3. CASE Flush
  <2>1. flushed + 1 \in 1 .. Len(log) /\ flushed + 1 \in 0 .. Len(log)
    BY <1>0, <1>3 DEF Flush
  <2>2. <<log[flushed + 1].op, log[flushed + 1].job>> \in Ops \X Jobs
    BY <1>0, <2>1
  <2>3. /\ flushed' = flushed + 1 /\ onDisk' = onDisk \cup {<<log[flushed + 1].op, log[flushed + 1].job>>}
        /\ UNCHANGED <<log, seq, ending, alive>>
    BY <1>3 DEF Flush
  <2> QED  BY <1>0, <2>1, <2>2, <2>3 DEF LogTypeOK
<1>4. CASE SnapshotBegin \/ SnapshotRename \/ Dies
  BY <1>0, <1>4 DEF LogTypeOK, SnapshotBegin, SnapshotRename, Dies, wal
<1>5. CASE TruncateBegin
  <2>1. {<<log[i].op, log[i].job>> : i \in DOMAIN log} \subseteq Ops \X Jobs
    BY <1>0
  <2>2. Len(log) \in 0 .. Len(log)
    BY <1>0
  <2> QED  BY <1>0, <1>5, <2>1, <2>2 DEF LogTypeOK, TruncateBegin
<1>6. CASE TruncateEnd
  <2>1. log' = <<>> /\ flushed' = 0 /\ seq' = 0 /\ ending' = FALSE /\ UNCHANGED <<alive, onDisk>>
    BY <1>6 DEF TruncateEnd
  <2>2. <<>> \in Seq(Entries) /\ 0 \in 0 .. Len(<<>>)
    OBVIOUS
  <2> QED  BY <1>0, <2>1, <2>2 DEF LogTypeOK
<1>7. CASE Restart
  <2>1. log' \in Seq(Entries) /\ Len(log') = flushed /\ flushed' = flushed
    BY <1>7, RestartCuts
  <2>2. flushed' \in 0 .. Len(log')
    BY <1>0, <2>1
  <2>3. seq' \in Nat
    <3>1. seq' = IF flushed = 0 THEN 0 ELSE log[flushed].seq + 1
      BY <1>7 DEF Restart
    <3>2. flushed # 0 => flushed \in 1 .. Len(log)
      BY <1>0
    <3> QED  BY <1>0, <3>1, <3>2
  <2> QED  BY <1>0, <1>7, <2>1, <2>2, <2>3 DEF LogTypeOK, Restart
<1> QED  BY <1>1, <1>2, <1>3, <1>4, <1>5, <1>6, <1>7, Steps DEF Quiet

LEMMA SnapTypeKept ==
  ASSUME RecTypeOK, PlacesOK, RecNext
  PROVE  SnapTypeOK'
<1>0. snap \in [seq : Nat \cup {-1}, jobs : [Jobs -> Nat]] /\ inSnapshot \subseteq Jobs
  BY DEF RecTypeOK
<1>1. CASE SnapshotBegin
  BY <1>0, <1>1 DEF SnapshotBegin, SnapTypeOK
<1>2. CASE SnapshotRename
  <2>1. taking[1].seq \in Nat /\ taking[1].jobs \in [Jobs -> Nat]
    BY <1>2, TakingTypes DEF SnapshotRename
  <2> QED  BY <1>0, <1>2, <2>1 DEF SnapshotRename, SnapTypeOK
<1>3. UNCHANGED <<snap, inSnapshot>> \/ SnapshotBegin \/ SnapshotRename
  BY DEF RecNext, Enqueue, EnqueueDelayed, Due, Pop, PopGhost, Activate, Finish, Retry, Flush,
         TruncateBegin, TruncateEnd, Dies, Restart, disk
<1> QED  BY <1>0, <1>1, <1>2, <1>3 DEF SnapTypeOK

LEMMA TypesKept ==
  ASSUME RecTypeOK, PlacesOK, RecNext
  PROVE  RecTypeOK'
<1>1. LogTypeOK' /\ JobsTypeOK' /\ SnapTypeOK'
  BY LogTypeKept, JobsTypeKept, SnapTypeKept
<1> QED  BY <1>1 DEF RecTypeOK, LogTypeOK, JobsTypeOK, SnapTypeOK

-----------------------------------------------------------------------------
(* Where jobs are, and snapshots.                                          *)

\* PlacesOK, job by job.
JobOK(j) ==
  /\ place[j] \in {"new", "scheduled", "pending", "popped"} => tries[j] < MaxAttempts
  /\ j \in body <=> place[j] = "pending"
  /\ place[j] = "new" =>
       /\ store[j] = "none" /\ snap.jobs[j] = 0 /\ j \notin inSnapshot
       /\ taking # <<>> => taking[1].jobs[j] = 0

\* A step of the process on one job: the others are left as they are.
OnlyJob(j) ==
  /\ place' \in [Jobs -> Places]
  /\ \A i \in Jobs \ {j} :
       place'[i] = place[i] /\ tries'[i] = tries[i] /\ store'[i] = store[i] /\ (i \in body' <=> i \in body)
  /\ UNCHANGED <<snap, taking, snaps, inSnapshot>>

LEMMA OnlyJobOK ==
  ASSUME PlacesOK, NEW j \in Jobs, OnlyJob(j), JobOK(j)'
  PROVE  PlacesOK'
<1>1. ASSUME NEW i \in Jobs, i # j PROVE JobOK(i)'
  BY <1>1 DEF PlacesOK, JobOK, OnlyJob
<1>2. \A i \in Jobs : JobOK(i)'
  BY <1>1
<1>3. (snaps \in Nat /\ (taking = <<>> \/ (taking = <<taking[1]>> /\ taking[1] \in Takings)))'
  BY DEF PlacesOK, OnlyJob
<1> QED  BY <1>2, <1>3 DEF PlacesOK, JobOK

LEMMA ProcessStepsPlace ==
  ASSUME RecTypeOK, PlacesOK, NEW j \in Jobs,
         \/ Enqueue(j) \/ EnqueueDelayed(j) \/ Due(j) \/ Pop(j) \/ PopGhost(j)
         \/ Activate(j) \/ Finish(j) \/ \E delayed \in BOOLEAN : Retry(j, delayed)
  PROVE  PlacesOK'
<1>0. /\ place \in [Jobs -> Places] /\ tries \in [Jobs -> 0 .. MaxAttempts] /\ body \subseteq Jobs
      /\ store \in [Jobs -> {"none", "active", "done"}] /\ JobOK(j) /\ MaxAttempts \in Nat
  BY QueueRecoveryAssumption DEF RecTypeOK, PlacesOK, JobOK
<1>1. CASE Enqueue(j)
  <2>1. /\ place[j] = "new" /\ place' = [place EXCEPT ![j] = "pending"] /\ body' = body \cup {j}
        /\ UNCHANGED <<store, tries, snap, taking, snaps, inSnapshot>>
    BY <1>1 DEF Enqueue, Enters, disk
  <2>2. OnlyJob(j) /\ JobOK(j)'
    BY <1>0, <2>1 DEF OnlyJob, JobOK, Places
  <2> QED  BY <2>2, OnlyJobOK
<1>2. CASE EnqueueDelayed(j)
  <2>1. /\ place[j] = "new" /\ place' = [place EXCEPT ![j] = "scheduled"]
        /\ UNCHANGED <<body, store, tries, snap, taking, snaps, inSnapshot>>
    BY <1>2 DEF EnqueueDelayed, adapter, disk
  <2>2. OnlyJob(j) /\ JobOK(j)'
    BY <1>0, <2>1 DEF OnlyJob, JobOK, Places
  <2> QED  BY <2>2, OnlyJobOK
<1>3. CASE Due(j)
  <2>1. /\ place[j] = "scheduled" /\ place' = [place EXCEPT ![j] = "pending"] /\ body' = body \cup {j}
        /\ UNCHANGED <<store, tries, snap, taking, snaps, inSnapshot>>
    BY <1>3 DEF Due, Enters, disk
  <2>2. OnlyJob(j) /\ JobOK(j)'
    BY <1>0, <2>1 DEF OnlyJob, JobOK, Places
  <2> QED  BY <2>2, OnlyJobOK
<1>4. CASE Pop(j)
  <2>1. /\ place[j] = "pending" /\ place' = [place EXCEPT ![j] = "popped"] /\ body' = body \ {j}
        /\ UNCHANGED <<store, tries, snap, taking, snaps, inSnapshot>>
    BY <1>4 DEF Pop, disk
  <2>2. OnlyJob(j) /\ JobOK(j)'
    BY <1>0, <2>1 DEF OnlyJob, JobOK, Places
  <2> QED  BY <2>2, OnlyJobOK
<1>5. CASE PopGhost(j)
  <2>1. UNCHANGED <<place, body, store, tries, snap, taking, snaps, inSnapshot>>
    BY <1>5 DEF PopGhost, disk
  <2> QED  BY <2>1 DEF PlacesOK
<1>6. CASE Activate(j)
  <2>1. /\ place[j] = "popped" /\ place' = [place EXCEPT ![j] = "active"]
        /\ store' = [store EXCEPT ![j] = "active"] /\ tries' = [tries EXCEPT ![j] = @ + 1]
        /\ UNCHANGED <<body, snap, taking, snaps, inSnapshot>>
    BY <1>6 DEF Activate, disk
  <2>2. OnlyJob(j) /\ JobOK(j)'
    BY <1>0, <2>1 DEF OnlyJob, JobOK, Places
  <2> QED  BY <2>2, OnlyJobOK
<1>7. CASE Finish(j)
  <2>1. /\ place[j] = "active" /\ place' = [place EXCEPT ![j] = "finished"]
        /\ store' = [store EXCEPT ![j] = "done"]
        /\ UNCHANGED <<tries, body, snap, taking, snaps, inSnapshot>>
    BY <1>7 DEF Finish, disk
  <2>2. OnlyJob(j) /\ JobOK(j)'
    BY <1>0, <2>1 DEF OnlyJob, JobOK, Places
  <2> QED  BY <2>2, OnlyJobOK
<1>8. ASSUME NEW delayed \in BOOLEAN, Retry(j, delayed) PROVE PlacesOK'
  <2>1. /\ place[j] = "active" /\ tries[j] < MaxAttempts
        /\ UNCHANGED <<tries, store, snap, taking, snaps, inSnapshot>>
    BY <1>8 DEF Retry, Enters, adapter, disk
  <2>2. CASE delayed
    <3>1. place' = [place EXCEPT ![j] = "scheduled"] /\ body' = body
      BY <1>8, <2>2 DEF Retry, adapter
    <3>2. OnlyJob(j) /\ JobOK(j)'
      BY <1>0, <2>1, <3>1 DEF OnlyJob, JobOK, Places
    <3> QED  BY <3>2, OnlyJobOK
  <2>3. CASE ~delayed
    <3>1. place' = [place EXCEPT ![j] = "pending"] /\ body' = body \cup {j}
      BY <1>8, <2>3 DEF Retry, Enters
    <3>2. OnlyJob(j) /\ JobOK(j)'
      BY <1>0, <2>1, <3>1 DEF OnlyJob, JobOK, Places
    <3> QED  BY <3>2, OnlyJobOK
  <2> QED  BY <2>2, <2>3
<1> QED  BY <1>1, <1>2, <1>3, <1>4, <1>5, <1>6, <1>7, <1>8

LEMMA PlacesKept ==
  ASSUME RecTypeOK, PlacesOK, SnapsOK, RecNext
  PROVE  PlacesOK'
<1>1. CASE Flush \/ TruncateEnd \/ Dies
  <2>1. UNCHANGED <<place, tries, body, store, snap, taking, snaps, inSnapshot>>
    BY <1>1 DEF Flush, TruncateEnd, Dies, adapter, disk
  <2> QED  BY <2>1 DEF PlacesOK
<1>2. CASE SnapshotBegin
  <2>1. /\ UNCHANGED <<place, tries, body, store, snap>> /\ snaps' = snaps + 1
        /\ taking' = <<[seq |-> seq, jobs |-> AllJobs, renamed |-> FALSE]>>
        /\ inSnapshot' = inSnapshot \cup
             {j \in Jobs : snap = NoSnap /\ AllJobs[j] > 0 /\ <<"ENQUEUE", j>> \in onDisk}
    BY <1>2 DEF SnapshotBegin, adapter
  <2>2. AllJobs \in [Jobs -> Nat] /\ seq \in Nat
    BY AllJobsIs, LogTypes
  <2>3. taking'[1] = [seq |-> seq, jobs |-> AllJobs, renamed |-> FALSE] /\ taking' = <<taking'[1]>>
    BY <2>1
  <2>4. taking'[1] \in Takings /\ taking'[1].jobs = AllJobs
    BY <2>2, <2>3 DEF Takings
  <2>5. ASSUME NEW j \in Jobs, place[j] = "new"
        PROVE  AllJobs[j] = 0 /\ j \notin inSnapshot'
    <3>1. AllJobs[j] = 0
      BY <2>5, AllJobsIs DEF PlacesOK
    <3> QED  BY <2>1, <2>5, <3>1 DEF PlacesOK
  <2> QED  BY <2>1, <2>3, <2>4, <2>5 DEF PlacesOK
<1>3. CASE SnapshotRename
  <2>1. /\ UNCHANGED <<place, tries, body, store, snaps>> /\ taking # <<>>
        /\ snap' = [seq |-> taking[1].seq, jobs |-> taking[1].jobs]
        /\ taking' = <<[taking[1] EXCEPT !.renamed = TRUE]>>
        /\ inSnapshot' = inSnapshot \cup {j \in Jobs : taking[1].jobs[j] > 0}
    BY <1>3 DEF SnapshotRename, adapter
  <2>2. PICK t \in Takings : t = taking[1]
    BY <2>1 DEF PlacesOK
  <2>3. [t EXCEPT !.renamed = TRUE] \in Takings /\ [t EXCEPT !.renamed = TRUE].jobs = t.jobs
    BY DEF Takings
  <2>4. taking' = <<taking'[1]>> /\ taking'[1] \in Takings /\ taking'[1].jobs = taking[1].jobs
        /\ snap'.jobs = taking[1].jobs
    BY <2>1, <2>2, <2>3
  <2>5. ASSUME NEW j \in Jobs, place[j] = "new"
        PROVE  taking[1].jobs[j] = 0 /\ j \notin inSnapshot'
    <3>1. taking[1].jobs[j] = 0
      BY <2>1, <2>5 DEF PlacesOK
    <3> QED  BY <2>1, <2>5, <3>1 DEF PlacesOK
  <2> QED  BY <2>1, <2>4, <2>5 DEF PlacesOK
<1>4. CASE TruncateBegin
  <2>1. UNCHANGED <<place, tries, body, store, snap, snaps, inSnapshot>> /\ taking' = <<>>
    BY <1>4 DEF TruncateBegin, adapter
  <2> QED  BY <2>1 DEF PlacesOK
<1>5. CASE Restart
  <2> DEFINE r == Recovered(log')
  <2>1. /\ UNCHANGED <<snap, snaps, inSnapshot>> /\ taking' = <<>>
        /\ tries' = [j \in Jobs |-> 0] /\ store' = [j \in Jobs |-> "none"] /\ body' = r.body
        /\ place' = [j \in Jobs |->
              IF j \in r.body THEN "pending"
              ELSE IF place[j] \in {"new", "finished", "lost"} THEN place[j] ELSE "lost"]
    BY <1>5 DEF Restart
  <2>2. MaxAttempts > 0 /\ 0 < MaxAttempts
    BY QueueRecoveryAssumption
  <2> HIDE DEF r
  <2>3. ASSUME NEW j \in Jobs PROVE JobOK(j)'
    <3>1. tries'[j] < MaxAttempts /\ store'[j] = "none"
      BY <2>1, <2>2
    <3>2. j \in body' <=> place'[j] = "pending"
      BY <2>1
    <3>3. place'[j] = "new" => place[j] = "new"
      BY <2>1
    <3> QED  BY <2>1, <3>1, <3>2, <3>3 DEF JobOK, PlacesOK
  <2> QED  BY <2>1, <2>3 DEF PlacesOK, JobOK
<1> QED  BY <1>1, <1>2, <1>3, <1>4, <1>5, ProcessStepsPlace DEF RecNext

LEMMA SnapsKept ==
  ASSUME RecTypeOK, PlacesOK, SnapsOK, RecNext
  PROVE  SnapsOK'
<1>1. ASSUME NEW op \in Ops, NEW j \in Jobs, Logging(op, j) PROVE SnapsOK'
  <2>1. UNCHANGED <<snap, taking, snaps, ending>>
    BY <1>1, LoggingLogs, LoggedAppends DEF wal, Appended
  <2> QED  BY <2>1 DEF SnapsOK
<1>2. ASSUME NEW j \in Jobs, EnqueueDelayed(j) \/ Due(j) \/ Pop(j) \/ PopGhost(j) PROVE SnapsOK'
  <2>1. UNCHANGED <<snap, taking, snaps, ending>>
    BY <1>2 DEF EnqueueDelayed, Due, Pop, PopGhost, wal, disk
  <2> QED  BY <2>1 DEF SnapsOK
<1>3. CASE Flush \/ Dies
  <2>1. UNCHANGED <<snap, taking, snaps, ending>>
    BY <1>3 DEF Flush, Dies, wal, disk
  <2> QED  BY <2>1 DEF SnapsOK
<1>4. CASE SnapshotBegin
  <2>1. /\ UNCHANGED <<snap, ending>> /\ snaps' = snaps + 1 /\ snaps \in Nat
        /\ taking' = <<[seq |-> seq, jobs |-> AllJobs, renamed |-> FALSE]>>
    BY <1>4 DEF SnapshotBegin, wal, PlacesOK
  <2>2. snaps' # 0 /\ ~taking'[1].renamed
    BY <2>1
  <2> QED  BY <2>1, <2>2 DEF SnapsOK
<1>5. CASE SnapshotRename
  <2>1. snaps' = snaps /\ taking # <<>> /\ snap'.seq = taking[1].seq /\ taking[1].seq \in Nat
    BY <1>5, TakingTypes DEF SnapshotRename
  <2>2. snap' # NoSnap'
    BY <2>1 DEF NoSnap
  <2> QED  BY <2>1, <2>2 DEF SnapsOK
<1>6. CASE TruncateBegin
  <2>1. taking # <<>> /\ taking[1].renamed /\ UNCHANGED <<snap, snaps>>
    BY <1>6 DEF TruncateBegin
  <2>2. snap # NoSnap /\ snaps # 0
    BY <2>1 DEF SnapsOK
  <2> QED  BY <2>1, <2>2 DEF SnapsOK, NoSnap
<1>7. CASE TruncateEnd
  <2>1. ending' = FALSE /\ UNCHANGED <<snap, taking, snaps>>
    BY <1>7 DEF TruncateEnd, disk
  <2> QED  BY <2>1 DEF SnapsOK, NoSnap
<1>8. CASE Restart
  <2>1. ending' = FALSE /\ taking' = <<>> /\ UNCHANGED <<snap, snaps>>
    BY <1>8 DEF Restart
  <2> QED  BY <2>1 DEF SnapsOK, NoSnap
<1> QED  BY <1>1, <1>2, <1>3, <1>4, <1>5, <1>6, <1>7, <1>8, Steps DEF Quiet

-----------------------------------------------------------------------------
(* Completions that are read back.                                         *)

\* A step of the process on a job.
ProcessStep(j) ==
  \/ Enqueue(j) \/ EnqueueDelayed(j) \/ Due(j) \/ Pop(j) \/ PopGhost(j)
  \/ Activate(j) \/ Finish(j) \/ \E delayed \in BOOLEAN : Retry(j, delayed)

LEMMA ProcessMoves ==
  ASSUME RecTypeOK, NEW j \in Jobs, ProcessStep(j)
  PROVE  /\ \A i \in Jobs : i # j => place'[i] = place[i]
         /\ place'[j] = place[j]
              \/ (place[j] # "finished" /\ place[j] # "lost" /\ place'[j] \notin {"new", "lost"})
         /\ UNCHANGED <<snap, taking, inSnapshot, onDisk>> /\ Undisturbed
<1>0. place \in [Jobs -> Places]
  BY DEF RecTypeOK
<1>1. CASE Enqueue(j)
  BY <1>0, <1>1 DEF Enqueue, disk
<1>2. CASE EnqueueDelayed(j)
  BY <1>0, <1>2 DEF EnqueueDelayed, disk
<1>3. CASE Due(j)
  BY <1>0, <1>3 DEF Due, disk
<1>4. CASE Pop(j)
  BY <1>0, <1>4 DEF Pop, disk
<1>5. CASE PopGhost(j)
  BY <1>0, <1>5 DEF PopGhost, disk
<1>6. CASE Activate(j)
  BY <1>0, <1>6 DEF Activate, disk
<1>7. CASE Finish(j)
  BY <1>0, <1>7 DEF Finish, disk
<1>8. ASSUME NEW delayed \in BOOLEAN, Retry(j, delayed)
      PROVE  /\ \A i \in Jobs : i # j => place'[i] = place[i]
             /\ place[j] # "finished" /\ place[j] # "lost" /\ place'[j] \notin {"new", "lost"}
             /\ UNCHANGED <<snap, taking, inSnapshot, onDisk>> /\ Undisturbed
  BY <1>0, <1>8 DEF Retry, disk
<1> QED  BY <1>1, <1>2, <1>3, <1>4, <1>5, <1>6, <1>7, <1>8 DEF ProcessStep

LEMMA LoggingMoves ==
  ASSUME RecTypeOK, NEW op \in Ops, NEW j \in Jobs, Logging(op, j)
  PROVE  /\ ProcessStep(j) /\ place[j] # "finished"
         /\ op = "COMPLETE" => place'[j] = "finished"
         /\ op = "ENQUEUE" => place[j] = "new" /\ place'[j] = "pending"
<1>0. place \in [Jobs -> Places]
  BY DEF RecTypeOK
<1>1. CASE op = "ENQUEUE"
  BY <1>0, <1>1 DEF Logging, ProcessStep, Enqueue
<1>2. CASE op = "ACTIVATE"
  BY <1>0, <1>2 DEF Logging, ProcessStep, Activate
<1>3. CASE op = "COMPLETE"
  BY <1>0, <1>3 DEF Logging, ProcessStep, Finish
<1>4. CASE op = "RETRY"
  BY <1>0, <1>4 DEF Logging, ProcessStep, Retry
<1> QED  BY <1>1, <1>2, <1>3, <1>4 DEF Ops

\* The other steps.
LEMMA OtherSteps ==
  ASSUME RecNext
  PROVE  \/ \E op \in Ops, j \in Jobs : Logging(op, j)
         \/ \E j \in Jobs : EnqueueDelayed(j) \/ Due(j) \/ Pop(j) \/ PopGhost(j)
         \/ Flush \/ SnapshotBegin \/ SnapshotRename \/ TruncateBegin \/ TruncateEnd \/ Dies \/ Restart
BY Steps DEF Quiet

LEMMA DoneKept ==
  ASSUME RecTypeOK, PlacesOK, SnapsOK, DoneOK, RestOK, RecNext
  PROVE  DoneOK'
<1>0. /\ Len(log) \in Nat /\ flushed \in Nat /\ flushed <= Len(log)
      /\ \A i \in 1 .. Len(log) : log[i].seq \in Nat /\ log[i].job \in Jobs
  BY LogTypes
<1>1. ASSUME NEW op \in Ops, NEW j \in Jobs, Logging(op, j) PROVE DoneOK'
  <2> SUFFICES ASSUME snap' = NoSnap' \/ SnapAtRest,
                      NEW i \in 1 .. Len(log'), log'[i].op = "COMPLETE", log'[i].seq > snap'.seq
               PROVE  /\ place'[log'[i].job] = "finished"
                      /\ \A k \in 1 .. Len(log') :
                           (i < k /\ log'[k].job = log'[i].job) => log'[k].op # "ENQUEUE"
    BY DEF DoneOK, ReadAfter
  <2>1. /\ Logged(op, j) /\ Undisturbed /\ snap' = snap
    BY <1>1, LoggingLogs
  <2>2. snap = NoSnap \/ SnapAtRest
    BY <2>1 DEF NoSnap
  <2>3. Appended(op, j)
    BY <2>1, <2>2, LoggedAppends, RestLogs
  <2>4. /\ \A x \in Jobs : x # j => place'[x] = place[x]
        /\ place[j] # "finished" /\ op = "COMPLETE" => place'[j] = "finished"
    BY <1>1, LoggingMoves, ProcessMoves
  <2>5. /\ Len(log') = Len(log) + 1 /\ \A n \in 1 .. Len(log) : log'[n] = log[n]
        /\ log'[Len(log) + 1].op = op /\ log'[Len(log) + 1].job = j
    BY <2>3 DEF Appended
  <2>6. \A n \in 1 .. Len(log') : n \in 1 .. Len(log) \/ n = Len(log) + 1
    BY <1>0, <2>5
  <2>7. CASE i = Len(log) + 1
    <3>1. log'[i].job = j /\ op = "COMPLETE"
      BY <2>5, <2>7
    <3>2. \A k \in 1 .. Len(log') : ~(i < k)
      BY <1>0, <2>5, <2>7
    <3>3. place'[j] = "finished"
      BY <1>1, <3>1, LoggingMoves
    <3> QED  BY <3>1, <3>2, <3>3
  <2>8. CASE i \in 1 .. Len(log)
    <3>1. log'[i] = log[i] /\ log[i].op = "COMPLETE" /\ ReadAfter(log[i])
      BY <2>1, <2>5, <2>8 DEF ReadAfter
    <3>2. /\ place[log[i].job] = "finished"
          /\ \A k \in 1 .. Len(log) : (i < k /\ log[k].job = log[i].job) => log[k].op # "ENQUEUE"
      BY <2>2, <2>8, <3>1 DEF DoneOK
    <3>3. log[i].job # j /\ log[i].job \in Jobs
      BY <1>0, <1>1, <2>8, <3>2, LoggingMoves
    <3> QED  BY <2>4, <2>5, <2>6, <3>1, <3>2, <3>3
  <2> QED  BY <2>6, <2>7, <2>8
<1>2. ASSUME NEW j \in Jobs, EnqueueDelayed(j) \/ Due(j) \/ Pop(j) \/ PopGhost(j) PROVE DoneOK'
  <2>1. log' = log /\ snap' = snap
    BY <1>2, QuietKeepsLog, ProcessMoves DEF Quiet, ProcessStep
  <2>2. \A x \in Jobs : place[x] = "finished" => place'[x] = "finished"
    BY <1>2, ProcessMoves DEF ProcessStep
  <2> QED  BY <1>0, <2>1, <2>2 DEF DoneOK, ReadAfter, NoSnap
<1>3. CASE Flush \/ SnapshotBegin \/ TruncateBegin \/ Dies
  <2>1. UNCHANGED <<log, snap, place>>
    BY <1>3 DEF Flush, SnapshotBegin, TruncateBegin, Dies, wal, disk
  <2> QED  BY <2>1 DEF DoneOK, ReadAfter, NoSnap
<1>4. CASE SnapshotRename
  <2> SUFFICES ASSUME snap' = NoSnap' \/ SnapAtRest,
                      NEW i \in 1 .. Len(log'), log'[i].seq > snap'.seq
               PROVE  FALSE
    BY DEF DoneOK, ReadAfter
  <2>1. taking # <<>> /\ taking[1].seq \in Nat /\ snap'.seq = taking[1].seq /\ log' = log
    BY <1>4, TakingTypes DEF SnapshotRename, wal
  <2>2. snap' # NoSnap'
    BY <2>1 DEF NoSnap
  <2>3. log[i].seq < taking[1].seq /\ log[i].seq \in Nat
    BY <1>0, <2>1, <2>2 DEF RestOK
  <2> QED  BY <2>1, <2>3 DEF ReadAfter
<1>5. CASE TruncateEnd
  <2>1. Len(log') = 0
    BY <1>5 DEF TruncateEnd
  <2> QED  BY <2>1 DEF DoneOK
<1>6. CASE Restart
  <2> SUFFICES ASSUME snap' = NoSnap' \/ SnapAtRest,
                      NEW i \in 1 .. Len(log'), log'[i].op = "COMPLETE", log'[i].seq > snap'.seq
               PROVE  /\ place'[log'[i].job] = "finished"
                      /\ \A k \in 1 .. Len(log') :
                           (i < k /\ log'[k].job = log'[i].job) => log'[k].op # "ENQUEUE"
    BY DEF DoneOK, ReadAfter
  <2>1. /\ Len(log') = flushed /\ log' \in Seq(Entries)
        /\ \A n \in 1 .. flushed : n \in 1 .. Len(log) /\ log'[n] = log[n]
    BY <1>6, RestartCuts
  <2>2. snap' = snap /\ (snap = NoSnap \/ SnapAtRest)
    BY <1>6 DEF Restart, NoSnap
  <2>3. i \in 1 .. Len(log) /\ log'[i] = log[i] /\ ReadAfter(log[i]) /\ log[i].op = "COMPLETE"
    BY <2>1, <2>2 DEF ReadAfter
  <2>4. /\ place[log[i].job] = "finished"
        /\ \A k \in 1 .. Len(log) : (i < k /\ log[k].job = log[i].job) => log[k].op # "ENQUEUE"
    BY <2>2, <2>3 DEF DoneOK
  <2>5. \A k \in 1 .. Len(log') : (i < k /\ log'[k].job = log'[i].job) => log'[k].op # "ENQUEUE"
    BY <2>1, <2>3, <2>4
  <2>6. Says(Recovered(log'), log', Len(log'))
    BY <2>1, LogTypes, RecoveredIs
  <2>7. log'[i].job \notin Recovered(log').body
    BY <2>2, <2>3, <2>5, <2>6 DEF Says, DoneGone, ReadAfter
  <2>8. place'[log'[i].job] = "finished"
    BY <1>0, <1>6, <2>3, <2>4, <2>7 DEF Restart
  <2> QED  BY <2>5, <2>8
<1> QED  BY <1>1, <1>2, <1>3, <1>4, <1>5, <1>6, OtherSteps

-----------------------------------------------------------------------------
(* The log alone.                                                          *)

\* The parts of LogOnlyOK: the file, the ENQUEUE records, the heap.
FileOK == onDisk = {<<log[i].op, log[i].job>> : i \in 1 .. flushed}
EnqueuesOK ==
  \A i \in 1 .. Len(log) : log[i].op = "ENQUEUE" =>
    /\ place[log[i].job] \notin {"new", "lost"}
    /\ \A k \in 1 .. Len(log) : (i # k /\ log[k].job = log[i].job) => log[k].op # "ENQUEUE"
HeapOK == \A j \in Jobs : heap[j] = IF j \in body THEN 1 ELSE 0
CoverOK == \A j \in inSnapshot : <<"ENQUEUE", j>> \in onDisk

LEMMA LogOnlyParts ==
  LogOnlyOK <=> (snap = NoSnap => FileOK /\ EnqueuesOK /\ HeapOK /\ CoverOK)
BY DEF LogOnlyOK, FileOK, EnqueuesOK, HeapOK, CoverOK

\* Entering the adapter and leaving it.
LEMMA HeapMoves ==
  ASSUME RecTypeOK, PlacesOK, HeapOK, NEW j \in Jobs, ProcessStep(j)
  PROVE  HeapOK'
<1>0. heap \in [Jobs -> Nat] /\ body \subseteq Jobs /\ (j \in body <=> place[j] = "pending")
  BY DEF RecTypeOK, PlacesOK
<1>1. CASE Enters(j) /\ place[j] # "pending"
  <2>1. heap' = [heap EXCEPT ![j] = @ + 1] /\ body' = body \cup {j} /\ heap[j] = 0
    BY <1>0, <1>1 DEF Enters, HeapOK
  <2>2. ASSUME NEW i \in Jobs PROVE heap'[i] = IF i \in body' THEN 1 ELSE 0
    BY <1>0, <2>1 DEF HeapOK
  <2> QED  BY <2>2 DEF HeapOK
<1>2. CASE UNCHANGED <<heap, body>>
  BY <1>2 DEF HeapOK
<1>3. CASE Pop(j)
  <2>1. heap' = [heap EXCEPT ![j] = @ - 1] /\ body' = body \ {j} /\ heap[j] = 1
    BY <1>0, <1>3 DEF Pop, HeapOK
  <2>2. ASSUME NEW i \in Jobs PROVE heap'[i] = IF i \in body' THEN 1 ELSE 0
    BY <1>0, <2>1 DEF HeapOK
  <2> QED  BY <2>2 DEF HeapOK
<1>4. ~PopGhost(j)
  BY DEF PopGhost, HeapOK
<1>5. \/ Enters(j) /\ place[j] # "pending"
      \/ UNCHANGED <<heap, body>>
      \/ Pop(j)
  <2>1. CASE Enqueue(j) \/ Due(j)
    BY <2>1 DEF Enqueue, Due
  <2>2. CASE EnqueueDelayed(j) \/ Activate(j) \/ Finish(j)
    BY <2>2 DEF EnqueueDelayed, Activate, Finish, adapter
  <2>3. ASSUME NEW delayed \in BOOLEAN, Retry(j, delayed)
        PROVE  (Enters(j) /\ place[j] # "pending") \/ UNCHANGED <<heap, body>>
    BY <2>3 DEF Retry, adapter
  <2> QED  BY <1>4, <2>1, <2>2, <2>3 DEF ProcessStep
<1> QED  BY <1>1, <1>2, <1>3, <1>5

LEMMA EnqueuesLogged ==
  ASSUME RecTypeOK, EnqueuesOK, NEW op \in Ops, NEW j \in Jobs, Logging(op, j), Appended(op, j)
  PROVE  EnqueuesOK'
<1>0. Len(log) \in Nat /\ \A i \in 1 .. Len(log) : log[i].job \in Jobs
  BY LogTypes
<1>1. /\ Len(log') = Len(log) + 1 /\ \A i \in 1 .. Len(log) : log'[i] = log[i]
      /\ log'[Len(log) + 1].op = op /\ log'[Len(log) + 1].job = j
  BY DEF Appended
<1>2. \A i \in 1 .. Len(log') : i \in 1 .. Len(log) \/ i = Len(log) + 1
  BY <1>0, <1>1
<1>3. /\ \A i \in Jobs : i # j => place'[i] = place[i]
      /\ place'[j] = place[j] \/ place'[j] \notin {"new", "lost"}
      /\ op = "ENQUEUE" => place[j] = "new" /\ place'[j] = "pending"
  BY LoggingMoves, ProcessMoves
<1>4. ASSUME NEW i \in 1 .. Len(log'), log'[i].op = "ENQUEUE"
      PROVE  /\ place'[log'[i].job] \notin {"new", "lost"}
             /\ \A k \in 1 .. Len(log') : (i # k /\ log'[k].job = log'[i].job) => log'[k].op # "ENQUEUE"
  <2>1. CASE i \in 1 .. Len(log)
    <3>1. /\ log'[i] = log[i] /\ log[i].job \in Jobs /\ place[log[i].job] \notin {"new", "lost"}
          /\ \A k \in 1 .. Len(log) : (i # k /\ log[k].job = log[i].job) => log[k].op # "ENQUEUE"
      BY <1>0, <1>1, <1>4, <2>1 DEF EnqueuesOK
    <3>2. place'[log[i].job] \notin {"new", "lost"}
      BY <1>3, <3>1
    <3>3. log[i].job = j => op # "ENQUEUE"
      BY <1>3, <3>1
    <3> QED  BY <1>1, <1>2, <3>1, <3>2, <3>3
  <2>2. CASE i = Len(log) + 1
    <3>1. log'[i].job = j /\ op = "ENQUEUE" /\ place[j] = "new" /\ place'[j] = "pending"
      BY <1>1, <1>3, <1>4, <2>2
    <3>2. \A k \in 1 .. Len(log) : log[k].job = j => log[k].op # "ENQUEUE"
      BY <3>1 DEF EnqueuesOK
    <3> QED  BY <1>1, <1>2, <2>2, <3>1, <3>2
  <2> QED  BY <1>2, <2>1, <2>2
<1> QED  BY <1>4 DEF EnqueuesOK

LEMMA LogOnlyRestart ==
  ASSUME RecTypeOK, DoneOK, snap = NoSnap, FileOK, EnqueuesOK, HeapOK, CoverOK, Restart
  PROVE  FileOK' /\ EnqueuesOK' /\ HeapOK' /\ CoverOK'
<1>0. /\ Len(log) \in Nat /\ flushed \in Nat /\ flushed <= Len(log)
      /\ \A i \in 1 .. Len(log) : log[i].seq \in Nat /\ log[i].job \in Jobs
      /\ place \in [Jobs -> Places]
  BY LogTypes DEF RecTypeOK
<1> DEFINE r == Recovered(log')
<1>1. /\ Len(log') = flushed /\ log' \in Seq(Entries) /\ flushed' = flushed
      /\ \A n \in 1 .. flushed : n \in 1 .. Len(log) /\ log'[n] = log[n]
  BY RestartCuts
<1>2. /\ heap' = r.heap /\ body' = r.body /\ UNCHANGED <<onDisk, inSnapshot>>
      /\ place' = [j \in Jobs |->
              IF j \in r.body THEN "pending"
              ELSE IF place[j] \in {"new", "finished", "lost"} THEN place[j] ELSE "lost"]
  BY DEF Restart
<1>3. Says(r, log', Len(log'))
  BY <1>1, LogTypes, RecoveredIs
<1> HIDE DEF r
<1>4. FileOK' /\ CoverOK'
  BY <1>1, <1>2 DEF FileOK, CoverOK
<1>5. EnqueuedOnce(log', Len(log'))
  BY <1>1 DEF EnqueuedOnce, EnqueuesOK
<1>6. HeapOK'
  BY <1>2, <1>3, <1>5 DEF Says, Single, HeapOK
<1>7. ASSUME NEW i \in 1 .. Len(log'), log'[i].op = "ENQUEUE"
      PROVE  place'[log'[i].job] \notin {"new", "lost"}
  <2>1. i \in 1 .. Len(log) /\ log'[i] = log[i] /\ log[i].job \in Jobs
        /\ place[log[i].job] \notin {"new", "lost"}
    BY <1>0, <1>1, <1>7 DEF EnqueuesOK
  <2>2. snap.seq = -1
    BY DEF NoSnap
  <2>3. ReadAfter(log'[i])
    BY <1>0, <2>1, <2>2 DEF ReadAfter
  <2>4. \/ log'[i].job \in r.body
        \/ \E k \in 1 .. Len(log') :
             log'[k].op = "COMPLETE" /\ log'[k].job = log'[i].job /\ ReadAfter(log'[k])
    BY <1>3, <1>7, <2>1, <2>3 DEF Says, Covered
  <2>5. CASE log'[i].job \in r.body
    BY <1>2, <2>1, <2>5
  <2>6. ASSUME NEW k \in 1 .. Len(log'), log'[k].op = "COMPLETE", log'[k].job = log'[i].job, ReadAfter(log'[k])
        PROVE  place'[log'[i].job] \notin {"new", "lost"}
    <3>1. k \in 1 .. Len(log) /\ log[k] = log'[k]
      BY <1>1
    <3>2. place[log[i].job] = "finished"
      BY <2>1, <2>6, <3>1 DEF DoneOK
    <3> QED  BY <1>2, <2>1, <3>2
  <2> QED  BY <2>4, <2>5, <2>6
<1>8. EnqueuesOK'
  <2>1. \A i, k \in 1 .. Len(log') :
          (log'[i].op = "ENQUEUE" /\ i # k /\ log'[k].job = log'[i].job) => log'[k].op # "ENQUEUE"
    BY <1>1 DEF EnqueuesOK
  <2> QED  BY <1>7, <2>1 DEF EnqueuesOK
<1> QED  BY <1>4, <1>6, <1>8

LEMMA LogOnlyKept ==
  ASSUME RecTypeOK, PlacesOK, SnapsOK, DoneOK, LogOnlyOK, RecNext
  PROVE  LogOnlyOK'
<1> SUFFICES ASSUME snap' = NoSnap' PROVE FileOK' /\ EnqueuesOK' /\ HeapOK' /\ CoverOK'
  BY DEF LogOnlyOK, FileOK, EnqueuesOK, HeapOK, CoverOK
<1>0. /\ Len(log) \in Nat /\ flushed \in Nat /\ flushed <= Len(log)
      /\ \A i \in 1 .. Len(log) : log[i].seq \in Nat /\ log[i].job \in Jobs
  BY LogTypes
<1>1. snap = NoSnap \/ SnapshotRename
  <2>1. snap' = snap \/ SnapshotRename
    BY DEF RecNext, Enqueue, EnqueueDelayed, Due, Pop, PopGhost, Activate, Finish, Retry, Flush,
           SnapshotBegin, TruncateBegin, TruncateEnd, Dies, Restart, disk
  <2> QED  BY <2>1 DEF NoSnap
<1>2. ~SnapshotRename
  <2> SUFFICES ASSUME SnapshotRename PROVE FALSE
    OBVIOUS
  <2>1. snap'.seq = taking[1].seq /\ taking[1].seq \in Nat
    BY TakingTypes DEF SnapshotRename
  <2> QED  BY <2>1 DEF NoSnap
<1>3. snap = NoSnap /\ FileOK /\ EnqueuesOK /\ HeapOK /\ CoverOK /\ ~ending
      /\ (taking # <<>> => ~taking[1].renamed)
  BY <1>1, <1>2, LogOnlyParts DEF SnapsOK
<1>4. ASSUME NEW op \in Ops, NEW j \in Jobs, Logging(op, j)
      PROVE  FileOK' /\ EnqueuesOK' /\ HeapOK' /\ CoverOK'
  <2>1. Appended(op, j) /\ UNCHANGED <<onDisk, inSnapshot>>
    BY <1>3, <1>4, LoggingLogs, LoggedAppends
  <2>2. EnqueuesOK' /\ HeapOK'
    BY <1>3, <1>4, <2>1, EnqueuesLogged, HeapMoves, LoggingMoves
  <2>3. \A i \in 1 .. flushed : log'[i] = log[i]
    BY <1>0, <2>1 DEF Appended
  <2>4. FileOK' /\ CoverOK'
    BY <1>3, <2>1, <2>3 DEF FileOK, CoverOK, Appended
  <2> QED  BY <2>2, <2>4
<1>5. ASSUME NEW j \in Jobs, EnqueueDelayed(j) \/ Due(j) \/ Pop(j) \/ PopGhost(j)
      PROVE  FileOK' /\ EnqueuesOK' /\ HeapOK' /\ CoverOK'
  <2>1. UNCHANGED <<log, flushed, onDisk, inSnapshot>>
    BY <1>5 DEF EnqueueDelayed, Due, Pop, PopGhost, wal, disk
  <2>2. HeapOK'
    BY <1>3, <1>5, HeapMoves DEF ProcessStep
  <2>3. \A x \in Jobs : place[x] \notin {"new", "lost"} => place'[x] \notin {"new", "lost"}
    BY <1>5, ProcessMoves DEF ProcessStep
  <2>4. EnqueuesOK'
    BY <1>0, <1>3, <2>1, <2>3 DEF EnqueuesOK
  <2> QED  BY <1>3, <2>1, <2>2, <2>4 DEF FileOK, CoverOK
<1>6. CASE Flush
  <2>1. /\ flushed' = flushed + 1 /\ log' = log /\ inSnapshot' = inSnapshot
        /\ onDisk' = onDisk \cup {<<log[flushed + 1].op, log[flushed + 1].job>>}
        /\ UNCHANGED <<place, heap, body>>
    BY <1>6 DEF Flush, adapter, disk
  <2>2. \A i \in 1 .. flushed + 1 : i \in 1 .. flushed \/ i = flushed + 1
    BY <1>0
  <2>3. \A i \in 1 .. flushed : i \in 1 .. flushed + 1
    BY <1>0
  <2>4. flushed + 1 \in 1 .. flushed + 1
    BY <1>0
  <2>5. FileOK'
    BY <1>3, <2>1, <2>2, <2>3, <2>4 DEF FileOK
  <2> QED  BY <1>3, <2>1, <2>5 DEF EnqueuesOK, HeapOK, CoverOK
<1>7. CASE SnapshotBegin
  <2>1. /\ UNCHANGED <<place, heap, body, log, flushed, onDisk>>
        /\ \A j \in inSnapshot' : j \in inSnapshot \/ <<"ENQUEUE", j>> \in onDisk
    BY <1>7 DEF SnapshotBegin, adapter, wal
  <2> QED  BY <1>3, <2>1 DEF FileOK, EnqueuesOK, HeapOK, CoverOK
<1>8. ~TruncateBegin /\ ~TruncateEnd
  BY <1>3 DEF TruncateBegin, TruncateEnd
<1>9. CASE Dies
  <2>1. UNCHANGED <<place, heap, body, log, flushed, onDisk, inSnapshot>>
    BY <1>9 DEF Dies, adapter, wal, disk
  <2> QED  BY <1>3, <2>1 DEF FileOK, EnqueuesOK, HeapOK, CoverOK
<1>10. CASE Restart
  BY <1>3, <1>10, LogOnlyRestart
<1> QED  BY <1>2, <1>4, <1>5, <1>6, <1>7, <1>8, <1>9, <1>10, OtherSteps

-----------------------------------------------------------------------------
(* Snapshots at rest.                                                      *)

LEMMA RestKept ==
  ASSUME RecTypeOK, PlacesOK, SnapsOK, Numbered, DoneOK, LogOnlyOK, RestOK, RecNext
  PROVE  RestOK'
<1> SUFFICES ASSUME SnapAtRest
             PROVE  /\ taking' # <<>> =>
                         /\ \A j \in Jobs : place'[j] \in {"new", "pending"}
                         /\ \A j \in inSnapshot' : taking'[1].jobs[j] > 0
                         /\ \A i \in 1 .. Len(log') : log'[i].seq < taking'[1].seq
                    /\ snap' # NoSnap => \A j \in inSnapshot' : snap'.jobs[j] > 0
                    /\ \A j \in Jobs : snap'.jobs[j] > 0 => place'[j] # "lost"
  BY DEF RestOK, NoSnap
<1>0. /\ Len(log) \in Nat /\ flushed \in Nat /\ flushed <= Len(log) /\ inSnapshot \subseteq Jobs
      /\ \A i \in 1 .. Len(log) : log[i].seq \in Nat /\ log[i].job \in Jobs
      /\ place \in [Jobs -> Places]
  BY LogTypes DEF RecTypeOK
<1>1. ASSUME NEW j \in Jobs, ProcessStep(j) PROVE RestOK'
  <2>1. taking' = <<>> /\ snap' = snap /\ inSnapshot' = inSnapshot
    BY <1>1, ProcessMoves DEF Undisturbed
  <2>2. \A x \in Jobs : place[x] # "lost" => place'[x] # "lost"
    BY <1>1, ProcessMoves
  <2> QED  BY <2>1, <2>2 DEF RestOK, NoSnap
<1>2. CASE Flush \/ Dies
  <2>1. UNCHANGED <<taking, snap, inSnapshot, place, log>>
    BY <1>2 DEF Flush, Dies, wal, disk
  <2> QED  BY <2>1 DEF RestOK, NoSnap
<1>3. CASE SnapshotBegin
  <2>1. /\ \A j \in Jobs : place[j] \in {"new", "pending"}
        /\ UNCHANGED <<place, log, snap>>
        /\ taking' = <<[seq |-> seq, jobs |-> AllJobs, renamed |-> FALSE]>>
        /\ inSnapshot' = inSnapshot \cup
             {j \in Jobs : snap = NoSnap /\ AllJobs[j] > 0 /\ <<"ENQUEUE", j>> \in onDisk}
    BY <1>3 DEF SnapshotBegin, wal
  <2>2. taking'[1].seq = seq /\ taking'[1].jobs = AllJobs
    BY <2>1
  <2>3. ASSUME NEW j \in inSnapshot PROVE AllJobs[j] > 0
    <3>1. j \in Jobs /\ place[j] # "new"
      BY <1>0 DEF PlacesOK
    <3>2. j \in body
      BY <2>1, <3>1 DEF PlacesOK
    <3> QED  BY <3>1, <3>2, AllJobsIs
  <2>4. \A j \in inSnapshot' : AllJobs[j] > 0
    BY <2>1, <2>3
  <2>5. \A i \in 1 .. Len(log') : log'[i].seq < taking'[1].seq
    BY <2>1, <2>2 DEF Numbered
  <2>6. snap' # NoSnap => \A j \in inSnapshot' : snap'.jobs[j] > 0
    BY <2>1 DEF RestOK
  <2> QED  BY <2>1, <2>2, <2>4, <2>5, <2>6
<1>4. CASE SnapshotRename
  <2>1. /\ taking # <<>> /\ UNCHANGED <<place, log>>
        /\ snap' = [seq |-> taking[1].seq, jobs |-> taking[1].jobs]
        /\ taking' = <<[taking[1] EXCEPT !.renamed = TRUE]>>
        /\ inSnapshot' = inSnapshot \cup {j \in Jobs : taking[1].jobs[j] > 0}
    BY <1>4 DEF SnapshotRename, wal
  <2>2. PICK t \in Takings : t = taking[1]
    BY <2>1 DEF PlacesOK
  <2>3. [t EXCEPT !.renamed = TRUE].jobs = t.jobs /\ [t EXCEPT !.renamed = TRUE].seq = t.seq
    BY DEF Takings
  <2>4. taking'[1].jobs = taking[1].jobs /\ taking'[1].seq = taking[1].seq /\ snap'.jobs = taking[1].jobs
    BY <2>1, <2>2, <2>3
  <2>5. /\ \A j \in Jobs : place[j] \in {"new", "pending"}
        /\ \A j \in inSnapshot : taking[1].jobs[j] > 0
        /\ \A i \in 1 .. Len(log) : log[i].seq < taking[1].seq
    BY <2>1 DEF RestOK
  <2>6. \A j \in inSnapshot' : taking[1].jobs[j] > 0
    BY <2>1, <2>5
  <2>7. \A j \in Jobs : place'[j] # "lost"
    BY <2>1, <2>5
  <2> QED  BY <2>1, <2>4, <2>5, <2>6, <2>7
<1>5. CASE TruncateBegin
  <2>1. taking' = <<>> /\ UNCHANGED <<snap, inSnapshot, place>>
    BY <1>5 DEF TruncateBegin
  <2> QED  BY <2>1 DEF RestOK
<1>6. CASE TruncateEnd
  <2>1. Len(log') = 0 /\ UNCHANGED <<taking, snap, inSnapshot, place>>
    BY <1>6 DEF TruncateEnd, disk
  <2>2. \A i \in 1 .. Len(log') : FALSE
    BY <2>1
  <2> QED  BY <2>1, <2>2 DEF RestOK
<1>7. CASE Restart
  <2> DEFINE r == Recovered(log')
  <2>1. /\ Len(log') = flushed /\ log' \in Seq(Entries)
        /\ \A n \in 1 .. flushed : n \in 1 .. Len(log) /\ log'[n] = log[n]
    BY <1>7, RestartCuts
  <2>2. /\ taking' = <<>> /\ UNCHANGED <<snap, inSnapshot>>
        /\ place' = [j \in Jobs |->
              IF j \in r.body THEN "pending"
              ELSE IF place[j] \in {"new", "finished", "lost"} THEN place[j] ELSE "lost"]
    BY <1>7 DEF Restart
  <2>3. Says(r, log', Len(log'))
    BY <2>1, LogTypes, RecoveredIs
  <2> HIDE DEF r
  <2>4. ASSUME NEW j \in Jobs, snap.jobs[j] > 0 PROVE place'[j] # "lost"
    <3>1. snap.jobs[j] # 0
      BY <2>4
    <3>2. \/ j \in r.body
          \/ \E k \in 1 .. Len(log') : log'[k].op = "COMPLETE" /\ log'[k].job = j /\ ReadAfter(log'[k])
      BY <2>3, <3>1 DEF Says, Covered
    <3>3. CASE j \in r.body
      BY <2>2, <3>3
    <3>4. ASSUME NEW k \in 1 .. Len(log'), log'[k].op = "COMPLETE", log'[k].job = j, ReadAfter(log'[k])
          PROVE  place'[j] # "lost"
      <4>1. k \in 1 .. Len(log) /\ log[k] = log'[k]
        BY <2>1
      <4>2. place[j] = "finished"
        BY <3>4, <4>1 DEF DoneOK
      <4> QED  BY <2>2, <4>2
    <3> QED  BY <3>2, <3>3, <3>4
  <2> QED  BY <2>2, <2>4 DEF RestOK
<1>8. ASSUME NEW op \in Ops, NEW j \in Jobs, Logging(op, j) PROVE ProcessStep(j)
  BY <1>8, LoggingMoves
<1>9. CASE RestOK'
  BY <1>9 DEF RestOK, NoSnap
<1> QED  BY <1>1, <1>2, <1>3, <1>4, <1>5, <1>6, <1>7, <1>8, <1>9, OtherSteps DEF ProcessStep

-----------------------------------------------------------------------------
(* The theorems.                                                           *)

LEMMA RecoveryInit ==
  ASSUME RecInit
  PROVE  RecoveryInv
<1>1. MaxAttempts \in Nat /\ 0 < MaxAttempts /\ 0 \in 0 .. MaxAttempts
  BY QueueRecoveryAssumption
<1>2. log = <<>> /\ Len(log) = 0 /\ log \in Seq(Entries) /\ flushed = 0 /\ seq = 0
  BY DEF RecInit
<1>3. NoSnap \in [seq : Nat \cup {-1}, jobs : [Jobs -> Nat]] /\ \A j \in Jobs : NoSnap.jobs[j] = 0
  BY DEF NoSnap
<1>4. RecTypeOK
  <2>1. /\ place \in [Jobs -> Places] /\ tries \in [Jobs -> 0 .. MaxAttempts]
        /\ heap \in [Jobs -> Nat] /\ body \subseteq Jobs
        /\ store \in [Jobs -> {"none", "active", "done"}]
    BY <1>1 DEF RecInit, Places
  <2>2. flushed \in 0 .. Len(log) /\ onDisk \subseteq Ops \X Jobs /\ inSnapshot \subseteq Jobs
    BY <1>2 DEF RecInit
  <2>3. ending \in BOOLEAN /\ alive \in BOOLEAN
    BY DEF RecInit
  <2>4. snap \in [seq : Nat \cup {-1}, jobs : [Jobs -> Nat]]
    BY <1>3 DEF RecInit
  <2> QED  BY <1>2, <2>1, <2>2, <2>3, <2>4 DEF RecTypeOK
<1>5. PlacesOK
  BY <1>1, <1>3 DEF RecInit, PlacesOK
<1>6. SnapsOK
  BY DEF RecInit, SnapsOK
<1>7. \A i \in 1 .. Len(log) : FALSE
  BY <1>2
<1>8. Numbered /\ DoneOK
  BY <1>7 DEF Numbered, DoneOK
<1>9. LogOnlyOK
  <2>1. \A i \in 1 .. flushed : FALSE
    BY <1>2
  <2> QED  BY <1>7, <2>1 DEF RecInit, LogOnlyOK
<1>10. RestOK
  BY DEF RecInit, RestOK
<1> QED  BY <1>4, <1>5, <1>6, <1>8, <1>9, <1>10 DEF RecoveryInv

LEMMA RecoveryNext ==
  ASSUME RecoveryInv, [RecNext]_recVars
  PROVE  RecoveryInv'
<1>1. CASE RecNext
  <2>1. RecTypeOK' /\ PlacesOK' /\ SnapsOK' /\ Numbered' /\ DoneOK' /\ LogOnlyOK' /\ RestOK'
    BY <1>1, TypesKept, PlacesKept, SnapsKept, NumberedKept, DoneKept, LogOnlyKept, RestKept
       DEF RecoveryInv
  <2> QED  BY <2>1 DEF RecoveryInv
<1>2. CASE UNCHANGED recVars
  BY <1>2 DEF recVars, RecoveryInv, RecTypeOK, PlacesOK, SnapsOK, Numbered, DoneOK, LogOnlyOK, RestOK,
              ReadAfter, NoSnap
<1> QED  BY <1>1, <1>2

LEMMA RecoveryInvariant == RecSpec => []RecoveryInv
<1>1. RecInit => RecoveryInv
  BY RecoveryInit
<1>2. RecoveryInv /\ [RecNext]_recVars => RecoveryInv'
  BY RecoveryNext
<1> QED  BY <1>1, <1>2, PTL DEF RecSpec

\* What the invariant says of a job: before any snapshot, and of those a snapshot covers.
LEMMA LogAloneEnough ==
  RecoveryInv => LogAloneKeepsJobs /\ FinishedStaysFinished /\ NoGhosts
<1> SUFFICES ASSUME RecoveryInv, snaps = 0
             PROVE  /\ LoggedJobSurvives
                    /\ \A j \in Jobs : <<"COMPLETE", j>> \in onDisk => place[j] = "finished"
                    /\ \A j \in Jobs : heap[j] = IF j \in body THEN 1 ELSE 0
  BY DEF LogAloneKeepsJobs, FinishedStaysFinished, NoGhosts
<1>1. snap = NoSnap /\ RecTypeOK /\ DoneOK /\ LogOnlyOK
  BY DEF RecoveryInv, SnapsOK
<1>2. FileOK /\ EnqueuesOK /\ HeapOK
  BY <1>1, LogOnlyParts
<1>3. /\ \A i \in 1 .. flushed : i \in 1 .. Len(log)
      /\ \A i \in 1 .. Len(log) : log[i].seq \in Nat
  BY <1>1, LogTypes
<1>4. ASSUME NEW op, NEW j, <<op, j>> \in onDisk
      PROVE  \E i \in 1 .. Len(log) : log[i].op = op /\ log[i].job = j
  BY <1>2, <1>3, <1>4 DEF FileOK
<1>5. LoggedJobSurvives
  BY <1>2, <1>4 DEF LoggedJobSurvives, EnqueuesOK
<1>6. ASSUME NEW j \in Jobs, <<"COMPLETE", j>> \in onDisk PROVE place[j] = "finished"
  <2>1. PICK i \in 1 .. Len(log) : log[i].op = "COMPLETE" /\ log[i].job = j
    BY <1>4, <1>6
  <2>2. snap.seq = -1
    BY <1>1 DEF NoSnap
  <2>3. ReadAfter(log[i])
    BY <1>3, <2>2 DEF ReadAfter
  <2> QED  BY <1>1, <2>1, <2>3 DEF DoneOK
<1> QED  BY <1>2, <1>5, <1>6 DEF HeapOK

LEMMA CoveredEnough ==
  ASSUME SnapAtRest
  PROVE  RecoveryInv => CoveredJobSurvives
<1> SUFFICES ASSUME RecoveryInv, NEW j \in inSnapshot PROVE place[j] # "lost"
  BY DEF CoveredJobSurvives
<1>0. RecTypeOK /\ j \in Jobs
  BY DEF RecoveryInv, RecTypeOK
<1>1. CASE snap = NoSnap
  <2>1. FileOK /\ EnqueuesOK /\ <<"ENQUEUE", j>> \in onDisk
    BY <1>1, LogOnlyParts DEF RecoveryInv, CoverOK
  <2>2. \A i \in 1 .. flushed : i \in 1 .. Len(log)
    BY <1>0, LogTypes
  <2>3. PICK i \in 1 .. Len(log) : log[i].op = "ENQUEUE" /\ log[i].job = j
    BY <2>1, <2>2 DEF FileOK
  <2> QED  BY <2>1, <2>3 DEF EnqueuesOK
<1>2. CASE snap # NoSnap
  BY <1>0, <1>2 DEF RecoveryInv, RestOK
<1> QED  BY <1>1, <1>2

\* Whatever snapshots are taken, and whenever: the types hold; as long as none was begun,
\* a crash at any moment loses no job whose ENQUEUE reached the file and brings back none
\* whose COMPLETE did, and the heap has an entry for each body and no other.
THEOREM LogAloneRecovers ==
  RecSpec => [](RecTypeOK /\ LogAloneKeepsJobs /\ FinishedStaysFinished /\ NoGhosts)
<1>1. RecoveryInv => RecTypeOK /\ LogAloneKeepsJobs /\ FinishedStaysFinished /\ NoGhosts
  BY LogAloneEnough DEF RecoveryInv
<1> QED  BY <1>1, RecoveryInvariant, PTL

\* With snapshots taken at rest, any number of them, a crash at any moment - before the
\* rename, between it and the truncation, or after - loses no job that one covers either:
\* what is recovered is what run() promises (readme.md:836).
THEOREM JobsAreRecovered ==
  ASSUME SnapAtRest
  PROVE  RecSpec => []JobsRecovered
<1>1. RecoveryInv => JobsRecovered
  BY LogAloneEnough, CoveredEnough DEF RecoveryInv, JobsRecovered, LoggedJobsKept
<1> QED  BY <1>1, RecoveryInvariant, PTL
=============================================================================
