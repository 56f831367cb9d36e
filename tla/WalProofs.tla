----------------------------- MODULE WalProofs ------------------------------
(***************************************************************************)
(* Theorems about Wal, for every number of threads, transactions and       *)
(* setups: the log keeps what it acknowledged and implements DurableLog.   *)
(*                                                                         *)
(* The invariant follows a commit record from the thread that holds it     *)
(* through the pending buffer to the file, and to the part of it that was  *)
(* fsynced unless the transaction slipped.  A checkpoint record covers the *)
(* transactions below its own, but for those it overtook.  That no         *)
(* acknowledged transaction slips later needs that each is handled by one  *)
(* thread.                                                                 *)
(***************************************************************************)
EXTENDS Wal, SequenceTheorems, WellFoundedInduction, TLAPS

\* The records there are: written, pending, and in the hands of a thread.
InHand  == {thread[p].rec : p \in {q \in Threads : thread[q].at # "idle"}}
Records == Range(file) \cup Range(pending) \cup InHand

\* A record that was written, and at the strict levels fsynced unless its
\* transaction slipped.
Written(r) == \E i \in 1 .. Len(file) : file[i] = r
Kept(r)    == \E i \in 1 .. synced : file[i] = r
Safe(r)    == Written(r) /\ (Strict => Kept(r) \/ r.txid \in slipped)

\* The same of the next state, for a record named in this one.
StaysSafe(r) ==
  /\ \E i \in 1 .. Len(file') : file'[i] = r
  /\ Strict => (\E i \in 1 .. synced' : file'[i] = r) \/ r.txid \in slipped'

\* A thread inside append or checkpoint holds a record, of a transaction that was
\* submitted if it is a commit record.
ThreadsOK ==
  \A p \in Threads : thread[p].at # "idle" =>
    /\ p \in setup.threads
    /\ thread[p].rec \in Record
    /\ thread[p].rec.kind = "commit" => thread[p].rec.txid \in submitted
    /\ thread[p].at = "between" => thread[p].rec.kind = "data"

TypeInv == TypeOK /\ ThreadsOK

\* A transaction that is a checkpoint has no other records.
Unmixed ==
  \A r, s \in Records : r.kind = "ckpt" /\ r.txid = s.txid => s.kind = "ckpt"

\* A checkpoint record covers the transactions below its own but for those it
\* overtook, and is of none that was submitted.
RecordsOK ==
  /\ \A t \in submitted : t <= lastTxId
  /\ \A c \in TxIds : covered[c] \subseteq submitted
  /\ \A r \in Records :
       /\ r.txid <= lastTxId
       /\ r.kind = "commit" => r.txid \in submitted
       /\ r.kind = "ckpt" =>
            /\ r.txid \notin submitted
            /\ \A t \in TxIds :
                 t < r.txid => t \in covered[r.txid] \cup overtaken
  /\ Unmixed

\* The commit record of an acknowledged transaction is safe.
AckedSafe ==
  \A t \in acked : \E r \in Record : r.kind = "commit" /\ r.txid = t /\ Safe(r)

\* A pushed commit record whose append has not returned is pending or safe.
CommitsOnTheirWay ==
  \A p \in Threads :
    thread[p].at \in {"autoflush", "flush"} /\ thread[p].rec.kind = "commit" =>
      thread[p].rec \in Range(pending) \/ Safe(thread[p].rec)

\* No two threads handle one transaction, and what is handled or pending is not
\* acknowledged.
OwnTransactions ==
  /\ \A p, q \in Threads :
       thread[p].at # "idle" /\ thread[q].at # "idle" /\ p # q =>
         thread[p].rec.txid # thread[q].rec.txid
  /\ \A p \in Threads : thread[p].at # "idle" => thread[p].rec.txid \notin acked
  /\ \A r \in Range(pending) : r.kind = "commit" => r.txid \notin acked

OpenInv == RecordsOK /\ AckedSafe /\ CommitsOnTheirWay /\ OwnTransactions

IInv == TypeInv /\ (crash = "none" => OpenInv) /\ AckedSurvive

-----------------------------------------------------------------------------
\* Whatever comes of a flush, buffer and file hold records, and those it began with.
LEMMA FlushTypes ==
  ASSUME TypeOK, NEW sync \in BOOLEAN, NEW ok \in BOOLEAN,
         FlushPending(sync, ok), Slip(sync, ok)
  PROVE  /\ pending' \in Seq(Record) /\ file' \in Seq(Record)
         /\ synced' \in 0 .. Len(file') /\ slipped' \subseteq TxIds
         /\ Range(pending') \subseteq Range(pending)
         /\ Range(file') \subseteq Range(file) \cup Range(pending)
<1>1. /\ pending \in Seq(Record) /\ file \in Seq(Record)
      /\ synced \in 0 .. Len(file)
  BY DEF TypeOK
<1>0. slipped' \subseteq TxIds
  <2>1. \A i \in DOMAIN pending : pending[i] \in Record
    BY <1>1, ElementOfSeq
  <2>2. \A i \in DOMAIN pending : pending[i].txid \in TxIds
    BY <2>1 DEF Record
  <2> QED  BY <2>2 DEF TypeOK, Slip
<1>2. CASE UNCHANGED <<pending, file, synced>>
  BY <1>0, <1>1, <1>2
<1>3. CASE file' = file \o pending /\ pending' \in {<<>>, pending}
           /\ synced' \in {synced, Len(file')}
  <2>1. /\ file' \in Seq(Record) /\ Len(file') = Len(file) + Len(pending)
        /\ \A i \in 1 .. Len(file) + Len(pending) :
             file'[i] = IF i <= Len(file) THEN file[i] ELSE pending[i - Len(file)]
    BY <1>1, <1>3, ConcatProperties
  <2>2. Len(file) \in Nat /\ Len(pending) \in Nat
    BY <1>1
  <2>3. synced' \in 0 .. Len(file')
    BY <1>1, <1>3, <2>1, <2>2
  <2>4. ASSUME NEW r \in Range(file') PROVE r \in Range(file) \cup Range(pending)
    <3>1. PICK i \in 1 .. Len(file) + Len(pending) : file'[i] = r
      BY <2>1 DEF Range
    <3>2. CASE i <= Len(file)
      BY <1>1, <2>1, <2>2, <3>1, <3>2 DEF Range
    <3>3. CASE ~(i <= Len(file))
      <4>1. i - Len(file) \in 1 .. Len(pending) /\ r = pending[i - Len(file)]
        BY <2>1, <2>2, <3>1, <3>3
      <4> QED  BY <1>1, <4>1 DEF Range
    <3> QED  BY <3>2, <3>3
  <2>5. pending' \in Seq(Record) /\ Range(pending') \subseteq Range(pending)
    <3>1. CASE pending' = <<>>
      <4>1. Range(pending') = {}
        BY <3>1 DEF Range
      <4> QED  BY <3>1, <4>1, EmptySeq
    <3>2. CASE pending' = pending
      BY <1>1, <3>2
    <3> QED  BY <1>3, <3>1, <3>2
  <2> QED  BY <1>0, <2>1, <2>3, <2>4, <2>5
<1> QED  BY <1>2, <1>3 DEF FlushPending

\* A flush moves what was pending to where it is safe, by an fsync or as slipped, and
\* takes nothing from there.  If it succeeds nothing stays pending.  What was
\* acknowledged and is not pending does not slip.
LEMMA FlushKeeps ==
  ASSUME TypeOK, NEW sync \in BOOLEAN, NEW ok \in BOOLEAN,
         FlushPending(sync, ok), Slip(sync, ok), setup' = setup
  PROVE  /\ \A r : Safe(r) => StaysSafe(r)
         /\ \A r \in Range(pending) :
              r.kind = "commit" => r \in Range(pending') \/ StaysSafe(r)
         /\ ok => pending' = <<>>
         /\ \A t \in slipped' :
              t \in slipped \/ \E r \in Range(pending) : r.kind = "commit" /\ r.txid = t
<1>1. /\ pending \in Seq(Record) /\ file \in Seq(Record)
      /\ synced \in 0 .. Len(file) /\ Len(file) \in Nat /\ Len(pending) \in Nat
      /\ DOMAIN pending = 1 .. Len(pending)
  BY DEF TypeOK
<1>2. Strict' = Strict
  BY DEF Strict, Durability
<1>3. \A t \in slipped' :
        t \in slipped \/ \E r \in Range(pending) : r.kind = "commit" /\ r.txid = t
  BY DEF Slip, Range
<1>4. CASE UNCHANGED <<pending, file, synced>> /\ slipped' = slipped /\ (ok => pending = <<>>)
  BY <1>2, <1>3, <1>4 DEF Safe, Written, Kept, StaysSafe
<1>5. CASE /\ file' = file \o pending /\ pending' = (IF ok THEN <<>> ELSE pending)
           /\ synced' = (IF ok /\ sync THEN Len(file') ELSE synced)
           /\ ok => pending # <<>>
  <2>1. /\ Len(file') = Len(file) + Len(pending)
        /\ \A i \in 1 .. Len(file) + Len(pending) :
             file'[i] = IF i <= Len(file) THEN file[i] ELSE pending[i - Len(file)]
    BY <1>1, <1>5, ConcatProperties
  <2>2. /\ \A i \in 1 .. Len(file) : i \in 1 .. Len(file') /\ file'[i] = file[i]
        /\ \A i \in 1 .. synced : i \in 1 .. synced' /\ file'[i] = file[i]
        /\ \A i \in 1 .. Len(pending) :
             Len(file) + i \in 1 .. Len(file') /\ file'[Len(file) + i] = pending[i]
    BY <1>1, <1>5, <2>1
  <2>3. CASE ok /\ sync
    <3>1. synced' = Len(file')
      BY <1>5, <2>3
    <3>2. ASSUME NEW r, Written(r) PROVE StaysSafe(r)
      <4>1. PICK i \in 1 .. Len(file) : file[i] = r
        BY <3>2 DEF Written
      <4> QED  BY <2>2, <3>1, <4>1 DEF StaysSafe
    <3>3. ASSUME NEW r \in Range(pending) PROVE StaysSafe(r)
      <4>1. PICK i \in 1 .. Len(pending) : pending[i] = r
        BY <1>1 DEF Range
      <4> QED  BY <2>2, <3>1, <4>1 DEF StaysSafe
    <3> QED  BY <1>3, <1>5, <2>3, <3>2, <3>3 DEF Safe
  <2>4. CASE ~(ok /\ sync)
    <3>1. /\ slipped \subseteq slipped'
          /\ ok /\ Strict => \A i \in 1 .. Len(pending) :
               pending[i].kind = "commit" => pending[i].txid \in slipped'
      BY <1>1, <1>5, <2>4 DEF Slip
    <3>2. ASSUME NEW r, Safe(r) PROVE StaysSafe(r)
      <4>1. \E i \in 1 .. Len(file') : file'[i] = r
        BY <2>2, <3>2 DEF Safe, Written
      <4>2. Strict => (\E i \in 1 .. synced' : file'[i] = r) \/ r.txid \in slipped'
        BY <2>2, <3>1, <3>2 DEF Safe, Kept
      <4> QED  BY <4>1, <4>2 DEF StaysSafe
    <3>3. ASSUME NEW r \in Range(pending), r.kind = "commit", ok PROVE StaysSafe(r)
      <4>1. PICK i \in 1 .. Len(pending) : pending[i] = r
        BY <1>1 DEF Range
      <4> QED  BY <2>2, <3>1, <3>3, <4>1 DEF StaysSafe
    <3>4. ~ok => pending' = pending
      BY <1>5
    <3> QED  BY <1>3, <1>5, <3>2, <3>3, <3>4
  <2> QED  BY <2>3, <2>4
<1> QED  BY <1>4, <1>5 DEF FlushPending, Slip

\* What enters append is a record with the next place in the chain.
LEMMA EnterTypes ==
  ASSUME TypeInv, NEW p \in setup.threads, NEW kind \in Kinds, NEW txid \in TxIds,
         EnterAppend(p, kind, txid), setup' = setup,
         submitted \subseteq submitted',
         kind = "commit" => txid \in submitted'
  PROVE  /\ chained' \in Nat
         /\ thread' \in [Threads -> Local]
         /\ ThreadsOK'
<1>1. p \in Threads /\ thread \in [Threads -> Local] /\ chained \in Nat
  BY WalAssumption DEF TypeInv, TypeOK
<1> DEFINE new == [kind |-> kind, txid |-> txid, mac |-> chained + 1]
<1>2. new \in Record
  BY <1>1 DEF Record
<1>3. thread' = [thread EXCEPT ![p] = [at |-> "push", rec |-> new]]
  BY DEF EnterAppend
<1>4. [at |-> "push", rec |-> new] \in Local
  BY <1>2 DEF Local, Steps
<1>5. thread' \in [Threads -> Local]
  BY <1>1, <1>3, <1>4
<1>6. thread'[p].at = "push" /\ thread'[p].rec = new
  BY <1>1, <1>3
<1>7. \A q \in Threads : q # p => thread'[q] = thread[q]
  BY <1>1, <1>3
<1>8. new.kind = kind /\ new.txid = txid
  OBVIOUS
<1> HIDE DEF new
<1>9. ThreadsOK'
  BY <1>1, <1>2, <1>6, <1>7, <1>8 DEF TypeInv, ThreadsOK
<1> QED  BY <1>1, <1>5, <1>9 DEF EnterAppend

\* A step of a thread to another place, or back to its caller, keeps its record or
\* drops it.
LEMMA MoveTypes ==
  ASSUME TypeInv, NEW p \in setup.threads, setup' = setup, submitted' = submitted,
         NEW step \in Steps \ {"idle"},
         step = "between" => thread[p].rec.kind = "data",
         thread[p].at # "idle",
         Goto(p, step) \/ Return(p)
  PROVE  thread' \in [Threads -> Local] /\ ThreadsOK'
<1>1. p \in Threads /\ thread \in [Threads -> Local]
  BY WalAssumption DEF TypeInv, TypeOK
<1>2. \A q \in Threads : q # p => thread'[q] = thread[q]
  BY <1>1 DEF Goto, Return
<1>3. CASE Goto(p, step)
  <2>1. thread'[p] = [at |-> step, rec |-> thread[p].rec]
    BY <1>1, <1>3 DEF Goto, Local
  <2>2. thread' \in [Threads -> Local]
    BY <1>1, <1>3 DEF Goto, Local
  <2> QED  BY <1>1, <1>2, <2>1, <2>2 DEF TypeInv, ThreadsOK
<1>4. CASE Return(p)
  <2>1. thread'[p].at = "idle"
    BY <1>1, <1>4 DEF Return
  <2>2. thread' \in [Threads -> Local]
    BY <1>1, <1>4 DEF Return, Local, Steps
  <2> QED  BY <1>1, <1>2, <2>1, <2>2 DEF TypeInv, ThreadsOK
<1> QED  BY <1>3, <1>4

\* Replay returns transactions.
LEMMA CommittedAreTxIds ==
  ASSUME NEW log \in Seq(Record)
  PROVE  DOMAIN Replay(log) \subseteq TxIds
<1>1. \A j \in DOMAIN log : log[j] \in Record
  BY ElementOfSeq
<1>2. Committed(log) \subseteq TxIds
  BY <1>1 DEF Committed, Record
<1> QED  BY <1>2 DEF Replay

LEMMA InitTypes == Init => TypeInv
<1> SUFFICES ASSUME Init PROVE TypeInv
  OBVIOUS
<1>1. thread \in [Threads -> Local] /\ \A p \in Threads : thread[p].at = "idle"
  BY DEF Init, Local, Steps
<1>2. pending \in Seq(Record) /\ file \in Seq(Record) /\ Len(file) = 0
  BY EmptySeq DEF Init
<1>3. DOMAIN recovered = {}
  BY DEF Init
<1>4. covered \in [TxIds -> SUBSET TxIds]
  BY DEF Init
<1>5. TypeOK
  BY <1>1, <1>2, <1>3, <1>4, WalAssumption DEF Init, TypeOK
<1> QED  BY <1>1, <1>5 DEF TypeInv, ThreadsOK

LEMMA StepTypes == TypeInv /\ [Next]_vars => TypeInv'
<1> SUFFICES ASSUME TypeInv, [Next]_vars PROVE TypeInv'
  OBVIOUS
<1> USE DEF TypeInv
<1>1. CASE UNCHANGED vars
  BY <1>1 DEF vars, history, TypeOK, ThreadsOK, Local, Strict
<1>2. ASSUME NEW p \in setup.threads, ThreadStep(p), setup' = setup PROVE TypeInv'
  <2>0. Strict \in BOOLEAN
    BY DEF Strict
  <2>1. p \in Threads /\ MaxTxId \in Nat
    BY WalAssumption DEF TypeOK
  <2>2. CASE BeginTxn(p)
    <3>1. lastTxId + 1 \in TxIds /\ lastTxId' \in 0 .. MaxTxId /\ "data" \in Kinds
      BY <2>1, <2>2 DEF BeginTxn, TypeOK, TxIds, Kinds
    <3>2. chained' \in Nat /\ thread' \in [Threads -> Local] /\ ThreadsOK'
      BY <1>2, <2>2, <3>1, EnterTypes DEF BeginTxn, history
    <3> QED  BY <1>2, <2>2, <3>1, <3>2 DEF BeginTxn, EnterAppend, history, TypeOK
  <2>3. CASE CommitTxn(p)
    <3>1. thread[p].rec.txid \in TxIds /\ "commit" \in Kinds
      BY <2>1, <2>3 DEF CommitTxn, ThreadsOK, Record, Kinds
    <3>2. chained' \in Nat /\ thread' \in [Threads -> Local] /\ ThreadsOK'
      BY <1>2, <2>3, <3>1, EnterTypes DEF CommitTxn
    <3> QED  BY <1>2, <2>3, <3>1, <3>2 DEF CommitTxn, EnterAppend, TypeOK
  <2>4. CASE BeginCheckpoint(p)
    <3>1. lastTxId + 1 \in TxIds /\ lastTxId' \in 0 .. MaxTxId /\ "ckpt" \in Kinds
      BY <2>1, <2>4 DEF BeginCheckpoint, TypeOK, TxIds, Kinds
    <3>2. chained' \in Nat /\ thread' \in [Threads -> Local] /\ ThreadsOK'
      BY <1>2, <2>4, <3>1, EnterTypes DEF BeginCheckpoint
    <3>3. covered' \in [TxIds -> SUBSET TxIds] /\ overtaken' \subseteq TxIds
      <4>1. PICK drained \in SUBSET acked :
              /\ covered' = [covered EXCEPT ![lastTxId + 1] = drained]
              /\ overtaken' = overtaken \cup ((1 .. lastTxId) \ drained)
        BY <2>4 DEF BeginCheckpoint
      <4>2. drained \subseteq TxIds /\ 1 .. lastTxId \subseteq TxIds
        BY <2>1 DEF TypeOK, TxIds
      <4> QED  BY <3>1, <4>1, <4>2 DEF TypeOK
    <3> QED  BY <1>2, <2>4, <3>1, <3>2, <3>3 DEF BeginCheckpoint, EnterAppend, TypeOK
  <2>5. CASE Push(p)
    <3>1. thread' \in [Threads -> Local] /\ ThreadsOK'
      <4>1. \E step \in {"autoflush", "flush"} : Goto(p, step)
        BY <2>5 DEF Push
      <4> QED  BY <1>2, <2>5, <4>1, MoveTypes DEF Push, history, Steps
    <3>2. pending' \in Seq(Record)
      BY <2>1, <2>5, AppendProperties DEF Push, ThreadsOK, TypeOK
    <3> QED  BY <1>2, <2>5, <3>1, <3>2 DEF Push, history, TypeOK
  <2>6. CASE AutoFlush(p)
    <3>1. PICK ok \in BOOLEAN :
            /\ FlushPending(FALSE, ok) /\ Slip(FALSE, ok)
            /\ Goto(p, "flush") \/ Return(p)
      BY <2>6 DEF AutoFlush
    <3>2. thread' \in [Threads -> Local] /\ ThreadsOK'
      BY <1>2, <2>6, <3>1, MoveTypes DEF AutoFlush, history, Steps
    <3>3. /\ pending' \in Seq(Record) /\ file' \in Seq(Record)
          /\ synced' \in 0 .. Len(file') /\ slipped' \subseteq TxIds
      BY <3>1, FlushTypes
    <3> QED  BY <1>2, <2>6, <3>2, <3>3 DEF AutoFlush, history, TypeOK
  <2>7. CASE FinishData(p)
    <3>1. thread[p].rec.kind = "data"
      BY <2>1, <2>7 DEF FinishData, TriggersFlush, ThreadsOK, Record, Kinds
    <3>2. thread' \in [Threads -> Local] /\ ThreadsOK'
      BY <1>2, <2>7, <3>1, MoveTypes DEF FinishData, history, Steps
    <3> QED  BY <1>2, <2>7, <3>2 DEF FinishData, history, TypeOK
  <2>8. CASE FinishCommit(p)
    <3>1. PICK ok \in BOOLEAN :
            /\ FlushPending(Strict, ok) /\ Slip(Strict, ok)
            /\ acked' = IF ok THEN acked \cup {thread[p].rec.txid} ELSE acked
      BY <2>8 DEF FinishCommit
    <3>2. thread' \in [Threads -> Local] /\ ThreadsOK'
      BY <1>2, <2>8, MoveTypes DEF FinishCommit, Steps
    <3>3. /\ pending' \in Seq(Record) /\ file' \in Seq(Record)
          /\ synced' \in 0 .. Len(file') /\ slipped' \subseteq TxIds
      BY <2>0, <3>1, FlushTypes
    <3>4. acked' \subseteq submitted
      BY <2>1, <2>8, <3>1 DEF FinishCommit, ThreadsOK, TypeOK
    <3> QED  BY <1>2, <2>8, <3>2, <3>3, <3>4 DEF FinishCommit, TypeOK
  <2>9. CASE FinishCkptAppend(p)
    <3>1. PICK ok \in BOOLEAN :
            /\ FlushPending(Strict, ok) /\ Slip(Strict, ok)
            /\ Goto(p, "ckptsync") \/ Return(p)
      BY <2>9 DEF FinishCkptAppend
    <3>2. thread' \in [Threads -> Local] /\ ThreadsOK'
      BY <1>2, <2>9, <3>1, MoveTypes DEF FinishCkptAppend, history, Steps
    <3>3. /\ pending' \in Seq(Record) /\ file' \in Seq(Record)
          /\ synced' \in 0 .. Len(file') /\ slipped' \subseteq TxIds
      BY <2>0, <3>1, FlushTypes
    <3> QED  BY <1>2, <2>9, <3>2, <3>3 DEF FinishCkptAppend, history, TypeOK
  <2>10. CASE CheckpointSync(p)
    <3>1. PICK ok \in BOOLEAN :
            /\ FlushPending(TRUE, ok) /\ Slip(TRUE, ok)
            /\ lastCkpt' = IF ok THEN thread[p].rec.txid ELSE lastCkpt
      BY <2>10 DEF CheckpointSync
    <3>2. thread' \in [Threads -> Local] /\ ThreadsOK'
      BY <1>2, <2>10, MoveTypes DEF CheckpointSync, history, Steps
    <3>3. /\ pending' \in Seq(Record) /\ file' \in Seq(Record)
          /\ synced' \in 0 .. Len(file') /\ slipped' \subseteq TxIds
      BY <3>1, FlushTypes
    <3>4. lastCkpt' \in 0 .. MaxTxId
      BY <2>1, <2>10, <3>1 DEF CheckpointSync, ThreadsOK, TypeOK, Record, TxIds
    <3> QED  BY <1>2, <2>10, <3>2, <3>3, <3>4 DEF CheckpointSync, history, TypeOK
  <2>11. CASE ManagerFlush(p)
    <3>0. (Durability = "D2") \in BOOLEAN
      OBVIOUS
    <3>1. PICK ok \in BOOLEAN :
            FlushPending(Durability = "D2", ok) /\ Slip(Durability = "D2", ok)
      BY <2>11 DEF ManagerFlush
    <3>2. /\ pending' \in Seq(Record) /\ file' \in Seq(Record)
          /\ synced' \in 0 .. Len(file') /\ slipped' \subseteq TxIds
      BY <3>0, <3>1, FlushTypes
    <3> QED  BY <1>2, <2>11, <3>2 DEF ManagerFlush, history, TypeOK, ThreadsOK
  <2> QED  BY <1>2, <2>2, <2>3, <2>4, <2>5, <2>6, <2>7, <2>8, <2>9, <2>10, <2>11
          DEF ThreadStep
<1>3. CASE ProcessCrash /\ setup' = setup
  <2>1. DOMAIN recovered' \subseteq TxIds
    BY <1>3, CommittedAreTxIds DEF ProcessCrash, TypeOK
  <2> QED  BY <1>3, <2>1 DEF ProcessCrash, history, TypeOK, ThreadsOK
<1>4. CASE PowerLoss /\ setup' = setup
  <2>1. PICK n \in synced .. Len(file) :
          file' = SubSeq(file, 1, n) /\ recovered' = Replay(SubSeq(file, 1, n))
    BY <1>4 DEF PowerLoss
  <2>2. n \in Nat /\ n <= Len(file) /\ synced <= n /\ synced \in Nat
    BY <2>1 DEF TypeOK
  <2>3. \A i \in 1 .. n : file[i] \in Record
    BY <2>2, ElementOfSeq DEF TypeOK
  <2>4. file' \in Seq(Record) /\ Len(file') = n
    BY <2>1, <2>2, <2>3, SubSeqProperties
  <2>5. DOMAIN recovered' \subseteq TxIds
    BY <2>1, <2>4, CommittedAreTxIds
  <2>6. synced' \in 0 .. Len(file')
    BY <1>4, <2>2, <2>4 DEF PowerLoss
  <2> QED  BY <1>4, <2>4, <2>5, <2>6 DEF PowerLoss, history, TypeOK, ThreadsOK
<1> QED  BY <1>1, <1>2, <1>3, <1>4 DEF Next

\* Every variable of the log has its type in every behaviour, under no condition.
THEOREM TypeCorrect == Spec => []TypeOK
<1>1. TypeInv => TypeOK
  BY DEF TypeInv
<1> QED  BY InitTypes, StepTypes, <1>1, PTL DEF Spec

-----------------------------------------------------------------------------
\* A set of naturals has a least element.
LEMMA LeastNatural ==
  ASSUME NEW S, S \subseteq Nat, S # {}
  PROVE  \E n \in S : \A m \in S : n <= m
<1> DEFINE less == OpToRel(<, Nat)
<1>1. IsWellFoundedOn(less, Nat)
  BY NatLessThanWellFounded
<1>2. \A m, n \in Nat : m < n => <<m, n>> \in less
  BY DEF OpToRel
<1> HIDE DEF less
<1>3. PICK n \in S : \A m \in S : ~ (<<m, n>> \in less)
  BY <1>1, WFMin
<1>4. \A m \in S : ~ (m < n)
  BY <1>2, <1>3
<1> QED  BY <1>4

\* The last checkpoint of a log is that of one of its checkpoint records.
LEMMA LastCheckpointIsLogged ==
  ASSUME NEW log \in Seq(Record)
  PROVE  \/ LastCheckpointIn(log) = 0
         \/ \E i \in DOMAIN log :
              log[i].kind = "ckpt" /\ LastCheckpointIn(log) = log[i].txid
<1> DEFINE at == {i \in DOMAIN log : log[i].kind = "ckpt"}
           fromEnd == {Len(log) - i : i \in at}
<1>1. Len(log) \in Nat /\ DOMAIN log = 1 .. Len(log)
  OBVIOUS
<1>2. CASE at = {}
  BY <1>2 DEF LastCheckpointIn
<1>3. CASE at # {}
  <2>1. fromEnd \subseteq Nat /\ fromEnd # {}
    BY <1>1, <1>3
  <2>2. PICK n \in fromEnd : \A m \in fromEnd : n <= m
    BY <2>1, LeastNatural
  <2>3. PICK i \in at : n = Len(log) - i
    BY <2>2
  <2>4. \A j \in at : j <= i
    <3>1. SUFFICES ASSUME NEW j \in at PROVE j <= i
      OBVIOUS
    <3>2. Len(log) - i <= Len(log) - j
      BY <2>2, <2>3
    <3> QED  BY <1>1, <3>2
  <2>5. (CHOOSE k \in at : \A j \in at : j <= k) \in at
    BY <2>4
  <2>6. LastCheckpointIn(log) = log[CHOOSE k \in at : \A j \in at : j <= k].txid
    BY <1>3 DEF LastCheckpointIn
  <2> QED  BY <2>5, <2>6
<1> QED  BY <1>2, <1>3

\* A prefix of the file replays or covers the acknowledged transactions whose commit
\* record it holds, but for those that a checkpoint overtook, and nothing that was not
\* submitted.
LEMMA PrefixSuffices ==
  ASSUME TypeInv, OpenInv, NEW gone, NEW log \in Seq(Record),
         Len(log) <= Len(file), \A i \in 1 .. Len(log) : log[i] = file[i],
         \A t \in acked \ gone : \E i \in 1 .. Len(log) :
           log[i].kind = "commit" /\ log[i].txid = t
  PROVE  /\ acked \ (overtaken \cup gone) \subseteq DOMAIN Replay(log) \cup CoveredBy(log)
         /\ DOMAIN Replay(log) \subseteq submitted
<1> USE DEF TypeInv
<1>1. /\ file \in Seq(Record) /\ Len(file) \in Nat /\ Len(log) \in Nat
      /\ DOMAIN log = 1 .. Len(log) /\ DOMAIN file = 1 .. Len(file)
      /\ acked \subseteq submitted /\ submitted \subseteq TxIds
  BY DEF TypeOK
<1>2. \A i \in DOMAIN log : log[i] \in Records /\ log[i] \in Record
  <2>1. SUFFICES ASSUME NEW i \in DOMAIN log
                 PROVE  log[i] \in Records /\ log[i] \in Record
    OBVIOUS
  <2>2. i \in DOMAIN file /\ log[i] = file[i]
    BY <1>1
  <2> QED  BY <1>1, <2>2, ElementOfSeq DEF Records, Range
<1>3. DOMAIN Replay(log) = Committed(log)
  BY DEF Replay
<1>4. Committed(log) \subseteq submitted
  BY <1>2 DEF Committed, OpenInv, RecordsOK
<1>5. ASSUME NEW t \in acked, t \notin overtaken, t \notin gone
      PROVE  t \in Committed(log) \cup CoveredBy(log)
  <2>1. PICK i \in DOMAIN log : log[i].kind = "commit" /\ log[i].txid = t
    BY <1>1, <1>5
  <2>2. t \in TxIds /\ t \in Nat /\ t > 0 /\ t \in submitted
    BY <1>1 DEF TxIds
  <2>3. CASE LastCheckpointIn(log) = 0
    BY <2>1, <2>2, <2>3 DEF Committed
  <2>4. ASSUME NEW j \in DOMAIN log, log[j].kind = "ckpt",
               LastCheckpointIn(log) = log[j].txid
        PROVE  t \in Committed(log) \cup CoveredBy(log)
    <3>1. t # log[j].txid /\ (t < log[j].txid => t \in covered[log[j].txid])
      BY <1>2, <1>5, <2>2, <2>4 DEF OpenInv, RecordsOK
    <3>2. log[j].txid \in Nat /\ log[j].txid # 0
      BY <1>2, <2>4 DEF Record, TxIds
    <3>3. CASE t < log[j].txid
      BY <2>4, <3>1, <3>2, <3>3 DEF CoveredBy
    <3>4. CASE t > log[j].txid
      BY <2>1, <2>4, <3>4 DEF Committed
    <3> QED  BY <2>2, <3>1, <3>2, <3>3, <3>4
  <2> QED  BY <2>3, <2>4, LastCheckpointIsLogged
<1> QED  BY <1>3, <1>4, <1>5

\* Either kind of crash leaves such a prefix, if the level guards against it: the
\* whole file, or all that was fsynced.
LEMMA CrashIsSafe ==
  ASSUME TypeInv, OpenInv, ProcessCrash \/ (PowerLoss /\ Strict), setup' = setup
  PROVE  /\ ProcessCrash =>
              acked \ overtaken \subseteq DOMAIN recovered' \cup CoveredBy(file)'
         /\ acked \ (overtaken \cup slipped)
              \subseteq DOMAIN recovered' \cup CoveredBy(file)'
         /\ DOMAIN recovered' \subseteq submitted
<1> USE DEF TypeInv
<1>1. /\ file \in Seq(Record) /\ Len(file) \in Nat /\ synced \in 0 .. Len(file)
      /\ DOMAIN file = 1 .. Len(file)
  BY DEF TypeOK
<1>2. \A log : covered' = covered /\ file' = log => CoveredBy(file)' = CoveredBy(log)
  BY DEF CoveredBy
<1>3. CASE ProcessCrash
  <2>1. \A t \in acked \ {} : \E i \in 1 .. Len(file) :
          file[i].kind = "commit" /\ file[i].txid = t
    BY DEF OpenInv, AckedSafe, Safe, Written
  <2>2. Len(file) <= Len(file)
    BY <1>1
  <2>3. /\ acked \ (overtaken \cup {}) \subseteq DOMAIN Replay(file) \cup CoveredBy(file)
        /\ DOMAIN Replay(file) \subseteq submitted
    BY <1>1, <2>1, <2>2, PrefixSuffices
  <2>4. acked \ overtaken \subseteq DOMAIN Replay(file) \cup CoveredBy(file)
    BY <2>3
  <2> QED  BY <1>2, <1>3, <2>3, <2>4 DEF ProcessCrash, history
<1>4. CASE PowerLoss /\ Strict
  <2>1. PICK n \in synced .. Len(file) :
          file' = SubSeq(file, 1, n) /\ recovered' = Replay(SubSeq(file, 1, n))
    BY <1>4 DEF PowerLoss
  <2>2. n \in Nat /\ n <= Len(file) /\ synced <= n /\ synced \in Nat
    BY <1>1, <2>1
  <2>3. PICK log : log = SubSeq(file, 1, n)
    OBVIOUS
  <2>4. /\ log \in Seq(Record) /\ Len(log) = n
        /\ \A i \in 1 .. Len(log) : log[i] = file[i]
    BY <1>1, <2>2, <2>3
  <2>5. ASSUME NEW t \in acked \ slipped
        PROVE  \E i \in 1 .. Len(log) : log[i].kind = "commit" /\ log[i].txid = t
    <3>1. PICK r \in Record : r.kind = "commit" /\ r.txid = t /\ Safe(r)
      BY DEF OpenInv, AckedSafe
    <3>2. PICK i \in 1 .. synced : file[i] = r
      BY <1>4, <2>5, <3>1 DEF Safe, Kept
    <3>3. i \in 1 .. Len(log)
      BY <2>2, <2>4
    <3> QED  BY <2>4, <3>1, <3>2, <3>3
  <2>6. Len(log) <= Len(file)
    BY <2>2, <2>4
  <2>7. /\ acked \ (overtaken \cup slipped) \subseteq DOMAIN Replay(log) \cup CoveredBy(log)
        /\ DOMAIN Replay(log) \subseteq submitted
    BY <2>4, <2>5, <2>6, PrefixSuffices
  <2>8. file' = log /\ recovered' = Replay(log) /\ covered' = covered /\ ~ProcessCrash
    BY <1>4, <2>1, <2>3 DEF PowerLoss, ProcessCrash, history
  <2> QED  BY <1>2, <2>7, <2>8
<1> QED  BY <1>3, <1>4

-----------------------------------------------------------------------------
\* A step of p touches no other thread, and p keeps its record unless it returns.
Moves(p) ==
  /\ \A q \in Threads : q # p => thread'[q] = thread[q]
  /\ \/ thread'[p].at = "idle"
     \/ thread'[p].rec = thread[p].rec /\ thread[p].at # "idle"

LEMMA GoOrReturn ==
  ASSUME TypeInv, NEW p \in setup.threads, NEW step \in Steps \ {"idle"},
         thread[p].at # "idle", Goto(p, step) \/ Return(p)
  PROVE  Moves(p) /\ thread'[p].at \in {step, "idle"}
<1>1. p \in Threads /\ thread \in [Threads -> Local]
  BY WalAssumption DEF TypeInv, TypeOK
<1>2. CASE Goto(p, step)
  <2>1. thread'[p] = [at |-> step, rec |-> thread[p].rec]
    BY <1>1, <1>2 DEF Goto, Local
  <2> QED  BY <1>1, <1>2, <2>1 DEF Goto, Moves
<1>3. CASE Return(p)
  BY <1>1, <1>3 DEF Return, Moves
<1> QED  BY <1>2, <1>3

\* Records are records.
LEMMA RecordsAre ==
  TypeInv => Records \subseteq Record
<1> SUFFICES ASSUME TypeInv PROVE Records \subseteq Record
  OBVIOUS
<1>1. Range(file) \subseteq Record /\ Range(pending) \subseteq Record
  BY ElementOfSeq DEF TypeInv, TypeOK, Range
<1>2. InHand \subseteq Record
  BY DEF InHand, TypeInv, ThreadsOK
<1> QED  BY <1>1, <1>2 DEF Records

\* A new record joins those there are when it enters append.
LEMMA EnterRecords ==
  ASSUME TypeInv, NEW p \in setup.threads, NEW kind, NEW txid,
         EnterAppend(p, kind, txid)
  PROVE  \A r \in Records' : r \in Records \/ (r.kind = kind /\ r.txid = txid)
<1> DEFINE new == [kind |-> kind, txid |-> txid, mac |-> chained + 1]
<1>1. p \in Threads /\ thread \in [Threads -> Local]
  BY WalAssumption DEF TypeInv, TypeOK
<1>2. /\ thread' = [thread EXCEPT ![p] = [at |-> "push", rec |-> new]]
      /\ file' = file /\ pending' = pending
  BY DEF EnterAppend
<1>3. new.kind = kind /\ new.txid = txid
  OBVIOUS
<1> HIDE DEF new
<1>4. thread'[p].rec = new /\ \A q \in Threads : q # p => thread'[q] = thread[q]
  BY <1>1, <1>2
<1>5. \A r \in InHand' : r \in InHand \/ r = new
  BY <1>4 DEF InHand
<1> QED  BY <1>2, <1>3, <1>5 DEF Records

\* Other steps of a thread bring no record into being.
LEMMA MoveRecords ==
  ASSUME TypeInv, NEW p \in setup.threads, Moves(p),
         Range(file') \subseteq Range(file) \cup Range(pending),
         \/ Range(pending') \subseteq Range(pending)
         \/ /\ Range(pending') \subseteq Range(pending) \cup {thread[p].rec}
            /\ thread[p].at # "idle"
  PROVE  Records' \subseteq Records
<1>1. p \in Threads /\ thread \in [Threads -> Local]
  BY WalAssumption DEF TypeInv, TypeOK
<1>2. InHand' \subseteq InHand
  BY <1>1 DEF InHand, Moves
<1>3. thread[p].at # "idle" => thread[p].rec \in InHand
  BY <1>1 DEF InHand
<1> QED  BY <1>2, <1>3 DEF Records

\* A step that brings no record into being keeps what is known of records.
LEMMA MoveRecordsOK ==
  ASSUME TypeInv, OpenInv, UNCHANGED <<lastTxId, submitted, covered, overtaken>>,
         Records' \subseteq Records
  PROVE  RecordsOK'
BY DEF OpenInv, RecordsOK, Unmixed

\* A record of a new transaction, or the commit record of one whose data record the
\* thread holds, leaves transactions with their threads.
LEMMA EnterOwn ==
  ASSUME TypeInv, OpenInv, NEW p \in setup.threads, NEW kind, NEW txid \in TxIds,
         EnterAppend(p, kind, txid), acked' = acked,
         \/ txid = lastTxId + 1
         \/ txid = thread[p].rec.txid /\ thread[p].at # "idle"
  PROVE  OwnTransactions'
<1>1. p \in Threads /\ thread \in [Threads -> Local] /\ lastTxId \in Nat
      /\ acked \subseteq submitted /\ submitted \subseteq TxIds
  BY WalAssumption DEF TypeInv, TypeOK
<1>2. /\ thread'[p].rec.txid = txid
      /\ \A q \in Threads : q # p => thread'[q] = thread[q]
      /\ pending' = pending
  BY <1>1 DEF EnterAppend
<1>3. \A q \in Threads : thread[q].at # "idle" =>
        thread[q].rec.txid \in Nat /\ thread[q].rec.txid <= lastTxId
  <2> SUFFICES ASSUME NEW q \in Threads, thread[q].at # "idle"
               PROVE  thread[q].rec.txid \in Nat /\ thread[q].rec.txid <= lastTxId
    OBVIOUS
  <2>1. thread[q].rec \in Records /\ thread[q].rec \in Record
    BY DEF Records, InHand, TypeInv, ThreadsOK
  <2> QED  BY <2>1 DEF Record, TxIds, OpenInv, RecordsOK
<1>4. txid \notin acked /\ \A q \in Threads : thread[q].at # "idle" /\ q # p =>
                             thread[q].rec.txid # txid
  <2>1. CASE txid = lastTxId + 1
    <3>1. \A t \in acked : t \in Nat /\ t <= lastTxId
      BY <1>1, WalAssumption DEF OpenInv, RecordsOK, TxIds
    <3> QED  BY <1>1, <1>3, <2>1, <3>1
  <2>2. CASE txid = thread[p].rec.txid /\ thread[p].at # "idle"
    BY <1>1, <2>2 DEF OpenInv, OwnTransactions
  <2> QED  BY <2>1, <2>2
<1>5. \A q \in Threads : thread'[q].at # "idle" /\ q # p =>
        thread[q].at # "idle" /\ thread'[q].rec.txid = thread[q].rec.txid
  BY <1>2
<1> QED  BY <1>2, <1>4, <1>5 DEF OpenInv, OwnTransactions

\* Entering append touches neither buffer nor file, and the thread has not pushed.
LEMMA EnterOnTheirWay ==
  ASSUME TypeInv, OpenInv, NEW p \in setup.threads, NEW kind, NEW txid,
         EnterAppend(p, kind, txid), setup' = setup,
         acked' = acked
  PROVE  AckedSafe' /\ CommitsOnTheirWay'
<1>1. p \in Threads /\ thread \in [Threads -> Local]
  BY WalAssumption DEF TypeInv, TypeOK
<1>2. /\ thread'[p].at = "push"
      /\ \A q \in Threads : q # p => thread'[q] = thread[q]
      /\ UNCHANGED <<pending, file, synced, setup, slipped>>
  BY <1>1 DEF EnterAppend
<1>3. \A r : Safe(r)' <=> Safe(r)
  BY <1>2 DEF Safe, Written, Kept, Strict, Durability
<1>4. AckedSafe'
  BY <1>3 DEF OpenInv, AckedSafe
<1>5. CommitsOnTheirWay'
  BY <1>2, <1>3 DEF OpenInv, CommitsOnTheirWay, Range
<1> QED  BY <1>4, <1>5

\* A flush leaves commit records pending or safe, and acknowledges one only when
\* nothing stays pending; it brings no record into being.
LEMMA FlushKeepsOpenInv ==
  ASSUME TypeInv, OpenInv, NEW p \in setup.threads, Moves(p),
         thread'[p].at \in {"autoflush", "flush"} =>
           thread[p].at \in {"autoflush", "flush"},
         NEW sync \in BOOLEAN, NEW ok \in BOOLEAN,
         FlushPending(sync, ok), Slip(sync, ok),
         UNCHANGED <<setup, lastTxId, submitted, covered, overtaken>>,
         \/ acked' = acked
         \/ /\ acked' = acked \cup {thread[p].rec.txid} /\ ok
            /\ thread[p].at = "flush" /\ thread[p].rec.kind = "commit"
            /\ thread'[p].at = "idle"
  PROVE  OpenInv'
<1>1. p \in Threads /\ thread \in [Threads -> Local]
  BY WalAssumption DEF TypeInv, TypeOK
<1>2. /\ \A r : Safe(r) => StaysSafe(r)
      /\ \A r \in Range(pending) :
           r.kind = "commit" => r \in Range(pending') \/ StaysSafe(r)
      /\ ok => pending' = <<>>
  BY FlushKeeps DEF TypeInv
<1>3. /\ Range(pending') \subseteq Range(pending)
      /\ Range(file') \subseteq Range(file) \cup Range(pending)
  BY FlushTypes DEF TypeInv
<1>4. RecordsOK'
  <2>1. Records' \subseteq Records
    BY <1>3, MoveRecords
  <2> QED  BY <2>1, MoveRecordsOK
<1>5. ASSUME NEW q \in Threads, thread[q].at \in {"autoflush", "flush"},
             thread[q].rec.kind = "commit"
      PROVE  thread[q].rec \in Range(pending') \/ StaysSafe(thread[q].rec)
  <2>1. thread[q].rec \in Range(pending) \/ Safe(thread[q].rec)
    BY <1>5 DEF OpenInv, CommitsOnTheirWay
  <2> QED  BY <1>2, <1>5, <2>1
<1>6. \A r : Safe(r)' <=> StaysSafe(r)
  BY DEF Safe, Written, Kept, StaysSafe, Strict, Durability
<1>7. CommitsOnTheirWay'
  <2> SUFFICES ASSUME NEW q \in Threads,
                      thread'[q].at \in {"autoflush", "flush"},
                      thread'[q].rec.kind = "commit"
               PROVE  thread'[q].rec \in Range(pending') \/ StaysSafe(thread'[q].rec)
    BY <1>6 DEF CommitsOnTheirWay
  <2>1. thread'[q].rec = thread[q].rec /\ thread[q].at \in {"autoflush", "flush"}
    BY <1>1 DEF Moves
  <2>2. thread[q].rec \in Range(pending') \/ StaysSafe(thread[q].rec)
    BY <1>5, <2>1
  <2> QED  BY <2>1, <2>2
<1>8. AckedSafe'
  <2>1. ASSUME NEW t \in acked
        PROVE  \E r \in Record : r.kind = "commit" /\ r.txid = t /\ StaysSafe(r)
    BY <1>2 DEF OpenInv, AckedSafe
  <2>2. CASE acked' = acked
    BY <1>6, <2>1, <2>2 DEF AckedSafe
  <2>3. CASE /\ acked' = acked \cup {thread[p].rec.txid} /\ ok
             /\ thread[p].at = "flush" /\ thread[p].rec.kind = "commit"
    <3>1. Range(pending') = {}
      BY <1>2, <2>3 DEF Range
    <3>2. StaysSafe(thread[p].rec)
      BY <1>1, <1>5, <2>3, <3>1
    <3>3. thread[p].rec \in Record
      BY <1>1, <2>3 DEF TypeInv, ThreadsOK
    <3> QED  BY <1>6, <2>1, <2>3, <3>2, <3>3 DEF AckedSafe
  <2> QED  BY <2>2, <2>3
<1>9. OwnTransactions'
  <2>1. \A q \in Threads : thread'[q].at # "idle" =>
          thread[q].at # "idle" /\ thread'[q].rec = thread[q].rec
    BY <1>1 DEF Moves
  <2>2. \A q, s \in Threads :
          thread'[q].at # "idle" /\ thread'[s].at # "idle" /\ q # s =>
            thread'[q].rec.txid # thread'[s].rec.txid
    BY <2>1 DEF OpenInv, OwnTransactions
  <2>3. CASE acked' = acked
    BY <1>3, <2>1, <2>2, <2>3 DEF OpenInv, OwnTransactions
  <2>4. CASE /\ acked' = acked \cup {thread[p].rec.txid} /\ ok
             /\ thread[p].at = "flush" /\ thread'[p].at = "idle"
    <3>1. Range(pending') = {}
      BY <1>2, <2>4 DEF Range
    <3>2. \A q \in Threads : thread'[q].at # "idle" =>
            q # p /\ thread'[q].rec.txid # thread[p].rec.txid
      BY <1>1, <2>1, <2>4 DEF OpenInv, OwnTransactions
    <3> QED  BY <2>1, <2>2, <2>4, <3>1, <3>2 DEF OpenInv, OwnTransactions
  <2> QED  BY <2>3, <2>4
<1> QED  BY <1>4, <1>7, <1>8, <1>9 DEF OpenInv

\* The pushed record is among the pending ones.
LEMMA PushAdds ==
  ASSUME TypeInv, NEW p \in setup.threads, Push(p)
  PROVE  Range(pending') = Range(pending) \cup {thread[p].rec}
<1>0. p \in Threads
  BY WalAssumption DEF TypeInv, TypeOK
<1>1. pending' = Append(pending, thread[p].rec) /\ thread[p].rec \in Record
  BY <1>0 DEF Push, TypeInv, ThreadsOK
<1>2. /\ DOMAIN pending' = 1 .. Len(pending) + 1
      /\ pending'[Len(pending) + 1] = thread[p].rec
      /\ \A i \in 1 .. Len(pending) : pending'[i] = pending[i]
      /\ DOMAIN pending = 1 .. Len(pending) /\ Len(pending) \in Nat
  BY <1>1, AppendProperties DEF TypeInv, TypeOK
<1>3. ASSUME NEW r \in Range(pending')
      PROVE  r \in Range(pending) \cup {thread[p].rec}
  <2>1. PICK i \in 1 .. Len(pending) + 1 : pending'[i] = r
    BY <1>2 DEF Range
  <2>2. i \in 1 .. Len(pending) \/ i = Len(pending) + 1
    BY <1>2, <2>1
  <2> QED  BY <1>2, <2>1, <2>2 DEF Range
<1>4. ASSUME NEW r \in Range(pending) PROVE r \in Range(pending')
  <2>1. PICK i \in 1 .. Len(pending) : pending[i] = r
    BY <1>2 DEF Range
  <2>2. i \in 1 .. Len(pending) + 1
    BY <1>2, <2>1
  <2> QED  BY <1>2, <2>1, <2>2 DEF Range
<1>5. thread[p].rec \in Range(pending')
  <2>1. Len(pending) + 1 \in 1 .. Len(pending) + 1
    BY <1>2
  <2> QED  BY <1>2, <2>1 DEF Range
<1> QED  BY <1>3, <1>4, <1>5

\* The steps of the threads keep what is known while the log is open.
LEMMA ThreadStepsKeepOpenInv ==
  ASSUME TypeInv, OpenInv, NEW p \in setup.threads, ThreadStep(p), setup' = setup
  PROVE  OpenInv'
<1>1. p \in Threads /\ thread \in [Threads -> Local] /\ Strict \in BOOLEAN
  BY WalAssumption DEF TypeInv, TypeOK, Strict
<1>2. \A r \in Records : r.txid <= lastTxId
  BY DEF OpenInv, RecordsOK
<1>3. lastTxId \in Nat /\ \A t \in submitted : t \in Nat /\ t <= lastTxId
  BY WalAssumption DEF TypeInv, TypeOK, TxIds, OpenInv, RecordsOK
<1>4. \A r \in Records : r \in Record /\ r.txid \in TxIds /\ r.txid \in Nat
  BY RecordsAre DEF Record, TxIds
<1>5. \A step \in Steps \ {"idle"} :
        thread[p].at # "idle" /\ (Goto(p, step) \/ Return(p)) =>
          Moves(p) /\ thread'[p].at \in {step, "idle"}
  BY GoOrReturn
<1>6. ASSUME lastTxId < MaxTxId
      PROVE  lastTxId + 1 \in TxIds /\ lastTxId + 1 \notin submitted
             /\ \A r \in Records : r.txid # lastTxId + 1
  BY <1>2, <1>3, <1>4, <1>6, WalAssumption DEF TxIds
<1>7. CASE BeginTxn(p)
  <2>1. \A r \in Records' : r \in Records \/ (r.kind = "data" /\ r.txid = lastTxId + 1)
    BY <1>7, EnterRecords DEF BeginTxn
  <2>2. RecordsOK'
    <3>1. \A r \in Records' : r.txid <= lastTxId'
      BY <1>2, <1>3, <1>4, <1>7, <2>1 DEF BeginTxn
    <3>2. \A t \in submitted' : t <= lastTxId'
      BY <1>3, <1>7 DEF BeginTxn, history
    <3>3. \A r \in Records' : r.kind = "ckpt" => r \in Records /\ r.txid # lastTxId + 1
      BY <1>6, <1>7, <2>1 DEF BeginTxn
    <3>4. Unmixed'
      BY <2>1, <3>3 DEF OpenInv, RecordsOK, Unmixed
    <3> QED  BY <1>7, <2>1, <3>1, <3>2, <3>4 DEF BeginTxn, history, OpenInv, RecordsOK
  <2>3. AckedSafe' /\ CommitsOnTheirWay'
    BY <1>7, EnterOnTheirWay DEF BeginTxn, history
  <2>4. OwnTransactions'
    BY <1>6, <1>7, EnterOwn DEF BeginTxn, history
  <2> QED  BY <2>2, <2>3, <2>4 DEF OpenInv
<1>8. CASE CommitTxn(p)
  <2>0. /\ thread[p].at = "between" /\ thread[p].rec \in Records
        /\ thread[p].rec.kind = "data" /\ thread[p].rec.txid <= lastTxId
    BY <1>1, <1>2, <1>8 DEF CommitTxn, TypeInv, ThreadsOK, InHand, Records
  <2>1. \A r \in Records' :
          r \in Records \/ (r.kind = "commit" /\ r.txid = thread[p].rec.txid)
    BY <1>8, EnterRecords DEF CommitTxn
  <2>2. \A r \in Records : r.kind = "ckpt" => r.txid # thread[p].rec.txid
    BY <2>0 DEF OpenInv, RecordsOK, Unmixed
  <2>3. RecordsOK'
    <3>1. Unmixed'
      BY <2>1, <2>2 DEF OpenInv, RecordsOK, Unmixed
    <3> QED  BY <1>8, <2>0, <2>1, <2>2, <3>1 DEF CommitTxn, OpenInv, RecordsOK
  <2>4. AckedSafe' /\ CommitsOnTheirWay'
    BY <1>8, EnterOnTheirWay DEF CommitTxn
  <2>5. OwnTransactions'
    BY <1>4, <1>8, <2>0, EnterOwn DEF CommitTxn
  <2> QED  BY <2>3, <2>4, <2>5 DEF OpenInv
<1>9. CASE BeginCheckpoint(p)
  <2>1. \A r \in Records' : r \in Records \/ (r.kind = "ckpt" /\ r.txid = lastTxId + 1)
    BY <1>9, EnterRecords DEF BeginCheckpoint
  <2>2. /\ lastTxId + 1 \in TxIds /\ lastTxId + 1 \notin submitted
        /\ \A r \in Records : r.txid # lastTxId + 1
    BY <1>6, <1>9 DEF BeginCheckpoint
  <2>3. PICK drained \in SUBSET acked :
          /\ covered' = [covered EXCEPT ![lastTxId + 1] = drained]
          /\ overtaken' = overtaken \cup ((1 .. lastTxId) \ drained)
    BY <1>9 DEF BeginCheckpoint
  <2>4. /\ covered'[lastTxId + 1] = drained /\ drained \subseteq submitted
        /\ \A c \in TxIds : c # lastTxId + 1 => covered'[c] = covered[c]
    BY <2>2, <2>3 DEF TypeInv, TypeOK
  <2>5. RecordsOK'
    <3>1. /\ \A r \in Records' : r.txid <= lastTxId'
          /\ \A t \in submitted' : t <= lastTxId'
      BY <1>2, <1>3, <1>4, <1>9, <2>1 DEF BeginCheckpoint
    <3>2. \A r \in Records' : r.kind = "commit" => r.txid \in submitted'
      BY <1>9, <2>1 DEF BeginCheckpoint, OpenInv, RecordsOK
    <3>3. ASSUME NEW r \in Records', r.kind = "ckpt"
          PROVE  /\ r.txid \notin submitted
                 /\ \A t \in TxIds : t < r.txid => t \in covered'[r.txid] \cup overtaken'
      <4>1. CASE r \in Records
        <5>1. covered'[r.txid] = covered[r.txid]
          BY <1>4, <2>2, <2>4, <4>1
        <5> QED  BY <2>3, <3>3, <4>1, <5>1 DEF OpenInv, RecordsOK
      <4>2. CASE r.txid = lastTxId + 1
        <5>1. \A t \in TxIds : t < r.txid => t \in 1 .. lastTxId
          BY <1>3, <4>2 DEF TxIds
        <5> QED  BY <2>2, <2>3, <2>4, <4>2, <5>1
      <4> QED  BY <2>1, <4>1, <4>2
    <3>4. \A c \in TxIds : covered'[c] \subseteq submitted'
      BY <1>9, <2>4 DEF BeginCheckpoint, OpenInv, RecordsOK
    <3>5. Unmixed'
      <4>1. \A r \in Records' : r \in Records \/ r.kind = "ckpt"
        BY <2>1
      <4>2. \A r, s \in Records' : r.txid = s.txid =>
              (r \in Records /\ s \in Records) \/ (r.kind = "ckpt" /\ s.kind = "ckpt")
        BY <2>1, <2>2
      <4> QED  BY <4>2 DEF OpenInv, RecordsOK, Unmixed
    <3>6. submitted' = submitted
      BY <1>9 DEF BeginCheckpoint
    <3> QED  BY <3>1, <3>2, <3>3, <3>4, <3>5, <3>6 DEF RecordsOK
  <2>6. AckedSafe' /\ CommitsOnTheirWay'
    BY <1>9, EnterOnTheirWay DEF BeginCheckpoint
  <2>7. OwnTransactions'
    BY <1>9, <2>2, EnterOwn DEF BeginCheckpoint
  <2> QED  BY <2>5, <2>6, <2>7 DEF OpenInv
<1>10. CASE Push(p)
  <2>1. PICK step \in {"autoflush", "flush"} : Goto(p, step)
    BY <1>10 DEF Push
  <2>2. Range(pending') = Range(pending) \cup {thread[p].rec}
    BY <1>10, PushAdds
  <2>3. /\ thread[p].at = "push" /\ Moves(p)
        /\ UNCHANGED <<lastTxId, submitted, acked, covered, overtaken, file, synced, slipped>>
    <3>1. thread[p].at = "push" /\ step \in Steps \ {"idle"}
      BY <1>10 DEF Push, Steps
    <3> QED  BY <1>5, <1>10, <2>1, <3>1 DEF Push, history
  <2>4. RecordsOK'
    <3>1. Records' \subseteq Records
      BY <2>2, <2>3, MoveRecords
    <3> QED  BY <2>3, <3>1, MoveRecordsOK
  <2>5. \A r : Safe(r)' <=> Safe(r)
    BY <2>3 DEF Safe, Written, Kept, Strict, Durability
  <2>6. AckedSafe'
    BY <2>3, <2>5 DEF OpenInv, AckedSafe
  <2>7. CommitsOnTheirWay'
    <3>1. /\ thread'[p].rec = thread[p].rec
          /\ \A q \in Threads : q # p => thread'[q] = thread[q]
      BY <1>1, <2>1 DEF Goto, Local
    <3> QED  BY <2>2, <2>5, <3>1 DEF OpenInv, CommitsOnTheirWay
  <2>8. OwnTransactions'
    <3>1. \A q \in Threads : thread'[q].at # "idle" =>
            thread[q].at # "idle" /\ thread'[q].rec = thread[q].rec
      BY <1>1, <2>3 DEF Moves
    <3> QED  BY <1>1, <2>2, <2>3, <3>1 DEF OpenInv, OwnTransactions
  <2> QED  BY <2>4, <2>6, <2>7, <2>8 DEF OpenInv
<1>11. CASE AutoFlush(p)
  <2>1. PICK ok \in BOOLEAN :
          /\ FlushPending(FALSE, ok) /\ Slip(FALSE, ok)
          /\ Goto(p, "flush") \/ Return(p)
    BY <1>11 DEF AutoFlush
  <2>2. /\ thread[p].at = "autoflush" /\ "flush" \in Steps \ {"idle"}
        /\ UNCHANGED <<lastTxId, submitted, acked, covered, overtaken>>
    BY <1>11 DEF AutoFlush, history, Steps
  <2>3. Moves(p)
    BY <1>5, <2>1, <2>2
  <2> QED  BY <2>1, <2>2, <2>3, FlushKeepsOpenInv
<1>12. CASE FinishData(p)
  <2>1. /\ thread[p].at = "flush" /\ "between" \in Steps \ {"idle"} /\ Goto(p, "between")
        /\ UNCHANGED <<lastTxId, submitted, acked, covered, overtaken, file, pending,
                       synced, slipped>>
    BY <1>12 DEF FinishData, history, Steps
  <2>2. Moves(p) /\ thread'[p].at \in {"between", "idle"}
    BY <1>5, <2>1
  <2>3. RecordsOK'
    <3>1. Records' \subseteq Records
      BY <2>1, <2>2, MoveRecords
    <3> QED  BY <2>1, <3>1, MoveRecordsOK
  <2>4. \A r : Safe(r)' <=> Safe(r)
    BY <2>1 DEF Safe, Written, Kept, Strict, Durability
  <2>5. AckedSafe'
    BY <2>1, <2>4 DEF OpenInv, AckedSafe
  <2>6. CommitsOnTheirWay'
    BY <2>1, <2>2, <2>4 DEF Moves, OpenInv, CommitsOnTheirWay
  <2>7. OwnTransactions'
    <3>1. \A q \in Threads : thread'[q].at # "idle" =>
            thread[q].at # "idle" /\ thread'[q].rec = thread[q].rec
      BY <1>1, <2>2 DEF Moves
    <3> QED  BY <2>1, <3>1 DEF OpenInv, OwnTransactions
  <2> QED  BY <2>3, <2>5, <2>6, <2>7 DEF OpenInv
<1>13. CASE FinishCommit(p)
  <2>1. PICK ok \in BOOLEAN :
          /\ FlushPending(Strict, ok) /\ Slip(Strict, ok)
          /\ acked' = IF ok THEN acked \cup {thread[p].rec.txid} ELSE acked
    BY <1>13 DEF FinishCommit
  <2>2. /\ thread[p].at = "flush" /\ thread[p].rec.kind = "commit" /\ Return(p)
        /\ "flush" \in Steps \ {"idle"}
        /\ UNCHANGED <<lastTxId, submitted, covered, overtaken>>
    BY <1>13 DEF FinishCommit, Steps
  <2>3. Moves(p) /\ thread'[p].at = "idle"
    BY <1>1, <1>5, <2>2 DEF Return
  <2> QED  BY <1>1, <2>1, <2>2, <2>3, FlushKeepsOpenInv
<1>14. CASE FinishCkptAppend(p)
  <2>1. PICK ok \in BOOLEAN :
          /\ FlushPending(Strict, ok) /\ Slip(Strict, ok)
          /\ Goto(p, "ckptsync") \/ Return(p)
    BY <1>14 DEF FinishCkptAppend
  <2>2. /\ thread[p].at = "flush" /\ "ckptsync" \in Steps \ {"idle"}
        /\ UNCHANGED <<lastTxId, submitted, acked, covered, overtaken>>
    BY <1>14 DEF FinishCkptAppend, history, Steps
  <2>3. Moves(p)
    BY <1>5, <2>1, <2>2
  <2> QED  BY <1>1, <2>1, <2>2, <2>3, FlushKeepsOpenInv
<1>15. CASE CheckpointSync(p)
  <2>1. PICK ok \in BOOLEAN : FlushPending(TRUE, ok) /\ Slip(TRUE, ok)
    BY <1>15 DEF CheckpointSync
  <2>2. /\ thread[p].at = "ckptsync" /\ Return(p) /\ "flush" \in Steps \ {"idle"}
        /\ UNCHANGED <<lastTxId, submitted, acked, covered, overtaken>>
    BY <1>15 DEF CheckpointSync, history, Steps
  <2>3. Moves(p) /\ thread'[p].at = "idle"
    BY <1>1, <1>5, <2>2 DEF Return
  <2> QED  BY <2>1, <2>2, <2>3, FlushKeepsOpenInv
<1>16. CASE ManagerFlush(p)
  <2>1. PICK ok \in BOOLEAN :
          FlushPending(Durability = "D2", ok) /\ Slip(Durability = "D2", ok)
    BY <1>16 DEF ManagerFlush
  <2>2. /\ thread' = thread /\ (Durability = "D2") \in BOOLEAN
        /\ UNCHANGED <<lastTxId, submitted, acked, covered, overtaken>>
    BY <1>16 DEF ManagerFlush, history
  <2>3. Moves(p)
    BY <2>2 DEF Moves
  <2> QED  BY <2>1, <2>2, <2>3, FlushKeepsOpenInv
<1> QED  BY <1>7, <1>8, <1>9, <1>10, <1>11, <1>12, <1>13, <1>14, <1>15, <1>16 DEF ThreadStep

LEMMA InitIInv == Init => IInv
<1> SUFFICES ASSUME Init PROVE IInv
  OBVIOUS
<1>1. /\ Records = {} /\ submitted = {} /\ acked = {} /\ Range(pending) = {}
      /\ \A p \in Threads : thread[p].at = "idle"
  <2>1. Range(file) = {} /\ Range(pending) = {}
    BY DEF Init, Range
  <2>2. InHand = {}
    BY DEF Init, InHand
  <2> QED  BY <2>1, <2>2 DEF Init, Records
<1>2. OpenInv
  <2>1. \A c \in TxIds : covered[c] = {}
    BY DEF Init
  <2> QED  BY <1>1, <2>1 DEF OpenInv, RecordsOK, Unmixed, AckedSafe, CommitsOnTheirWay,
                             OwnTransactions
<1>3. AckedSurvive
  BY DEF Init, AckedSurvive
<1> QED  BY <1>2, <1>3, InitTypes DEF IInv

\* A step of a thread crashes nothing.
LEMMA ThreadsGoOn ==
  ASSUME NEW p, ThreadStep(p)
  PROVE  crash = "none" /\ crash' = "none" /\ recovered' = recovered
BY DEF ThreadStep, BeginTxn, CommitTxn, BeginCheckpoint, EnterAppend, Push, AutoFlush,
       FinishData, FinishCommit, FinishCkptAppend, CheckpointSync, ManagerFlush

\* Every step of the log preserves the invariant.
LEMMA StepIInv == IInv /\ [Next]_vars => IInv'
<1> SUFFICES ASSUME IInv, [Next]_vars PROVE IInv'
  OBVIOUS
<1>1. TypeInv' /\ setup' = setup
  BY StepTypes DEF IInv, Next, vars
<1>2. CASE UNCHANGED vars
  <2>1. OpenInv => OpenInv'
    BY <1>2 DEF vars, history, OpenInv, RecordsOK, Unmixed, AckedSafe, CommitsOnTheirWay,
                OwnTransactions, Records, InHand, Range, Safe, Written, Kept, Strict,
                Durability
  <2>2. AckedSurvive'
    BY <1>2 DEF vars, history, IInv, AckedSurvive, CoveredBy, LastCheckpointIn,
                Strict, Durability
  <2> QED  BY <1>1, <1>2, <2>1, <2>2 DEF vars, IInv
<1>3. ASSUME NEW p \in setup.threads, ThreadStep(p) PROVE IInv'
  <2>1. crash = "none" /\ crash' = "none"
    BY <1>3, ThreadsGoOn
  <2>2. OpenInv'
    BY <1>1, <1>3, <2>1, ThreadStepsKeepOpenInv DEF IInv
  <2> QED  BY <1>1, <2>1, <2>2 DEF IInv, AckedSurvive
<1>4. CASE ProcessCrash \/ PowerLoss
  <2>1. crash = "none" /\ crash' # "none"
        /\ UNCHANGED <<acked, overtaken, slipped>>
    BY <1>4 DEF ProcessCrash, PowerLoss, history
  <2>2. Strict' = Strict
    BY <1>1 DEF Strict, Durability
  <2>3. CASE ProcessCrash
    <3>1. crash' = "process"
      BY <2>3 DEF ProcessCrash
    <3>2. acked \ overtaken \subseteq DOMAIN recovered' \cup CoveredBy(file)'
      BY <1>1, <2>1, <2>3, CrashIsSafe DEF IInv
    <3> QED  BY <1>1, <2>1, <3>1, <3>2 DEF IInv, AckedSurvive
  <2>4. CASE PowerLoss /\ Strict
    <3>1. crash' = "power"
      BY <2>4 DEF PowerLoss
    <3>2. acked \ (overtaken \cup slipped) \subseteq DOMAIN recovered' \cup CoveredBy(file)'
      BY <1>1, <2>1, <2>4, CrashIsSafe DEF IInv
    <3> QED  BY <1>1, <2>1, <3>1, <3>2 DEF IInv, AckedSurvive
  <2>5. CASE PowerLoss /\ ~Strict
    <3>1. crash' = "power" /\ ~Strict'
      BY <2>2, <2>5 DEF PowerLoss
    <3> QED  BY <1>1, <2>1, <3>1 DEF IInv, AckedSurvive
  <2> QED  BY <1>4, <2>3, <2>4, <2>5
<1> QED  BY <1>2, <1>3, <1>4 DEF Next

\* Transactions that were acknowledged are replayed after a crash, or were drained by
\* the checkpoint that replay starts from, but for those that a checkpoint overtook or
\* that slipped past the fsync: AckedSurvive, at every durability level, whatever
\* threads append, flush and take checkpoints together and whatever writes fail.
THEOREM AcknowledgedAlwaysSurvive == Spec => []AckedSurvive
<1>1. IInv => AckedSurvive
  BY DEF IInv
<1> QED  BY InitIInv, StepIInv, <1>1, PTL DEF Spec

-----------------------------------------------------------------------------
\* No transaction slips after it was acknowledged, and none that was is forgotten.
AckedStay ==
  /\ acked \cap slipped' \subseteq slipped
  /\ acked \subseteq acked' /\ submitted' = submitted

\* A flush keeps them.
LEMMA FlushAcks ==
  ASSUME TypeInv, OpenInv, setup' = setup,
         NEW sync \in BOOLEAN, NEW ok \in BOOLEAN, FlushPending(sync, ok), Slip(sync, ok),
         acked \subseteq acked', submitted' = submitted
  PROVE  AckedStay
<1>1. \A t \in slipped' :
        t \in slipped \/ \E r \in Range(pending) : r.kind = "commit" /\ r.txid = t
  BY FlushKeeps DEF TypeInv
<1> QED  BY <1>1 DEF OpenInv, OwnTransactions, AckedStay

\* So does every step of a thread but the submission of a commit.
LEMMA ThreadsKeepAcks ==
  ASSUME TypeInv, OpenInv, setup' = setup, NEW p \in setup.threads, ThreadStep(p),
         ~ CommitTxn(p)
  PROVE  AckedStay
<1>0. Strict \in BOOLEAN /\ (Durability = "D2") \in BOOLEAN
  BY DEF Strict
<1>1. CASE BeginTxn(p) \/ BeginCheckpoint(p) \/ Push(p) \/ FinishData(p)
  <2>1. UNCHANGED <<submitted, acked, slipped>>
    BY <1>1 DEF BeginTxn, BeginCheckpoint, EnterAppend, Push, FinishData, history
  <2> QED  BY <2>1 DEF AckedStay
<1>2. CASE AutoFlush(p)
  BY <1>2, FlushAcks DEF AutoFlush, history
<1>3. CASE FinishCommit(p)
  <2>1. PICK ok \in BOOLEAN :
          /\ FlushPending(Strict, ok) /\ Slip(Strict, ok)
          /\ acked' = IF ok THEN acked \cup {thread[p].rec.txid} ELSE acked
    BY <1>3 DEF FinishCommit
  <2>2. acked \subseteq acked' /\ submitted' = submitted
    BY <1>3, <2>1 DEF FinishCommit
  <2> QED  BY <1>0, <2>1, <2>2, FlushAcks
<1>4. CASE FinishCkptAppend(p)
  BY <1>0, <1>4, FlushAcks DEF FinishCkptAppend, history
<1>5. CASE CheckpointSync(p)
  BY <1>5, FlushAcks DEF CheckpointSync, history
<1>6. CASE ManagerFlush(p)
  BY <1>0, <1>6, FlushAcks DEF ManagerFlush, history
<1> QED  BY <1>1, <1>2, <1>3, <1>4, <1>5, <1>6 DEF ThreadStep

\* Steps of the log are steps of the promise or change nothing it speaks of.
LEMMA StepRefines == IInv /\ IInv' /\ [Next]_vars => [Log!Next]_Log!vars
<1> SUFFICES ASSUME IInv, IInv', [Next]_vars PROVE [Log!Next]_Log!vars
  OBVIOUS
<1> DEFINE down == crash = "process" \/ (crash = "power" /\ Strict)
           found == IF down THEN DOMAIN recovered \cup CoveredBy(file)
                                 \cup (overtaken \cap submitted) ELSE {}
           safe == acked \ slipped
<1>1. TypeInv /\ TypeInv' /\ acked \subseteq submitted /\ submitted \subseteq TxIds
  BY DEF IInv, TypeInv, TypeOK
<1>2. CASE UNCHANGED vars
  <2>1. UNCHANGED <<submitted, safe, found, down>>
    BY <1>2 DEF vars, history, CoveredBy, LastCheckpointIn, Strict, Durability
  <2> QED  BY <2>1 DEF Log!vars
<1>3. ASSUME NEW p \in setup.threads, ThreadStep(p), setup' = setup
      PROVE  [Log!Next]_Log!vars
  <2>1. crash = "none" /\ crash' = "none" /\ p \in Threads
    BY <1>1, <1>3, ThreadsGoOn, WalAssumption DEF TypeInv, TypeOK
  <2>2. found = {} /\ found' = {} /\ down = FALSE /\ down' = FALSE /\ OpenInv
    BY <2>1 DEF IInv
  <2>3. CASE ~ CommitTxn(p)
    <3> DEFINE ts == (acked' \ slipped') \ safe
    <3>1. AckedStay
      BY <1>1, <1>3, <2>2, <2>3, ThreadsKeepAcks
    <3>2. safe' = safe \cup ts
      BY <3>1 DEF AckedStay
    <3>3. acked' \subseteq submitted
      BY <1>1, <3>1 DEF AckedStay, TypeInv, TypeOK
    <3>4. ts \subseteq submitted \ safe /\ ts \in SUBSET TxIds
      BY <1>1, <3>3
    <3>5. submitted' = submitted
      BY <3>1 DEF AckedStay
    <3> HIDE DEF ts
    <3>6. Log!Acknowledge(ts)
      BY <2>2, <3>2, <3>4, <3>5 DEF Log!Acknowledge
    <3> QED  BY <3>4, <3>6 DEF Log!Next
  <2>4. CASE CommitTxn(p)
    <3> DEFINE t == thread[p].rec.txid
    <3>1. t \in TxIds
      BY <1>1, <2>1, <2>4 DEF CommitTxn, TypeInv, ThreadsOK, Record
    <3>2. submitted' = submitted \cup {t} /\ acked' = acked /\ slipped' = slipped
      BY <2>4 DEF CommitTxn, EnterAppend
    <3>3. CASE t \in submitted
      <4>1. submitted' = submitted
        BY <3>2, <3>3
      <4> QED  BY <2>2, <3>2, <4>1 DEF Log!vars
    <3>4. CASE t \notin submitted
      <4>1. Log!Submit(t)
        BY <2>2, <3>2, <3>4 DEF Log!Submit
      <4> QED  BY <3>1, <4>1 DEF Log!Next
    <3> QED  BY <3>3, <3>4
  <2> QED  BY <2>3, <2>4
<1>4. CASE (ProcessCrash \/ PowerLoss) /\ setup' = setup
  <2>1. /\ crash = "none" /\ UNCHANGED <<submitted, acked, covered, overtaken, slipped>>
        /\ crash' \in {"process", "power"} /\ (ProcessCrash => crash' = "process")
        /\ (PowerLoss => crash' = "power")
    BY <1>4 DEF ProcessCrash, PowerLoss, history
  <2>2. found = {} /\ down = FALSE /\ OpenInv
    BY <2>1 DEF IInv
  <2>3. Strict' = Strict
    BY <1>4 DEF Strict, Durability
  <2>4. CASE ProcessCrash \/ (PowerLoss /\ Strict)
    <3>1. /\ acked \ (overtaken \cup slipped) \subseteq DOMAIN recovered' \cup CoveredBy(file)'
          /\ DOMAIN recovered' \subseteq submitted
      BY <1>1, <1>4, <2>2, <2>4, CrashIsSafe
    <3>2. CoveredBy(file)' \subseteq submitted
      <4>1. file' \in Seq(Record)
        BY <1>1 DEF TypeInv, TypeOK
      <4>2. LastCheckpointIn(file') = 0 \/ LastCheckpointIn(file') \in TxIds
        <5>1. \A i \in DOMAIN file' : file'[i] \in Record
          BY <4>1, ElementOfSeq
        <5> QED  BY <4>1, <5>1, LastCheckpointIsLogged DEF Record
      <4>3. \A c \in TxIds : covered'[c] \subseteq submitted
        BY <2>1, <2>2 DEF OpenInv, RecordsOK
      <4>4. CoveredBy(file)' = (IF LastCheckpointIn(file') = 0 THEN {}
                               ELSE covered'[LastCheckpointIn(file')])
        BY DEF CoveredBy, LastCheckpointIn
      <4> QED  BY <4>2, <4>3, <4>4
    <3>3. CASE down'
      <4>1. found' = DOMAIN recovered' \cup CoveredBy(file)' \cup (overtaken \cap submitted)
        BY <2>1, <3>3
      <4>2. safe \subseteq found' /\ found' \in SUBSET submitted
        BY <1>1, <3>1, <3>2, <4>1
      <4>3. safe' = safe
        BY <2>1
      <4>4. Log!Crash
        BY <2>1, <2>2, <3>3, <4>2, <4>3 DEF Log!Crash
      <4> QED  BY <4>4 DEF Log!Next
    <3>4. down'
      BY <2>1, <2>3, <2>4
    <3> QED  BY <3>3, <3>4
  <2>5. CASE PowerLoss /\ ~Strict
    <3>1. found' = {} /\ down' = FALSE
      BY <2>1, <2>3, <2>5
    <3> QED  BY <2>1, <2>2, <3>1 DEF Log!vars
  <2> QED  BY <1>4, <2>4, <2>5
<1> QED  BY <1>2, <1>3, <1>4 DEF Next

\* The log implements DurableLog: what a crash leaves contains what was acknowledged
\* and did not slip, or was taken over by a checkpoint, and nothing that was not
\* submitted for commit.
THEOREM LogIsDurable == Spec => Implements
<1>1. Init => Log!Init
  BY DEF Init, Log!Init
<1> QED  BY InitIInv, StepIInv, StepRefines, <1>1, PTL DEF Spec, Implements, Log!Spec

-----------------------------------------------------------------------------
(***************************************************************************)
(* What replay finds: whole transactions, each record once, in order.      *)
(***************************************************************************)

\* All that was pushed, in the order in which a crash finds it.
All == file \o pending

\* A record stands where no other does.
Once(q) == \A i, j \in DOMAIN q : q[i] = q[j] => i = j

\* A commit record comes after a data record of its transaction.
Led(log) ==
  \A i \in DOMAIN log : log[i].kind = "commit" =>
    \E k \in 1 .. i - 1 : log[k].kind = "data" /\ log[k].txid = log[i].txid

\* A record whose append went past the buffer is in it or in the file; a commit record
\* follows a data record that is.
PushedOK ==
  \A p \in Threads :
    /\ thread[p].at \in {"autoflush", "flush", "between"} => thread[p].rec \in Range(All)
    /\ thread[p].at # "idle" /\ thread[p].rec.kind = "commit" =>
         \E r \in Range(All) : r.kind = "data" /\ r.txid = thread[p].rec.txid

\* Places in the chain are given once, and the threads about to push hold the ones
\* that are not used.
PlacesOK ==
  /\ \A r \in Records : r.txid <= lastTxId /\ r.mac <= chained
  /\ \A p \in Threads : thread[p].at = "push" =>
       /\ \A r \in Range(All) : r.mac # thread[p].rec.mac
       /\ \A q \in Threads : thread[q].at = "push" /\ thread[q].rec.mac = thread[p].rec.mac => p = q
  /\ ~MayFail => \A i, j \in DOMAIN All : All[i].mac = All[j].mac => i = j

\* One thread pushes in the order of the chain.
OrderOK ==
  ~MayFail /\ (\E p \in Threads : setup.threads = {p}) =>
    /\ \A i, j \in DOMAIN All : i < j => All[i].mac < All[j].mac
    /\ \A p \in Threads : thread[p].at = "push" =>
         \A r \in Range(All) : r.mac < thread[p].rec.mac

LogInv == Led(All) /\ Unmixed /\ PushedOK /\ PlacesOK /\ OrderOK

ReplayInv ==
  TypeInv /\ (crash = "none" => LogInv) /\ ReplayAtomic /\ ReplayExactlyOnce /\ ChainInLogOrder

\* g is the recursive function of RecordsOf.
FoundStep(g, log, t, i) ==
  IF i = 0 THEN <<>>
  ELSE IF log[i].txid = t THEN Append(g[i - 1], log[i]) ELSE g[i - 1]
IsFound(g, log, t) == g = [i \in 0 .. Len(log) |-> FoundStep(g, log, t, i)]

-----------------------------------------------------------------------------
\* What the replay takes of a log for one transaction: the records that are of it, each
\* as often as the log has it.
LEMMA FoundIsThere ==
  ASSUME NEW log \in Seq(Record), NEW t
  PROVE  \E g : IsFound(g, log, t)
<1> DEFINE At(g, i) == FoundStep(g, log, t, i)
           Is(g, n) == g = [i \in 0 .. n |-> At(g, i)]
           bad == {n \in 0 .. Len(log) : ~(\E g : Is(g, n))}
<1>0. Len(log) \in Nat
  OBVIOUS
<1>1. Is([i \in 0 .. 0 |-> <<>>], 0)
  BY DEF FoundStep
<1>2. ASSUME NEW m \in Nat \ {0}, NEW g, Is(g, m - 1)
      PROVE  \E h : Is(h, m)
  <2> DEFINE h == [i \in 0 .. m |-> IF i = m THEN At(g, m) ELSE g[i]]
  <2>1. \A i \in 0 .. m : At(h, i) = At(g, i)
    <3>1. \A i \in 0 .. m : i # 0 => i - 1 \in 0 .. m /\ i - 1 # m
      OBVIOUS
    <3> QED  BY <3>1 DEF FoundStep
  <2>2. \A i \in 0 .. m : i # m => g[i] = At(g, i)
    <3>1. \A i \in 0 .. m : i # m => i \in 0 .. m - 1
      OBVIOUS
    <3> HIDE DEF At
    <3> QED  BY <1>2, <3>1
  <2> HIDE DEF At
  <2>3. h = [i \in 0 .. m |-> At(h, i)]
    BY <2>1, <2>2
  <2> QED  BY <2>3
<1> HIDE DEF Is
<1>3. bad = {}
  <2> SUFFICES ASSUME bad # {} PROVE FALSE
    OBVIOUS
  <2>1. bad \subseteq Nat
    BY <1>0
  <2>2. PICK m \in bad : \A n \in bad : m <= n
    BY <2>1, LeastNatural
  <2>3. m \in Nat /\ m \in 0 .. Len(log) /\ ~(\E g : Is(g, m))
    BY <1>0, <2>2
  <2>4. m # 0
    BY <1>1, <2>3
  <2>5. m - 1 \in 0 .. Len(log) /\ ~(m <= m - 1)
    BY <1>0, <2>3, <2>4
  <2>6. PICK g : Is(g, m - 1)
    BY <2>2, <2>5
  <2> QED  BY <1>2, <2>3, <2>4, <2>6
<1>4. \E g : Is(g, Len(log))
  BY <1>0, <1>3
<1> QED  BY <1>4 DEF Is, IsFound

\* Append adds its element.
LEMMA Appended ==
  ASSUME NEW s \in Seq(Record), NEW e \in Record
  PROVE  /\ Append(s, e) \in Seq(Record)
         /\ Range(Append(s, e)) = Range(s) \cup {e}
         /\ Once(s) /\ e \notin Range(s) => Once(Append(s, e))
<1>1. PICK t : t = Append(s, e)
  OBVIOUS
<1>2. /\ t \in Seq(Record) /\ Len(s) \in Nat /\ Len(t) = Len(s) + 1
      /\ \A k \in 1 .. Len(s) : t[k] = s[k]
      /\ t[Len(s) + 1] = e
  BY <1>1
<1>3. DOMAIN t = 1 .. Len(s) + 1 /\ DOMAIN s = 1 .. Len(s)
  BY <1>2
<1>4. \A k \in 1 .. Len(s) + 1 : k \in 1 .. Len(s) \/ k = Len(s) + 1
  BY <1>2
<1>5. 1 .. Len(s) \subseteq 1 .. Len(s) + 1 /\ Len(s) + 1 \in 1 .. Len(s) + 1
  BY <1>2
<1>6. ASSUME NEW x \in Range(t) PROVE x \in Range(s) \cup {e}
  <2>1. PICK k \in 1 .. Len(s) + 1 : t[k] = x
    BY <1>3 DEF Range
  <2>2. CASE k \in 1 .. Len(s)
    BY <1>2, <1>3, <2>1, <2>2 DEF Range
  <2> QED  BY <1>2, <1>4, <2>1, <2>2
<1>7. ASSUME NEW x \in Range(s) \cup {e} PROVE x \in Range(t)
  <2>1. CASE x = e
    BY <1>2, <1>3, <1>5, <2>1 DEF Range
  <2>2. CASE x \in Range(s)
    BY <1>2, <1>3, <1>5, <2>2 DEF Range
  <2> QED  BY <2>1, <2>2
<1>8. ASSUME Once(s), e \notin Range(s) PROVE Once(t)
  <2>1. \A k \in 1 .. Len(s) : s[k] # e
    BY <1>3, <1>8 DEF Range
  <2>2. \A h, k \in 1 .. Len(s) : s[h] = s[k] => h = k
    BY <1>3, <1>8 DEF Once
  <2>3. \A h, k \in 1 .. Len(s) + 1 : t[h] = t[k] => h = k
    BY <1>2, <1>4, <2>1, <2>2
  <2> QED  BY <1>3, <2>3 DEF Once
<1> QED  BY <1>1, <1>2, <1>6, <1>7, <1>8

LEMMA RecordsOfIs ==
  ASSUME NEW log \in Seq(Record), NEW t
  PROVE  /\ RecordsOf(log, t) \in Seq(Record)
         /\ Range(RecordsOf(log, t)) = {r \in Range(log) : r.txid = t}
         /\ Once(log) => Once(RecordsOf(log, t))
<1> DEFINE found[i \in 0 .. Len(log)] ==
        IF i = 0 THEN <<>>
        ELSE IF log[i].txid = t THEN Append(found[i - 1], log[i]) ELSE found[i - 1]
           Says(i) ==
             /\ found[i] \in Seq(Record)
             /\ Range(found[i]) = {r \in {log[k] : k \in 1 .. i} : r.txid = t}
             /\ Once(log) => Once(found[i])
           bad == {i \in 0 .. Len(log) : ~Says(i)}
<1>0. Len(log) \in Nat /\ \A i \in 1 .. Len(log) : log[i] \in Record
  OBVIOUS
<1>1. RecordsOf(log, t) = found[Len(log)]
  BY DEF RecordsOf
<1>2. found = [i \in 0 .. Len(log) |->
        IF i = 0 THEN <<>>
        ELSE IF log[i].txid = t THEN Append(found[i - 1], log[i]) ELSE found[i - 1]]
  <2>1. \E g : IsFound(g, log, t)
    BY FoundIsThere
  <2>2. found = CHOOSE g : IsFound(g, log, t)
    BY DEF IsFound, FoundStep
  <2> HIDE DEF found
  <2>3. IsFound(found, log, t)
    BY <2>1, <2>2
  <2> QED  BY <2>3 DEF IsFound, FoundStep
<1> HIDE DEF found
<1>3. Says(0)
  <2>1. found[0] = <<>> /\ <<>> \in Seq(Record)
    BY <1>0, <1>2
  <2>2. Range(<<>>) = {} /\ {log[k] : k \in 1 .. 0} = {} /\ Once(<<>>)
    BY DEF Range, Once
  <2> QED  BY <2>1, <2>2
<1>4. ASSUME NEW m \in 1 .. Len(log), Says(m - 1) PROVE Says(m)
  <2>1. found[m] = IF log[m].txid = t THEN Append(found[m - 1], log[m]) ELSE found[m - 1]
    <3>1. m \in 0 .. Len(log) /\ m # 0
      BY <1>0
    <3> QED  BY <1>2, <3>1
  <2>2. log[m] \in Record /\ m \in Nat /\ m - 1 \in Nat /\ m - 1 \in 0 .. Len(log)
    BY <1>0
  <2>3. {log[k] : k \in 1 .. m} = {log[k] : k \in 1 .. m - 1} \cup {log[m]}
    <3>1. \A k \in 1 .. m : k \in 1 .. m - 1 \/ k = m
      BY <2>2
    <3>2. \A k \in 1 .. m - 1 : k \in 1 .. m
      BY <2>2
    <3>3. m \in 1 .. m
      BY <2>2
    <3> QED  BY <3>1, <3>2, <3>3
  <2>4. CASE log[m].txid # t
    BY <1>4, <2>1, <2>3, <2>4
  <2>5. CASE log[m].txid = t
    <3> DEFINE s == found[m - 1]
    <3>1. found[m] = Append(s, log[m]) /\ s \in Seq(Record)
      BY <1>4, <2>1, <2>5
    <3>2. Range(s) = {r \in {log[k] : k \in 1 .. m - 1} : r.txid = t} /\ (Once(log) => Once(s))
      BY <1>4
    <3> HIDE DEF s
    <3>3. /\ found[m] \in Seq(Record) /\ Range(found[m]) = Range(s) \cup {log[m]}
          /\ Once(s) /\ log[m] \notin Range(s) => Once(found[m])
      BY <2>2, <3>1, Appended
    <3>4. Range(found[m]) = {r \in {log[k] : k \in 1 .. m} : r.txid = t}
      BY <2>3, <2>5, <3>2, <3>3
    <3>5. ASSUME Once(log) PROVE Once(found[m])
      <4>1. ASSUME NEW k \in 1 .. m - 1, log[k] = log[m] PROVE FALSE
        <5>1. k \in DOMAIN log /\ m \in DOMAIN log /\ k # m
          BY <1>0, <2>2
        <5> QED  BY <3>5, <4>1, <5>1 DEF Once
      <4>2. log[m] \notin Range(s)
        BY <3>2, <4>1
      <4> QED  BY <3>2, <3>3, <3>5, <4>2
    <3> QED  BY <3>3, <3>4, <3>5
  <2> QED  BY <2>4, <2>5
<1> HIDE DEF Says
<1>5. bad = {}
  <2> SUFFICES ASSUME bad # {} PROVE FALSE
    OBVIOUS
  <2>1. bad \subseteq Nat
    BY <1>0
  <2>2. PICK m \in bad : \A n \in bad : m <= n
    BY <2>1, LeastNatural
  <2>3. m \in Nat /\ m \in 0 .. Len(log) /\ m # 0 /\ ~Says(m)
    BY <1>0, <1>3, <2>2
  <2>4. m - 1 \in 0 .. Len(log) /\ ~(m <= m - 1) /\ m \in 1 .. Len(log)
    BY <1>0, <2>3
  <2> QED  BY <1>4, <2>2, <2>3, <2>4
<1>6. Says(Len(log))
  BY <1>0, <1>5
<1>7. Range(log) = {log[k] : k \in 1 .. Len(log)}
  BY DEF Range
<1> QED  BY <1>1, <1>6, <1>7 DEF Says

\* A log with its commit records led by data replays to whole transactions, each
\* record as often as it is there.
LEMMA ReplayFinds ==
  ASSUME NEW log \in Seq(Record), Led(log),
         \A i, k \in DOMAIN log :
           log[i].kind = "ckpt" /\ log[i].txid = log[k].txid => log[k].kind = "ckpt"
  PROVE  /\ \A t \in DOMAIN Replay(log) :
              {Replay(log)[t][i].kind : i \in DOMAIN Replay(log)[t]} = {"data", "commit"}
         /\ Once(log) => \A t \in DOMAIN Replay(log) : Once(Replay(log)[t])
<1>0. Len(log) \in Nat /\ DOMAIN log = 1 .. Len(log) /\ \A i \in DOMAIN log : log[i] \in Record
  OBVIOUS
<1> SUFFICES ASSUME NEW t \in DOMAIN Replay(log)
             PROVE  /\ {Replay(log)[t][i].kind : i \in DOMAIN Replay(log)[t]} = {"data", "commit"}
                    /\ Once(log) => Once(Replay(log)[t])
  OBVIOUS
<1>1. t \in Committed(log) /\ Replay(log)[t] = RecordsOf(log, t)
  BY DEF Replay
<1>2. PICK q : q = RecordsOf(log, t)
  OBVIOUS
<1>3. /\ q \in Seq(Record) /\ Range(q) = {r \in Range(log) : r.txid = t}
      /\ Once(log) => Once(q)
  BY <1>2, RecordsOfIs
<1>4. PICK i \in DOMAIN log : log[i].kind = "commit" /\ log[i].txid = t
  BY <1>1 DEF Committed
<1>5. PICK k \in 1 .. i - 1 : log[k].kind = "data" /\ log[k].txid = t
  BY <1>4 DEF Led
<1>6. k \in DOMAIN log
  BY <1>0
<1>7. log[i] \in Range(q) /\ log[k] \in Range(q)
  BY <1>3, <1>4, <1>5, <1>6 DEF Range
<1>8. \A r \in Range(q) : r.kind \in {"data", "commit"}
  <2> SUFFICES ASSUME NEW r \in Range(q) PROVE r.kind \in {"data", "commit"}
    OBVIOUS
  <2>1. PICK h \in DOMAIN log : log[h] = r /\ r.txid = t
    BY <1>3 DEF Range
  <2>2. r.kind # "ckpt"
    BY <1>4, <2>1
  <2> QED  BY <1>0, <2>1, <2>2 DEF Record, Kinds
<1>9. {q[h].kind : h \in DOMAIN q} = {"data", "commit"}
  <2>1. \A h \in DOMAIN q : q[h].kind \in {"data", "commit"}
    BY <1>8 DEF Range
  <2>2. PICK h \in DOMAIN q : q[h] = log[i]
    BY <1>7 DEF Range
  <2>3. PICK m \in DOMAIN q : q[m] = log[k]
    BY <1>7 DEF Range
  <2>4. q[h].kind = "commit" /\ q[m].kind = "data"
    BY <1>4, <1>5, <2>2, <2>3
  <2>5. \A x : x \in {q[n].kind : n \in DOMAIN q} <=> x \in {"data", "commit"}
    BY <2>1, <2>2, <2>3, <2>4
  <2> QED  BY <2>5
<1>10. Replay(log)[t] = q
  BY <1>1, <1>2
<1>11. {Replay(log)[t][h].kind : h \in DOMAIN Replay(log)[t]} = {"data", "commit"}
  BY <1>9, <1>10
<1>12. Once(log) => Once(Replay(log)[t])
  BY <1>3, <1>10
<1> QED  BY <1>11, <1>12

-----------------------------------------------------------------------------
\* The records there are, in one sequence.
LEMMA AllIs ==
  TypeInv =>
         /\ All \in Seq(Record) /\ Len(All) \in Nat /\ DOMAIN All = 1 .. Len(All)
         /\ Len(file) \in Nat /\ Len(file) <= Len(All)
         /\ \A i \in 1 .. Len(file) : All[i] = file[i]
         /\ Range(All) = Range(file) \cup Range(pending)
         /\ Records = Range(All) \cup InHand
<1> SUFFICES ASSUME TypeInv
             PROVE  /\ All \in Seq(Record) /\ Len(All) \in Nat /\ DOMAIN All = 1 .. Len(All)
                    /\ Len(file) \in Nat /\ Len(file) <= Len(All)
                    /\ \A i \in 1 .. Len(file) : All[i] = file[i]
                    /\ Range(All) = Range(file) \cup Range(pending)
                    /\ Records = Range(All) \cup InHand
  OBVIOUS
<1>1. file \in Seq(Record) /\ pending \in Seq(Record)
  BY DEF TypeInv, TypeOK
<1>2. PICK a : a = All
  OBVIOUS
<1>3. /\ a \in Seq(Record) /\ Len(file) \in Nat /\ Len(pending) \in Nat
      /\ Len(a) = Len(file) + Len(pending)
      /\ \A i \in 1 .. Len(file) : a[i] = file[i]
      /\ \A i \in 1 .. Len(pending) : a[Len(file) + i] = pending[i]
  BY <1>1, <1>2 DEF All
<1>4. DOMAIN a = 1 .. Len(file) + Len(pending) /\ DOMAIN file = 1 .. Len(file)
      /\ DOMAIN pending = 1 .. Len(pending)
  BY <1>1, <1>3
<1>5. ASSUME NEW r \in Range(a) PROVE r \in Range(file) \cup Range(pending)
  <2>1. PICK i \in 1 .. Len(file) + Len(pending) : a[i] = r
    BY <1>4 DEF Range
  <2>2. CASE i \in 1 .. Len(file)
    BY <1>3, <1>4, <2>1, <2>2 DEF Range
  <2>3. CASE i \notin 1 .. Len(file)
    <3>1. i - Len(file) \in 1 .. Len(pending) /\ Len(file) + (i - Len(file)) = i
      BY <1>3, <2>3
    <3> QED  BY <1>3, <1>4, <2>1, <3>1 DEF Range
  <2> QED  BY <2>2, <2>3
<1>6. ASSUME NEW r \in Range(file) \cup Range(pending) PROVE r \in Range(a)
  <2>1. CASE r \in Range(file)
    <3>1. PICK i \in 1 .. Len(file) : file[i] = r
      BY <1>4, <2>1 DEF Range
    <3>2. i \in DOMAIN a /\ a[i] = r
      BY <1>3, <1>4, <3>1
    <3> QED  BY <3>2 DEF Range
  <2>2. CASE r \in Range(pending)
    <3>1. PICK i \in 1 .. Len(pending) : pending[i] = r
      BY <1>4, <2>2 DEF Range
    <3>2. Len(file) + i \in DOMAIN a /\ a[Len(file) + i] = r
      BY <1>3, <1>4, <3>1
    <3> QED  BY <3>2 DEF Range
  <2> QED  BY <2>1, <2>2
<1>7. Range(a) = Range(file) \cup Range(pending)
  BY <1>5, <1>6
<1> QED  BY <1>2, <1>3, <1>4, <1>7 DEF Records

\* Writing again what was pending leads no commit astray.
LEMMA LedAgain ==
  ASSUME NEW a \in Seq(Record), NEW b \in Seq(Record), Led(a \o b)
  PROVE  Led((a \o b) \o b)
<1>0. PICK c : c = a \o b
  OBVIOUS
<1>1. /\ c \in Seq(Record) /\ Len(a) \in Nat /\ Len(b) \in Nat /\ Len(c) = Len(a) + Len(b)
      /\ \A i \in 1 .. Len(b) : c[Len(a) + i] = b[i]
  BY <1>0
<1>2. Led(c)
  BY <1>0
<1>9. PICK d : d = c \o b
  OBVIOUS
<1> SUFFICES Led(d)
  BY <1>0, <1>9
<1>3. /\ d \in Seq(Record) /\ Len(d) = Len(c) + Len(b)
      /\ \A i \in 1 .. Len(c) : d[i] = c[i]
      /\ \A i \in 1 .. Len(b) : d[Len(c) + i] = b[i]
  <2>1. c \in Seq(Record)
    BY <1>1
  <2>2. \A i \in 1 .. Len(b) : Len(c) + i \in 1 .. Len(c) + Len(b) /\ ~(Len(c) + i <= Len(c))
                            /\ (Len(c) + i) - Len(c) = i
    BY <2>1
  <2> QED  BY <2>1, <2>2, <1>9, ConcatProperties
<1>4. DOMAIN d = 1 .. Len(c) + Len(b) /\ DOMAIN c = 1 .. Len(c) /\ Len(c) \in Nat
  BY <1>1, <1>3
<1>5. SUFFICES ASSUME NEW i \in DOMAIN d, d[i].kind = "commit"
               PROVE  \E k \in 1 .. i - 1 : d[k].kind = "data" /\ d[k].txid = d[i].txid
  BY DEF Led
<1>6. PICK h \in 1 .. Len(c) : c[h] = d[i] /\ h <= i
  <2>1. CASE i \in 1 .. Len(c)
    BY <1>3, <1>4, <2>1
  <2>2. CASE i \notin 1 .. Len(c)
    <3>1. i - Len(c) \in 1 .. Len(b) /\ Len(c) + (i - Len(c)) = i
      BY <1>1, <1>4, <2>2
    <3>2. PICK m \in 1 .. Len(b) : m = i - Len(c) /\ Len(c) + m = i
      BY <3>1
    <3>3. Len(a) + m \in 1 .. Len(c) /\ Len(a) + m <= i
      BY <1>1, <1>4, <3>2
    <3> QED  BY <1>1, <1>3, <3>2, <3>3
  <2> QED  BY <2>1, <2>2
<1>7. PICK k \in 1 .. h - 1 : c[k].kind = "data" /\ c[k].txid = c[h].txid
  BY <1>2, <1>4, <1>5, <1>6 DEF Led
<1>8. k \in 1 .. i - 1 /\ k \in 1 .. Len(c)
  BY <1>1, <1>4, <1>6
<1> QED  BY <1>3, <1>6, <1>7, <1>8

\* A flush leaves all in its place, or writes what was pending once more.
LEMMA FlushAll ==
  ASSUME TypeInv, NEW sync \in BOOLEAN, NEW ok \in BOOLEAN, FlushPending(sync, ok)
  PROVE  /\ All' = All \/ (MayFail /\ All' = All \o pending)
         /\ Range(All') = Range(All)
         /\ Led(All) => Led(All')
<1>1. file \in Seq(Record) /\ pending \in Seq(Record) /\ All \in Seq(Record)
  BY AllIs DEF TypeInv, TypeOK
<1>2. CASE UNCHANGED <<pending, file>>
  BY <1>2 DEF All
<1>3. CASE file' = file \o pending /\ pending' = <<>>
  <2>1. All' = All \o <<>>
    BY <1>3 DEF All
  <2>2. All' = All
    BY <1>1, <2>1
  <2> QED  BY <2>2
<1>4. CASE file' = file \o pending /\ pending' = pending /\ MayFail
  <2>1. All' = All \o pending
    BY <1>4 DEF All
  <2>2. Range(All \o pending) = Range(All) \cup Range(pending)
    BY <1>1, RangeConcatenation
  <2>3. Range(All) = Range(file) \cup Range(pending)
    BY AllIs
  <2>4. Led(All) => Led(All \o pending)
    BY <1>1, LedAgain DEF All
  <2> QED  BY <1>4, <2>1, <2>2, <2>3, <2>4
<1> QED  BY <1>2, <1>3, <1>4 DEF FlushPending

\* A thread that has pushed its record moves on or returns.
LEMMA MoveKeepsLog ==
  ASSUME TypeInv, LogInv, NEW p \in setup.threads, setup' = setup,
         UNCHANGED <<chained, lastTxId>>,
         TypeInv',
         All' = All \/ (MayFail /\ All' = All \o pending), Range(All') = Range(All),
         Led(All) => Led(All'),
         thread[p].at \in {"autoflush", "flush", "ckptsync"},
         NEW step \in {"flush", "between", "ckptsync"},
         step # "ckptsync" => thread[p].at # "ckptsync",
         Goto(p, step) \/ Return(p)
  PROVE  LogInv'
<1>1. p \in Threads /\ thread \in [Threads -> Local]
  BY WalAssumption DEF TypeInv, TypeOK
<1>2. \A q \in Threads : q # p => thread'[q] = thread[q]
  BY <1>1 DEF Goto, Return
<1>3. thread'[p].at = "idle" \/ (thread'[p].at = step /\ thread'[p].rec = thread[p].rec)
  BY <1>1 DEF Goto, Return, Local
<1>4. InHand' \subseteq InHand
  BY <1>1, <1>2, <1>3 DEF InHand
<1>5. Records' \subseteq Records
  <2>1. Records = Range(All) \cup InHand
    BY AllIs
  <2>2. (Records = Range(All) \cup InHand)'
    BY AllIs, PTL
  <2>3. Range(All)' = Range(All')
    BY DEF Range
  <2> QED  BY <1>4, <2>1, <2>2, <2>3
<1>6. Range(All)' = Range(All)
  BY DEF Range
<1>7. Led(All)'
  BY DEF LogInv, Led
<1>8. Unmixed'
  BY <1>5 DEF LogInv, Unmixed
<1>9. PushedOK'
  BY <1>1, <1>2, <1>3, <1>6 DEF LogInv, PushedOK
<1>10. ~MayFail' => All' = All /\ ~MayFail
  BY DEF MayFail
<1>11. PlacesOK'
  <2>1. \A q \in Threads : thread'[q].at = "push" => thread[q] = thread'[q]
    BY <1>1, <1>2, <1>3
  <2>2. ~MayFail' => \A i, j \in DOMAIN All' : All'[i].mac = All'[j].mac => i = j
    BY <1>10 DEF LogInv, PlacesOK
  <2>3. \A r \in Records' : r.txid <= lastTxId' /\ r.mac <= chained'
    BY <1>5 DEF LogInv, PlacesOK
  <2>4. \A q \in Threads : thread'[q].at = "push" =>
          /\ \A r \in Range(All) : r.mac # thread'[q].rec.mac
          /\ \A s \in Threads : thread'[s].at = "push" /\ thread'[s].rec.mac = thread'[q].rec.mac => q = s
    BY <2>1 DEF LogInv, PlacesOK
  <2> QED  BY <1>6, <2>2, <2>3, <2>4 DEF PlacesOK
<1>12. OrderOK'
  <2>1. \A q \in Threads : thread'[q].at = "push" => thread[q] = thread'[q]
    BY <1>1, <1>2, <1>3
  <2> QED  BY <1>6, <1>10, <2>1 DEF LogInv, OrderOK
<1> QED  BY <1>7, <1>8, <1>9, <1>11, <1>12 DEF LogInv

\* A flush of no thread's own record changes no thread.
LEMMA StayKeepsLog ==
  ASSUME TypeInv, LogInv, setup' = setup, UNCHANGED <<chained, lastTxId, thread>>,
         TypeInv',
         All' = All \/ (MayFail /\ All' = All \o pending), Range(All') = Range(All),
         Led(All) => Led(All')
  PROVE  LogInv'
<1>1. InHand' = InHand
  BY DEF InHand
<1>2. Records' = Records
  <2>1. Records = Range(All) \cup InHand
    BY AllIs
  <2>2. (Records = Range(All) \cup InHand)'
    BY AllIs, PTL
  <2>3. Range(All)' = Range(All')
    BY DEF Range
  <2> QED  BY <1>1, <2>1, <2>2, <2>3
<1>3. Range(All)' = Range(All)
  BY DEF Range
<1>4. Led(All)' /\ Unmixed' /\ PushedOK'
  BY <1>2, <1>3 DEF LogInv, Led, Unmixed, PushedOK
<1>5. ~MayFail' => All' = All /\ ~MayFail
  BY DEF MayFail
<1>6. PlacesOK'
  <2>1. ~MayFail' => \A i, j \in DOMAIN All' : All'[i].mac = All'[j].mac => i = j
    BY <1>5 DEF LogInv, PlacesOK
  <2> QED  BY <1>2, <1>3, <2>1 DEF LogInv, PlacesOK
<1>7. OrderOK'
  BY <1>3, <1>5 DEF LogInv, OrderOK
<1> QED  BY <1>4, <1>6, <1>7 DEF LogInv

\* A record enters append with the next place in the chain.
LEMMA EnterKeepsLog ==
  ASSUME TypeInv, TypeInv', LogInv, NEW p \in setup.threads, setup' = setup,
         NEW kind \in Kinds, NEW txid \in TxIds, EnterAppend(p, kind, txid),
         lastTxId \in Nat, lastTxId' \in Nat, lastTxId <= lastTxId', txid <= lastTxId',
         \/ kind \in {"data", "ckpt"} /\ txid > lastTxId
         \/ kind = "commit" /\ thread[p].at = "between" /\ txid = thread[p].rec.txid
  PROVE  LogInv'
<1> DEFINE new == [kind |-> kind, txid |-> txid, mac |-> chained + 1]
<1>1. p \in Threads /\ thread \in [Threads -> Local] /\ chained \in Nat
  BY WalAssumption DEF TypeInv, TypeOK
<1>2. new.kind = kind /\ new.txid = txid /\ new.mac = chained + 1
  OBVIOUS
<1>3. /\ thread' = [thread EXCEPT ![p] = [at |-> "push", rec |-> new]]
      /\ chained' = chained + 1 /\ UNCHANGED <<pending, file>>
  BY DEF EnterAppend
<1>4. thread'[p].at = "push" /\ thread'[p].rec = new
  BY <1>1, <1>3
<1>5. \A q \in Threads : q # p => thread'[q] = thread[q]
  BY <1>1, <1>3
<1> HIDE DEF new
<1>6. All' = All /\ Range(All)' = Range(All)
  BY <1>3 DEF All, Range
<1>7. Records = Range(All) \cup InHand /\ Records' = Range(All) \cup InHand'
  <2>1. (Records = Range(All) \cup InHand)'
    BY AllIs, PTL
  <2> QED  BY <1>6, <2>1, AllIs
<1>8. InHand' \subseteq InHand \cup {new}
  BY <1>1, <1>4, <1>5 DEF InHand
<1>9. \A r \in Records : r \in Record
  <2>1. \A r \in Range(All) : r \in Record
    BY AllIs DEF Range
  <2>2. \A r \in InHand : r \in Record
    BY DEF InHand, TypeInv, ThreadsOK
  <2> QED  BY <1>7, <2>1, <2>2
<1>10. \A r \in Records : r.txid \in Nat /\ r.mac \in Nat
  BY <1>9 DEF Record, TxIds
<1>11. PlacesOK'
  <2>1. \A r \in Records' : r.txid <= lastTxId' /\ r.mac <= chained'
    BY <1>1, <1>2, <1>3, <1>7, <1>8, <1>10 DEF LogInv, PlacesOK
  <2>2. \A r \in Records : r.mac # new.mac
    BY <1>1, <1>2, <1>10 DEF LogInv, PlacesOK
  <2>3. \A q \in Threads : thread'[q].at = "push" =>
          q = p \/ (thread[q].at = "push" /\ thread'[q] = thread[q] /\ thread[q].rec \in Records)
    BY <1>5, <1>7 DEF InHand
  <2>4. \A q \in Threads : thread'[q].at = "push" =>
          /\ \A r \in Range(All) : r.mac # thread'[q].rec.mac
          /\ \A s \in Threads : thread'[s].at = "push" /\ thread'[s].rec.mac = thread'[q].rec.mac => q = s
    BY <1>4, <1>7, <2>2, <2>3 DEF LogInv, PlacesOK
  <2>5. ~MayFail' => \A i, j \in DOMAIN All' : All'[i].mac = All'[j].mac => i = j
    BY <1>6 DEF LogInv, PlacesOK, MayFail
  <2> QED  BY <1>6, <2>1, <2>4, <2>5 DEF PlacesOK
<1>12. Unmixed'
  <2>1. CASE kind \in {"data", "ckpt"} /\ txid > lastTxId
    <3>1. \A r \in Records : r.txid # new.txid
      BY <1>2, <1>10, <2>1 DEF LogInv, PlacesOK, TxIds
    <3> QED  BY <1>7, <1>8, <3>1 DEF LogInv, Unmixed
  <2>2. CASE kind = "commit" /\ thread[p].at = "between" /\ txid = thread[p].rec.txid
    <3>1. thread[p].rec \in Records /\ thread[p].rec.kind = "data"
      BY <1>1, <1>7, <2>2 DEF InHand, TypeInv, ThreadsOK
    <3>2. \A r \in Records : r.txid = new.txid => r.kind # "ckpt"
      BY <1>2, <2>2, <3>1 DEF LogInv, Unmixed
    <3> QED  BY <1>2, <1>7, <1>8, <2>2, <3>2 DEF LogInv, Unmixed
  <2> QED  BY <2>1, <2>2
<1>13. PushedOK'
  <2>1. kind = "commit" => \E r \in Range(All) : r.kind = "data" /\ r.txid = txid
    <3>1. kind = "commit" => thread[p].at = "between" /\ txid = thread[p].rec.txid
      OBVIOUS
    <3> QED  BY <1>1, <3>1 DEF LogInv, PushedOK, TypeInv, ThreadsOK
  <2> QED  BY <1>2, <1>4, <1>5, <1>6, <2>1 DEF LogInv, PushedOK
<1>14. OrderOK'
  <2>1. SUFFICES ASSUME ~MayFail, NEW t \in Threads, setup.threads = {t} PROVE OrderOK'
    BY DEF OrderOK, MayFail
  <2>2. \A r \in Range(All) : r.mac < new.mac
    BY <1>1, <1>2, <1>7, <1>10 DEF LogInv, PlacesOK
  <2>3. \A q \in Threads : thread'[q].at = "push" => q \in setup.threads
    BY <1>5 DEF TypeInv, ThreadsOK
  <2> QED  BY <1>4, <1>6, <2>1, <2>2, <2>3 DEF LogInv, OrderOK
<1>15. Led(All)'
  BY <1>6 DEF LogInv, Led
<1> QED  BY <1>11, <1>12, <1>13, <1>14, <1>15 DEF LogInv

\* A record joins the end of what there is.
LEMMA PushKeepsLog ==
  ASSUME TypeInv, TypeInv', LogInv, NEW p \in setup.threads, setup' = setup, Push(p)
  PROVE  LogInv'
<1> DEFINE e == thread[p].rec
<1>1. p \in Threads /\ thread \in [Threads -> Local] /\ e \in Record
  BY WalAssumption DEF TypeInv, TypeOK, ThreadsOK, Push
<1>2. /\ pending' = Append(pending, e) /\ UNCHANGED <<file, chained, lastTxId>>
      /\ thread[p].at = "push"
      /\ \E step \in {"autoflush", "flush"} : Goto(p, step)
  BY DEF Push
<1>3. thread'[p].at \in {"autoflush", "flush"} /\ thread'[p].rec = e
  BY <1>1, <1>2 DEF Goto, Local
<1>4. \A q \in Threads : q # p => thread'[q] = thread[q]
  BY <1>1, <1>2 DEF Goto
<1> HIDE DEF e
<1>5. /\ All' = Append(All, e) /\ All \in Seq(Record) /\ Len(All) \in Nat
      /\ DOMAIN All = 1 .. Len(All) /\ DOMAIN All' = 1 .. Len(All) + 1
      /\ All'[Len(All) + 1] = e
      /\ \A i \in 1 .. Len(All) : All'[i] = All[i]
  <2>1. file \in Seq(Record) /\ pending \in Seq(Record) /\ All \in Seq(Record)
    BY AllIs DEF TypeInv, TypeOK
  <2>2. file \o Append(pending, e) = Append(file \o pending, e)
    BY <1>1, <2>1
  <2>3. All' = Append(All, e)
    BY <1>2, <2>2 DEF All
  <2> QED  BY <1>1, <2>1, <2>3
<1>6. Range(All)' = Range(All) \cup {e}
  BY <1>1, <1>5, Appended DEF Range
<1>7. Records = Range(All) \cup InHand /\ (Records = Range(All) \cup InHand)'
  <2>1. Records = Range(All) \cup InHand
    BY AllIs
  <2> QED  BY <2>1, AllIs, PTL
<1>8. InHand' = InHand /\ e \in InHand
  BY <1>1, <1>2, <1>3, <1>4 DEF InHand, e
<1>9. Records' = Records
  BY <1>6, <1>7, <1>8
<1>10. \A i \in DOMAIN All : All[i] \in Range(All)
  BY DEF Range
<1>11. \A i \in DOMAIN All' : i \in DOMAIN All \/ i = Len(All) + 1
  BY <1>5
<1>12. \A r \in Range(All) : r.mac # e.mac
  BY <1>1, <1>2 DEF LogInv, PlacesOK, e
<1>13. PlacesOK'
  <2>1. \A q \in Threads : thread'[q].at = "push" => q # p /\ thread'[q] = thread[q]
    BY <1>3, <1>4
  <2>2. \A q \in Threads : thread'[q].at = "push" => thread'[q].rec.mac # e.mac
    BY <1>1, <1>2, <2>1 DEF LogInv, PlacesOK, e
  <2>3. \A q \in Threads : thread'[q].at = "push" =>
          /\ \A r \in Range(All)' : r.mac # thread'[q].rec.mac
          /\ \A s \in Threads : thread'[s].at = "push" /\ thread'[s].rec.mac = thread'[q].rec.mac => q = s
    BY <1>6, <2>1, <2>2 DEF LogInv, PlacesOK
  <2>4. \A r \in Records' : r.txid <= lastTxId' /\ r.mac <= chained'
    BY <1>2, <1>9 DEF LogInv, PlacesOK
  <2>5. ~MayFail => \A i, j \in DOMAIN All' : All'[i].mac = All'[j].mac => i = j
    BY <1>5, <1>10, <1>11, <1>12 DEF LogInv, PlacesOK
  <2> QED  BY <2>3, <2>4, <2>5 DEF PlacesOK, MayFail
<1>14. OrderOK'
  <2>1. SUFFICES ASSUME ~MayFail, NEW t \in Threads, setup.threads = {t} PROVE OrderOK'
    BY DEF OrderOK, MayFail
  <2>2. p = t /\ \A q \in Threads : thread'[q].at # "push"
    BY <1>3, <1>4, <2>1 DEF TypeInv, ThreadsOK
  <2>3. \A r \in Range(All) : r.mac < e.mac
    BY <1>1, <1>2, <2>1 DEF LogInv, OrderOK, e
  <2>4. \A i, j \in DOMAIN All : i < j => All[i].mac < All[j].mac
    BY <2>1 DEF LogInv, OrderOK
  <2>5. \A i, j \in DOMAIN All' : i < j => All'[i].mac < All'[j].mac
    <3> SUFFICES ASSUME NEW i \in DOMAIN All', NEW j \in DOMAIN All', i < j
                 PROVE  All'[i].mac < All'[j].mac
      OBVIOUS
    <3>1. i \in DOMAIN All
      BY <1>5
    <3> QED  BY <1>5, <1>10, <1>11, <2>3, <2>4, <3>1
  <2> QED  BY <2>2, <2>5 DEF OrderOK
<1>15. PushedOK'
  BY <1>1, <1>2, <1>3, <1>4, <1>6 DEF LogInv, PushedOK, e
<1>16. Unmixed'
  BY <1>9 DEF LogInv, Unmixed
<1>17. Led(All)'
  <2>1. SUFFICES ASSUME NEW i \in DOMAIN All', All'[i].kind = "commit"
                 PROVE  \E k \in 1 .. i - 1 : All'[k].kind = "data" /\ All'[k].txid = All'[i].txid
    BY DEF Led
  <2>2. CASE i \in DOMAIN All
    <3>1. PICK k \in 1 .. i - 1 : All[k].kind = "data" /\ All[k].txid = All[i].txid
      BY <1>5, <2>1, <2>2 DEF LogInv, Led
    <3>2. k \in 1 .. Len(All)
      BY <1>5, <2>2
    <3> QED  BY <1>5, <2>2, <3>1, <3>2
  <2>3. CASE i = Len(All) + 1
    <3>1. \E r \in Range(All) : r.kind = "data" /\ r.txid = e.txid
      BY <1>1, <1>2, <1>5, <2>1, <2>3 DEF LogInv, PushedOK, e
    <3>2. PICK k \in 1 .. Len(All) : All[k].kind = "data" /\ All[k].txid = e.txid
      BY <1>5, <3>1 DEF Range
    <3>3. k \in 1 .. i - 1
      BY <1>5, <2>3
    <3> QED  BY <1>5, <2>3, <3>2, <3>3
  <2> QED  BY <1>11, <2>2, <2>3
<1> QED  BY <1>13, <1>14, <1>15, <1>16, <1>17 DEF LogInv

\* What a crash leaves replays soundly.
LEMMA PrefixReplays ==
  ASSUME TypeInv, LogInv, NEW log \in Seq(Record), Len(log) <= Len(file),
         \A i \in 1 .. Len(log) : log[i] = file[i]
  PROVE  /\ \A t \in DOMAIN Replay(log) :
              {Replay(log)[t][i].kind : i \in DOMAIN Replay(log)[t]} = {"data", "commit"}
         /\ ~MayFail => \A t \in DOMAIN Replay(log) : Once(Replay(log)[t])
<1>1. /\ Len(log) \in Nat /\ DOMAIN log = 1 .. Len(log)
      /\ DOMAIN log \subseteq DOMAIN All
      /\ \A i \in DOMAIN log : log[i] = All[i]
  BY AllIs
<1>2. Led(log)
  <2> SUFFICES ASSUME NEW i \in DOMAIN log, log[i].kind = "commit"
               PROVE  \E k \in 1 .. i - 1 : log[k].kind = "data" /\ log[k].txid = log[i].txid
    BY DEF Led
  <2>1. PICK k \in 1 .. i - 1 : All[k].kind = "data" /\ All[k].txid = All[i].txid
    BY <1>1 DEF LogInv, Led
  <2>2. k \in DOMAIN log
    BY <1>1
  <2> QED  BY <1>1, <2>1, <2>2
<1>3. \A i, k \in DOMAIN log :
        log[i].kind = "ckpt" /\ log[i].txid = log[k].txid => log[k].kind = "ckpt"
  <2>1. \A i \in DOMAIN log : log[i] \in Records
    BY <1>1, AllIs DEF Range
  <2> QED  BY <2>1 DEF LogInv, Unmixed
<1>4. ~MayFail => Once(log)
  BY <1>1 DEF LogInv, PlacesOK, Once
<1> QED  BY <1>2, <1>3, <1>4, ReplayFinds

LEMMA InitReplayInv == Init => ReplayInv
<1> SUFFICES ASSUME Init PROVE ReplayInv
  OBVIOUS
<1>1. TypeInv
  BY InitTypes
<1>2. file = <<>> /\ pending = <<>> /\ recovered = [t \in {} |-> <<>>]
      /\ \A p \in Threads : thread[p].at = "idle"
  BY DEF Init
<1>3. All = <<>> /\ Range(All) = {} /\ DOMAIN All = {} /\ InHand = {}
  BY <1>2 DEF All, Range, InHand
<1>4. Records = {}
  BY <1>1, <1>3, AllIs
<1>5. LogInv
  BY <1>2, <1>3, <1>4 DEF LogInv, Led, Unmixed, PushedOK, PlacesOK, OrderOK
<1>6. ReplayAtomic /\ ReplayExactlyOnce /\ ChainInLogOrder
  <2>1. DOMAIN recovered = {} /\ DOMAIN file = {}
    BY <1>2
  <2> QED  BY <2>1 DEF ReplayAtomic, ReplayExactlyOnce, ChainInLogOrder
<1> QED  BY <1>1, <1>5, <1>6 DEF ReplayInv

\* While the log is open, the order of all is the order of the file.
LEMMA OpenIsOrdered ==
  ASSUME TypeInv, LogInv
  PROVE  ChainInLogOrder
<1>1. DOMAIN file = 1 .. Len(file)
  BY DEF TypeInv, TypeOK
<1>2. \A i \in DOMAIN file : i \in DOMAIN All /\ All[i] = file[i]
  BY <1>1, AllIs
<1> QED  BY <1>2 DEF LogInv, OrderOK, ChainInLogOrder

LEMMA StepReplayInv == ReplayInv /\ [Next]_vars => ReplayInv'
<1> SUFFICES ASSUME ReplayInv, [Next]_vars PROVE ReplayInv'
  OBVIOUS
<1>1. TypeInv /\ TypeInv' /\ setup' = setup
  BY StepTypes DEF ReplayInv, Next, vars
<1>2. CASE UNCHANGED vars
  <2>1. LogInv => LogInv'
    BY <1>2 DEF vars, LogInv, Led, Unmixed, PushedOK, PlacesOK, OrderOK, All, Range, Records,
                InHand, MayFail
  <2> QED  BY <1>1, <1>2, <2>1 DEF vars, ReplayInv, ReplayAtomic, ReplayExactlyOnce,
                                 ChainInLogOrder, MayFail
<1>3. ASSUME NEW p \in setup.threads, ThreadStep(p) PROVE ReplayInv'
  <2>1. crash = "none" /\ crash' = "none" /\ recovered' = recovered
    BY <1>3, ThreadsGoOn
  <2>2. LogInv /\ lastTxId \in Nat /\ p \in Threads /\ MaxTxId \in Nat
    BY <1>1, <2>1, WalAssumption DEF ReplayInv, TypeInv, TypeOK
  <2>3. ASSUME BeginTxn(p) PROVE LogInv'
    <3>1. lastTxId + 1 \in TxIds /\ "data" \in Kinds /\ lastTxId' = lastTxId + 1
          /\ EnterAppend(p, "data", lastTxId + 1)
      BY <2>2, <2>3 DEF BeginTxn, TxIds, Kinds
    <3> QED  BY <1>1, <1>3, <2>2, <3>1, EnterKeepsLog
  <2>4. ASSUME CommitTxn(p) PROVE LogInv'
    <3>1. thread[p].rec.txid \in TxIds /\ "commit" \in Kinds /\ lastTxId' = lastTxId
          /\ EnterAppend(p, "commit", thread[p].rec.txid) /\ thread[p].at = "between"
      BY <1>1, <2>2, <2>4 DEF CommitTxn, TypeInv, ThreadsOK, Record, Kinds
    <3>2. thread[p].rec.txid <= lastTxId
      <4>1. thread[p].rec \in InHand
        BY <2>2, <3>1 DEF InHand
      <4> QED  BY <1>1, <2>2, <4>1, AllIs DEF LogInv, PlacesOK
    <3> QED  BY <1>1, <1>3, <2>2, <3>1, <3>2, EnterKeepsLog
  <2>5. ASSUME BeginCheckpoint(p) PROVE LogInv'
    <3>1. lastTxId + 1 \in TxIds /\ "ckpt" \in Kinds /\ lastTxId' = lastTxId + 1
          /\ EnterAppend(p, "ckpt", lastTxId + 1)
      BY <2>2, <2>5 DEF BeginCheckpoint, TxIds, Kinds
    <3> QED  BY <1>1, <1>3, <2>2, <3>1, EnterKeepsLog
  <2>6. ASSUME Push(p) PROVE LogInv'
    BY <1>1, <1>3, <2>2, <2>6, PushKeepsLog
  <2>7. ASSUME AutoFlush(p) PROVE LogInv'
    <3>1. PICK ok \in BOOLEAN :
            FlushPending(FALSE, ok) /\ (Goto(p, "flush") \/ Return(p))
      BY <2>7 DEF AutoFlush
    <3>2. /\ All' = All \/ (MayFail /\ All' = All \o pending)
          /\ Range(All') = Range(All) /\ (Led(All) => Led(All'))
      BY <1>1, <3>1, FlushAll
    <3>3. UNCHANGED <<chained, lastTxId>> /\ thread[p].at = "autoflush"
      BY <2>7 DEF AutoFlush
    <3> QED  BY <1>1, <1>3, <2>2, <3>1, <3>2, <3>3, MoveKeepsLog
  <2>8. ASSUME FinishData(p) PROVE LogInv'
    <3>1. All' = All /\ Range(All') = Range(All) /\ (Led(All) => Led(All'))
      BY <2>8 DEF FinishData, All
    <3>2. UNCHANGED <<chained, lastTxId>> /\ thread[p].at = "flush" /\ Goto(p, "between")
      BY <2>8 DEF FinishData
    <3> QED  BY <1>1, <1>3, <2>2, <3>1, <3>2, MoveKeepsLog
  <2>9. ASSUME FinishCommit(p) PROVE LogInv'
    <3>0. Strict \in BOOLEAN
      BY DEF Strict
    <3>1. PICK ok \in BOOLEAN : FlushPending(Strict, ok)
      BY <2>9 DEF FinishCommit
    <3>2. /\ All' = All \/ (MayFail /\ All' = All \o pending)
          /\ Range(All') = Range(All) /\ (Led(All) => Led(All'))
      BY <1>1, <3>0, <3>1, FlushAll
    <3>3. UNCHANGED <<chained, lastTxId>> /\ thread[p].at = "flush" /\ Return(p)
      BY <2>9 DEF FinishCommit
    <3> QED  BY <1>1, <1>3, <2>2, <3>2, <3>3, MoveKeepsLog
  <2>10. ASSUME FinishCkptAppend(p) PROVE LogInv'
    <3>0. Strict \in BOOLEAN
      BY DEF Strict
    <3>1. PICK ok \in BOOLEAN :
            FlushPending(Strict, ok) /\ (Goto(p, "ckptsync") \/ Return(p))
      BY <2>10 DEF FinishCkptAppend
    <3>2. /\ All' = All \/ (MayFail /\ All' = All \o pending)
          /\ Range(All') = Range(All) /\ (Led(All) => Led(All'))
      BY <1>1, <3>0, <3>1, FlushAll
    <3>3. UNCHANGED <<chained, lastTxId>> /\ thread[p].at = "flush"
      BY <2>10 DEF FinishCkptAppend
    <3> QED  BY <1>1, <1>3, <2>2, <3>1, <3>2, <3>3, MoveKeepsLog
  <2>11. ASSUME CheckpointSync(p) PROVE LogInv'
    <3>1. PICK ok \in BOOLEAN : FlushPending(TRUE, ok)
      BY <2>11 DEF CheckpointSync
    <3>2. /\ All' = All \/ (MayFail /\ All' = All \o pending)
          /\ Range(All') = Range(All) /\ (Led(All) => Led(All'))
      BY <1>1, <3>1, FlushAll
    <3>3. UNCHANGED <<chained, lastTxId>> /\ thread[p].at = "ckptsync" /\ Return(p)
      BY <2>11 DEF CheckpointSync
    <3>4. "ckptsync" \in {"flush", "between", "ckptsync"}
      OBVIOUS
    <3> QED  BY <1>1, <1>3, <2>2, <3>2, <3>3, <3>4, MoveKeepsLog
  <2>12. ASSUME ManagerFlush(p) PROVE LogInv'
    <3>0. (Durability = "D2") \in BOOLEAN
      OBVIOUS
    <3>1. PICK ok \in BOOLEAN : FlushPending(Durability = "D2", ok)
      BY <2>12 DEF ManagerFlush
    <3>2. /\ All' = All \/ (MayFail /\ All' = All \o pending)
          /\ Range(All') = Range(All) /\ (Led(All) => Led(All'))
      BY <1>1, <3>0, <3>1, FlushAll
    <3>3. UNCHANGED <<chained, lastTxId, thread>>
      BY <2>12 DEF ManagerFlush
    <3> QED  BY <1>1, <2>2, <3>2, <3>3, StayKeepsLog
  <2>13. LogInv'
    BY <1>3, <2>3, <2>4, <2>5, <2>6, <2>7, <2>8, <2>9, <2>10, <2>11, <2>12 DEF ThreadStep
  <2>14. ChainInLogOrder'
    <3>1. TypeInv /\ LogInv => ChainInLogOrder
      BY OpenIsOrdered
    <3> QED  BY <1>1, <2>13, <3>1, OpenIsOrdered, PTL
  <2>15. ReplayAtomic' /\ ReplayExactlyOnce'
    BY <1>1, <2>1 DEF ReplayInv, ReplayAtomic, ReplayExactlyOnce, MayFail
  <2> QED  BY <1>1, <2>13, <2>14, <2>15 DEF ReplayInv
<1>4. CASE ProcessCrash \/ PowerLoss
  <2>1. /\ crash = "none" /\ crash' # "none" /\ LogInv
        /\ file \in Seq(Record) /\ Len(file) \in Nat /\ synced \in 0 .. Len(file)
    BY <1>1, <1>4 DEF ProcessCrash, PowerLoss, ReplayInv, TypeInv, TypeOK
  <2>2. PICK log \in Seq(Record) :
          /\ file' = log /\ recovered' = Replay(log)
          /\ Len(log) <= Len(file) /\ \A i \in 1 .. Len(log) : log[i] = file[i]
    <3>1. CASE ProcessCrash
      BY <2>1, <3>1 DEF ProcessCrash
    <3>2. CASE PowerLoss
      <4>1. PICK n \in synced .. Len(file) :
              file' = SubSeq(file, 1, n) /\ recovered' = Replay(SubSeq(file, 1, n))
        BY <3>2 DEF PowerLoss
      <4>2. PICK log : log = SubSeq(file, 1, n)
        OBVIOUS
      <4>3. n \in Nat /\ n <= Len(file)
        BY <2>1, <4>1
      <4>4. log \in Seq(Record) /\ Len(log) = n /\ \A i \in 1 .. n : log[i] = file[i]
        BY <2>1, <4>2, <4>3
      <4> QED  BY <4>1, <4>2, <4>3, <4>4
    <3> QED  BY <1>4, <3>1, <3>2
  <2>3. /\ \A t \in DOMAIN recovered' :
             {recovered'[t][i].kind : i \in DOMAIN recovered'[t]} = {"data", "commit"}
        /\ ~MayFail => \A t \in DOMAIN recovered' : Once(recovered'[t])
    <3>1. /\ \A t \in DOMAIN Replay(log) :
               {Replay(log)[t][i].kind : i \in DOMAIN Replay(log)[t]} = {"data", "commit"}
          /\ ~MayFail => \A t \in DOMAIN Replay(log) : Once(Replay(log)[t])
      BY <1>1, <2>1, <2>2, PrefixReplays
    <3> QED  BY <2>2, <3>1
  <2>4. ReplayAtomic'
    BY <2>3 DEF ReplayAtomic
  <2>5. ReplayExactlyOnce'
    BY <1>1, <2>3 DEF ReplayExactlyOnce, Once, MayFail
  <2>6. ChainInLogOrder'
    <3>1. ChainInLogOrder
      BY DEF ReplayInv
    <3>2. DOMAIN file' = 1 .. Len(file') /\ DOMAIN file' \subseteq DOMAIN file
          /\ \A i \in DOMAIN file' : file'[i] = file[i]
      BY <2>1, <2>2
    <3> QED  BY <1>1, <3>1, <3>2 DEF ChainInLogOrder, MayFail
  <2> QED  BY <1>1, <2>1, <2>4, <2>5, <2>6 DEF ReplayInv
<1> QED  BY <1>2, <1>3, <1>4 DEF Next

\* What replay returns is true to the log, under no condition: a transaction it returns
\* is whole, each record of it is returned once unless a failed fsync wrote it again,
\* and a single thread's records stand in the order of their HMAC chain.
THEOREM ReplayIsSound == Spec => []ReplaySound
<1>1. ReplayInv => ReplaySound
  BY DEF ReplayInv, TypeInv, ReplaySound
<1> QED  BY InitReplayInv, StepReplayInv, <1>1, PTL DEF Spec
=============================================================================
