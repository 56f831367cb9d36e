-------------------------------- MODULE Wal ---------------------------------
(***************************************************************************)
(* WalManager (crates/ovn-core/src/storage/wal.rs): records are appended to*)
(* a pending buffer, flushed to the file in groups, fsynced according to   *)
(* the durability level, and replayed after a crash.                       *)
(*                                                                         *)
(* Several threads run transactions (a data record, then a commit record)  *)
(* and may take checkpoints.  append is three critical sections - the HMAC *)
(* chain, the pending buffer, the flush - taken one after the other under  *)
(* different locks; flush_pending is one.  Meanwhile the engine's          *)
(* checkpoint and close and the compaction worker call flush(), which      *)
(* fsyncs at D2 only.  The byte format is abstracted: a                    *)
(* record is its kind, its txid and its place in the HMAC chain, sizes     *)
(* count records.  A crash of the process keeps what was written; a power  *)
(* loss keeps a prefix that includes what was fsynced, because replay stops*)
(* at the first record that fails its CRC.                                 *)
(***************************************************************************)
EXTENDS Integers, Sequences, FiniteSets

CONSTANTS
  Threads,   \* threads that append
  MaxTxId,   \* bound: identifiers handed out
  Setups     \* configurations, of which a behaviour has one: the threads that append
             \* and those that also call checkpoint() and flush(), group_commit_bytes
             \* in records, the durability level, whether write_at and sync can
             \* return an error

Levels == {"D0", "D1", "D1Strict", "D2"}

ASSUME WalAssumption ==
  /\ MaxTxId \in Nat
  /\ \A s \in Setups :
       /\ s.threads \subseteq Threads
       /\ s.checkpointers \subseteq s.threads /\ s.flushers \subseteq s.threads
       /\ s.groupLimit \in Nat \ {0}
       /\ s.durability \in Levels /\ s.mayFail \in BOOLEAN

VARIABLES
  setup,      \* one of Setups
  lastTxId,   \* last identifier issued
  chained,    \* hmac_verifier: records chained so far
  pending,    \* pending buffer
  file,       \* records written to the file
  synced,     \* length of the prefix of file that was fsynced
  thread,     \* per thread: where it is in append/checkpoint
  lastCkpt,   \* last_checkpoint_txid
  submitted,  \* history: transactions whose commit record entered append
  acked,      \* history: transactions whose commit append returned Ok
  covered,    \* history: per checkpoint, the acknowledged transactions it drained
  overtaken,  \* history: transactions that no checkpoint had drained when one took a
              \* txid above theirs
  slipped,    \* history: at the strict levels, transactions whose commit record was
              \* written without an fsync, and of which none followed
  crash,      \* "none", "process" or "power"
  recovered   \* what replay returned: txid -> its records

vars == <<setup, lastTxId, chained, pending, file, synced, thread, lastCkpt,
          submitted, acked, covered, overtaken, slipped, crash, recovered>>
history == <<submitted, acked, covered, overtaken>>

Checkpointers == setup.checkpointers
GroupLimit    == setup.groupLimit
Durability    == setup.durability
MayFail       == setup.mayFail

TxIds  == 1 .. MaxTxId
Kinds  == {"data", "commit", "ckpt"}
Record == [kind : Kinds, txid : TxIds, mac : Nat]
Steps  == {"idle", "push", "autoflush", "flush", "between", "ckptsync"}
Local  == [at : Steps, rec : Record \cup {<<>>}]

Strict == Durability \in {"D1Strict", "D2"}

\* WalRecordType::triggers_flush
TriggersFlush(kind) == kind \in {"commit", "ckpt"}

-----------------------------------------------------------------------------
(* replay                                                                  *)

\* The txid of the last checkpoint record, 0 if there is none.
LastCheckpointIn(log) ==
  LET at == {i \in DOMAIN log : log[i].kind = "ckpt"}
  IN  IF at = {} THEN 0
      ELSE log[CHOOSE i \in at : \A j \in at : j <= i].txid

\* Mutant: the first transaction after a checkpoint is taken for covered.
CommittedOffByOne(log) ==
  {log[i].txid : i \in {j \in DOMAIN log :
                          /\ log[j].kind = "commit"
                          /\ log[j].txid > LastCheckpointIn(log) + 1}}

Committed(log) ==
  {log[i].txid : i \in {j \in DOMAIN log :
                          /\ log[j].kind = "commit"
                          /\ log[j].txid > LastCheckpointIn(log)}}

\* The records of t, in the order of the log: by_txid[t] when all were looked at.
RecordsOf(log, t) ==
  LET found[i \in 0 .. Len(log)] ==
        IF i = 0 THEN <<>>
        ELSE IF log[i].txid = t THEN Append(found[i - 1], log[i]) ELSE found[i - 1]
  IN found[Len(log)]

\* replay returns the records of every committed txid above the checkpoint,
\* txid by txid in ascending order.
Replay(log) == [t \in Committed(log) |-> RecordsOf(log, t)]

-----------------------------------------------------------------------------
Init ==
  /\ setup \in Setups
  /\ lastTxId = 0 /\ chained = 0
  /\ pending = <<>> /\ file = <<>> /\ synced = 0
  /\ thread = [p \in Threads |-> [at |-> "idle", rec |-> <<>>]]
  /\ lastCkpt = 0
  /\ submitted = {} /\ acked = {}
  /\ covered = [t \in TxIds |-> {}] /\ overtaken = {} /\ slipped = {}
  /\ crash = "none"
  /\ recovered = [t \in {} |-> <<>>]

Goto(p, step) == thread' = [thread EXCEPT ![p].at = step]
Return(p)     == thread' = [thread EXCEPT ![p] = [at |-> "idle", rec |-> <<>>]]

\* Entry of append: under the HMAC lock the record takes its chain position.
EnterAppend(p, kind, txid) ==
  /\ crash = "none"
  /\ chained' = chained + 1
  /\ thread' = [thread EXCEPT ![p] =
       [at  |-> "push",
        rec |-> [kind |-> kind, txid |-> txid, mac |-> chained + 1]]]
  /\ UNCHANGED <<pending, file, synced, lastCkpt, slipped, crash, recovered>>

\* A caller takes an identifier and appends its data record.
BeginTxn(p) ==
  /\ thread[p].at = "idle"
  /\ lastTxId < MaxTxId
  /\ lastTxId' = lastTxId + 1
  /\ EnterAppend(p, "data", lastTxId + 1)
  /\ UNCHANGED history

\* The same caller appends the commit record.
CommitTxn(p) ==
  /\ thread[p].at = "between"
  /\ EnterAppend(p, "commit", thread[p].rec.txid)
  /\ submitted' = submitted \cup {thread[p].rec.txid}
  /\ UNCHANGED <<lastTxId, acked, covered, overtaken>>

\* checkpoint_task: the memtable is drained, then a fresh txid is taken for
\* WalManager::checkpoint.  A transaction enters the memtable some time after
\* its append returned, so the drain finds any part of what was acknowledged and
\* not drained before; the others, and those still running, have smaller txids.
BeginCheckpoint(p) ==
  /\ p \in Checkpointers
  /\ thread[p].at = "idle"
  /\ lastTxId < MaxTxId
  /\ lastTxId' = lastTxId + 1
  /\ EnterAppend(p, "ckpt", lastTxId + 1)
  /\ \E drained \in SUBSET acked :
       /\ \A c \in TxIds : covered[c] \subseteq drained
       /\ covered' = [covered EXCEPT ![lastTxId + 1] = drained]
       /\ overtaken' = overtaken \cup ((1 .. lastTxId) \ drained)
  /\ UNCHANGED <<submitted, acked>>

\* The record joins the pending buffer, under its lock.
Push(p) ==
  /\ crash = "none"
  /\ thread[p].at = "push"
  /\ pending' = Append(pending, thread[p].rec)
  /\ Goto(p, IF Len(pending') >= GroupLimit THEN "autoflush" ELSE "flush")
  /\ UNCHANGED <<lastTxId, chained, file, synced, lastCkpt, history, slipped, crash,
                 recovered>>

\* Mutant: no fsync, whatever the level.
FlushPendingNoSync(sync, ok) ==
  \/ /\ pending = <<>> /\ ok
     /\ UNCHANGED <<pending, file, synced>>
  \/ /\ pending # <<>> /\ ok
     /\ file' = file \o pending
     /\ pending' = <<>>
     /\ synced' = synced
  \/ /\ pending # <<>> /\ ~ok /\ MayFail
     /\ UNCHANGED <<file, pending, synced>>

\* Mutant: the buffer is not cleared after the write.
FlushPendingKeepsBuffer(sync, ok) ==
  \/ /\ pending = <<>> /\ ok
     /\ UNCHANGED <<pending, file, synced>>
  \/ /\ pending # <<>> /\ ok /\ Len(file) < 3 * MaxTxId
     /\ file' = file \o pending
     /\ pending' = pending
     /\ synced' = IF sync THEN Len(file') ELSE synced

\* flush_pending(do_fsync): what it does to the buffer and the file, and
\* whether it returns Ok.  An error leaves the buffer as it was; after a
\* failed fsync the bytes are in the file as well.
FlushPending(sync, ok) ==
  \/ /\ pending = <<>> /\ ok
     /\ UNCHANGED <<pending, file, synced>>
  \/ /\ pending # <<>> /\ ok
     /\ file' = file \o pending
     /\ pending' = <<>>
     /\ synced' = IF sync THEN Len(file') ELSE synced
  \/ /\ pending # <<>> /\ ~ok /\ MayFail
     /\ file' = file
     /\ UNCHANGED <<pending, synced>>
  \/ /\ pending # <<>> /\ ~ok /\ MayFail /\ sync
     /\ file' = file \o pending
     /\ UNCHANGED <<pending, synced>>

\* Whom a flush leaves without the fsync of a strict level.
Slip(sync, ok) ==
  slipped' = IF pending = <<>> \/ ~ok \/ ~Strict THEN slipped
             ELSE IF sync THEN {}
             ELSE slipped \cup {pending[i].txid : i \in {j \in DOMAIN pending :
                                                       pending[j].kind = "commit"}}

\* append's flush when the buffer has reached group_commit_bytes.
AutoFlush(p) ==
  /\ crash = "none"
  /\ thread[p].at = "autoflush"
  /\ \E ok \in BOOLEAN :
       /\ FlushPending(FALSE, ok) /\ Slip(FALSE, ok)
       /\ IF ok THEN Goto(p, "flush") ELSE Return(p)
  /\ UNCHANGED <<lastTxId, chained, lastCkpt, history, crash, recovered>>

\* append's last part: a data record returns, the others flush first.
FinishData(p) ==
  /\ crash = "none"
  /\ thread[p].at = "flush"
  /\ ~TriggersFlush(thread[p].rec.kind)
  /\ Goto(p, "between")
  /\ UNCHANGED <<lastTxId, chained, pending, file, synced, lastCkpt, history,
                 slipped, crash, recovered>>

FinishCommit(p) ==
  /\ crash = "none"
  /\ thread[p].at = "flush" /\ thread[p].rec.kind = "commit"
  /\ \E ok \in BOOLEAN :
       /\ FlushPending(Strict, ok) /\ Slip(Strict, ok)
       /\ acked' = IF ok THEN acked \cup {thread[p].rec.txid} ELSE acked
  /\ Return(p)
  /\ UNCHANGED <<lastTxId, chained, lastCkpt, submitted, covered, overtaken, crash,
                 recovered>>

\* checkpoint: append's flush, then flush_pending(true), then the new txid.
FinishCkptAppend(p) ==
  /\ crash = "none"
  /\ thread[p].at = "flush" /\ thread[p].rec.kind = "ckpt"
  /\ \E ok \in BOOLEAN :
       /\ FlushPending(Strict, ok) /\ Slip(Strict, ok)
       /\ IF ok THEN Goto(p, "ckptsync") ELSE Return(p)
  /\ UNCHANGED <<lastTxId, chained, lastCkpt, history, crash, recovered>>

CheckpointSync(p) ==
  /\ crash = "none"
  /\ thread[p].at = "ckptsync"
  /\ \E ok \in BOOLEAN :
       /\ FlushPending(TRUE, ok) /\ Slip(TRUE, ok)
       /\ lastCkpt' = IF ok THEN thread[p].rec.txid ELSE lastCkpt
  /\ Return(p)
  /\ UNCHANGED <<lastTxId, chained, history, crash, recovered>>

\* WalManager::flush, which close, checkpoint and the compaction worker call
\* while others append.
ManagerFlush(p) ==
  /\ crash = "none"
  /\ p \in setup.flushers
  /\ thread[p].at \in {"idle", "between"}
  /\ \E ok \in BOOLEAN :
       FlushPending(Durability = "D2", ok) /\ Slip(Durability = "D2", ok)
  /\ UNCHANGED <<lastTxId, chained, thread, lastCkpt, history, crash, recovered>>

\* The process dies: the pending buffer is lost, the file is kept, and the
\* log is replayed when the database is opened again.
ProcessCrash ==
  /\ crash = "none"
  /\ crash' = "process"
  /\ recovered' = Replay(file)
  /\ UNCHANGED <<lastTxId, chained, pending, file, synced, thread, lastCkpt,
                 history, slipped>>

\* The machine dies: of what was not fsynced, any prefix may remain.
PowerLoss ==
  /\ crash = "none"
  /\ crash' = "power"
  /\ \E n \in synced .. Len(file) :
       /\ file' = SubSeq(file, 1, n)
       /\ recovered' = Replay(SubSeq(file, 1, n))
  /\ UNCHANGED <<lastTxId, chained, pending, synced, thread, lastCkpt, history, slipped>>

ThreadStep(p) ==
  \/ BeginTxn(p) \/ CommitTxn(p) \/ BeginCheckpoint(p)
  \/ Push(p) \/ AutoFlush(p)
  \/ FinishData(p) \/ FinishCommit(p) \/ FinishCkptAppend(p)
  \/ CheckpointSync(p) \/ ManagerFlush(p)

Next ==
  /\ UNCHANGED setup
  /\ (\E p \in setup.threads : ThreadStep(p)) \/ ProcessCrash \/ PowerLoss

Spec == Init /\ [][Next]_vars

-----------------------------------------------------------------------------
\* Every variable has its type.
TypeOK ==
  /\ setup \in Setups
  /\ lastTxId \in 0 .. MaxTxId
  /\ chained \in Nat
  /\ pending \in Seq(Record) /\ file \in Seq(Record)
  /\ synced \in 0 .. Len(file)
  /\ thread \in [Threads -> Local]
  /\ lastCkpt \in 0 .. MaxTxId
  /\ acked \subseteq submitted /\ submitted \subseteq TxIds
  /\ covered \in [TxIds -> SUBSET TxIds]
  /\ overtaken \subseteq TxIds /\ slipped \subseteq TxIds
  /\ crash \in {"none", "process", "power"}
  /\ DOMAIN recovered \subseteq TxIds

\* What the last checkpoint in the file says is already in the data files.
CoveredBy(log) ==
  LET c == LastCheckpointIn(log) IN IF c = 0 THEN {} ELSE covered[c]

\* After a crash of the process, every acknowledged transaction is replayed or
\* was drained by the checkpoint replay starts from (line 393, "txid <=
\* last_checkpoint_txid (already durable)"), unless a checkpoint took its txid
\* above that of the transaction before it drained it.  So it is after a power
\* loss at the strict levels (line 305), unless another flush than its own had
\* written its commit record without an fsync; the lax levels promise nothing.
AckedSurvive ==
  /\ crash = "process" => acked \ overtaken \subseteq DOMAIN recovered \cup CoveredBy(file)
  /\ crash = "power" /\ Strict =>
       acked \ (overtaken \cup slipped) \subseteq DOMAIN recovered \cup CoveredBy(file)

\* Line 305 as it is written, "D1Strict/D2: Always fsync on commit records":
\* a power loss takes no acknowledged transaction.
StrictCommitsSurvive ==
  crash = "power" /\ Strict => acked \subseteq DOMAIN recovered \cup CoveredBy(file)

\* A transaction is replayed whole: its data as well as its commit record.
ReplayAtomic ==
  \A t \in DOMAIN recovered :
    {recovered[t][i].kind : i \in DOMAIN recovered[t]} = {"data", "commit"}

\* Replay returns each record of a transaction once: lines 394 and 431-433,
\* "each txid is applied exactly once even if the WAL was written multiple
\* times".  Only a failed fsync, whose records are written again, repeats them.
ReplayExactlyOnce ==
  ~MayFail =>
  \A t \in DOMAIN recovered : \A i, j \in DOMAIN recovered[t] :
    recovered[t][i] = recovered[t][j] => i = j

\* The log of one appending thread holds its records in the order of their HMAC
\* chain, so a verifier that walks an untouched log finds the chain intact (lines
\* 293-295).
ChainInLogOrder ==
  ~MayFail /\ (\E p \in Threads : setup.threads = {p}) =>
  \A i, j \in DOMAIN file : i < j => file[i].mac < file[j].mac

\* What replay finds in the log is true to it: whole transactions, each record
\* once, in the order of the chain.
ReplaySound == TypeOK /\ ReplayAtomic /\ ReplayExactlyOnce /\ ChainInLogOrder

\* The log keeps the promise of DurableLog of what is replayed, what the last
\* checkpoint covers and what a checkpoint took out of its hands.  A transaction
\* that slipped counts as acknowledged when an fsync reaches it, with all the
\* others of that fsync.  The lax levels promise nothing of a power loss.
Log == INSTANCE DurableLog
         WITH acked <- acked \ slipped,
              recovered <- IF crash = "process" \/ (crash = "power" /\ Strict)
                           THEN DOMAIN recovered \cup CoveredBy(file)
                                \cup (overtaken \cap submitted) ELSE {},
              up <- ~(crash = "process" \/ (crash = "power" /\ Strict))
Implements == Log!Spec
=============================================================================
