------------------------------- MODULE Engine -------------------------------
(***************************************************************************)
(* The database file of OvnEngine (crates/ovn-core/src/engine): what       *)
(* inserts, updates and deletes leave in memory and in the log, what       *)
(* checkpoint() and close() write where, and what open() loads after a     *)
(* clean close or after the process was killed between any two writes.     *)
(*                                                                         *)
(* Calls come one at a time (the Node binding runs them on one thread).    *)
(* The file is its pages: header and segment directory (0 and 1, not kept  *)
(* here), the collection registry (2), then, from 3 on, log records and    *)
(* generations of B+ tree entries, one page each, appended by every save.  *)
(* Abstracted: documents larger than a page; log bytes, which the loader   *)
(* skips; and the log's replay, which yields nothing - it starts at page 2,*)
(* where no record can be decoded.                                         *)
(***************************************************************************)
EXTENDS Integers, Sequences, FiniteSets, FiniteSetsExt

CONSTANTS
  Keys,            \* documents (collection-prefixed keys)
  RecordsPerPage,  \* log records that fit a page
  FlushLimit,      \* group_commit_bytes, in records
  MaxWrites,       \* bound: writes
  MaxSaves,        \* bound: checkpoints and closes
  MaxLives         \* bound: times the database is opened

ASSUME EngineAssumption ==
  /\ IsFiniteSet(Keys)
  /\ RecordsPerPage \in Nat \ {0} /\ FlushLimit \in Nat \ {0}
  /\ MaxWrites \in Nat /\ MaxSaves \in Nat /\ MaxLives \in Nat \ {0}

VARIABLES
  up,        \* "open", "closed" after close(), "dead" after a crash
  tree,      \* BPlusTree: per key its entry
  lastWrite, \* the identifier next_txid returned last
  unflushed, \* records in WalManager.pending
  written,   \* records this WalManager has written: its offset
  wrote,     \* the memtable or L0 has entries: this session has written
  pages,     \* pages from page 2 on
  op,        \* the call being executed and the steps it has left
  lives, saves,
  saved,     \* history: per key, the live version in the newest complete
             \* generation of pages (0: none)
  from,      \* history: where that generation begins
  overrun    \* history: its first page is not one the loader reads, or
             \* something was written over it since

memory  == <<tree, unflushed, written, wrote>>
engHistory == <<saved, from, overrun>>
engVars == <<up, tree, lastWrite, unflushed, written, wrote, pages, op, lives, saves,
          saved, from, overrun>>

Entry   == [txid : 0 .. MaxWrites, tombstone : BOOLEAN]
Absent  == [txid |-> 0, tombstone |-> FALSE]
Live(e) == e.txid > 0 /\ ~e.tombstone

Hole     == [kind |-> "hole"]
Wal      == [kind |-> "wal"]
Marker   == [kind |-> "sstables"]
Registry == [kind |-> "registry"]
Doc(k, e) == [kind |-> "doc", key |-> k, entry |-> e]
PageKinds == {Hole, Wal, Marker, Registry} \cup {Doc(k, e) : k \in Keys, e \in Entry}

RegistryPage == 2

-----------------------------------------------------------------------------
(* The file                                                                *)

\* file_size() rounded up to a page.
EndOf(f) == Cardinality(DOMAIN f) + 2

\* write_at of whole pages; a write past the end leaves a hole.
Written(f, ps, page) ==
  [p \in 2 .. Max({EndOf(f) - 1} \cup ps) |->
     IF p \in ps THEN page ELSE IF p \in DOMAIN f THEN f[p] ELSE Hole]

\* Mutant: the header's wal_start_offset is taken as it is.
WalStartUnguarded == 2

\* open(): wal_start_offset, but "never before page_size * 3".
WalStart == LET wal_start_offset == 2 IN Max({wal_start_offset, 3})

\* load_btree_from_disk: pages from 3 on in order, the later one of a document
\* overriding the earlier, tombstones skipped.
Loaded(f, k) ==
  LET ps == {p \in DOMAIN f : p >= 3 /\ f[p].kind = "doc" /\ f[p].key = k
                                /\ Live(f[p].entry)}
  IN  IF ps = {} THEN 0 ELSE f[Max(ps)].entry.txid

-----------------------------------------------------------------------------
(* The log                                                                 *)

\* flush_pending with n records: they go behind the ones already written, over
\* whatever is there.
FlushWal(n) ==
  LET ps == (WalStart + written \div RecordsPerPage) ..
            (WalStart + (written + n - 1) \div RecordsPerPage)
  IN  /\ unflushed' = 0
      /\ written' = written + n
      /\ IF n = 0 THEN UNCHANGED <<pages, overrun>>
         ELSE /\ pages' = Written(pages, ps, Wal)
              /\ overrun' = (overrun \/ (from # 0 /\ Max(ps) >= from))

\* append() of an Insert, Update or Delete record: written when the group
\* limit is reached and not before.
AppendRecord ==
  IF unflushed + 1 >= FlushLimit
  THEN FlushWal(unflushed + 1)
  ELSE unflushed' = unflushed + 1 /\ UNCHANGED <<written, pages, overrun>>

-----------------------------------------------------------------------------
(* CRUD                                                                    *)

\* A write of one document: next_txid, the log, memtable and B+ tree.
\* update_many and delete_many are one of these per document.
Put(k, tombstone) ==
  /\ up = "open" /\ op.steps = <<>> /\ lastWrite < MaxWrites
  /\ lastWrite' = lastWrite + 1
  /\ tree' = [tree EXCEPT ![k] = [txid |-> lastWrite + 1, tombstone |-> tombstone]]
  /\ wrote' = TRUE
  /\ AppendRecord
  /\ UNCHANGED <<up, op, lives, saves, saved, from>>

\* insert does not look whether the id exists.
Insert(k) == Put(k, FALSE)
Update(k) == Live(tree[k]) /\ Put(k, FALSE)
Delete(k) == Live(tree[k]) /\ Put(k, TRUE)

-----------------------------------------------------------------------------
(* checkpoint() and close()                                                *)

\* Mutant: close() flushes the log where checkpoint() does.
SaveStepsWalLast(call) ==
  IF call = "checkpoint" THEN <<"tree", "registry", "wal", "header">>
  ELSE <<"marker", "tree", "registry", "wal", "header">>

\* The writes of a save, in order.
SaveSteps(call) ==
  IF call = "checkpoint" THEN <<"tree", "registry", "wal", "header">>
  ELSE <<"wal", "marker", "tree", "registry", "header">>

Idle   == [steps |-> <<>>, call |-> "none", todo |-> {}, start |-> 0]
At(s)  == op.steps # <<>> /\ Head(op.steps) = s
NextOp == [op EXCEPT !.steps = Tail(@)]

Save(call) ==
  /\ up = "open" /\ op.steps = <<>> /\ saves < MaxSaves
  /\ saves' = saves + 1
  /\ op' = [Idle EXCEPT !.steps = SaveSteps(call), !.call = call]
  /\ UNCHANGED <<up, memory, lastWrite, pages, lives, engHistory>>

Checkpoint == Save("checkpoint")
Close      == Save("close")

\* wal.flush: before the pages in close(), after them in checkpoint().
SaveWal ==
  /\ At("wal")
  /\ FlushWal(unflushed)
  /\ op' = NextOp
  /\ UNCHANGED <<up, tree, lastWrite, wrote, lives, saves, saved, from>>

\* flush_sstables_to_disk: a marker, when there are tables.
SaveMarker ==
  /\ At("marker")
  /\ pages' = IF wrote THEN Written(pages, {EndOf(pages)}, Marker) ELSE pages
  /\ op' = NextOp
  /\ UNCHANGED <<up, memory, lastWrite, lives, saves, engHistory>>

\* Mutant: a generation is written over the one before.
GenerationStartInPlace == 3

\* flush_btree_to_disk appends.
GenerationStart == EndOf(pages)

\* flush_btree_to_disk: the file's size is read, then every entry, tombstones
\* included, is written ...
SaveTree ==
  /\ At("tree") /\ op.todo = {}
  /\ LET entries == {k \in Keys : tree[k] # Absent}
     IN  op' = IF entries = {} THEN NextOp
               ELSE [op EXCEPT !.todo = entries, !.start = GenerationStart]
  /\ UNCHANGED <<up, memory, lastWrite, pages, lives, saves, engHistory>>

\* ... a page at a time.
SaveEntry(k) ==
  /\ At("tree") /\ k \in op.todo
  /\ LET n == Cardinality({j \in Keys : tree[j] # Absent}) - Cardinality(op.todo)
     IN  pages' = Written(pages, {op.start + n}, Doc(k, tree[k]))
  /\ IF op.todo # {k}
     THEN op' = [op EXCEPT !.todo = @ \ {k}] /\ UNCHANGED engHistory
     ELSE /\ op' = [NextOp EXCEPT !.todo = {}]
          /\ saved' = [j \in Keys |-> IF Live(tree[j]) THEN tree[j].txid ELSE 0]
          /\ from' = op.start
          /\ overrun' = (op.start = RegistryPage)
  /\ UNCHANGED <<up, memory, lastWrite, lives, saves>>

\* save_collection_registry.  In a new file whose log was never written the
\* first generation begins on this very page.
SaveRegistry ==
  /\ At("registry")
  /\ pages' = Written(pages, {RegistryPage}, Registry)
  /\ op' = NextOp
  /\ UNCHANGED <<up, memory, lastWrite, lives, saves, engHistory>>

\* Segment directory, header, sync; the call returns.
SaveHeader ==
  /\ At("header")
  /\ op' = Idle
  /\ up' = IF op.call = "close" THEN "closed" ELSE up
  /\ UNCHANGED <<memory, lastWrite, pages, lives, saves, engHistory>>

-----------------------------------------------------------------------------
(* The end of the process, and the next one                                *)

Crash ==
  /\ up = "open"
  /\ up' = "dead"
  /\ op' = Idle
  /\ UNCHANGED <<memory, lastWrite, pages, lives, saves, engHistory>>

Open ==
  /\ up # "open" /\ lives < MaxLives
  /\ up' = "open" /\ lives' = lives + 1
  /\ tree' = [k \in Keys |-> [txid |-> Loaded(pages, k), tombstone |-> FALSE]]
  /\ unflushed' = 0 /\ written' = 0 /\ wrote' = FALSE
  /\ UNCHANGED <<lastWrite, pages, op, saves, engHistory>>

EngInit ==
  /\ up = "open" /\ lives = 1 /\ saves = 0
  /\ tree = [k \in Keys |-> Absent]
  /\ lastWrite = 0 /\ unflushed = 0 /\ written = 0 /\ wrote = FALSE
  /\ pages = [p \in {} |-> Hole]
  /\ op = Idle
  /\ saved = [k \in Keys |-> 0] /\ from = 0 /\ overrun = FALSE

EngNext ==
  \/ \E k \in Keys : Insert(k) \/ Update(k) \/ Delete(k) \/ SaveEntry(k)
  \/ Checkpoint \/ Close
  \/ SaveWal \/ SaveMarker \/ SaveTree \/ SaveRegistry \/ SaveHeader
  \/ Crash \/ Open

EngSpec == EngInit /\ [][EngNext]_engVars

-----------------------------------------------------------------------------
(* Properties                                                              *)

\* Every variable has its type, and the file has no gap.
EngTypeOK ==
  /\ up \in {"open", "closed", "dead"}
  /\ tree \in [Keys -> Entry]
  /\ lastWrite \in 0 .. MaxWrites
  /\ unflushed \in 0 .. FlushLimit - 1 /\ written \in Nat /\ wrote \in BOOLEAN
  /\ DOMAIN pages = 2 .. EndOf(pages) - 1
  /\ \A p \in DOMAIN pages : pages[p] \in PageKinds
  /\ op.call \in {"none", "checkpoint", "close"} /\ op.todo \subseteq Keys
  /\ lives \in 1 .. MaxLives /\ saves \in 0 .. MaxSaves
  /\ saved \in [Keys -> 0 .. MaxWrites] /\ overrun \in BOOLEAN

\* After close() the file has every live document in its last version, wherever
\* log, marker, older generations and registry came to lie.
CloseKeepsLive ==
  up = "closed" => \A k \in Keys : Live(tree[k]) => Loaded(pages, k) = tree[k].txid

\* Killed at any moment - in the middle of the next save too - the database
\* comes back with every document that was live in the last complete
\* generation, in that version or a later one, unless the log or the registry
\* was written over that generation.
UnspoiltSaveSurvives ==
  ~overrun => \A k \in Keys : saved[k] > 0 => Loaded(pages, k) >= saved[k]

\* The log never reaches the registry: "WAL must NEVER start before offset
\* (page_size * 3)" (engine/mod.rs:223).
RegistryKept ==
  [][2 \in DOMAIN pages /\ pages[2] = Registry => pages'[2] = Registry]_engVars

\* When checkpoint() has written all it writes, the file has every live document
\* in its last version: "guaranteeing the checkpoint survives an unclean
\* shutdown" (packages/oblivinx3x/src/database.ts:597-598).
CheckpointKeepsLive ==
  op.call = "checkpoint" /\ At("header") =>
    \A k \in Keys : Live(tree[k]) => Loaded(pages, k) = tree[k].txid
=============================================================================
