----------------------------- MODULE Documents -----------------------------
(***************************************************************************)
(* What finds return while other threads write (engine/crud.rs,            *)
(* engine/index_ops.rs, index/secondary.rs).  A document is in the B+ tree *)
(* and in the memtable, and a secondary index has one document per value of*)
(* its field: the one that was inserted with it last.  Each of the three has *)
(* its lock, and no call holds two.                                        *)
(*                                                                         *)
(* A document is the value of its indexed field, 0 for none or a tombstone.*)
(* The index is one on that field alone; only top-level comparisons use it.*)
(***************************************************************************)
EXTENDS Integers, FiniteSets

CONSTANTS
  DocIds,      \* numbered in the order of their keys in the tree
  MaxField,    \* bound: values of the field
  Users,       \* threads
  MaxCalls     \* bound: calls

ASSUME DocumentsAssumption ==
  DocIds \subseteq Nat \ {0} /\ MaxField \in Nat \ {0} /\ MaxCalls \in Nat

VARIABLES
  btree, mem,   \* what the B+ tree and memtable have of each document
  indexed,     \* there is an index
  index,       \* its entries: by value the document, 0 for none
  call,        \* per user
  calls,
  meant,       \* history: documents by what was written by the calls that ended
  raced,       \* history: documents that two calls wrote at a time
  held,        \* history: by value the documents that ever had it
  moved,       \* history: documents the index does not have by their value
  touched      \* history: per find, the documents that were written meanwhile

docVars == <<btree, mem, indexed, index, call, calls, meant, raced, held, moved, touched>>
docHistory == <<meant, raced, held, moved, touched>>

FieldValues == 1 .. MaxField
Queries == [op : {"$eq", "$lt", "$lte", "$gt", "$gte"}, v : FieldValues]

Satisfies(x, f) ==
  /\ x # 0
  /\ CASE f.op = "$eq" -> x = f.v
       [] f.op = "$lt" -> x < f.v
       [] f.op = "$lte" -> x <= f.v
       [] f.op = "$gt" -> x > f.v
       [] f.op = "$gte" -> x >= f.v

Returned == [op |-> "none", at |-> "none", todo |-> {}, val |-> 0, query |-> {}, ids |-> {}, got |-> {}]

DocTypeOK ==
  /\ btree \in [DocIds -> 0 .. MaxField] /\ mem \in [DocIds -> 0 .. MaxField]
  /\ indexed \in BOOLEAN /\ index \in [FieldValues -> DocIds \cup {0}]
  /\ \A t \in Users :
       /\ call[t].op \in {"none", "insert", "update", "delete", "deleteMany", "find"}
       /\ call[t].todo \subseteq DocIds /\ call[t].got \subseteq call[t].ids
       /\ call[t].at \in {"none", "mem", "tree", "index", "scan", "merge", "found"}
  /\ calls \in 0 .. MaxCalls /\ raced \subseteq DocIds /\ moved \subseteq DocIds

DocInit ==
  /\ btree = [d \in DocIds |-> 0] /\ mem = btree
  /\ indexed \in BOOLEAN /\ index = [v \in FieldValues |-> 0]
  /\ call = [t \in Users |-> Returned] /\ calls = 0
  /\ meant = btree /\ raced = {} /\ held = [v \in FieldValues |-> {}]
  /\ moved = {} /\ touched = [t \in Users |-> {}]

Set(f, d, v) == [f EXCEPT ![d] = v]
First(ds) == CHOOSE d \in ds : \A e \in ds : d <= e
Writing(d) == \E t \in Users : d \in call[t].todo

\* A call that writes the documents ds, one after another.
Starts(t, op, at, ds, v) ==
  /\ call[t].op = "none" /\ calls < MaxCalls /\ calls' = calls + 1
  /\ call' = [call EXCEPT ![t] = [Returned EXCEPT !.op = op, !.at = at, !.todo = ds, !.val = v]]
  /\ raced' = raced \cup {d \in ds : Writing(d)}
  /\ touched' = [u \in Users |-> IF call[u].op = "find" THEN touched[u] \cup ds ELSE touched[u]]

Goes(t, at) == call' = [call EXCEPT ![t].at = at]

Value(c) == IF c.op \in {"insert", "update"} THEN c.val ELSE 0

\* The document d is written; the next one follows, or the call returns.
DocWritten(t, d, at) ==
  /\ LET left == call[t].todo \ {d}
     IN call' = [call EXCEPT ![t] = IF left = {} THEN Returned
                                    ELSE [call[t] EXCEPT !.at = at, !.todo = left]]
  /\ meant' = Set(meant, d, Value(call[t]))

(***************************************************************************)
(* insert_with_options: memtable, tree, index, and then the memtable may be*)
(* due for its flush to a table that no find reads.  A document with the id*)
(* is written over.                                                        *)
(***************************************************************************)

InsertMem(t, d, v) ==
  /\ Starts(t, "insert", "tree", {d}, v)
  /\ mem' = Set(mem, d, v)
  /\ held' = [held EXCEPT ![v] = @ \cup {d}]
  /\ UNCHANGED <<btree, indexed, index, meant, moved>>

InsertTree(t) ==
  LET d == First(call[t].todo) IN
  /\ call[t].op = "insert" /\ call[t].at = "tree"
  /\ btree' = Set(btree, d, call[t].val) /\ Goes(t, "index")
  /\ UNCHANGED <<mem, indexed, index, calls, docHistory>>

InsertIndex(t, full) ==
  LET d == First(call[t].todo) IN
  /\ call[t].op = "insert" /\ call[t].at = "index"
  /\ index' = IF indexed THEN Set(index, call[t].val, d) ELSE index
  /\ mem' = IF full THEN [e \in DocIds |-> 0] ELSE mem
  /\ DocWritten(t, d, "none")
  /\ moved' = IF indexed THEN moved \ {d} ELSE moved \cup {d}
  /\ UNCHANGED <<btree, indexed, calls, raced, held, touched>>

(***************************************************************************)
(* update_with_options and update_many with {$inc: {x: 1}}: scan, then tree*)
(* and memtable of each document, with what the scan saw plus one.  The    *)
(* index stays as it is.                                                   *)
(***************************************************************************)

Matching(v) == {d \in DocIds : btree[d] = v}

UpdateFinds(t, v, ds) ==
  /\ v < MaxField /\ ds # {}
  /\ Starts(t, "update", "tree", ds, v + 1)
  /\ UNCHANGED <<btree, mem, indexed, index, meant, held, moved>>

UpdateOne(t, v) == Matching(v) # {} /\ UpdateFinds(t, v, {First(Matching(v))})
UpdateMany(t, v) == UpdateFinds(t, v, Matching(v))

UpdateTree(t) ==
  LET d == First(call[t].todo)  v == call[t].val IN
  /\ call[t].op = "update" /\ call[t].at = "tree"
  /\ btree' = Set(btree, d, v) /\ Goes(t, "mem")
  /\ held' = [held EXCEPT ![v] = @ \cup {d}] /\ moved' = moved \cup {d}
  /\ UNCHANGED <<mem, indexed, index, calls, meant, raced, touched>>

UpdateMem(t) ==
  LET d == First(call[t].todo) IN
  /\ call[t].op = "update" /\ call[t].at = "mem"
  /\ mem' = Set(mem, d, call[t].val) /\ DocWritten(t, d, "tree")
  /\ UNCHANGED <<btree, indexed, index, calls, raced, held, moved, touched>>

(***************************************************************************)
(* delete: scan, tombstones in tree and memtable, and the index forgets the*)
(* value the scan saw, whatever document it has under it.                  *)
(***************************************************************************)

DeleteFinds(t, v) ==
  /\ Matching(v) # {} /\ Starts(t, "delete", "tree", {First(Matching(v))}, v)
  /\ UNCHANGED <<btree, mem, indexed, index, meant, held, moved>>

\* delete_many finds the documents and then takes one after another: the index
\* forgets the value it has by then.
DeleteManyFinds(t, v) ==
  /\ Matching(v) # {} /\ Starts(t, "deleteMany", "index", Matching(v), v)
  /\ UNCHANGED <<btree, mem, indexed, index, meant, held, moved>>

Forgotten(v) == IF indexed /\ v # 0 THEN Set(index, v, 0) ELSE index

DeleteManyIndex(t) ==
  /\ call[t].op = "deleteMany" /\ call[t].at = "index"
  /\ index' = Forgotten(btree[First(call[t].todo)]) /\ Goes(t, "tree")
  /\ UNCHANGED <<btree, mem, indexed, calls, docHistory>>

DeleteTree(t) ==
  LET d == First(call[t].todo) IN
  /\ call[t].op \in {"delete", "deleteMany"} /\ call[t].at = "tree"
  /\ btree' = Set(btree, d, 0) /\ Goes(t, "mem")
  /\ UNCHANGED <<mem, indexed, index, calls, docHistory>>

DeleteMem(t) ==
  LET d == First(call[t].todo) IN
  /\ call[t].op \in {"delete", "deleteMany"} /\ call[t].at = "mem"
  /\ mem' = Set(mem, d, 0)
  /\ IF call[t].op = "delete" THEN Goes(t, "index") /\ UNCHANGED meant ELSE DocWritten(t, d, "index")
  /\ UNCHANGED <<btree, indexed, index, calls, raced, held, moved, touched>>

DeleteIndex(t) ==
  /\ call[t].op = "delete" /\ call[t].at = "index"
  /\ index' = Forgotten(call[t].val) /\ DocWritten(t, First(call[t].todo), "none")
  /\ UNCHANGED <<btree, mem, indexed, calls, raced, held, moved, touched>>

(***************************************************************************)
(* create_index lists no document that is there already.                   *)
(***************************************************************************)

CreateIndex ==
  /\ ~indexed /\ indexed' = TRUE
  /\ moved' = DocIds
  /\ UNCHANGED <<btree, mem, index, call, calls, meant, raced, held, touched>>

DropIndex ==
  /\ indexed /\ indexed' = FALSE
  /\ index' = [v \in FieldValues |-> 0]
  /\ UNCHANGED <<btree, mem, call, calls, docHistory>>

\* flush_memtable, of a checkpoint.
FlushMemtable ==
  /\ mem' = [d \in DocIds |-> 0]
  /\ UNCHANGED <<btree, indexed, index, call, calls, docHistory>>

(***************************************************************************)
(* find: candidates from the index, the tree's documents, the memtable's.  *)
(***************************************************************************)

\* lookup_in_index and range_scan_index.  A range ends before the bound, and one
\* without an upper bound is empty, for Null comes first; an empty answer of the
\* index means that all documents are looked at.
Listed(f) ==
  LET ks == CASE f.op = "$eq" -> {f.v}
              [] f.op \in {"$lt", "$lte"} -> 1 .. f.v - 1
              [] OTHER -> {}
  IN {index[k] : k \in ks} \ {0}

Candidates(f) == IF indexed /\ Listed(f) # {} THEN Listed(f) ELSE DocIds

FindStarts(t, f) ==
  /\ call[t].op = "none" /\ calls < MaxCalls /\ calls' = calls + 1
  /\ call' = [call EXCEPT ![t] = [Returned EXCEPT !.op = "find", !.at = "scan",
                                    !.query = {f}, !.ids = Candidates(f)]]
  /\ touched' = [touched EXCEPT ![t] = {d \in DocIds : Writing(d)}]
  /\ UNCHANGED <<btree, mem, indexed, index, meant, raced, held, moved>>

Query(t) == CHOOSE f \in call[t].query : TRUE

\* Mutant: candidates that come from the index are not looked at again.
FindScansTrusting(t) ==
  /\ call[t].op = "find" /\ call[t].at = "scan"
  /\ call' = [call EXCEPT ![t].at = "merge",
        ![t].got = {d \in call[t].ids : btree[d] # 0 /\ (call[t].ids = DocIds => Satisfies(btree[d], Query(t)))}]
  /\ UNCHANGED <<btree, mem, indexed, index, calls, docHistory>>

FindScans(t) ==
  /\ call[t].op = "find" /\ call[t].at = "scan"
  /\ call' = [call EXCEPT ![t].at = "merge",
                          ![t].got = {d \in call[t].ids : Satisfies(btree[d], Query(t))}]
  /\ UNCHANGED <<btree, mem, indexed, index, calls, docHistory>>

FindMerges(t) ==
  /\ call[t].op = "find" /\ call[t].at = "merge"
  /\ call' = [call EXCEPT ![t].at = "found",
                          ![t].got = @ \cup {d \in call[t].ids : Satisfies(mem[d], Query(t))}]
  /\ UNCHANGED <<btree, mem, indexed, index, calls, docHistory>>

FindReturns(t) ==
  /\ call[t].op = "find" /\ call[t].at = "found"
  /\ call' = [call EXCEPT ![t] = Returned]
  /\ touched' = [touched EXCEPT ![t] = {}]
  /\ UNCHANGED <<btree, mem, indexed, index, calls, meant, raced, held, moved>>

DocNext ==
  \/ \E t \in Users :
       \/ \E d \in DocIds, v \in FieldValues : InsertMem(t, d, v)
       \/ InsertTree(t)
       \/ \E full \in BOOLEAN : InsertIndex(t, full)
       \/ \E v \in FieldValues : UpdateOne(t, v) \/ UpdateMany(t, v)
       \/ UpdateTree(t) \/ UpdateMem(t)
       \/ \E v \in FieldValues : DeleteFinds(t, v) \/ DeleteManyFinds(t, v)
       \/ DeleteManyIndex(t) \/ DeleteTree(t) \/ DeleteMem(t) \/ DeleteIndex(t)
       \/ \E f \in Queries : FindStarts(t, f)
       \/ FindScans(t) \/ FindMerges(t) \/ FindReturns(t)
  \/ CreateIndex \/ DropIndex \/ FlushMemtable

DocSpec == DocInit /\ [][DocNext]_docVars

----------------------------------------------------------------------------
(* Properties.                                                             *)

Found(t) == call[t].op = "find" /\ call[t].at = "found"

\* Between calls a document is what the last write of it made it, in the tree and
\* in the memtable if that has it - none comes back after its delete returned, in
\* a find or in the next flush - unless two calls wrote it at a time.
TreeIsWhatWasWritten ==
  \A d \in DocIds \ raced : ~Writing(d) => btree[d] = meant[d] /\ mem[d] \in {0, meant[d]}

\* What a find returns matches, if it was not written meanwhile.
FindIsSound ==
  \A t \in Users : Found(t) =>
    \A d \in call[t].got \ (touched[t] \cup raced) : Satisfies(btree[d], Query(t))

\* No value that the find asks for, or one below if it asks for a range, was ever
\* that of two documents.
Unshared(f) ==
  \A v \in FieldValues : (v = f.v \/ (f.op \in {"$lt", "$lte"} /\ v < f.v)) => Cardinality(held[v]) <= 1

\* A find returns all documents that match and are not written meanwhile: always
\* without an index and for $gt and $gte, which no index serves; for $eq, if no
\* two documents ever had the value; for $lt and $lte, if that is so for all
\* lower values, and then those the index has by their value, below the bound.
FindIsComplete ==
  \A t \in Users : Found(t) =>
    LET f == Query(t) IN
    \A d \in DocIds \ (touched[t] \cup raced \cup call[t].got) :
      Satisfies(btree[d], f) =>
        /\ call[t].ids # DocIds /\ f.op \in {"$eq", "$lt", "$lte"}
        /\ Unshared(f) => f.op # "$eq" /\ (d \in moved \/ btree[d] = f.v)

\* "Find documents matching a filter. Uses indexes for acceleration when available"
\* (engine/crud.rs:177-179): all of them.
FindReturnsAll ==
  \A t \in Users : Found(t) =>
    \A d \in DocIds \ (touched[t] \cup raced) :
      Satisfies(btree[d], Query(t)) => d \in call[t].got

DocumentsSound == DocTypeOK /\ TreeIsWhatWasWritten /\ FindIsSound /\ FindIsComplete
=============================================================================
