------------------------------ MODULE Backups -------------------------------
(***************************************************************************)
(* BackupManager (packages/oblivinx3x/src/backup/BackupManager.ts) over a  *)
(* database that others write to.  A collection is a map of ids to values; *)
(* 0 is a document that does not exist.                                    *)
(*                                                                         *)
(* What it calls is modelled as the engine has it: drop takes a collection's *)
(* name from the registry and leaves its documents, which the next insert  *)
(* under that name brings back (drop_collection, engine/mod.rs:454);       *)
(* insertMany writes one document after the other and stops at the first   *)
(* that fails; a document with a known id replaces the one there is.       *)
(***************************************************************************)
EXTENDS Integers, Sequences, FiniteSets, SequencesExt

CONSTANTS
  Cols,           \* collections, in the order an import takes them
  Ids,            \* numbered in the order insertMany takes them
  MaxValue,
  MaxFiles,       \* bound: backups that are made
  MaxEdits,       \* bound: writes of others
  MaxImports,     \* bound: imports
  Policies        \* pairs of maxCount and maxAge that prune is called with; NoLimit

NoLimit == -1

ASSUME BackupAssumption ==
  /\ MaxValue \in Nat /\ MaxFiles \in Nat /\ MaxEdits \in Nat /\ MaxImports \in Nat
  /\ Ids \subseteq Nat
  /\ \A p \in Policies : p.maxCount \in Nat \cup {NoLimit} /\ p.maxAge \in Nat \cup {NoLimit}

VARIABLES
  data,       \* the values of all documents, of dropped collections too
  listed,     \* the collections of the registry
  files,      \* backups in the directory: when they were made, what they hold
  day,        \* the clock, one tick for each backup
  importing,  \* the import under way
  edits,
  imports,
  written,    \* history: documents others wrote since the import took their collection
  kept        \* history: the last prune: the files before, the policy, the files after

backupVars == <<data, listed, files, day, importing, edits, imports, written, kept>>

Rows0 == [Ids -> 0 .. MaxValue]
NoImport == [at |-> "none", from |-> <<>>, todo |-> <<>>, drop |-> FALSE, done |-> {}]
NoPrune == [before |-> <<>>, policy |-> CHOOSE p \in Policies : TRUE, day |-> 0, after |-> {}]

BackupTypeOK ==
  /\ data \in [{Cols[i] : i \in 1 .. Len(Cols)} -> Rows0]
  /\ listed \subseteq ToSet(Cols)
  /\ \A i \in 1 .. Len(files) : files[i].at \in 0 .. day /\ DOMAIN files[i].rows \subseteq ToSet(Cols)
  /\ importing.at \in {"none", "next", "dropped"}
  /\ written \subseteq ToSet(Cols) \X Ids

BackupInit ==
  /\ data = [c \in ToSet(Cols) |-> [i \in Ids |-> 0]]
  /\ listed = {} /\ files = <<>> /\ day = 0 /\ importing = NoImport
  /\ edits = 0 /\ imports = 0 /\ written = {} /\ kept = NoPrune

\* Other users of the database.
Edit(c, i, v) ==
  /\ edits < MaxEdits /\ edits' = edits + 1
  /\ c \in listed \/ v # 0
  /\ data' = [data EXCEPT ![c][i] = v] /\ listed' = listed \cup {c}
  /\ written' = written \cup {<<c, i>>}
  /\ UNCHANGED <<files, day, importing, imports, kept>>

\* exportLogical and createFull: the documents of every registered collection.
ExportLogical ==
  /\ day < MaxFiles /\ day' = day + 1
  /\ files' = Append(files, [at |-> day', rows |-> [c \in listed |-> data[c]]])
  /\ UNCHANGED <<data, listed, importing, edits, imports, written, kept>>

(***************************************************************************)
(* importLogical: collection by collection, an await after each call.      *)
(***************************************************************************)

\* A collection without documents is skipped, whether or not its documents of
\* the database should be dropped.
Holding(f) == SelectSeq(Cols, LAMBDA c : c \in DOMAIN f.rows /\ \E i \in Ids : f.rows[c][i] # 0)

ImportStarts(k, drop) ==
  /\ importing.at = "none" /\ imports < MaxImports /\ imports' = imports + 1
  /\ importing' = [at |-> "next", from |-> <<files[k]>>, todo |-> Holding(files[k]),
                   drop |-> drop, done |-> {}]
  /\ written' = {}
  /\ UNCHANGED <<data, listed, files, day, edits, kept>>

\* drop, which is tried and may fail, and the await after it.
ImportDrops ==
  /\ importing.at = "next" /\ importing.todo # <<>> /\ importing.drop
  /\ listed' = listed \ {Head(importing.todo)}
  /\ importing' = [importing EXCEPT !.at = "dropped"]
  /\ UNCHANGED <<data, files, day, edits, imports, written, kept>>

\* insertMany of the documents up to one, all of them if that is the last.
Inserted(c, upto) ==
  [data EXCEPT ![c] = [i \in Ids |->
     IF importing.from[1].rows[c][i] # 0 /\ i <= upto
     THEN importing.from[1].rows[c][i] ELSE @[i]]]

ImportInserts(upto) ==
  LET c == Head(importing.todo)
      fails == \E i \in Ids : importing.from[1].rows[c][i] # 0 /\ i > upto
  IN
  /\ importing.todo # <<>> /\ importing.at = IF importing.drop THEN "dropped" ELSE "next"
  /\ data' = Inserted(c, upto)
  /\ listed' = listed \cup {c}
  /\ written' = {w \in written : w[1] # c}
  /\ importing' = IF fails
                  THEN NoImport
                  ELSE [importing EXCEPT !.at = "next", !.todo = Tail(@), !.done = @ \cup {c}]
  /\ UNCHANGED <<files, day, edits, imports, kept>>

ImportReturns ==
  /\ importing.at = "next" /\ importing.todo = <<>>
  /\ importing' = NoImport
  /\ UNCHANGED <<data, listed, files, day, edits, imports, written, kept>>

(***************************************************************************)
(* prune: the files in the directory, newest first; those past maxCount and*)
(* those older than maxAge are deleted.                                    *)
(***************************************************************************)

Listing == SortSeq(files, LAMBDA f, g : f.at > g.at)

Excess(p) ==
  IF p.maxCount # NoLimit /\ Len(files) > p.maxCount
  THEN {Listing[i].at : i \in p.maxCount + 1 .. Len(files)} ELSE {}

TooOld(p) ==
  {f.at : f \in {g \in ToSet(files) : p.maxAge # NoLimit /\ day - g.at > p.maxAge}}

Prune(p) ==
  /\ files' = SelectSeq(files, LAMBDA f : f.at \notin Excess(p) \cup TooOld(p))
  /\ kept' = [before |-> files, policy |-> p, day |-> day, after |-> {f.at : f \in ToSet(files')}]
  /\ UNCHANGED <<data, listed, day, importing, edits, imports, written>>

BackupNext ==
  \/ \E c \in ToSet(Cols), i \in Ids, v \in 0 .. MaxValue : Edit(c, i, v)
  \/ ExportLogical
  \/ \E k \in 1 .. Len(files), drop \in BOOLEAN : ImportStarts(k, drop)
  \/ ImportDrops
  \/ \E upto \in {0} \cup Ids : ImportInserts(upto)
  \/ ImportReturns
  \/ \E p \in Policies : Prune(p)

BackupSpec == BackupInit /\ [][BackupNext]_backupVars

----------------------------------------------------------------------------
(* Properties.                                                             *)

\* Once an import has taken a collection, it is registered and every document the
\* file has of it is there as the file has it, unless somebody wrote to it since;
\* what others write during the import to collections already taken stays.
ImportRestores ==
  \A c \in importing.done : \A i \in Ids :
    importing.from[1].rows[c][i] # 0 /\ <<c, i>> \notin written =>
      c \in listed /\ data[c][i] = importing.from[1].rows[c][i]

\* prune deletes no backup that both limits of its policy spare, and leaves none
\* that one of them forbids.
PruneKeepsPolicy ==
  \A f \in ToSet(kept.before) :
    LET newer == Cardinality({g \in ToSet(kept.before) : g.at > f.at})
        p == kept.policy
    IN f.at \in kept.after <=>
         /\ p.maxCount = NoLimit \/ newer < p.maxCount
         /\ p.maxAge = NoLimit \/ kept.day - f.at <= p.maxAge

BackupsSound == BackupTypeOK /\ ImportRestores /\ PruneKeepsPolicy
=============================================================================
