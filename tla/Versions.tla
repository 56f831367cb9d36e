------------------------------ MODULE Versions ------------------------------
(***************************************************************************)
(* The diffs of packages/oblivinx3x/src/versioning/VersionedDocument.ts, and *)
(* a caller that keeps the versions of a document as diffs and steps back  *)
(* and forth over them.  A document is a function on the fields it has.    *)
(***************************************************************************)
EXTENDS Integers, Sequences

CONSTANTS
  Fields, Values,
  MetaFields,      \* the version's own fields and _id, which no diff contains
  DeepEqual(_, _), \* === or the same JSON: fails of NaN and itself, and holds of
                   \* different values that are written alike
  MaxVersions      \* bound: versions kept

ASSUME VersionsAssumption ==
  /\ MetaFields \subseteq Fields /\ MaxVersions \in Nat
  /\ \A a, b \in Values : DeepEqual(a, b) \in BOOLEAN
  /\ \A a, b \in Values : DeepEqual(a, b) => DeepEqual(b, a)
  /\ \A a, b, c \in Values : DeepEqual(a, b) /\ DeepEqual(b, c) => DeepEqual(a, c)

VARIABLES
  versions,   \* history: the documents saved
  diffs,      \* from each version to the next
  shown,      \* the document the caller has now
  at          \* and its version

verVars == <<versions, diffs, shown, at>>

Documents == UNION {[D -> Values] : D \in SUBSET Fields}
DataFields(d) == DOMAIN d \ MetaFields

\* Mutant: what the newer version lacks is not looked for.
ComputeDiffKeeps(older, newer) ==
  [added    |-> [k \in DataFields(newer) \ DOMAIN older |-> newer[k]],
   modified |-> [k \in {k \in DataFields(newer) \cap DOMAIN older : ~DeepEqual(older[k], newer[k])}
                   |-> [old |-> older[k], new |-> newer[k]]],
   removed  |-> <<>>]

ComputeDiff(older, newer) ==
  [added    |-> [k \in DataFields(newer) \ DOMAIN older |-> newer[k]],
   modified |-> [k \in {k \in DataFields(newer) \cap DOMAIN older : ~DeepEqual(older[k], newer[k])}
                   |-> [old |-> older[k], new |-> newer[k]]],
   removed  |-> [k \in DataFields(older) \ DOMAIN newer |-> older[k]]]

ApplyDiff(base, diff) ==
  [k \in (DOMAIN base \ DOMAIN diff.removed) \cup DOMAIN diff.modified \cup DOMAIN diff.added |->
     IF k \in DOMAIN diff.added THEN diff.added[k]
     ELSE IF k \in DOMAIN diff.modified THEN diff.modified[k].new
     ELSE base[k]]

ReverseDiff(diff) ==
  [added    |-> diff.removed,
   modified |-> [k \in DOMAIN diff.modified |->
                   [old |-> diff.modified[k].new, new |-> diff.modified[k].old]],
   removed  |-> diff.added]

\* The same data, but for values that are written alike.
Same(a, b) == a = b \/ DeepEqual(a, b)
Agree(d, e) ==
  /\ DataFields(d) = DataFields(e)
  /\ \A k \in DataFields(d) : Same(d[k], e[k])

VerInit ==
  /\ shown \in Documents
  /\ versions = <<shown>> /\ diffs = <<>> /\ at = 1

SaveVersion(d) ==
  /\ at = Len(versions) /\ at < MaxVersions
  /\ versions' = Append(versions, d)
  /\ diffs' = Append(diffs, ComputeDiff(versions[at], d))
  /\ shown' = d /\ at' = at + 1

Back ==
  /\ at > 1 /\ at' = at - 1
  /\ shown' = ApplyDiff(shown, ReverseDiff(diffs[at - 1]))
  /\ UNCHANGED <<versions, diffs>>

Forth ==
  /\ at < Len(versions) /\ at' = at + 1
  /\ shown' = ApplyDiff(shown, diffs[at])
  /\ UNCHANGED <<versions, diffs>>

VerNext ==
  \/ \E d \in Documents : SaveVersion(d)
  \/ Back
  \/ Forth

VerSpec == VerInit /\ [][VerNext]_verVars

\* Wherever the caller steps, the document put together from diffs has the data of
\* the version that was saved there.
ShownIsTheVersion == Agree(shown, versions[at])
=============================================================================
