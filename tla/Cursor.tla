------------------------------- MODULE Cursor -------------------------------
(***************************************************************************)
(* Cursor (packages/oblivinx3x/src/query/builder.ts:1154): a for await loop*)
(* over the documents a query matches, fetched batch by batch with a skip  *)
(* that the cursor keeps.  Other callers write between the batches, and a  *)
(* second loop over the same cursor shares its buffer.                     *)
(***************************************************************************)
EXTENDS Integers, Sequences, FiniteSets, SequencesExt

CONSTANTS
  Places,       \* the places of the documents in the order of the query
  BatchSize,    \* cursorOptions.batchSize
  Limits,       \* what the caller of limit may have given
  Skips,        \* and of skip
  Loops,        \* loops over the cursor
  MaxWrites     \* bound: inserts and deletes meanwhile

ASSUME CursorAssumption ==
  /\ Places \subseteq Nat /\ Limits \subseteq Nat \ {0} /\ Skips \subseteq Nat
  /\ BatchSize \in Nat \ {0} /\ MaxWrites \in Nat

VARIABLES
  matching,             \* the documents that match now, by place
  options,              \* the limit and skip of the query
  buffer, index, skip,  \* the fields of the cursor
  done,
  loop,                 \* of a loop: new, running, asked (awaits find), fetched, over
  delivered,            \* of a loop: what it was given
  atFirst,              \* history: what matched when the cursor was made
  inserted, deleted     \* history: what was written since

curVars == <<matching, options, buffer, index, skip, done, loop, delivered,
             atFirst, inserted, deleted>>
writes == <<matching, atFirst, inserted, deleted>>

CurTypeOK ==
  /\ matching \subseteq Places /\ \A k \in DOMAIN buffer : buffer[k] \in Places
  /\ index \in 0 .. Len(buffer) + Cardinality(Loops) /\ Len(buffer) <= BatchSize
  /\ skip \in options.skip .. options.skip + (Cardinality(Places) + MaxWrites) * Cardinality(Loops)
  /\ done \in BOOLEAN /\ loop \in [Loops -> {"new", "running", "asked", "fetched", "over"}]
  /\ \A l \in Loops : ToSet(delivered[l]) \subseteq atFirst \cup inserted

CurInit ==
  /\ matching \in SUBSET Places /\ atFirst = matching
  /\ inserted = {} /\ deleted = {}
  /\ options \in [limit : Limits, skip : Skips]
  /\ buffer = <<>> /\ index = 0 /\ skip = options.skip /\ done = FALSE
  /\ loop = [l \in Loops |-> "new"]
  /\ delivered = [l \in Loops |-> <<>>]

\* The executor's find, with the limit of the batch in place of the query's.
Find ==
  LET all == SetToSortSeq(matching, <)
  IN SubSeq(all, skip + 1, IF skip + BatchSize < Len(all) THEN skip + BatchSize ELSE Len(all))

\* The loop's next turn: the buffer's next document, or else another batch.
Turn(l) ==
  /\ loop[l] \in {"new", "running"}
  /\ \/ /\ index < Len(buffer)
        /\ index' = index + 1
        /\ delivered' = [delivered EXCEPT ![l] = Append(@, buffer[index'])]
        /\ loop' = [loop EXCEPT ![l] = "running"]
     \/ /\ index >= Len(buffer)
        /\ loop' = [loop EXCEPT ![l] = IF done THEN "over" ELSE "asked"]
        /\ UNCHANGED <<index, delivered>>
  /\ UNCHANGED <<writes, options, buffer, skip, done>>

\* find answers with documents.
Batch(l) ==
  LET results == Find IN
  /\ loop[l] = "asked" /\ results # <<>>
  /\ buffer' = results /\ index' = 0
  /\ skip' = skip + Len(results)
  /\ done' = (done \/ Len(results) < BatchSize)
  /\ loop' = [loop EXCEPT ![l] = "fetched"]
  /\ UNCHANGED <<writes, options, delivered>>

\* The loop goes on from its await, to a document unless other loops have taken
\* the buffer's all.
Resume(l) ==
  /\ loop[l] = "fetched"
  /\ index' = index + 1
  /\ delivered' = IF index < Len(buffer)
                  THEN [delivered EXCEPT ![l] = Append(@, buffer[index'])] ELSE delivered
  /\ loop' = [loop EXCEPT ![l] = "running"]
  /\ UNCHANGED <<writes, options, buffer, skip, done>>

\* find answers with none.
NoBatch(l) ==
  /\ loop[l] = "asked" /\ Find = <<>>
  /\ done' = TRUE /\ loop' = [loop EXCEPT ![l] = "over"]
  /\ UNCHANGED <<writes, options, buffer, index, skip, delivered>>

\* Another caller inserts or deletes a document that matches.
Write ==
  /\ Cardinality(inserted) + Cardinality(deleted) < MaxWrites
  /\ \/ \E d \in Places \ (atFirst \cup inserted) :
          matching' = matching \cup {d} /\ inserted' = inserted \cup {d} /\ UNCHANGED deleted
     \/ \E d \in matching :
          matching' = matching \ {d} /\ deleted' = deleted \cup {d} /\ UNCHANGED inserted
  /\ UNCHANGED <<options, buffer, index, skip, done, loop, delivered, atFirst>>

CurNext ==
  \/ \E l \in Loops : Turn(l)
  \/ \E l \in Loops : Batch(l)
  \/ \E l \in Loops : Resume(l)
  \/ \E l \in Loops : NoBatch(l)
  \/ Write

CurSpec == CurInit /\ [][CurNext]_curVars

\* No other loop has begun.
Alone(l) == \A m \in Loops \ {l} : loop[m] = "new"

\* What the query's filter, sort and skip select when the cursor was made, and of it
\* what the query asked for.
Selected == LET all == SetToSortSeq(atFirst, <) IN SubSeq(all, options.skip + 1, Len(all))
Wanted == SubSeq(Selected, 1, IF options.limit < Len(Selected) THEN options.limit ELSE Len(Selected))

\* A loop that runs alone is given the documents that the query selects one after
\* another, from the skip on: exactly if nobody writes; none that was there from the
\* beginning and is within the limit is missed when it ends, if others only insert,
\* and none comes twice if they only delete.  It may be given more than the limit:
\* the size of the batch has taken its place.
CursorIsComplete ==
  \A l \in Loops : Alone(l) =>
    /\ inserted \cup deleted = {} => IsPrefix(delivered[l], Selected)
    /\ deleted = {} /\ loop[l] = "over" => ToSet(Wanted) \subseteq ToSet(delivered[l])
    /\ inserted = {} => IsInjective(delivered[l])
=============================================================================
