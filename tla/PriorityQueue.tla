--------------------------- MODULE PriorityQueue ---------------------------
(***************************************************************************)
(* What PriorityHeap promises (packages/queueovn/src/core/PriorityHeap.ts):*)
(* a set of entries of which the least is taken, by priority, then by the  *)
(* time it may run at, then first in first out.                            *)
(***************************************************************************)
EXTENDS Integers

CONSTANT Nobody   \* no id

VARIABLES
  entries,   \* the entries waiting
  taken      \* the id the last call returned

Precedes(a, b) ==
  \/ a.priority < b.priority
  \/ a.priority = b.priority /\ a.runAt < b.runAt
  \/ a.priority = b.priority /\ a.runAt = b.runAt /\ a.insertedAt < b.insertedAt

PqInit == entries = {} /\ taken = Nobody

\* A new entry is younger than all others.
PqInsert ==
  /\ \E e \in entries' \ entries :
       /\ entries' = entries \cup {e}
       /\ \A f \in entries : f.insertedAt < e.insertedAt
  /\ taken' = Nobody

PqExtract ==
  \E e \in entries :
    /\ \A f \in entries \ {e} : Precedes(e, f)
    /\ entries' = entries \ {e} /\ taken' = e.id

PqRemove == \E e \in entries : entries' = entries \ {e} /\ taken' = Nobody

PqClear == entries' = {} /\ taken' = Nobody

\* A call that concerns no entry returns none.
PqOther == entries' = entries /\ taken' = Nobody

PqNext == PqInsert \/ PqExtract \/ PqRemove \/ PqClear \/ PqOther

PqSpec == PqInit /\ [][PqNext]_<<entries, taken>>
=============================================================================
