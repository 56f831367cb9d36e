-------------------------------- MODULE Heap --------------------------------
(***************************************************************************)
(* PriorityHeap (packages/queueovn/src/core/PriorityHeap.ts), the array of a *)
(* binary heap, and MemoryAdapter over it (adapters/MemoryAdapter.ts), which  *)
(* adds an index of the jobs in the heap and a map of all others.  Every   *)
(* call is synchronous.                                                    *)
(***************************************************************************)
EXTENDS Integers, FiniteSets, SequencesExt

CONSTANTS
  HeapIds,
  Urgencies,    \* the pairs of priority and runAt that jobs have
  Nobody,       \* no job
  Depth,        \* bound: jobs in the heap at a time
  MaxInserts    \* bound: insertions

ASSUME HeapAssumption ==
  /\ Urgencies \subseteq Nat \X Nat
  /\ Depth \in Nat \ {0} /\ MaxInserts \in Nat

VARIABLES
  heap,           \* the array of entries
  jobs,           \* PriorityHeap.jobs: ids with a job
  insertCounter,
  pendingIndex,   \* ids in the adapter's index of the heap
  store,          \* ids in the adapter's map of jobs that are not pending
  taken           \* the job the last call of pop returned

heapVars == <<heap, jobs, insertCounter, pendingIndex, store, taken>>

HeapTypeOK ==
  /\ \A i \in DOMAIN heap :
       /\ heap[i].id \in HeapIds /\ <<heap[i].priority, heap[i].runAt>> \in Urgencies
       /\ heap[i].insertedAt \in 0 .. insertCounter - 1
  /\ jobs \subseteq HeapIds /\ pendingIndex \subseteq HeapIds /\ store \subseteq HeapIds
  /\ insertCounter \in 0 .. MaxInserts
  /\ taken \in HeapIds \cup {Nobody}

HeapInit ==
  /\ heap = <<>> /\ jobs = {} /\ insertCounter = 0
  /\ pendingIndex = {} /\ store = {} /\ taken = Nobody

Compare(a, b) ==
  \/ a.priority < b.priority
  \/ a.priority = b.priority /\ a.runAt < b.runAt
  \/ a.priority = b.priority /\ a.runAt = b.runAt /\ a.insertedAt < b.insertedAt

Swap(h, i, j) == [h EXCEPT ![i] = h[j], ![j] = h[i]]

\* One turn of each loop: at keeps its value when the loop has ended, which it has after
\* as many turns as the heap is long.
Rises(s) ==
  LET parent == s.at \div 2 IN
  IF s.at > 1 /\ Compare(s.heap[s.at], s.heap[parent])
  THEN [heap |-> Swap(s.heap, s.at, parent), at |-> parent]
  ELSE s

BubbleUp(h, i) ==
  LET after[k \in 0 .. Len(h)] ==
        IF k = 0 THEN [heap |-> h, at |-> i] ELSE Rises(after[k - 1])
  IN after[Len(h)].heap

\* Mutant: the right child is compared with the parent, not with the left child.
SinksLeftFirst(s) ==
  LET children == {c \in {2 * s.at, 2 * s.at + 1} : c <= Len(s.heap) /\ Compare(s.heap[c], s.heap[s.at])}
  IN IF children = {} THEN s
     ELSE LET c == CHOOSE c \in children : \A d \in children : c >= d
          IN [heap |-> Swap(s.heap, s.at, c), at |-> c]

Sinks(s) ==
  LET places == {c \in {s.at, 2 * s.at, 2 * s.at + 1} : c <= Len(s.heap)}
      smallest == CHOOSE c \in places : \A d \in places \ {c} : Compare(s.heap[c], s.heap[d])
  IN IF smallest = s.at THEN s
     ELSE [heap |-> Swap(s.heap, s.at, smallest), at |-> smallest]

SinkDown(h, i) ==
  LET after[k \in 0 .. Len(h)] ==
        IF k = 0 THEN [heap |-> h, at |-> i] ELSE Sinks(after[k - 1])
  IN after[Len(h)].heap

\* The last entry takes the place of entry i, and moves from there up or down.
WithoutEntry(h, i) ==
  LET rest == SubSeq(Swap(h, i, Len(h)), 1, Len(h) - 1)
  IN IF i <= Len(rest) THEN SinkDown(BubbleUp(rest, i), i) ELSE rest

(***************************************************************************)
(* The calls of the adapter.                                               *)
(***************************************************************************)

\* push: insert into the heap and the index.  The queue pushes a job that is new,
\* or that it has popped before.
Push(i, p, t) ==
  LET entry == [id |-> i, priority |-> p, runAt |-> t, insertedAt |-> insertCounter] IN
  /\ i \notin pendingIndex /\ Len(heap) < Depth /\ insertCounter < MaxInserts
  /\ heap' = BubbleUp(Append(heap, entry), Len(heap) + 1)
  /\ jobs' = jobs \cup {i} /\ pendingIndex' = pendingIndex \cup {i}
  /\ insertCounter' = insertCounter + 1
  /\ taken' = Nobody /\ UNCHANGED store

\* pop at time now: nothing unless the entry at the top may run.
PopMin(now) ==
  LET top == heap[1] IN
  /\ heap # <<>> /\ top.runAt <= now
  /\ heap' = LET rest == SubSeq(Swap(heap, 1, Len(heap)), 1, Len(heap) - 1)
             IN IF rest = <<>> THEN rest ELSE SinkDown(rest, 1)
  /\ taken' = IF top.id \in jobs THEN top.id ELSE Nobody
  /\ jobs' = jobs \ {top.id} /\ pendingIndex' = pendingIndex \ {top.id}
  /\ UNCHANGED <<insertCounter, store>>

\* update: a pending job keeps its place in the heap, any other is stored.
Update(i) ==
  /\ i \notin pendingIndex
  /\ store' = store \cup {i} /\ taken' = Nobody
  /\ UNCHANGED <<heap, jobs, insertCounter, pendingIndex>>

RemoveJob(i) ==
  LET places == {k \in DOMAIN heap : heap[k].id = i} IN
  /\ heap' = IF places = {} THEN heap ELSE WithoutEntry(heap, CHOOSE k \in places : \A l \in places : k <= l)
  /\ jobs' = IF places = {} THEN jobs ELSE jobs \ {i}
  /\ pendingIndex' = pendingIndex \ {i}
  /\ store' = store \ {i} /\ taken' = Nobody
  /\ UNCHANGED insertCounter

\* clear and close.
ClearAll ==
  /\ heap' = <<>> /\ jobs' = {} /\ insertCounter' = 0
  /\ pendingIndex' = {} /\ store' = {} /\ taken' = Nobody

HeapNext ==
  \/ \E i \in HeapIds, u \in Urgencies : Push(i, u[1], u[2])
  \/ \E u \in Urgencies : PopMin(u[2])
  \/ \E i \in HeapIds : Update(i)
  \/ \E i \in HeapIds : RemoveJob(i)
  \/ ClearAll

HeapSpec == HeapInit /\ [][HeapNext]_heapVars

\* The adapter finds exactly the jobs that its heap holds, each once, after any
\* pushes, pops, removals and clears: none can be popped and not found, or found
\* and never popped.
IndexIsHeap ==
  LET held == {heap[k].id : k \in DOMAIN heap} IN
  jobs = held /\ pendingIndex = held /\ Cardinality(held) = Len(heap)

\* The heap returns what a priority queue returns: pop takes the job that comes
\* before all others, a removal from the middle disturbs no order.
Promise == INSTANCE PriorityQueue WITH entries <- ToSet(heap)
ImplementsQueue == Promise!PqSpec
=============================================================================
