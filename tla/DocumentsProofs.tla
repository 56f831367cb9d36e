-------------------------- MODULE DocumentsProofs ---------------------------
(***************************************************************************)
(* DocumentsSound for every number of threads, documents, values and calls:*)
(* what the tree, the memtable, the index and a find say of a document that*)
(* one call writes at a time.                                              *)
(*                                                                         *)
(* The calls hold no lock between their steps, so the invariant says of    *)
(* each document that nobody writes, or one call is writing, what tree and *)
(* memtable have of it at that step, and of each find what became of the   *)
(* documents that nobody has written since it took its candidates.         *)
(***************************************************************************)
EXTENDS Documents, FiniteSetTheorems, WellFoundedInduction, TLAPS

-----------------------------------------------------------------------------
(* The inductive invariant                                                 *)

Vals  == 0 .. MaxField
Places == {"none", "mem", "tree", "index", "scan", "merge", "found"}
Calls == [op : {"none", "insert", "update", "delete", "deleteMany", "find"}, at : Places,
          todo : SUBSET DocIds, val : Vals, query : SUBSET Queries,
          ids : SUBSET DocIds, got : SUBSET DocIds]

Types ==
  /\ call \in [Users -> Calls]
  /\ meant \in [DocIds -> Vals]
  /\ held \in [FieldValues -> SUBSET DocIds]
  /\ touched \in [Users -> SUBSET DocIds]

Writes == {"insert", "update", "delete", "deleteMany"}

\* A call is where its kind of call can be, and has left what that leaves it.
CallShape(c) ==
  \/ c = Returned
  \/ /\ c.op = "insert" /\ c.at \in {"tree", "index"} /\ c.val # 0
     /\ \E d \in held[c.val] : c.todo = {d}
  \/ /\ c.op = "update" /\ c.at \in {"tree", "mem"} /\ c.val # 0 /\ c.todo # {}
  \/ /\ c.op = "delete" /\ c.at \in {"tree", "mem", "index"} /\ c.val # 0
     /\ \E d \in held[c.val] : c.todo = {d}
  \/ /\ c.op = "deleteMany" /\ c.at \in {"index", "tree", "mem"} /\ c.todo # {}
  \/ /\ c.op = "find" /\ c.at \in {"scan", "merge", "found"} /\ c.todo = {}
     /\ \E f \in Queries : c.query = {f}

ShapesOK == \A t \in Users : CallShape(call[t])

\* Tree and memtable have what was meant.
Clean(d) == btree[d] = meant[d] /\ mem[d] \in {0, meant[d]}

\* What a call has made of a document that it is about to write, or writes.
HalfWritten(c, d) ==
  LET atMem == c.op # "insert" /\ c.at = "mem" /\ d = First(c.todo)
      gone  == c.op = "delete" /\ c.at = "index"
  IN /\ c.op = "insert" =>
          /\ mem[d] \in {0, c.val}
          /\ btree[d] = IF c.at = "tree" THEN meant[d] ELSE c.val
     /\ atMem => /\ btree[d] = Value(c) /\ mem[d] \in {0, meant[d]}
                 /\ c.op = "update" => d \in moved
     /\ gone => btree[d] = 0 /\ mem[d] = 0
     /\ c.op # "insert" /\ ~atMem /\ ~gone => Clean(d)

\* A document that was never written by two calls at a time.
WritesOK ==
  \A d \in DocIds \ raced :
    /\ ~Writing(d) => Clean(d)
    /\ \A t \in Users : d \in call[t].todo => HalfWritten(call[t], d)
    /\ \A t, u \in Users : d \in call[t].todo /\ d \in call[u].todo => t = u

\* The history of values has the ones in the tree and those in the index.
HeldOK ==
  /\ \A v \in FieldValues : IsFiniteSet(held[v])
  /\ \A d \in DocIds : btree[d] # 0 => d \in held[btree[d]]
  /\ \A v \in FieldValues : index[v] # 0 => index[v] \in held[v]

\* No other document ever had its value.
Alone(d) == Cardinality(held[btree[d]]) <= 1

\* The index has a document that it was told of and nobody writes, if it alone had
\* its value.
IndexOK ==
  indexed =>
    \A d \in DocIds \ (raced \cup moved) :
      ~Writing(d) /\ btree[d] # 0 /\ Alone(d) => index[btree[d]] = d

\* A find that the index gave its candidates.
ListedOK(c, f) ==
  c.ids # DocIds =>
    /\ c.ids # {} /\ f.op \in {"$eq", "$lt", "$lte"}
    /\ f.op = "$eq" => c.ids \subseteq held[f.v]

\* The documents that nobody wrote since a find started.
Untouched(t) == DocIds \ (touched[t] \cup raced)

FindOK(t, f) ==
  LET c == call[t]
  IN /\ \A d \in DocIds : Writing(d) => d \in touched[t]
     /\ ListedOK(c, f)
     /\ c.ids # DocIds /\ f.op \in {"$lt", "$lte"} =>
          \A d \in Untouched(t) \ moved :
            0 < btree[d] /\ btree[d] < f.v /\ Alone(d) => d \in c.ids
     /\ c.got \subseteq c.ids
     /\ c.at # "scan" =>
          \A d \in Untouched(t) \cap c.ids : d \in c.got <=> Satisfies(btree[d], f)

FindsOK ==
  \A t \in Users : call[t].op = "find" => \A f \in call[t].query : FindOK(t, f)

IInv == DocTypeOK /\ Types /\ ShapesOK /\ WritesOK /\ HeldOK /\ IndexOK /\ FindsOK

-----------------------------------------------------------------------------
(* Sets, and the first document of a call                                  *)

LEMMA OnlyOne ==
  ASSUME NEW S, IsFiniteSet(S), Cardinality(S) <= 1, NEW x \in S, NEW y \in S
  PROVE  x = y
<1>1. Cardinality(S) \in Nat /\ Cardinality(S) # 0
  BY FS_CardinalityType, FS_EmptySet
<1>2. Cardinality(S) = 1
  BY <1>1
<1> QED  BY <1>2, FS_Singleton

LEMMA FewerInSubset ==
  ASSUME NEW S, NEW T, IsFiniteSet(T), S \subseteq T, Cardinality(T) <= 1
  PROVE  Cardinality(S) <= 1
<1>1. Cardinality(S) <= Cardinality(T) /\ IsFiniteSet(S)
  BY FS_Subset
<1>2. Cardinality(S) \in Nat /\ Cardinality(T) \in Nat
  BY <1>1, FS_CardinalityType
<1> QED  BY <1>1, <1>2

LEMMA FirstIsIn ==
  ASSUME NEW ds \in SUBSET DocIds, ds # {}
  PROVE  First(ds) \in ds
<1> DEFINE less == OpToRel(<, Nat)
<1>1. ds \subseteq Nat
  BY DocumentsAssumption
<1>2. IsWellFoundedOn(less, Nat)
  BY NatLessThanWellFounded
<1>3. \A m, n \in Nat : m < n => <<m, n>> \in less
  BY DEF OpToRel
<1> HIDE DEF less
<1>4. PICK d \in ds : \A e \in ds : ~ (<<e, d>> \in less)
  BY <1>1, <1>2, WFMin
<1>5. ASSUME NEW e \in ds PROVE d <= e
  <2>1. d \in Nat /\ e \in Nat /\ ~(e < d)
    BY <1>1, <1>3, <1>4
  <2> QED  BY <2>1
<1> QED  BY <1>4, <1>5 DEF First

LEMMA FirstOfOne == \A d \in DocIds : First({d}) = d
  BY FirstIsIn

\* A value gets one more document in its history.
LEMMA HeldGrows ==
  ASSUME Types, HeldOK, NEW v \in FieldValues, NEW d \in DocIds,
         held' = [held EXCEPT ![v] = @ \cup {d}]
  PROVE  /\ held' \in [FieldValues -> SUBSET DocIds] /\ d \in held'[v]
         /\ \A w \in FieldValues : held[w] \subseteq held'[w] /\ IsFiniteSet(held'[w])
<1>1. IsFiniteSet(held[v] \cup {d})
  BY FS_AddElement DEF HeldOK
<1> QED  BY <1>1 DEF Types, HeldOK

-----------------------------------------------------------------------------
(* What a step of one call leaves to the others                            *)

\* What a step may do to the histories that finds and the index rest on.
Grows ==
  /\ \A v \in FieldValues : held[v] \subseteq held'[v] /\ IsFiniteSet(held'[v])
  /\ held' \in [FieldValues -> SUBSET DocIds]
  /\ raced \subseteq raced'

\* A find sees of a step by another call what that writes, and it writes only
\* documents that count as touched.
LEMMA FindsStay ==
  ASSUME IInv, Grows, HeldOK',
         \A u \in Users : call'[u].op = "find" =>
           /\ call'[u] = call[u] /\ touched[u] \subseteq touched'[u]
           /\ \A d \in DocIds : Writing(d)' => d \in touched'[u],
         \A d \in DocIds : ~Writing(d) =>
           btree'[d] = btree[d] /\ (d \notin moved' => d \notin moved)
  PROVE  FindsOK'
<1> SUFFICES ASSUME NEW t \in Users, call'[t].op = "find", NEW f \in call'[t].query
             PROVE  FindOK(t, f)'
  BY DEF FindsOK
<1>0. PICK c \in Calls : call[t] = c
  BY DEF IInv, Types
<1>1. call'[t] = c /\ f \in c.query /\ c.op = "find"
  BY <1>0
<1>2. /\ \A d \in DocIds : Writing(d) => d \in touched[t]
      /\ ListedOK(c, f) /\ c.got \subseteq c.ids
      /\ c.ids # DocIds /\ f.op \in {"$lt", "$lte"} =>
           \A d \in Untouched(t) \ moved :
             0 < btree[d] /\ btree[d] < f.v /\ Alone(d) => d \in c.ids
      /\ c.at # "scan" =>
           \A d \in Untouched(t) \cap c.ids : d \in c.got <=> Satisfies(btree[d], f)
  BY <1>0, <1>1 DEF IInv, FindsOK, FindOK
<1>3. f \in Queries
  BY <1>1 DEF Calls
<1>4. ASSUME NEW d \in Untouched(t)'
      PROVE  d \in Untouched(t) /\ ~Writing(d) /\ btree'[d] = btree[d] /\ d \in DocIds
  <2>1. d \in Untouched(t) /\ d \in DocIds
    BY <1>4 DEF Untouched, Grows
  <2>2. ~Writing(d)
    BY <1>2, <2>1 DEF Untouched
  <2> QED  BY <2>1, <2>2
<1>5. ASSUME NEW d \in Untouched(t)', Alone(d)', btree[d] # 0 PROVE Alone(d)
  <2>1. btree[d] \in FieldValues
    BY <1>4, <1>5 DEF IInv, DocTypeOK, FieldValues
  <2>2. btree'[d] = btree[d]
    BY <1>4
  <2>3. held[btree[d]] \subseteq held'[btree[d]] /\ IsFiniteSet(held'[btree[d]])
    BY <2>1 DEF Grows
  <2> QED  BY <1>5, <2>2, <2>3, FewerInSubset DEF Alone
<1>6. ListedOK(c, f)'
  <2>1. f.v \in FieldValues
    BY <1>3 DEF Queries
  <2> QED  BY <1>2, <2>1 DEF ListedOK, Grows
<1>7. ASSUME c.ids # DocIds, f.op \in {"$lt", "$lte"}, NEW d \in Untouched(t)' \ moved',
             0 < btree'[d], btree'[d] < f.v, Alone(d)'
      PROVE  d \in c.ids
  <2>1. d \notin moved
    BY <1>4, <1>7
  <2>2. btree'[d] = btree[d] /\ d \in Untouched(t) /\ btree[d] # 0
    BY <1>4, <1>7
  <2> QED  BY <1>2, <1>5, <1>7, <2>1, <2>2
<1>8. ASSUME c.at # "scan", NEW d \in Untouched(t)' \cap c.ids
      PROVE  d \in c.got <=> Satisfies(btree'[d], f)
  BY <1>2, <1>4, <1>8
<1>9. ASSUME NEW d \in DocIds, Writing(d)' PROVE d \in touched'[t]
  BY <1>1, <1>9
<1> QED  BY <1>1, <1>2, <1>6, <1>7, <1>8, <1>9 DEF FindOK

\* The index keeps what it has, if one document only is written and told it.
LEMMA IndexStays ==
  ASSUME IInv, Grows, HeldOK', NEW d \in DocIds, indexed' => indexed,
         \A e \in DocIds \ {d} :
           /\ btree'[e] = btree[e] /\ (e \in moved => e \in moved')
           /\ Writing(e) => Writing(e)',
         \A v \in FieldValues : index'[v] = index[v] \/ d \in held'[v],
         btree' \in [DocIds -> Vals],
         d \notin raced' \cup moved' /\ ~Writing(d)' /\ btree'[d] # 0 /\ Alone(d)' =>
           index'[btree'[d]] = d
  PROVE  IndexOK'
<1> SUFFICES ASSUME indexed', NEW e \in DocIds \ (raced' \cup moved'), ~Writing(e)',
                    btree'[e] # 0, Alone(e)'
             PROVE  index'[btree'[e]] = e
  BY DEF IndexOK
<1>1. CASE e = d
  BY <1>1
<1>2. CASE e # d
  <2> DEFINE v == btree[e]
  <2>1. v \in FieldValues /\ btree'[e] = v
    BY <1>2 DEF FieldValues, Vals
  <2>2. e \notin raced \cup moved /\ ~Writing(e)
    BY <1>2 DEF Grows
  <2>3. Cardinality(held'[v]) <= 1 /\ e \in held'[v] /\ IsFiniteSet(held'[v])
    BY <2>1 DEF Alone, HeldOK
  <2>4. Alone(e)
    BY <2>1, <2>3, FewerInSubset DEF Grows, Alone
  <2>5. index[v] = e
    BY <1>2, <2>1, <2>2, <2>4 DEF IInv, IndexOK
  <2>6. d \notin held'[v]
    BY <1>2, <2>3, OnlyOne
  <2> QED  BY <2>1, <2>5, <2>6
<1> QED  BY <1>1, <1>2

\* A document that another call writes or nobody: other documents' steps leave it.
LEMMA OthersHalfWritten ==
  ASSUME NEW c, NEW e \in DocIds, HalfWritten(c, e),
         btree'[e] = btree[e], meant'[e] = meant[e], mem'[e] \in {0, mem[e]},
         e \in moved => e \in moved'
  PROVE  HalfWritten(c, e)'
  BY DEF HalfWritten, Clean

\* The next step of a call on its document d.
LEMMA WriterKeepsWrites ==
  ASSUME IInv, NEW t \in Users, call[t].todo # {}, NEW d, d = First(call[t].todo),
         \A u \in Users \ {t} : call'[u] = call[u], raced' = raced,
         call'[t].todo \in {call[t].todo, call[t].todo \ {d}},
         \A e \in DocIds \ {d} :
           /\ btree'[e] = btree[e] /\ meant'[e] = meant[e] /\ mem'[e] \in {0, mem[e]}
           /\ e \in moved => e \in moved',
         d \notin raced => IF d \in call'[t].todo THEN HalfWritten(call[t], d)'
                           ELSE Clean(d)',
         \A e \in call'[t].todo \ {d} : Clean(e)' => HalfWritten(call[t], e)'
  PROVE  WritesOK'
<1>1. d \in call[t].todo /\ d \in DocIds
  BY FirstIsIn DEF IInv, DocTypeOK
<1>2. ASSUME NEW e \in DocIds \ raced, e # d, ~Writing(e)' PROVE Clean(e)'
  <2>1. ~Writing(e)
    BY <1>2 DEF Writing
  <2> QED  BY <1>2, <2>1 DEF IInv, WritesOK, Clean
<1>3. ASSUME NEW e \in DocIds \ raced, e # d, NEW u \in Users, e \in call'[u].todo
      PROVE  HalfWritten(call[u], e)'
  <2>1. e \in call[u].todo
    BY <1>3
  <2>2. HalfWritten(call[u], e)
    BY <1>3, <2>1 DEF IInv, WritesOK
  <2>3. CASE u # t
    <3>1. call'[u] = call[u]
      BY <2>3
    <3>2. PICK c : c = call[u]
      OBVIOUS
    <3>3. HalfWritten(c, e)'
      BY <1>3, <2>2, <3>2, OthersHalfWritten
    <3> QED  BY <3>1, <3>2, <3>3 DEF HalfWritten, Clean, Value
  <2>4. CASE u = t
    <3>1. call[t].op \notin {"insert", "delete"}
      BY <1>1, <1>3, <2>1, <2>4 DEF IInv, ShapesOK, CallShape, Returned
    <3>2. Clean(e)
      BY <1>3, <2>2, <2>4, <3>1 DEF HalfWritten
    <3>3. Clean(e)'
      BY <1>3, <3>2 DEF Clean
    <3> QED  BY <1>3, <2>4, <3>3
  <2> QED  BY <2>3, <2>4
<1>4. ASSUME NEW e \in DocIds \ raced, NEW u \in Users, NEW w \in Users,
             e \in call'[u].todo, e \in call'[w].todo
      PROVE  u = w
  <2>1. e \in call[u].todo /\ e \in call[w].todo
    BY <1>4
  <2> QED  BY <1>4, <2>1 DEF IInv, WritesOK
<1>5. ASSUME d \notin raced, NEW u \in Users, d \in call'[u].todo
      PROVE  u = t
  <2>1. d \in call[u].todo
    BY <1>5
  <2> QED  BY <1>1, <1>5, <2>1 DEF IInv, WritesOK
<1>6. ASSUME d \notin raced, ~Writing(d)' PROVE Clean(d)'
  BY <1>6 DEF Writing
<1> QED  BY <1>2, <1>3, <1>4, <1>5, <1>6 DEF WritesOK

\* A call that will write the documents ds, and may have written one of them.
LEMMA StartKeepsWrites ==
  ASSUME IInv, NEW t \in Users, call[t].todo = {}, NEW ds \in SUBSET DocIds,
         \A u \in Users \ {t} : call'[u] = call[u], call'[t].todo = ds,
         raced' = raced \cup {d \in ds : Writing(d)},
         UNCHANGED <<btree, meant, moved>>,
         \A e \in DocIds \ ds : mem'[e] = mem[e],
         \A e \in ds : Clean(e) => HalfWritten(call[t], e)'
  PROVE  WritesOK'
<1>1. ASSUME NEW e \in DocIds \ raced' PROVE e \notin raced /\ (e \in ds => ~Writing(e))
  BY <1>1
<1>2. ASSUME NEW e \in DocIds \ raced', ~Writing(e)' PROVE Clean(e)'
  <2>1. ~Writing(e) /\ e \notin ds
    BY <1>2 DEF Writing
  <2> QED  BY <1>1, <1>2, <2>1 DEF IInv, WritesOK, Clean
<1>3. ASSUME NEW e \in DocIds \ raced', NEW u \in Users, e \in call'[u].todo
      PROVE  HalfWritten(call[u], e)'
  <2>1. CASE u = t
    <3>1. Clean(e)
      BY <1>1, <1>3, <2>1 DEF IInv, WritesOK
    <3> QED  BY <1>3, <2>1, <3>1
  <2>2. CASE u # t
    <3>1. call'[u] = call[u] /\ e \in call[u].todo
      BY <1>3, <2>2
    <3>2. e \notin ds /\ HalfWritten(call[u], e)
      BY <1>1, <1>3, <3>1 DEF IInv, WritesOK, Writing
    <3>3. PICK c : c = call[u]
      OBVIOUS
    <3>4. HalfWritten(c, e)'
      BY <1>3, <3>2, <3>3, OthersHalfWritten
    <3> QED  BY <3>1, <3>3, <3>4 DEF HalfWritten, Clean, Value
  <2> QED  BY <2>1, <2>2
<1>4. ASSUME NEW e \in DocIds \ raced', NEW u \in Users, NEW w \in Users,
             e \in call'[u].todo, e \in call'[w].todo
      PROVE  u = w
  <2>1. CASE e \in ds
    BY <1>1, <1>4, <2>1 DEF Writing
  <2>2. CASE e \notin ds
    <3>1. e \in call[u].todo /\ e \in call[w].todo
      BY <1>4, <2>2
    <3> QED  BY <1>1, <1>4, <3>1 DEF IInv, WritesOK
  <2> QED  BY <2>1, <2>2
<1> QED  BY <1>2, <1>3, <1>4 DEF WritesOK

LEMMA ShapesStay ==
  ASSUME IInv, NEW t \in Users, \A u \in Users \ {t} : call'[u] = call[u],
         CallShape(call[t])', Grows
  PROVE  ShapesOK'
<1> SUFFICES ASSUME NEW u \in Users, u # t PROVE CallShape(call[u])'
  BY DEF ShapesOK
<1>1. call'[u] = call[u] /\ CallShape(call[u]) /\ call[u] \in Calls
  BY DEF IInv, ShapesOK, Types
<1>2. ASSUME call[u].val \in FieldValues, NEW d \in held[call[u].val]
      PROVE  d \in held'[call[u].val]
  BY <1>2 DEF Grows
<1>3. call[u].val # 0 => call[u].val \in FieldValues
  BY <1>1, DocumentsAssumption DEF Calls, Vals, FieldValues
<1> QED  BY <1>1, <1>2, <1>3 DEF CallShape

\* A find's touched documents are those that are being written, and more.
LEMMA FindsSeeWriters ==
  ASSUME IInv, NEW u \in Users, call[u].op = "find"
  PROVE  \A d \in DocIds : Writing(d) => d \in touched[u]
<1>1. PICK f : f \in call[u].query
  BY DEF IInv, ShapesOK, CallShape, Returned
<1> QED  BY <1>1 DEF IInv, FindsOK, FindOK

LEMMA ReturnedIsCall == Returned \in Calls
  BY DocumentsAssumption DEF Returned, Calls, Places, Vals

\* The step that starts a write of the documents ds.
LEMMA StartKeeps ==
  ASSUME IInv, NEW t \in Users, NEW op \in Writes,
         NEW at \in {"mem", "tree", "index"}, NEW ds \in SUBSET DocIds, ds # {},
         NEW v \in FieldValues, Starts(t, op, at, ds, v), Grows, HeldOK',
         UNCHANGED <<btree, indexed, index, meant, moved>>,
         mem' \in [DocIds -> Vals], \A e \in DocIds \ ds : mem'[e] = mem[e],
         CallShape(call[t])',
         \A e \in ds : Clean(e) => HalfWritten(call[t], e)'
  PROVE  IInv'
<1> DEFINE c == [Returned EXCEPT !.op = op, !.at = at, !.todo = ds, !.val = v]
<1>1. call[t] = Returned /\ call \in [Users -> Calls]
  BY DEF IInv, ShapesOK, CallShape, Types, Starts
<1>2. c \in Calls /\ c.todo = ds /\ c.op = op /\ c.got = {} /\ c.ids = {} /\ c.at = at
  <2>1. v \in Vals /\ op \in {"none", "insert", "update", "delete", "deleteMany", "find"}
    BY DocumentsAssumption DEF FieldValues, Vals, Writes
  <2>2. /\ c.todo = ds /\ c.op = op /\ c.at = at /\ c.got = {} /\ c.ids = {}
    BY DEF Returned
  <2> QED  BY <2>1, <2>2, ReturnedIsCall DEF Calls, Places
<1>3. call' = [call EXCEPT ![t] = c]
  BY DEF Starts
<1> HIDE DEF c
<1>4. /\ call' \in [Users -> Calls] /\ call'[t] = c
      /\ \A u \in Users \ {t} : call'[u] = call[u]
  BY <1>1, <1>2, <1>3
<1>5. /\ calls' \in 0 .. MaxCalls
      /\ raced' = raced \cup {d \in ds : Writing(d)}
      /\ touched' = [u \in Users |-> IF call[u].op = "find" THEN touched[u] \cup ds
                                     ELSE touched[u]]
  BY DocumentsAssumption DEF Starts, IInv, DocTypeOK
<1>6. touched' \in [Users -> SUBSET DocIds]
  BY <1>5 DEF IInv, Types
<1>7. Types'
  BY <1>4, <1>6 DEF IInv, Types, Grows
<1>8. DocTypeOK'
  <2>1. ASSUME NEW u \in Users PROVE call'[u].got \subseteq call'[u].ids
    BY <1>2, <1>4 DEF IInv, DocTypeOK
  <2>2. ASSUME NEW u \in Users
        PROVE  /\ call'[u].op \in Writes \cup {"none", "find"}
               /\ call'[u].at \in Places /\ call'[u].todo \subseteq DocIds
    BY <1>4 DEF Calls, Writes, Places
  <2>3. /\ btree' \in [DocIds -> 0 .. MaxField] /\ mem' \in [DocIds -> 0 .. MaxField]
        /\ indexed' \in BOOLEAN /\ index' \in [FieldValues -> DocIds \cup {0}]
        /\ raced' \subseteq DocIds /\ moved' \subseteq DocIds
    BY <1>5 DEF IInv, DocTypeOK, Vals
  <2> QED  BY <1>5, <2>1, <2>2, <2>3 DEF DocTypeOK, Writes, Places
<1>9. ShapesOK'
  BY <1>4, ShapesStay
<1>10. WritesOK'
  BY <1>1, <1>2, <1>4, <1>5, StartKeepsWrites DEF Returned
<1>11. \A e \in DocIds : Writing(e)' <=> Writing(e) \/ e \in ds
  <2>1. ASSUME NEW e \in DocIds, Writing(e)' PROVE Writing(e) \/ e \in ds
    BY <1>2, <1>4, <2>1 DEF Writing
  <2>2. ASSUME NEW e \in DocIds, Writing(e) PROVE Writing(e)'
    BY <1>1, <1>4, <2>2 DEF Writing, Returned
  <2>3. ASSUME NEW e \in ds PROVE Writing(e)'
    BY <1>2, <1>4 DEF Writing
  <2> QED  BY <2>1, <2>2, <2>3
<1>12. IndexOK'
  <2>1. PICK d \in DocIds : d \in ds
    OBVIOUS
  <2>2. btree' \in [DocIds -> Vals]
    BY DEF IInv, DocTypeOK, Vals
  <2> QED  BY <1>11, <2>1, <2>2, IndexStays
<1>13. FindsOK'
  <2>1. ASSUME NEW u \in Users, call'[u].op = "find"
        PROVE  /\ call'[u] = call[u] /\ touched[u] \subseteq touched'[u]
               /\ \A d \in DocIds : Writing(d)' => d \in touched'[u]
    <3>1. u # t
      BY <1>2, <1>4, <2>1 DEF Writes
    <3>2. call[u].op = "find" /\ call'[u] = call[u]
      BY <1>4, <2>1, <3>1
    <3>3. touched'[u] = touched[u] \cup ds
      BY <1>5, <3>2
    <3> QED  BY <1>11, <3>2, <3>3, FindsSeeWriters
  <2> QED  BY <2>1, FindsStay
<1> QED  BY <1>7, <1>8, <1>9, <1>10, <1>12, <1>13 DEF IInv

\* The next step of a call on its document d.
LEMMA WriteKeeps ==
  ASSUME IInv, NEW t \in Users, call[t].todo # {}, NEW d, d = First(call[t].todo),
         call' \in [Users -> Calls], \A u \in Users \ {t} : call'[u] = call[u],
         call'[t].op # "find", call'[t].got \subseteq call'[t].ids, CallShape(call[t])',
         call'[t].todo \in {call[t].todo, call[t].todo \ {d}},
         UNCHANGED <<indexed, calls, raced, touched>>, Grows, HeldOK',
         btree' \in [DocIds -> Vals], mem' \in [DocIds -> Vals],
         meant' \in [DocIds -> Vals], index' \in [FieldValues -> DocIds \cup {0}],
         moved' \subseteq DocIds,
         \A e \in DocIds \ {d} :
           /\ btree'[e] = btree[e] /\ meant'[e] = meant[e] /\ mem'[e] \in {0, mem[e]}
           /\ e \in moved <=> e \in moved',
         d \notin raced => IF d \in call'[t].todo THEN HalfWritten(call[t], d)'
                           ELSE Clean(d)',
         \A e \in call'[t].todo \ {d} : Clean(e)' => HalfWritten(call[t], e)',
         \A v \in FieldValues : index'[v] = index[v] \/ d \in held'[v],
         d \notin raced' \cup moved' /\ ~Writing(d)' /\ btree'[d] # 0 /\ Alone(d)' =>
           (indexed' => index'[btree'[d]] = d)
  PROVE  IInv'
<1>1. d \in call[t].todo /\ d \in DocIds
  BY FirstIsIn DEF IInv, DocTypeOK
<1>2. Types'
  BY DEF IInv, Types, Grows
<1>3. DocTypeOK'
  <2>1. ASSUME NEW u \in Users PROVE call'[u].got \subseteq call'[u].ids
    BY DEF IInv, DocTypeOK
  <2>2. ASSUME NEW u \in Users
        PROVE  /\ call'[u].op \in Writes \cup {"none", "find"}
               /\ call'[u].at \in Places /\ call'[u].todo \subseteq DocIds
    BY DEF Calls, Writes, Places
  <2>3. /\ btree' \in [DocIds -> 0 .. MaxField] /\ mem' \in [DocIds -> 0 .. MaxField]
        /\ indexed' \in BOOLEAN /\ raced' \subseteq DocIds /\ calls' \in 0 .. MaxCalls
    BY DEF IInv, DocTypeOK, Vals
  <2> QED  BY <2>1, <2>2, <2>3 DEF DocTypeOK, Writes, Places
<1>4. ShapesOK'
  BY ShapesStay
<1>5. WritesOK'
  BY WriterKeepsWrites
<1>6. /\ \A e \in DocIds : Writing(e)' => Writing(e)
      /\ \A e \in DocIds \ {d} : Writing(e) => Writing(e)'
  <2>1. ASSUME NEW e \in DocIds, NEW u \in Users, e \in call'[u].todo PROVE Writing(e)
    BY <2>1 DEF Writing
  <2>2. ASSUME NEW e \in DocIds \ {d}, NEW u \in Users, e \in call[u].todo PROVE Writing(e)'
    BY <2>2 DEF Writing
  <2> QED  BY <2>1, <2>2 DEF Writing
<1>7. IndexOK'
  <2>1. CASE indexed'
    BY <1>1, <1>6, <2>1, IndexStays
  <2>2. CASE ~indexed'
    BY <2>2 DEF IndexOK
  <2> QED  BY <2>1, <2>2
<1>8. FindsOK'
  <2>1. ASSUME NEW u \in Users, call'[u].op = "find"
        PROVE  /\ call'[u] = call[u] /\ touched[u] \subseteq touched'[u]
               /\ \A e \in DocIds : Writing(e)' => e \in touched'[u]
    BY <1>6, <2>1, FindsSeeWriters
  <2>2. ASSUME NEW e \in DocIds, ~Writing(e)
        PROVE  btree'[e] = btree[e] /\ (e \notin moved' => e \notin moved)
    BY <1>1, <2>2 DEF Writing
  <2> QED  BY <2>1, <2>2, FindsStay
<1> QED  BY <1>2, <1>3, <1>4, <1>5, <1>7, <1>8 DEF IInv

-----------------------------------------------------------------------------
(* The steps                                                               *)

\* Nothing is added to the values that documents had.
LEMMA HeldStays ==
  ASSUME IInv, held' = held, raced \subseteq raced'
  PROVE  Grows
  BY DEF Grows, IInv, Types, HeldOK

LEMMA InsertMemKeeps ==
  ASSUME IInv, NEW t \in Users, NEW d \in DocIds, NEW v \in FieldValues, InsertMem(t, d, v)
  PROVE  IInv'
<1>1. /\ Starts(t, "insert", "tree", {d}, v)
      /\ mem' = Set(mem, d, v)
      /\ held' = [held EXCEPT ![v] = @ \cup {d}]
      /\ UNCHANGED <<btree, indexed, index, meant, moved>>
  BY DEF InsertMem
<1>2. /\ held' \in [FieldValues -> SUBSET DocIds] /\ d \in held'[v]
      /\ \A w \in FieldValues : held[w] \subseteq held'[w] /\ IsFiniteSet(held'[w])
  BY <1>1, HeldGrows DEF IInv
<1>3. Grows
  BY <1>1, <1>2 DEF Grows, Starts
<1>4. HeldOK'
  <2>1. \A e \in DocIds : btree[e] # 0 => btree[e] \in FieldValues
    BY DEF IInv, DocTypeOK, FieldValues
  <2> QED  BY <1>1, <1>2, <2>1 DEF IInv, HeldOK
<1>5. /\ mem' \in [DocIds -> Vals] /\ mem'[d] = v
      /\ \A e \in DocIds \ {d} : mem'[e] = mem[e]
  BY <1>1 DEF IInv, DocTypeOK, Set, Vals, FieldValues
<1>6. /\ call'[t].op = "insert" /\ call'[t].at = "tree" /\ call'[t].val = v
      /\ call'[t].todo = {d}
  BY <1>1 DEF Starts, IInv, Types, Returned
<1>7. v # 0
  BY DEF FieldValues
<1>8. CallShape(call[t])'
  BY <1>2, <1>6, <1>7 DEF CallShape
<1>9. Clean(d) => HalfWritten(call[t], d)'
  BY <1>1, <1>5, <1>6 DEF Clean, HalfWritten
<1> QED  BY <1>1, <1>3, <1>4, <1>5, <1>8, <1>9, StartKeeps DEF Writes

\* update, delete and delete_many start with what they find.
LEMMA FindsKeep ==
  ASSUME IInv, NEW t \in Users, NEW op \in {"update", "delete", "deleteMany"},
         NEW at \in {"tree", "index"}, NEW ds \in SUBSET DocIds, ds # {},
         NEW v \in FieldValues, Starts(t, op, at, ds, v),
         UNCHANGED <<btree, mem, indexed, index, meant, held, moved>>,
         op = "deleteMany" <=> at = "index",
         op = "delete" => \E d \in held[v] : ds = {d}
  PROVE  IInv'
<1>1. Grows
  BY HeldStays DEF Starts
<1>2. HeldOK'
  BY DEF IInv, HeldOK
<1>3. /\ call'[t].op = op /\ call'[t].at = at /\ call'[t].val = v
      /\ call'[t].todo = ds
  BY DEF Starts, IInv, Types, Returned
<1>4. v # 0
  BY DEF FieldValues
<1>5. CallShape(call[t])'
  BY <1>3, <1>4 DEF CallShape
<1>6. \A e \in ds : Clean(e) => HalfWritten(call[t], e)'
  BY <1>3 DEF Clean, HalfWritten
<1>7. mem' \in [DocIds -> Vals]
  BY DEF IInv, DocTypeOK, Vals
<1> QED  BY <1>1, <1>2, <1>5, <1>6, <1>7, StartKeeps DEF Writes

LEMMA ScansKeep ==
  ASSUME IInv, NEW t \in Users, NEW v \in FieldValues,
         UpdateOne(t, v) \/ UpdateMany(t, v) \/ DeleteFinds(t, v) \/ DeleteManyFinds(t, v)
  PROVE  IInv'
<1>1. Matching(v) \in SUBSET DocIds
  BY DEF Matching
<1>2. ASSUME Matching(v) # {}
      PROVE  {First(Matching(v))} \in SUBSET DocIds /\ First(Matching(v)) \in Matching(v)
  BY <1>1, <1>2, FirstIsIn
<1>3. ASSUME NEW ds \in SUBSET DocIds, UpdateFinds(t, v, ds) PROVE IInv'
  <2>1. v + 1 \in FieldValues
    BY <1>3, DocumentsAssumption DEF UpdateFinds, FieldValues
  <2> QED  BY <1>3, <2>1, FindsKeep DEF UpdateFinds
<1>4. CASE UpdateOne(t, v) \/ UpdateMany(t, v)
  BY <1>1, <1>2, <1>3, <1>4 DEF UpdateOne, UpdateMany
<1>5. CASE DeleteFinds(t, v)
  <2>1. Matching(v) # {}
    BY <1>5 DEF DeleteFinds
  <2>2. PICK d \in DocIds : d = First(Matching(v)) /\ btree[d] = v
    BY <1>2, <2>1 DEF Matching
  <2>3. d \in held[v]
    BY <2>2 DEF IInv, HeldOK, FieldValues
  <2> QED  BY <1>5, <2>2, <2>3, FindsKeep DEF DeleteFinds
<1>6. CASE DeleteManyFinds(t, v)
  BY <1>1, <1>6, FindsKeep DEF DeleteManyFinds
<1> QED  BY <1>4, <1>5, <1>6

\* The document that a call is at, and what the call has made of it.
LEMMA AtDocument ==
  ASSUME IInv, NEW t \in Users, call[t].op \in Writes
  PROVE  /\ call[t].todo # {} /\ First(call[t].todo) \in call[t].todo
         /\ First(call[t].todo) \in DocIds
         /\ First(call[t].todo) \notin raced => HalfWritten(call[t], First(call[t].todo))
         /\ call[t].op \in {"insert", "delete"} =>
              call[t].todo = {First(call[t].todo)}
         /\ call[t].op \in {"insert", "delete"} => First(call[t].todo) \in held[call[t].val]
         /\ call[t].op # "deleteMany" => call[t].val \in FieldValues
<1>1. CallShape(call[t]) /\ call[t] \in Calls /\ call[t] # Returned
  BY DEF IInv, ShapesOK, Types, Writes, Returned
<1>2. call[t].todo # {} /\ call[t].todo \in SUBSET DocIds
  BY <1>1 DEF CallShape, Calls, Writes
<1>3. First(call[t].todo) \in call[t].todo
  BY <1>2, FirstIsIn
<1>4. call[t].op # "deleteMany" => call[t].val \in FieldValues
  BY <1>1, DocumentsAssumption DEF CallShape, Calls, Vals, FieldValues, Writes
<1>5. ASSUME call[t].op \in {"insert", "delete"}
      PROVE  /\ call[t].todo = {First(call[t].todo)}
             /\ First(call[t].todo) \in held[call[t].val]
  <2>1. PICK d \in held[call[t].val] : call[t].todo = {d}
    BY <1>1, <1>5 DEF CallShape
  <2> QED  BY <1>3, <2>1
<1> QED  BY <1>2, <1>3, <1>4, <1>5 DEF IInv, WritesOK

LEMMA GoesOn ==
  ASSUME IInv, NEW t \in Users, NEW at \in {"mem", "tree", "index"}, Goes(t, at)
  PROVE  /\ call' \in [Users -> Calls] /\ \A u \in Users \ {t} : call'[u] = call[u]
         /\ call'[t].at = at /\ call'[t].op = call[t].op /\ call'[t].todo = call[t].todo
         /\ call'[t].val = call[t].val /\ call'[t].got = call[t].got
         /\ call'[t].ids = call[t].ids
<1>1. call \in [Users -> Calls]
  BY DEF IInv, Types
<1> DEFINE c == [call[t] EXCEPT !.at = at]
<1>2. c \in Calls
  BY <1>1 DEF Calls, Places
<1>3. call' = [call EXCEPT ![t] = c]
  BY DEF Goes
<1>4. /\ c.at = at /\ c.op = call[t].op /\ c.todo = call[t].todo
      /\ c.val = call[t].val /\ c.got = call[t].got /\ c.ids = call[t].ids
  BY <1>1 DEF Calls
<1> HIDE DEF c
<1> QED  BY <1>1, <1>2, <1>3, <1>4

LEMMA OneWritten ==
  ASSUME IInv, NEW t \in Users, NEW d \in call[t].todo, call[t].op \in Writes,
         NEW at \in {"none", "tree", "index"}, DocWritten(t, d, at),
         at = "none" => call[t].todo = {d}
  PROVE  /\ call' \in [Users -> Calls] /\ \A u \in Users \ {t} : call'[u] = call[u]
         /\ call'[t].todo = call[t].todo \ {d} /\ call'[t].got \subseteq call'[t].ids
         /\ \/ call'[t] = Returned
            \/ /\ call'[t].at = at /\ at # "none" /\ call'[t].op = call[t].op
               /\ call'[t].val = call[t].val /\ call'[t].todo # {}
         /\ meant' \in [DocIds -> Vals] /\ meant'[d] = Value(call[t])
         /\ \A e \in DocIds \ {d} : meant'[e] = meant[e]
<1>1. call \in [Users -> Calls] /\ call[t].got \subseteq call[t].ids
  BY DEF IInv, Types, DocTypeOK
<1>2. d \in DocIds /\ Value(call[t]) \in Vals
  BY <1>1, DocumentsAssumption DEF Calls, Value, Vals
<1>3. /\ meant' \in [DocIds -> Vals] /\ meant'[d] = Value(call[t])
      /\ \A e \in DocIds \ {d} : meant'[e] = meant[e]
  BY <1>2 DEF DocWritten, Set, IInv, Types
<1>4. CASE call[t].todo = {d}
  <2>1. call' = [call EXCEPT ![t] = Returned]
    BY <1>4 DEF DocWritten
  <2>2. Returned.todo = {} /\ Returned.got = {} /\ Returned.op = "none"
    BY DEF Returned
  <2> QED  BY <1>1, <1>3, <1>4, <2>1, <2>2, ReturnedIsCall
<1>5. CASE call[t].todo # {d}
  <2> DEFINE left == call[t].todo \ {d}
             c == [call[t] EXCEPT !.at = at, !.todo = left]
  <2>1. left \in SUBSET DocIds /\ left # {}
    BY <1>1, <1>5 DEF Calls
  <2>2. call' = [call EXCEPT ![t] = c]
    BY <2>1 DEF DocWritten
  <2> HIDE DEF left
  <2>3. c \in Calls
    BY <1>1, <2>1, ZenonT(60) DEF Calls, Places
  <2>4. /\ c.at = at /\ c.op = call[t].op /\ c.todo = left
        /\ c.val = call[t].val /\ c.got = call[t].got /\ c.ids = call[t].ids
    BY <1>1 DEF Calls
  <2> HIDE DEF c
  <2>5. call'[t].todo = call[t].todo \ {d}
    BY <1>1, <2>2, <2>4 DEF left
  <2> QED  BY <1>1, <1>3, <1>5, <2>1, <2>2, <2>3, <2>4, <2>5
<1> QED  BY <1>4, <1>5

\* Of one function another value at d.
LEMMA SetTypes ==
  ASSUME NEW f \in [DocIds -> Vals], NEW d \in DocIds, NEW v \in Vals
  PROVE  /\ Set(f, d, v) \in [DocIds -> Vals] /\ Set(f, d, v)[d] = v
         /\ \A e \in DocIds \ {d} : Set(f, d, v)[e] = f[e]
  BY DEF Set

LEMMA InsertTreeKeeps ==
  ASSUME IInv, NEW t \in Users, InsertTree(t)
  PROVE  IInv'
<1>1. /\ call[t].op = "insert" /\ call[t].at = "tree"
      /\ btree' = Set(btree, First(call[t].todo), call[t].val) /\ Goes(t, "index")
      /\ UNCHANGED <<mem, indexed, index, calls, meant, raced, held, moved, touched>>
  BY DEF InsertTree, docHistory
<1>2. PICK d \in DocIds, v \in FieldValues :
        /\ d = First(call[t].todo) /\ v = call[t].val /\ call[t].todo = {d}
        /\ d \in held[v] /\ (d \notin raced => HalfWritten(call[t], d))
  BY <1>1, AtDocument DEF Writes
<1>3. v \in Vals /\ v # 0
  BY DEF FieldValues, Vals
<1>4. /\ btree' \in [DocIds -> Vals] /\ btree'[d] = v
      /\ \A e \in DocIds \ {d} : btree'[e] = btree[e]
  <2>1. btree \in [DocIds -> Vals] /\ btree' = Set(btree, d, v)
    BY <1>1, <1>2 DEF IInv, DocTypeOK, Vals
  <2> QED  BY <1>3, <2>1, SetTypes
<1>5. /\ call' \in [Users -> Calls] /\ \A u \in Users \ {t} : call'[u] = call[u]
      /\ call'[t].at = "index" /\ call'[t].op = "insert" /\ call'[t].todo = {d}
      /\ call'[t].val = v /\ call'[t].got \subseteq call'[t].ids
  BY <1>1, <1>2, GoesOn DEF IInv, DocTypeOK
<1>6. Grows
  BY <1>1, HeldStays
<1>7. HeldOK'
  <2>1. \A e \in DocIds : btree'[e] # 0 => e \in held'[btree'[e]]
    BY <1>1, <1>2, <1>4 DEF IInv, HeldOK
  <2> QED  BY <1>1, <2>1 DEF IInv, HeldOK
<1>8. CallShape(call[t])'
  BY <1>1, <1>2, <1>3, <1>5 DEF CallShape
<1>9. d \notin raced => HalfWritten(call[t], d)'
  BY <1>1, <1>2, <1>4, <1>5 DEF HalfWritten
<1>10. Writing(d)'
  BY <1>5 DEF Writing
<1>11. /\ mem' \in [DocIds -> Vals] /\ meant' \in [DocIds -> Vals]
       /\ index' \in [FieldValues -> DocIds \cup {0}] /\ moved' \subseteq DocIds
  BY <1>1 DEF IInv, DocTypeOK, Types, Vals
<1> QED  BY <1>1, <1>2, <1>4, <1>5, <1>6, <1>7, <1>8, <1>9, <1>10, <1>11, WriteKeeps

LEMMA InsertIndexKeeps ==
  ASSUME IInv, NEW t \in Users, NEW full \in BOOLEAN, InsertIndex(t, full)
  PROVE  IInv'
<1>1. /\ call[t].op = "insert" /\ call[t].at = "index"
      /\ DocWritten(t, First(call[t].todo), "none")
      /\ index' = IF indexed THEN Set(index, call[t].val, First(call[t].todo)) ELSE index
      /\ mem' = IF full THEN [e \in DocIds |-> 0] ELSE mem
      /\ moved' = IF indexed THEN moved \ {First(call[t].todo)}
                  ELSE moved \cup {First(call[t].todo)}
      /\ UNCHANGED <<btree, indexed, calls, raced, held, touched>>
  BY DEF InsertIndex
<1>2. PICK d \in DocIds, v \in FieldValues :
        /\ d = First(call[t].todo) /\ v = call[t].val /\ call[t].todo = {d}
        /\ d \in held[v] /\ (d \notin raced => HalfWritten(call[t], d))
  BY <1>1, AtDocument DEF Writes
<1>3. v \in Vals /\ v # 0 /\ 0 \in Vals
  BY DocumentsAssumption DEF FieldValues, Vals
<1>4. /\ call' \in [Users -> Calls] /\ \A u \in Users \ {t} : call'[u] = call[u]
      /\ call'[t] = Returned /\ call'[t].todo = {} /\ call'[t].op = "none"
      /\ call'[t].got \subseteq call'[t].ids
      /\ meant' \in [DocIds -> Vals] /\ meant'[d] = v
      /\ \A e \in DocIds \ {d} : meant'[e] = meant[e]
  <2>1. Returned.todo = {} /\ Returned.op = "none"
    BY DEF Returned
  <2> QED  BY <1>1, <1>2, <2>1, OneWritten DEF Writes, Value
<1>5. Grows
  BY <1>1, HeldStays
<1>6. /\ index' \in [FieldValues -> DocIds \cup {0}]
      /\ \A w \in FieldValues : index'[w] = index[w] \/ (w = v /\ index'[w] = d)
      /\ indexed => index'[v] = d
  <2>1. index \in [FieldValues -> DocIds \cup {0}]
    BY DEF IInv, DocTypeOK
  <2> QED  BY <1>1, <1>2, <2>1 DEF Set
<1>7. HeldOK'
  BY <1>1, <1>2, <1>6 DEF IInv, HeldOK
<1>8. CallShape(call[t])'
  BY <1>4 DEF CallShape
<1>9. mem' \in [DocIds -> Vals] /\ \A e \in DocIds : mem'[e] \in {0, mem[e]}
  BY <1>1, <1>3 DEF IInv, DocTypeOK, Vals
<1>10. d \notin raced => Clean(d)' /\ btree'[d] = v
  BY <1>1, <1>2, <1>4, <1>9 DEF HalfWritten, Clean
<1>11. /\ btree' \in [DocIds -> Vals] /\ moved' \subseteq DocIds
       /\ \A e \in DocIds \ {d} : btree'[e] = btree[e] /\ (e \in moved <=> e \in moved')
  BY <1>1, <1>2 DEF IInv, DocTypeOK, Vals
<1>12. d \notin raced' /\ indexed' => index'[btree'[d]] = d
  BY <1>1, <1>6, <1>10
<1>13. \A w \in FieldValues : index'[w] = index[w] \/ d \in held'[w]
  BY <1>1, <1>2, <1>6
<1>14. call'[t].todo = call[t].todo \ {d} /\ call[t].todo # {} /\ call'[t].op # "find"
  BY <1>2, <1>4
<1>15. \A e \in call'[t].todo \ {d} : Clean(e)' => HalfWritten(call[t], e)'
  BY <1>4
<1> QED  BY <1>1, <1>2, <1>4, <1>5, <1>6, <1>7, <1>8, <1>9, <1>10, <1>11, <1>12, <1>13,
            <1>14, <1>15, WriteKeeps, ZenonT(60)

LEMMA UpdateTreeKeeps ==
  ASSUME IInv, NEW t \in Users, UpdateTree(t)
  PROVE  IInv'
<1>1. /\ call[t].op = "update" /\ call[t].at = "tree"
      /\ btree' = Set(btree, First(call[t].todo), call[t].val) /\ Goes(t, "mem")
      /\ held' = [held EXCEPT ![call[t].val] = @ \cup {First(call[t].todo)}]
      /\ moved' = moved \cup {First(call[t].todo)}
      /\ UNCHANGED <<mem, indexed, index, calls, meant, raced, touched>>
  BY DEF UpdateTree
<1>2. PICK d \in DocIds, v \in FieldValues :
        /\ d = First(call[t].todo) /\ v = call[t].val /\ d \in call[t].todo
        /\ (d \notin raced => HalfWritten(call[t], d))
  BY <1>1, AtDocument DEF Writes
<1>3. v \in Vals /\ v # 0
  BY DEF FieldValues, Vals
<1>4. /\ btree' \in [DocIds -> Vals] /\ btree'[d] = v
      /\ \A e \in DocIds \ {d} : btree'[e] = btree[e]
  <2>1. btree \in [DocIds -> Vals] /\ btree' = Set(btree, d, v)
    BY <1>1, <1>2 DEF IInv, DocTypeOK, Vals
  <2> QED  BY <1>3, <2>1, SetTypes
<1>5. /\ call' \in [Users -> Calls] /\ \A u \in Users \ {t} : call'[u] = call[u]
      /\ call'[t].at = "mem" /\ call'[t].op = "update" /\ call'[t].todo = call[t].todo
      /\ call'[t].val = v /\ call'[t].got \subseteq call'[t].ids
  BY <1>1, <1>2, GoesOn DEF IInv, DocTypeOK
<1>6. /\ held' \in [FieldValues -> SUBSET DocIds] /\ d \in held'[v]
      /\ \A w \in FieldValues : held[w] \subseteq held'[w] /\ IsFiniteSet(held'[w])
  <2>1. held' = [held EXCEPT ![v] = @ \cup {d}]
    BY <1>1, <1>2
  <2> QED  BY <2>1, HeldGrows DEF IInv
<1>7. Grows
  BY <1>1, <1>6 DEF Grows
<1>8. HeldOK'
  <2>1. ASSUME NEW e \in DocIds, btree'[e] # 0 PROVE e \in held'[btree'[e]]
    <3>1. CASE e = d
      BY <1>4, <1>6, <3>1
    <3>2. CASE e # d
      <4>1. btree'[e] = btree[e] /\ btree[e] \in FieldValues
        BY <1>4, <2>1, <3>2 DEF Vals, FieldValues
      <4> QED  BY <1>6, <2>1, <4>1 DEF IInv, HeldOK
    <3> QED  BY <3>1, <3>2
  <2> QED  BY <1>1, <1>6, <2>1 DEF IInv, HeldOK
<1>9. CallShape(call[t])'
  BY <1>2, <1>3, <1>5 DEF CallShape
<1>10. d \notin raced => HalfWritten(call[t], d)'
  <2>1. ASSUME d \notin raced PROVE Clean(d)
    BY <1>1, <1>2, <2>1 DEF HalfWritten
  <2>2. d \in moved'
    BY <1>1, <1>2
  <2>3. d \notin raced => mem'[d] \in {0, meant'[d]}
    BY <1>1, <2>1 DEF Clean
  <2> QED  BY <1>2, <1>4, <1>5, <2>2, <2>3 DEF HalfWritten, Value
<1>11. \A e \in call'[t].todo \ {d} : Clean(e)' => HalfWritten(call[t], e)'
  BY <1>2, <1>5 DEF HalfWritten, Clean
<1>12. Writing(d)'
  BY <1>2, <1>5 DEF Writing
<1>13. /\ mem' \in [DocIds -> Vals] /\ meant' \in [DocIds -> Vals]
       /\ index' \in [FieldValues -> DocIds \cup {0}] /\ moved' \subseteq DocIds
       /\ \A e \in DocIds \ {d} : e \in moved <=> e \in moved'
  BY <1>1, <1>2 DEF IInv, DocTypeOK, Types, Vals
<1> QED  BY <1>1, <1>2, <1>4, <1>5, <1>7, <1>8, <1>9, <1>10, <1>11, <1>12, <1>13,
            WriteKeeps

LEMMA UpdateMemKeeps ==
  ASSUME IInv, NEW t \in Users, UpdateMem(t)
  PROVE  IInv'
<1>1. /\ call[t].op = "update" /\ call[t].at = "mem"
      /\ mem' = Set(mem, First(call[t].todo), call[t].val)
      /\ DocWritten(t, First(call[t].todo), "tree")
      /\ UNCHANGED <<btree, indexed, index, calls, raced, held, moved, touched>>
  BY DEF UpdateMem
<1>2. PICK d \in DocIds, v \in FieldValues :
        /\ d = First(call[t].todo) /\ v = call[t].val /\ d \in call[t].todo
        /\ (d \notin raced => HalfWritten(call[t], d))
  BY <1>1, AtDocument DEF Writes
<1>3. v \in Vals /\ v # 0
  BY DEF FieldValues, Vals
<1>4. /\ mem' \in [DocIds -> Vals] /\ mem'[d] = v
      /\ \A e \in DocIds \ {d} : mem'[e] = mem[e]
  <2>1. mem \in [DocIds -> Vals] /\ mem' = Set(mem, d, v)
    BY <1>1, <1>2 DEF IInv, DocTypeOK, Vals
  <2> QED  BY <1>3, <2>1, SetTypes
<1>5. /\ call' \in [Users -> Calls] /\ \A u \in Users \ {t} : call'[u] = call[u]
      /\ call'[t].todo = call[t].todo \ {d} /\ call'[t].got \subseteq call'[t].ids
      /\ \/ call'[t] = Returned
         \/ /\ call'[t].at = "tree" /\ call'[t].op = "update"
            /\ call'[t].val = v /\ call'[t].todo # {}
      /\ meant' \in [DocIds -> Vals] /\ meant'[d] = v
      /\ \A e \in DocIds \ {d} : meant'[e] = meant[e]
  BY <1>1, <1>2, OneWritten DEF Writes, Value
<1>6. Grows
  BY <1>1, HeldStays
<1>7. HeldOK'
  BY <1>1 DEF IInv, HeldOK
<1>8. CallShape(call[t])'
  BY <1>3, <1>5 DEF CallShape
<1>9. d \notin raced => Clean(d)' /\ d \in moved'
  BY <1>1, <1>2, <1>4, <1>5 DEF HalfWritten, Clean, Value
<1>10. d \notin call'[t].todo
  BY <1>5
<1>11. \A e \in call'[t].todo \ {d} : Clean(e)' => HalfWritten(call[t], e)'
  <2>1. CASE call'[t] = Returned
    BY <2>1 DEF Returned
  <2>2. CASE call'[t].at = "tree" /\ call'[t].op = "update"
    BY <2>2 DEF HalfWritten, Clean
  <2> QED  BY <1>5, <2>1, <2>2
<1>12. /\ btree' \in [DocIds -> Vals] /\ moved' \subseteq DocIds
       /\ index' \in [FieldValues -> DocIds \cup {0}]
       /\ \A e \in DocIds \ {d} : e \in moved <=> e \in moved'
  BY <1>1 DEF IInv, DocTypeOK, Vals
<1>13. call'[t].op # "find"
  BY <1>5 DEF Returned
<1> QED  BY <1>1, <1>2, <1>4, <1>5, <1>6, <1>7, <1>8, <1>9, <1>10, <1>11, <1>12, <1>13,
            WriteKeeps

LEMMA DeleteManyIndexKeeps ==
  ASSUME IInv, NEW t \in Users, DeleteManyIndex(t)
  PROVE  IInv'
<1>1. /\ call[t].op = "deleteMany" /\ call[t].at = "index"
      /\ index' = Forgotten(btree[First(call[t].todo)]) /\ Goes(t, "tree")
      /\ UNCHANGED <<btree, mem, indexed, calls, meant, raced, held, moved, touched>>
  BY DEF DeleteManyIndex, docHistory
<1>2. PICK d \in DocIds :
        /\ d = First(call[t].todo) /\ d \in call[t].todo
        /\ (d \notin raced => HalfWritten(call[t], d))
  BY <1>1, AtDocument DEF Writes
<1>3. /\ call' \in [Users -> Calls] /\ \A u \in Users \ {t} : call'[u] = call[u]
      /\ call'[t].at = "tree" /\ call'[t].op = "deleteMany"
      /\ call'[t].todo = call[t].todo /\ call'[t].got \subseteq call'[t].ids
  BY <1>1, GoesOn DEF IInv, DocTypeOK
<1>4. Grows
  BY <1>1, HeldStays
<1>5. /\ index' \in [FieldValues -> DocIds \cup {0}]
      /\ \A w \in FieldValues : index'[w] = index[w] \/ (w = btree[d] /\ index'[w] = 0)
  <2>1. index \in [FieldValues -> DocIds \cup {0}]
    BY DEF IInv, DocTypeOK
  <2> QED  BY <1>1, <1>2, <2>1 DEF Forgotten, Set
<1>6. HeldOK'
  BY <1>1, <1>5 DEF IInv, HeldOK
<1>7. \A w \in FieldValues : index'[w] = index[w] \/ d \in held'[w]
  BY <1>1, <1>5 DEF IInv, HeldOK, FieldValues
<1>8. CallShape(call[t])'
  BY <1>2, <1>3 DEF CallShape
<1>9. d \notin raced => HalfWritten(call[t], d)'
  <2>1. d \notin raced => Clean(d)
    BY <1>1, <1>2 DEF HalfWritten
  <2>2. d \notin raced => Clean(d)'
    BY <1>1, <2>1 DEF Clean
  <2> QED  BY <1>3, <2>2 DEF HalfWritten
<1>10. \A e \in call'[t].todo \ {d} : Clean(e)' => HalfWritten(call[t], e)'
  BY <1>3 DEF HalfWritten
<1>11. Writing(d)'
  BY <1>2, <1>3 DEF Writing
<1>12. /\ mem' \in [DocIds -> Vals] /\ meant' \in [DocIds -> Vals]
       /\ btree' \in [DocIds -> Vals] /\ moved' \subseteq DocIds
  BY <1>1 DEF IInv, DocTypeOK, Types, Vals
<1> QED  BY <1>1, <1>2, <1>3, <1>4, <1>5, <1>6, <1>7, <1>8, <1>9, <1>10, <1>11, <1>12,
            WriteKeeps

LEMMA DeleteTreeKeeps ==
  ASSUME IInv, NEW t \in Users, DeleteTree(t)
  PROVE  IInv'
<1>1. /\ call[t].op \in {"delete", "deleteMany"} /\ call[t].at = "tree"
      /\ btree' = Set(btree, First(call[t].todo), 0) /\ Goes(t, "mem")
      /\ UNCHANGED <<mem, indexed, index, calls, meant, raced, held, moved, touched>>
  BY DEF DeleteTree, docHistory
<1>2. PICK d \in DocIds :
        /\ d = First(call[t].todo) /\ d \in call[t].todo
        /\ (d \notin raced => HalfWritten(call[t], d))
        /\ call[t].op = "delete" =>
             call[t].val # 0 /\ call[t].todo = {d} /\ d \in held[call[t].val]
  BY <1>1, AtDocument DEF Writes, FieldValues
<1>3. /\ btree' \in [DocIds -> Vals] /\ btree'[d] = 0
      /\ \A e \in DocIds \ {d} : btree'[e] = btree[e]
  <2>1. btree \in [DocIds -> Vals] /\ btree' = Set(btree, d, 0) /\ 0 \in Vals
    BY <1>1, <1>2, DocumentsAssumption DEF IInv, DocTypeOK, Vals
  <2> QED  BY <2>1, SetTypes
<1>4. /\ call' \in [Users -> Calls] /\ \A u \in Users \ {t} : call'[u] = call[u]
      /\ call'[t].at = "mem" /\ call'[t].op = call[t].op
      /\ call'[t].todo = call[t].todo /\ call'[t].val = call[t].val
      /\ call'[t].got \subseteq call'[t].ids
  BY <1>1, GoesOn DEF IInv, DocTypeOK
<1>5. Grows
  BY <1>1, HeldStays
<1>6. HeldOK'
  BY <1>1, <1>3 DEF IInv, HeldOK
<1>7. CallShape(call[t])'
  BY <1>1, <1>2, <1>4 DEF CallShape
<1>8. d \notin raced => HalfWritten(call[t], d)'
  <2>1. d \notin raced => Clean(d)
    BY <1>1, <1>2 DEF HalfWritten
  <2>2. d \notin raced => mem'[d] \in {0, meant'[d]}
    BY <1>1, <2>1 DEF Clean
  <2> QED  BY <1>1, <1>2, <1>3, <1>4, <2>2 DEF HalfWritten, Value
<1>9. \A e \in call'[t].todo \ {d} : Clean(e)' => HalfWritten(call[t], e)'
  BY <1>1, <1>2, <1>4 DEF HalfWritten
<1>10. Writing(d)'
  BY <1>2, <1>4 DEF Writing
<1>11. /\ mem' \in [DocIds -> Vals] /\ meant' \in [DocIds -> Vals]
       /\ index' \in [FieldValues -> DocIds \cup {0}] /\ moved' \subseteq DocIds
  BY <1>1 DEF IInv, DocTypeOK, Types, Vals
<1> QED  BY <1>1, <1>2, <1>3, <1>4, <1>5, <1>6, <1>7, <1>8, <1>9, <1>10, <1>11, WriteKeeps

LEMMA DeleteMemKeeps ==
  ASSUME IInv, NEW t \in Users, DeleteMem(t)
  PROVE  IInv'
<1>1. /\ call[t].op \in {"delete", "deleteMany"} /\ call[t].at = "mem"
      /\ mem' = Set(mem, First(call[t].todo), 0)
      /\ UNCHANGED <<btree, indexed, index, calls, raced, held, moved, touched>>
  BY DEF DeleteMem
<1>2. PICK d \in DocIds :
        /\ d = First(call[t].todo) /\ d \in call[t].todo
        /\ (d \notin raced => HalfWritten(call[t], d))
        /\ call[t].op = "delete" =>
             call[t].val # 0 /\ call[t].todo = {d} /\ d \in held[call[t].val]
  BY <1>1, AtDocument DEF Writes, FieldValues
<1>3. /\ mem' \in [DocIds -> Vals] /\ mem'[d] = 0
      /\ \A e \in DocIds \ {d} : mem'[e] = mem[e]
  <2>1. mem \in [DocIds -> Vals] /\ mem' = Set(mem, d, 0) /\ 0 \in Vals
    BY <1>1, <1>2, DocumentsAssumption DEF IInv, DocTypeOK, Vals
  <2> QED  BY <2>1, SetTypes
<1>4. Grows
  BY <1>1, HeldStays
<1>5. HeldOK'
  BY <1>1 DEF IInv, HeldOK
<1>6. d \notin raced => btree'[d] = 0
  BY <1>1, <1>2 DEF HalfWritten, Value
<1>7. /\ btree' \in [DocIds -> Vals] /\ moved' \subseteq DocIds
      /\ index' \in [FieldValues -> DocIds \cup {0}]
  BY <1>1 DEF IInv, DocTypeOK, Vals
<1>8. CASE call[t].op = "delete"
  <2>1. Goes(t, "index") /\ meant' = meant
    BY <1>8 DEF DeleteMem
  <2>2. /\ call' \in [Users -> Calls] /\ \A u \in Users \ {t} : call'[u] = call[u]
        /\ call'[t].at = "index" /\ call'[t].op = "delete"
        /\ call'[t].todo = call[t].todo /\ call'[t].val = call[t].val
        /\ call'[t].got \subseteq call'[t].ids
    BY <1>8, <2>1, GoesOn DEF IInv, DocTypeOK
  <2>3. CallShape(call[t])'
    BY <1>1, <1>2, <1>8, <2>2 DEF CallShape
  <2>4. d \notin raced => HalfWritten(call[t], d)'
    BY <1>3, <1>6, <2>2 DEF HalfWritten
  <2>5. \A e \in call'[t].todo \ {d} : Clean(e)' => HalfWritten(call[t], e)'
    BY <1>2, <1>8, <2>2
  <2>6. Writing(d)' /\ meant' \in [DocIds -> Vals]
    BY <1>2, <2>1, <2>2 DEF Writing, IInv, Types
  <2> QED  BY <1>1, <1>2, <1>3, <1>4, <1>5, <1>7, <1>8, <2>1, <2>2, <2>3, <2>4, <2>5,
              <2>6, WriteKeeps
<1>9. CASE call[t].op = "deleteMany"
  <2>1. DocWritten(t, d, "index")
    BY <1>2, <1>9 DEF DeleteMem
  <2>2. /\ call' \in [Users -> Calls] /\ \A u \in Users \ {t} : call'[u] = call[u]
        /\ call'[t].todo = call[t].todo \ {d} /\ call'[t].got \subseteq call'[t].ids
        /\ \/ call'[t] = Returned
           \/ /\ call'[t].at = "index" /\ call'[t].op = "deleteMany"
              /\ call'[t].todo # {}
        /\ meant' \in [DocIds -> Vals] /\ meant'[d] = 0
        /\ \A e \in DocIds \ {d} : meant'[e] = meant[e]
    BY <1>2, <1>9, <2>1, OneWritten DEF Writes, Value
  <2>3. CallShape(call[t])'
    BY <2>2 DEF CallShape
  <2>4. d \notin raced => Clean(d)'
    BY <1>3, <1>6, <2>2 DEF Clean
  <2>5. d \notin call'[t].todo /\ call'[t].op # "find"
    BY <2>2 DEF Returned
  <2>6. \A e \in call'[t].todo \ {d} : Clean(e)' => HalfWritten(call[t], e)'
    <3>1. CASE call'[t] = Returned
      BY <3>1 DEF Returned
    <3>2. CASE call'[t].at = "index" /\ call'[t].op = "deleteMany"
      BY <3>2 DEF HalfWritten, Clean
    <3> QED  BY <2>2, <3>1, <3>2
  <2> QED  BY <1>1, <1>2, <1>3, <1>4, <1>5, <1>6, <1>7, <2>2, <2>3, <2>4, <2>5, <2>6,
              WriteKeeps
<1> QED  BY <1>1, <1>8, <1>9

LEMMA DeleteIndexKeeps ==
  ASSUME IInv, NEW t \in Users, DeleteIndex(t)
  PROVE  IInv'
<1>1. /\ call[t].op = "delete" /\ call[t].at = "index"
      /\ index' = Forgotten(call[t].val) /\ DocWritten(t, First(call[t].todo), "none")
      /\ UNCHANGED <<btree, mem, indexed, calls, raced, held, moved, touched>>
  BY DEF DeleteIndex
<1>2. PICK d \in DocIds, v \in FieldValues :
        /\ d = First(call[t].todo) /\ v = call[t].val /\ call[t].todo = {d}
        /\ d \in held[v] /\ (d \notin raced => HalfWritten(call[t], d))
  BY <1>1, AtDocument DEF Writes
<1>3. /\ call' \in [Users -> Calls] /\ \A u \in Users \ {t} : call'[u] = call[u]
      /\ call'[t] = Returned /\ call'[t].todo = {} /\ call'[t].op = "none"
      /\ call'[t].got \subseteq call'[t].ids
      /\ meant' \in [DocIds -> Vals] /\ meant'[d] = 0
      /\ \A e \in DocIds \ {d} : meant'[e] = meant[e]
  <2>1. Returned.todo = {} /\ Returned.op = "none"
    BY DEF Returned
  <2> QED  BY <1>1, <1>2, <2>1, OneWritten DEF Writes, Value
<1>4. Grows
  BY <1>1, HeldStays
<1>5. /\ index' \in [FieldValues -> DocIds \cup {0}]
      /\ \A w \in FieldValues : index'[w] = index[w] \/ (w = v /\ index'[w] = 0)
  <2>1. index \in [FieldValues -> DocIds \cup {0}]
    BY DEF IInv, DocTypeOK
  <2> QED  BY <1>1, <1>2, <2>1 DEF Forgotten, Set
<1>6. HeldOK'
  BY <1>1, <1>5 DEF IInv, HeldOK
<1>7. CallShape(call[t])'
  BY <1>3 DEF CallShape
<1>8. d \notin raced => Clean(d)' /\ btree'[d] = 0
  BY <1>1, <1>2, <1>3 DEF HalfWritten, Clean
<1>9. \A w \in FieldValues : index'[w] = index[w] \/ d \in held'[w]
  BY <1>1, <1>2, <1>5
<1>10. call'[t].todo = call[t].todo \ {d} /\ call[t].todo # {} /\ call'[t].op # "find"
  BY <1>2, <1>3
<1>11. \A e \in call'[t].todo \ {d} : Clean(e)' => HalfWritten(call[t], e)'
  BY <1>3
<1>12. /\ btree' \in [DocIds -> Vals] /\ mem' \in [DocIds -> Vals]
       /\ moved' \subseteq DocIds
  BY <1>1 DEF IInv, DocTypeOK, Vals
<1> QED  BY <1>1, <1>2, <1>3, <1>4, <1>5, <1>6, <1>7, <1>8, <1>9, <1>10, <1>11, <1>12,
            WriteKeeps

\* A step of a find leaves to the writers and to the other finds what they have.
LEMMA FindStepKeeps ==
  ASSUME IInv, NEW t \in Users, call[t].todo = {}, call'[t].todo = {},
         call' \in [Users -> Calls], \A u \in Users \ {t} : call'[u] = call[u],
         call'[t].got \subseteq call'[t].ids, CallShape(call[t])',
         touched' \in [Users -> SUBSET DocIds],
         \A u \in Users \ {t} : touched'[u] = touched[u], calls' \in 0 .. MaxCalls,
         UNCHANGED <<btree, mem, indexed, index, meant, raced, held, moved>>,
         call'[t].op = "find" => \A f \in call'[t].query : FindOK(t, f)'
  PROVE  IInv'
<1>1. Grows
  BY HeldStays
<1>2. Types'
  BY DEF IInv, Types
<1>3. DocTypeOK'
  <2>1. ASSUME NEW u \in Users PROVE call'[u].got \subseteq call'[u].ids
    BY DEF IInv, DocTypeOK
  <2>2. ASSUME NEW u \in Users
        PROVE  /\ call'[u].op \in Writes \cup {"none", "find"}
               /\ call'[u].at \in Places /\ call'[u].todo \subseteq DocIds
    BY DEF Calls, Writes, Places
  <2> QED  BY <2>1, <2>2 DEF IInv, DocTypeOK, Writes, Places
<1>4. ShapesOK'
  BY <1>1, ShapesStay
<1>5. \A u \in Users, d \in DocIds : d \in call'[u].todo <=> d \in call[u].todo
  OBVIOUS
<1>6. \A d \in DocIds : Writing(d)' <=> Writing(d)
  BY <1>5 DEF Writing
<1>7. WritesOK'
  <2>1. ASSUME NEW d \in DocIds \ raced', ~Writing(d)' PROVE Clean(d)'
    BY <1>6, <2>1 DEF IInv, WritesOK, Clean
  <2>2. ASSUME NEW d \in DocIds \ raced', NEW u \in Users, d \in call'[u].todo
        PROVE  HalfWritten(call[u], d)'
    <3>1. u # t /\ call'[u] = call[u] /\ d \in call[u].todo
      BY <2>2
    <3>2. HalfWritten(call[u], d)
      BY <2>2, <3>1 DEF IInv, WritesOK
    <3>3. PICK c : c = call[u]
      OBVIOUS
    <3>4. HalfWritten(c, d)'
      BY <2>2, <3>2, <3>3, OthersHalfWritten
    <3> QED  BY <3>1, <3>3, <3>4 DEF HalfWritten, Clean, Value
  <2>3. ASSUME NEW d \in DocIds \ raced', NEW u \in Users, NEW w \in Users,
               d \in call'[u].todo, d \in call'[w].todo
        PROVE  u = w
    BY <1>5, <2>3 DEF IInv, WritesOK
  <2> QED  BY <2>1, <2>2, <2>3 DEF WritesOK
<1>8. HeldOK'
  BY DEF IInv, HeldOK
<1>9. IndexOK'
  BY <1>6 DEF IInv, IndexOK, Alone
<1>10. FindsOK'
  <2> SUFFICES ASSUME NEW u \in Users, u # t, call'[u].op = "find", NEW f \in call'[u].query
               PROVE  FindOK(u, f)'
    BY DEF FindsOK
  <2>1. PICK c \in Calls : call[u] = c
    BY DEF IInv, Types
  <2>2. call'[u] = c /\ f \in c.query /\ c.op = "find" /\ touched'[u] = touched[u]
    BY <2>1
  <2>3. FindOK(u, f)
    BY <2>1, <2>2 DEF IInv, FindsOK
  <2>4. Untouched(u)' = Untouched(u)
    BY <2>2 DEF Untouched
  <2>5. \A d \in DocIds : Alone(d)' <=> Alone(d)
    BY DEF Alone
  <2>6. Untouched(u) \subseteq DocIds
    BY DEF Untouched
  <2>7. ListedOK(c, f) => ListedOK(c, f)'
    BY DEF ListedOK
  <2>8. /\ \A d \in DocIds : Writing(d) => d \in touched[u]
        /\ ListedOK(c, f) /\ c.got \subseteq c.ids
        /\ c.ids # DocIds /\ f.op \in {"$lt", "$lte"} =>
             \A d \in Untouched(u) \ moved :
               0 < btree[d] /\ btree[d] < f.v /\ Alone(d) => d \in c.ids
        /\ c.at # "scan" =>
             \A d \in Untouched(u) \cap c.ids : d \in c.got <=> Satisfies(btree[d], f)
    BY <2>1, <2>3 DEF FindOK
  <2>9. /\ \A d \in DocIds : Writing(d)' => d \in touched'[u]
        /\ ListedOK(c, f)'
        /\ c.ids # DocIds /\ f.op \in {"$lt", "$lte"} =>
             \A d \in Untouched(u)' \ moved' :
               0 < btree'[d] /\ btree'[d] < f.v /\ Alone(d)' => d \in c.ids
        /\ c.at # "scan" =>
             \A d \in Untouched(u)' \cap c.ids : d \in c.got <=> Satisfies(btree'[d], f)
    BY <1>6, <2>2, <2>4, <2>5, <2>6, <2>7, <2>8
  <2> QED  BY <2>2, <2>8, <2>9 DEF FindOK
<1> QED  BY <1>2, <1>3, <1>4, <1>7, <1>8, <1>9, <1>10 DEF IInv

\* Whatever is in the index under a value had it, so the candidates of $eq had it.
LEMMA FindStartsKeeps ==
  ASSUME IInv, NEW t \in Users, NEW f \in Queries, FindStarts(t, f)
  PROVE  IInv'
<1> DEFINE c == [Returned EXCEPT !.op = "find", !.at = "scan", !.query = {f},
                                 !.ids = Candidates(f)]
<1>1. call[t] = Returned /\ call \in [Users -> Calls]
  BY DEF IInv, ShapesOK, CallShape, Types, FindStarts
<1>2. /\ f.op \in {"$eq", "$lt", "$lte", "$gt", "$gte"} /\ f.v \in FieldValues
      /\ index \in [FieldValues -> DocIds \cup {0}]
  BY DEF Queries, IInv, DocTypeOK
<1>3. \A v \in FieldValues : \A k \in 1 .. v - 1 : k \in FieldValues /\ k < v
  BY DocumentsAssumption DEF FieldValues
<1>4. Listed(f) \subseteq DocIds
  BY <1>2, <1>3 DEF Listed
<1>5. Candidates(f) \subseteq DocIds
  BY <1>4 DEF Candidates
<1>6. c \in Calls /\ c.todo = {} /\ c.op = "find" /\ c.at = "scan" /\ c.got = {}
      /\ c.ids = Candidates(f) /\ c.query = {f}
  <2>1. /\ c.todo = {} /\ c.op = "find" /\ c.at = "scan" /\ c.got = {}
        /\ c.ids = Candidates(f) /\ c.query = {f}
    BY DEF Returned
  <2> QED  BY <1>5, <2>1, ReturnedIsCall DEF Calls, Places
<1>7. call' = [call EXCEPT ![t] = c]
  BY DEF FindStarts
<1> HIDE DEF c
<1>8. /\ call' \in [Users -> Calls] /\ call'[t] = c
      /\ \A u \in Users \ {t} : call'[u] = call[u]
  BY <1>1, <1>6, <1>7
<1>9. /\ touched' = [touched EXCEPT ![t] = {d \in DocIds : Writing(d)}]
      /\ calls' \in 0 .. MaxCalls
      /\ UNCHANGED <<btree, mem, indexed, index, meant, raced, held, moved>>
  BY DocumentsAssumption DEF FindStarts, IInv, DocTypeOK
<1>10. /\ touched' \in [Users -> SUBSET DocIds]
       /\ touched'[t] = {d \in DocIds : Writing(d)}
       /\ \A u \in Users \ {t} : touched'[u] = touched[u]
  BY <1>9 DEF IInv, Types
<1>11. call[t].todo = {} /\ call'[t].todo = {}
  BY <1>1, <1>6, <1>8 DEF Returned
<1>12. \A d \in DocIds : Writing(d)' <=> Writing(d)
  BY <1>8, <1>11 DEF Writing
<1>13. ASSUME Candidates(f) # DocIds
       PROVE  indexed /\ Candidates(f) = Listed(f) /\ Listed(f) # {}
  BY <1>13 DEF Candidates
<1>14. ASSUME Candidates(f) # DocIds
       PROVE  /\ f.op \in {"$eq", "$lt", "$lte"}
              /\ f.op = "$eq" => Candidates(f) \subseteq held'[f.v]
  <2>1. f.op \in {"$eq", "$lt", "$lte"}
    BY <1>2, <1>13, <1>14 DEF Listed
  <2>2. ASSUME f.op = "$eq" PROVE Candidates(f) \subseteq held'[f.v]
    <3>1. Candidates(f) = {index[f.v]} \ {0}
      BY <1>13, <1>14, <2>2 DEF Listed
    <3> QED  BY <1>2, <1>9, <3>1 DEF IInv, HeldOK
  <2> QED  BY <2>1, <2>2
<1>15. ListedOK(call[t], f)'
  BY <1>6, <1>8, <1>9, <1>13, <1>14 DEF ListedOK
<1>16. ASSUME Candidates(f) # DocIds, f.op \in {"$lt", "$lte"},
              NEW d \in Untouched(t)' \ moved',
              0 < btree'[d], btree'[d] < f.v, Alone(d)'
       PROVE  d \in Candidates(f)
  <2>1. d \in DocIds /\ d \notin touched'[t] /\ d \notin raced' /\ d \notin moved'
    BY <1>16 DEF Untouched
  <2>2. d \in DocIds /\ ~Writing(d) /\ d \notin raced \cup moved
    BY <1>9, <1>10, <2>1
  <2>3. btree'[d] = btree[d] /\ Alone(d) /\ btree[d] \in 0 .. MaxField
    BY <1>9, <1>16, <2>2 DEF Alone, IInv, DocTypeOK
  <2>4. btree[d] # 0 /\ btree[d] \in 1 .. f.v - 1
    BY <1>2, <1>16, <2>3, DocumentsAssumption DEF FieldValues
  <2>5. index[btree[d]] = d /\ d # 0
    BY <1>13, <1>16, <2>2, <2>3, <2>4, DocumentsAssumption DEF IInv, IndexOK
  <2>6. Listed(f) = {index[k] : k \in 1 .. f.v - 1} \ {0}
    BY <1>16 DEF Listed
  <2> QED  BY <1>13, <1>16, <2>4, <2>5, <2>6
<1>17. FindOK(t, f)'
  BY <1>6, <1>8, <1>10, <1>12, <1>15, <1>16 DEF FindOK
<1>18. CallShape(call[t])'
  BY <1>6, <1>8 DEF CallShape
<1> QED  BY <1>6, <1>8, <1>9, <1>10, <1>11, <1>17, <1>18, FindStepKeeps

\* What the step of a find that looks at the documents must get.
LEMMA FindLooks ==
  ASSUME IInv, NEW t \in Users, call[t].op = "find", NEW f, f = Query(t),
         NEW at \in {"merge", "found"}, NEW got \in SUBSET DocIds,
         call' = [call EXCEPT ![t] = [call[t] EXCEPT !.at = at, !.got = got]],
         UNCHANGED <<btree, mem, indexed, index, calls, docHistory>>,
         got \subseteq call[t].ids,
         \A d \in Untouched(t) \cap call[t].ids : d \in got <=> Satisfies(btree[d], f)
  PROVE  IInv'
<1>1. PICK c \in Calls : call[t] = c
  BY DEF IInv, Types
<1>2. c.todo = {} /\ c.query = {f} /\ f \in Queries /\ c.ids \in SUBSET DocIds
  <2>1. CallShape(c) /\ c.op = "find"
    BY <1>1 DEF IInv, ShapesOK
  <2>2. PICK g \in Queries : c.query = {g} /\ c.todo = {}
    BY <2>1 DEF CallShape, Returned
  <2>3. Query(t) = g
    BY <1>1, <2>2 DEF Query
  <2> QED  BY <2>2, <2>3 DEF Calls
<1> DEFINE e == [c EXCEPT !.at = at, !.got = got]
<1>3. /\ e \in Calls /\ e.op = "find" /\ e.at = at /\ e.got = got /\ e.todo = {}
      /\ e.query = {f} /\ e.ids = c.ids
  BY <1>1, <1>2 DEF Calls, Places
<1>4. call' = [call EXCEPT ![t] = e] /\ call \in [Users -> Calls]
  BY <1>1 DEF IInv, Types
<1> HIDE DEF e
<1>5. /\ call' \in [Users -> Calls] /\ call'[t] = e
      /\ \A u \in Users \ {t} : call'[u] = call[u]
  BY <1>3, <1>4
<1>6. UNCHANGED <<btree, mem, indexed, index, calls, meant, raced, held, moved, touched>>
  BY DEF docHistory
<1>7. FindOK(t, f)
  BY <1>1, <1>2 DEF IInv, FindsOK
<1>8. \A d \in DocIds : Writing(d)' <=> Writing(d)
  BY <1>1, <1>2, <1>3, <1>5 DEF Writing
<1>9. /\ \A d \in DocIds : Writing(d)' => d \in touched'[t]
      /\ ListedOK(e, f)'
      /\ e.ids # DocIds /\ f.op \in {"$lt", "$lte"} =>
           \A d \in Untouched(t)' \ moved' :
             0 < btree'[d] /\ btree'[d] < f.v /\ Alone(d)' => d \in e.ids
  <2>1. Untouched(t)' = Untouched(t) /\ \A d \in DocIds : Alone(d)' <=> Alone(d)
    BY <1>6 DEF Untouched, Alone
  <2>2. ListedOK(c, f) => ListedOK(e, f)'
    BY <1>3, <1>6 DEF ListedOK
  <2>3. Untouched(t) \subseteq DocIds
    BY DEF Untouched
  <2> QED  BY <1>1, <1>3, <1>6, <1>7, <1>8, <2>1, <2>2, <2>3 DEF FindOK
<1>10. \A d \in Untouched(t)' \cap e.ids : d \in e.got <=> Satisfies(btree'[d], f)
  <2>1. Untouched(t)' = Untouched(t)
    BY <1>6 DEF Untouched
  <2> QED  BY <1>1, <1>3, <1>6, <2>1
<1>11. FindOK(t, f)'
  BY <1>1, <1>3, <1>5, <1>9, <1>10 DEF FindOK
<1>12. CallShape(call[t])'
  BY <1>2, <1>3, <1>5 DEF CallShape
<1>13. calls' \in 0 .. MaxCalls /\ touched' \in [Users -> SUBSET DocIds]
  BY <1>6 DEF IInv, DocTypeOK, Types
<1>14. call[t].todo = {} /\ call'[t].todo = {} /\ call'[t].got \subseteq call'[t].ids
  BY <1>1, <1>2, <1>3, <1>5
<1>15. call'[t].op = "find" => \A g \in call'[t].query : FindOK(t, g)'
  <2>1. call'[t].query = {f}
    BY <1>3, <1>5
  <2> QED  BY <1>11, <2>1
<1> QED  BY <1>5, <1>6, <1>12, <1>13, <1>14, <1>15, FindStepKeeps

LEMMA FindScansKeeps ==
  ASSUME IInv, NEW t \in Users, FindScans(t)
  PROVE  IInv'
<1> DEFINE got == {d \in call[t].ids : Satisfies(btree[d], Query(t))}
<1>1. call \in [Users -> Calls] /\ call[t].op = "find" /\ call[t].ids \subseteq DocIds
  BY DEF FindScans, IInv, Types, Calls
<1>2. call' = [call EXCEPT ![t] = [call[t] EXCEPT !.at = "merge", !.got = got]]
  BY <1>1 DEF FindScans
<1>3. got \in SUBSET DocIds /\ got \subseteq call[t].ids
  BY <1>1
<1>4. PICK f : f = Query(t)
  OBVIOUS
<1>5. \A d \in Untouched(t) \cap call[t].ids : d \in got <=> Satisfies(btree[d], f)
  BY <1>4
<1> HIDE DEF got
<1> QED  BY <1>1, <1>2, <1>3, <1>4, <1>5, FindLooks DEF FindScans

\* The memtable has of a document that nobody writes what the tree has, or nothing.
LEMMA FindMergesKeeps ==
  ASSUME IInv, NEW t \in Users, FindMerges(t)
  PROVE  IInv'
<1> DEFINE got == call[t].got \cup {d \in call[t].ids : Satisfies(mem[d], Query(t))}
<1>1. /\ call \in [Users -> Calls] /\ call[t].op = "find" /\ call[t].at = "merge"
      /\ call[t].ids \subseteq DocIds /\ call[t].got \subseteq call[t].ids
  BY DEF FindMerges, IInv, Types, Calls, DocTypeOK
<1>2. call' = [call EXCEPT ![t] = [call[t] EXCEPT !.at = "found", !.got = got]]
  BY <1>1 DEF FindMerges
<1>3. PICK f : f \in call[t].query /\ f = Query(t)
  <2>1. PICK g \in Queries : call[t].query = {g}
    BY <1>1 DEF IInv, ShapesOK, CallShape, Returned
  <2> QED  BY <2>1 DEF Query
<1>4. FindOK(t, f)
  BY <1>1, <1>3 DEF IInv, FindsOK
<1>5. ASSUME NEW d \in Untouched(t) \cap call[t].ids
      PROVE  d \in got <=> Satisfies(btree[d], f)
  <2>1. d \in DocIds /\ d \notin raced /\ ~Writing(d)
    BY <1>4, <1>5 DEF Untouched, FindOK
  <2>2. mem[d] \in {0, btree[d]}
    BY <2>1 DEF IInv, WritesOK, Clean
  <2>3. d \in call[t].got <=> Satisfies(btree[d], f)
    BY <1>1, <1>4, <1>5 DEF FindOK
  <2>4. ~Satisfies(0, f)
    BY DEF Satisfies
  <2> QED  BY <1>3, <1>5, <2>2, <2>3, <2>4
<1>6. got \in SUBSET DocIds /\ got \subseteq call[t].ids
  BY <1>1
<1> HIDE DEF got
<1> QED  BY <1>1, <1>2, <1>3, <1>5, <1>6, FindLooks DEF FindMerges

LEMMA FindReturnsKeeps ==
  ASSUME IInv, NEW t \in Users, FindReturns(t)
  PROVE  IInv'
<1>1. call \in [Users -> Calls] /\ CallShape(call[t]) /\ call[t].op = "find"
  BY DEF FindReturns, IInv, Types, ShapesOK
<1>2. /\ call' = [call EXCEPT ![t] = Returned] /\ touched' = [touched EXCEPT ![t] = {}]
      /\ UNCHANGED <<btree, mem, indexed, index, calls, meant, raced, held, moved>>
  BY DEF FindReturns
<1>3. /\ call' \in [Users -> Calls] /\ call'[t] = Returned
      /\ \A u \in Users \ {t} : call'[u] = call[u]
  BY <1>1, <1>2, ReturnedIsCall
<1>4. /\ touched' \in [Users -> SUBSET DocIds]
      /\ \A u \in Users \ {t} : touched'[u] = touched[u]
  BY <1>2 DEF IInv, Types
<1>5. call[t].todo = {}
  BY <1>1 DEF CallShape, Returned
<1>6. call'[t].todo = {} /\ call'[t].got \subseteq call'[t].ids /\ call'[t].op # "find"
  BY <1>3 DEF Returned
<1>7. CallShape(call[t])' /\ calls' \in 0 .. MaxCalls
  BY <1>2, <1>3 DEF CallShape, IInv, DocTypeOK
<1> QED  BY <1>2, <1>3, <1>4, <1>5, <1>6, <1>7, FindStepKeeps

\* Steps that no call takes: the index comes or goes, the memtable is emptied.
LEMMA CallsStay ==
  ASSUME IInv, UNCHANGED <<btree, call, calls, meant, raced, held, touched>>,
         mem' \in [DocIds -> Vals], \A d \in DocIds : mem'[d] \in {0, mem[d]},
         moved \subseteq moved', moved' \subseteq DocIds, indexed' \in BOOLEAN,
         index' \in [FieldValues -> DocIds \cup {0}],
         \A v \in FieldValues : index'[v] \in {0, index[v]}, IndexOK'
  PROVE  IInv'
<1>1. Grows
  BY HeldStays
<1>2. DocTypeOK' /\ Types'
  BY DEF IInv, DocTypeOK, Types, Vals
<1>3. ShapesOK'
  BY DEF IInv, ShapesOK, CallShape
<1>4. HeldOK'
  BY DEF IInv, HeldOK
<1>5. WritesOK'
  <2>1. \A d \in DocIds : Writing(d)' <=> Writing(d)
    BY DEF Writing
  <2>2. ASSUME NEW d \in DocIds \ raced', ~Writing(d)' PROVE Clean(d)'
    BY <2>1, <2>2 DEF IInv, WritesOK, Clean
  <2>3. ASSUME NEW d \in DocIds \ raced', NEW u \in Users, d \in call'[u].todo
        PROVE  HalfWritten(call[u], d)'
    <3>1. HalfWritten(call[u], d)
      BY <2>3 DEF IInv, WritesOK
    <3>2. PICK c : c = call[u]
      OBVIOUS
    <3>3. HalfWritten(c, d)'
      BY <2>3, <3>1, <3>2, OthersHalfWritten
    <3> QED  BY <3>2, <3>3 DEF HalfWritten, Clean, Value
  <2> QED  BY <2>2, <2>3 DEF IInv, WritesOK
<1>6. FindsOK'
  <2>1. ASSUME NEW u \in Users, call'[u].op = "find"
        PROVE  /\ call'[u] = call[u] /\ touched[u] \subseteq touched'[u]
               /\ \A d \in DocIds : Writing(d)' => d \in touched'[u]
    <3>1. \A d \in DocIds : Writing(d)' => Writing(d)
      BY DEF Writing
    <3> QED  BY <2>1, <3>1, FindsSeeWriters
  <2> QED  BY <1>1, <1>4, <2>1, FindsStay
<1> QED  BY <1>2, <1>3, <1>4, <1>5, <1>6 DEF IInv

LEMMA IndexStepsKeep ==
  ASSUME IInv, CreateIndex \/ DropIndex \/ FlushMemtable \/ UNCHANGED docVars
  PROVE  IInv'
<1>1. /\ mem \in [DocIds -> Vals] /\ index \in [FieldValues -> DocIds \cup {0}]
      /\ 0 \in Vals /\ indexed \in BOOLEAN /\ moved \subseteq DocIds
  BY DocumentsAssumption DEF IInv, DocTypeOK, Vals
<1>2. CASE CreateIndex
  <2>1. IndexOK'
    BY <1>2 DEF CreateIndex, IndexOK
  <2> QED  BY <1>1, <1>2, <2>1, CallsStay DEF CreateIndex
<1>3. CASE DropIndex
  <2>1. indexed' = FALSE /\ index' = [v \in FieldValues |-> 0]
        /\ UNCHANGED <<btree, mem, call, calls, meant, raced, held, moved, touched>>
    BY <1>3 DEF DropIndex, docHistory
  <2>2. IndexOK'
    BY <2>1 DEF IndexOK
  <2> QED  BY <1>1, <2>1, <2>2, CallsStay
<1>4. ASSUME UNCHANGED <<btree, indexed, index, call, raced, held, moved>>
      PROVE  IndexOK'
  BY <1>4 DEF IInv, IndexOK, Alone, Writing
<1>5. CASE FlushMemtable
  <2>1. mem' = [d \in DocIds |-> 0]
        /\ UNCHANGED <<btree, indexed, index, call, calls>>
        /\ UNCHANGED <<meant, raced, held, moved, touched>>
    BY <1>5 DEF FlushMemtable, docHistory
  <2> QED  BY <1>1, <1>4, <2>1, CallsStay
<1>6. CASE UNCHANGED docVars
  BY <1>1, <1>4, <1>6, CallsStay DEF docVars
<1> QED  BY <1>2, <1>3, <1>5, <1>6

LEMMA InitKeeps == DocInit => IInv
<1> SUFFICES ASSUME DocInit PROVE IInv
  OBVIOUS
<1>1. /\ btree = [d \in DocIds |-> 0] /\ mem = btree /\ indexed \in BOOLEAN
      /\ index = [v \in FieldValues |-> 0] /\ call = [t \in Users |-> Returned]
      /\ calls = 0 /\ meant = btree /\ raced = {} /\ moved = {}
      /\ held = [v \in FieldValues |-> {}] /\ touched = [t \in Users |-> {}]
  BY DEF DocInit
<1>2. /\ Returned.op = "none" /\ Returned.at = "none" /\ Returned.todo = {}
      /\ Returned.got = {} /\ Returned.ids = {}
  BY DEF Returned
<1>3. 0 \in Vals /\ MaxCalls \in Nat
  BY DocumentsAssumption DEF Vals
<1>4. DocTypeOK
  BY <1>1, <1>2, <1>3 DEF DocTypeOK, Vals
<1>5. Types /\ ShapesOK
  BY <1>1, <1>3, ReturnedIsCall DEF Types, ShapesOK, CallShape
<1>6. WritesOK /\ IndexOK /\ FindsOK
  BY <1>1, <1>2 DEF WritesOK, Clean, IndexOK, FindsOK
<1>7. HeldOK
  BY <1>1, FS_EmptySet DEF HeldOK
<1> QED  BY <1>4, <1>5, <1>6, <1>7 DEF IInv

LEMMA StepKeeps == IInv /\ [DocNext]_docVars => IInv'
<1> SUFFICES ASSUME IInv, [DocNext]_docVars PROVE IInv'
  OBVIOUS
<1>1. ASSUME NEW t \in Users, NEW d \in DocIds, NEW v \in FieldValues, InsertMem(t, d, v)
      PROVE  IInv'
  BY <1>1, InsertMemKeeps
<1>2. ASSUME NEW t \in Users, NEW full \in BOOLEAN, InsertIndex(t, full) PROVE IInv'
  BY <1>2, InsertIndexKeeps
<1>3. ASSUME NEW t \in Users, NEW v \in FieldValues,
             UpdateOne(t, v) \/ UpdateMany(t, v)
               \/ DeleteFinds(t, v) \/ DeleteManyFinds(t, v)
      PROVE  IInv'
  BY <1>3, ScansKeep
<1>4. ASSUME NEW t \in Users, InsertTree(t) \/ UpdateTree(t) \/ UpdateMem(t) PROVE IInv'
  BY <1>4, InsertTreeKeeps, UpdateTreeKeeps, UpdateMemKeeps
<1>5. ASSUME NEW t \in Users,
             DeleteManyIndex(t) \/ DeleteTree(t) \/ DeleteMem(t) \/ DeleteIndex(t)
      PROVE  IInv'
  BY <1>5, DeleteManyIndexKeeps, DeleteTreeKeeps, DeleteMemKeeps, DeleteIndexKeeps
<1>6. ASSUME NEW t \in Users, NEW f \in Queries, FindStarts(t, f) PROVE IInv'
  BY <1>6, FindStartsKeeps
<1>7. ASSUME NEW t \in Users, FindScans(t) \/ FindMerges(t) \/ FindReturns(t) PROVE IInv'
  BY <1>7, FindScansKeeps, FindMergesKeeps, FindReturnsKeeps
<1>8. CASE CreateIndex \/ DropIndex \/ FlushMemtable \/ UNCHANGED docVars
  BY <1>8, IndexStepsKeep
<1> QED  BY <1>1, <1>2, <1>3, <1>4, <1>5, <1>6, <1>7, <1>8 DEF DocNext

-----------------------------------------------------------------------------
(* The properties                                                          *)

\* What a find that is about to return has.
LEMMA FindsAreRight ==
  ASSUME IInv, NEW t \in Users, Found(t)
  PROVE  LET f == Query(t)
         IN /\ \A d \in call[t].got \ (touched[t] \cup raced) : Satisfies(btree[d], f)
            /\ \A d \in DocIds \ (touched[t] \cup raced \cup call[t].got) :
                 Satisfies(btree[d], f) =>
                   /\ call[t].ids # DocIds /\ f.op \in {"$eq", "$lt", "$lte"}
                   /\ Unshared(f) => f.op # "$eq" /\ (d \in moved \/ btree[d] = f.v)
<1>1. PICK c \in Calls : call[t] = c /\ c.op = "find" /\ c.at = "found"
  BY DEF IInv, Types, Found
<1>2. PICK f \in Queries : f = Query(t) /\ f \in c.query
  <2>1. PICK g \in Queries : c.query = {g}
    BY <1>1 DEF IInv, ShapesOK, CallShape, Returned
  <2> QED  BY <1>1, <2>1 DEF Query
<1>3. /\ ListedOK(c, f) /\ c.got \subseteq c.ids /\ c.ids \subseteq DocIds
      /\ c.ids # DocIds /\ f.op \in {"$lt", "$lte"} =>
           \A d \in Untouched(t) \ moved :
             0 < btree[d] /\ btree[d] < f.v /\ Alone(d) => d \in c.ids
      /\ \A d \in Untouched(t) \cap c.ids : d \in c.got <=> Satisfies(btree[d], f)
  <2>1. FindOK(t, f)
    BY <1>1, <1>2 DEF IInv, FindsOK
  <2> QED  BY <1>1, <2>1 DEF FindOK, Calls
<1>4. ASSUME NEW d \in c.got \ (touched[t] \cup raced) PROVE Satisfies(btree[d], f)
  BY <1>3, <1>4 DEF Untouched
<1>5. ASSUME NEW d \in DocIds \ (touched[t] \cup raced \cup c.got), Satisfies(btree[d], f)
      PROVE  /\ c.ids # DocIds /\ f.op \in {"$eq", "$lt", "$lte"}
             /\ Unshared(f) => f.op # "$eq" /\ (d \in moved \/ btree[d] = f.v)
  <2>1. d \in Untouched(t) /\ d \notin c.ids
    BY <1>3, <1>5 DEF Untouched
  <2>2. /\ c.ids # DocIds /\ c.ids # {} /\ f.op \in {"$eq", "$lt", "$lte"}
        /\ f.op = "$eq" => c.ids \subseteq held[f.v]
    BY <1>3, <2>1 DEF ListedOK
  <2>3. btree[d] \in FieldValues /\ f.v \in FieldValues /\ d \in held[btree[d]]
    BY <1>5 DEF Satisfies, IInv, DocTypeOK, HeldOK, FieldValues, Queries
  <2>4. ASSUME Unshared(f), f.op = "$eq" PROVE FALSE
    <3>1. btree[d] = f.v
      BY <1>5, <2>4 DEF Satisfies
    <3>2. IsFiniteSet(held[f.v]) /\ Cardinality(held[f.v]) <= 1
      BY <2>3, <2>4 DEF Unshared, IInv, HeldOK
    <3>3. PICK e \in c.ids : e \in held[f.v]
      BY <2>2, <2>4
    <3>4. e = d
      BY <2>3, <3>1, <3>2, <3>3, OnlyOne
    <3> QED  BY <2>1, <3>3, <3>4
  <2>5. ASSUME Unshared(f), f.op \in {"$lt", "$lte"}, d \notin moved, btree[d] # f.v
        PROVE  FALSE
    <3>1. btree[d] < f.v /\ 0 < btree[d]
      <4>1. btree[d] < f.v \/ btree[d] <= f.v
        BY <1>5, <2>5 DEF Satisfies
      <4> QED  BY <2>3, <2>5, <4>1, DocumentsAssumption DEF FieldValues
    <3>2. Alone(d)
      BY <2>3, <2>5, <3>1 DEF Unshared, Alone
    <3> QED  BY <1>3, <2>1, <2>2, <2>5, <3>1, <3>2
  <2> QED  BY <2>2, <2>4, <2>5
<1> QED  BY <1>1, <1>2, <1>4, <1>5

LEMMA InvariantIsSound == IInv => DocumentsSound
<1> SUFFICES ASSUME IInv PROVE DocumentsSound
  OBVIOUS
<1>1. TreeIsWhatWasWritten
  BY DEF IInv, WritesOK, Clean, TreeIsWhatWasWritten
<1>2. FindIsSound
  BY FindsAreRight DEF FindIsSound
<1>3. FindIsComplete
  BY FindsAreRight DEF FindIsComplete
<1> QED  BY <1>1, <1>2, <1>3 DEF DocumentsSound, IInv

\* Whatever threads do at a time: a document that one call writes at a time is
\* between calls in tree and memtable what the last of them made it, what a find
\* returns matches unless it was written meanwhile, and it misses a document that
\* matches only where the index has one entry for several documents, or for a range
\* the bound itself or a document that the index does not have by its value.
THEOREM DocumentsHold == DocSpec => []DocumentsSound
<1>1. DocInit => IInv
  BY InitKeeps
<1>2. IInv /\ [DocNext]_docVars => IInv'
  BY StepKeeps
<1>3. IInv => DocumentsSound
  BY InvariantIsSound
<1> QED  BY <1>1, <1>2, <1>3, PTL DEF DocSpec
=============================================================================
