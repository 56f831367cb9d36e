-------------------------- MODULE QueuePartsProofs --------------------------
(***************************************************************************)
(* Theorems about the queue's parts that keep records of their own: Flows  *)
(* and Ipc, for every number of chains, graphs, calls, keys, children and  *)
(* slots, and however often jobs fail, letters are retried, children close *)
(* and the process dies.                                                   *)
(*                                                                         *)
(* Flows: a job is in one place unless a snapshot brought it back, and     *)
(* until the first restart none is lost, a failed chain stays over and a   *)
(* queue at rest has run what was accepted.  The invariant follows the log *)
(* too, by what its replay gives: a crash keeps any prefix of the stream,  *)
(* and each must be a past of the chains, graphs and letters that the      *)
(* history allows.                                                         *)
(*                                                                         *)
(* Ipc: slots and waiters are accounted for, answers are true, and a       *)
(* close rejects no request of another key.  The router counts slots per   *)
(* entry but rejects requests per key, and a key outlives its entries: the *)
(* invariant follows an entry after it left the map, when its late answers *)
(* still give back slots nobody counts.                                    *)
(***************************************************************************)
EXTENDS Ipc, Flows, FiniteSetTheorems, SequenceTheorems, NaturalsInduction,
        WellFoundedInduction, TLAPS

-----------------------------------------------------------------------------
(***************************************************************************)
(* Flows: sequences, and the records of the log.                           *)
(***************************************************************************)

\* A set of naturals has a least element: how statements about data are proved here.
LEMMA LeastOf ==
  ASSUME NEW ns \in SUBSET Nat, ns # {}
  PROVE  \E m \in ns : \A n \in ns : m <= n
<1> DEFINE less == OpToRel(<, Nat)
<1>1. IsWellFoundedOn(less, Nat)
  BY NatLessThanWellFounded
<1>2. \A m, n \in Nat : m < n => <<m, n>> \in less
  BY DEF OpToRel
<1> HIDE DEF less
<1>3. PICK m \in ns : \A n \in ns : ~ (<<n, m>> \in less)
  BY <1>1, WFMin
<1>4. ASSUME NEW n \in ns PROVE m <= n
  <2>1. m \in Nat /\ n \in Nat /\ ~(n < m)
    BY <1>2, <1>3
  <2> QED  BY <2>1
<1> QED  BY <1>3, <1>4

-----------------------------------------------------------------------------
(***************************************************************************)
(* Sequences: what Without and Replay give.                                *)
(***************************************************************************)

\* A sequence with one element more.
LEMMA Appended ==
  ASSUME NEW T, NEW s \in Seq(T), NEW e \in T
  PROVE  /\ Append(s, e) \in Seq(T)
         /\ ToSet(Append(s, e)) = ToSet(s) \cup {e}
         /\ IsInjective(s) /\ e \notin ToSet(s) => IsInjective(Append(s, e))
<1>1. PICK t : t = Append(s, e)
  OBVIOUS
<1>2. /\ t \in Seq(T) /\ Len(s) \in Nat /\ Len(t) = Len(s) + 1
      /\ \A k \in 1 .. Len(s) : t[k] = s[k]
      /\ t[Len(s) + 1] = e
  BY <1>1
<1>3. DOMAIN t = 1 .. Len(s) + 1 /\ DOMAIN s = 1 .. Len(s)
  BY <1>2
<1>4. \A k \in 1 .. Len(s) + 1 : k \in 1 .. Len(s) \/ k = Len(s) + 1
  BY <1>2
<1>5. 1 .. Len(s) \subseteq 1 .. Len(s) + 1 /\ Len(s) + 1 \in 1 .. Len(s) + 1
  BY <1>2
<1>6. ASSUME NEW x \in ToSet(t) PROVE x \in ToSet(s) \cup {e}
  <2>1. PICK k \in 1 .. Len(s) + 1 : t[k] = x
    BY <1>3 DEF ToSet
  <2>2. CASE k \in 1 .. Len(s)
    BY <1>2, <1>3, <2>1, <2>2 DEF ToSet
  <2> QED  BY <1>2, <1>4, <2>1, <2>2
<1>7. ASSUME NEW x \in ToSet(s) \cup {e} PROVE x \in ToSet(t)
  <2>1. CASE x = e
    BY <1>2, <1>3, <1>5, <2>1 DEF ToSet
  <2>2. CASE x \in ToSet(s)
    BY <1>2, <1>3, <1>5, <2>2 DEF ToSet
  <2> QED  BY <2>1, <2>2
<1>8. ASSUME IsInjective(s), e \notin ToSet(s) PROVE IsInjective(t)
  <2>1. \A k \in 1 .. Len(s) : s[k] # e
    BY <1>3, <1>8 DEF ToSet
  <2>2. \A h, k \in 1 .. Len(s) : s[h] = s[k] => h = k
    BY <1>3, <1>8 DEF IsInjective
  <2>3. \A h, k \in 1 .. Len(s) + 1 : t[h] = t[k] => h = k
    BY <1>2, <1>4, <2>1, <2>2
  <2> QED  BY <1>3, <2>3 DEF IsInjective
<1> QED  BY <1>1, <1>2, <1>6, <1>7, <1>8

\* g is the recursive function of Without.
KeptStep(g, q, X, i) ==
  IF i = 0 THEN <<>> ELSE IF q[i] \in X THEN g[i - 1] ELSE Append(g[i - 1], q[i])
IsKept(g, q, X) == g = [i \in 0 .. Len(q) |-> KeptStep(g, q, X, i)]

\* The recursive function of Without is there.
LEMMA KeptIsThere ==
  ASSUME NEW T, NEW q \in Seq(T), NEW X
  PROVE  \E g : IsKept(g, q, X)
<1> DEFINE At(g, i) == KeptStep(g, q, X, i)
           Is(g, n) == g = [i \in 0 .. n |-> At(g, i)]
           bad == {n \in 0 .. Len(q) : ~(\E g : Is(g, n))}
<1> USE DEF KeptStep
<1>0. Len(q) \in Nat
  OBVIOUS
<1>1. Is([i \in 0 .. 0 |-> <<>>], 0)
  OBVIOUS
<1>2. ASSUME NEW m \in Nat \ {0}, NEW g, Is(g, m - 1)
      PROVE  \E h : Is(h, m)
  <2> DEFINE h == [i \in 0 .. m |-> IF i = m THEN At(g, m) ELSE g[i]]
  <2>1. \A i \in 0 .. m : At(h, i) = At(g, i)
    <3>1. \A i \in 0 .. m : i # 0 => i - 1 \in 0 .. m /\ i - 1 # m
      OBVIOUS
    <3> QED  BY <3>1
  <2>2. \A i \in 0 .. m : i # m => g[i] = At(g, i)
    <3>1. \A i \in 0 .. m : i # m => i \in 0 .. m - 1
      OBVIOUS
    <3> HIDE DEF At
    <3> QED  BY <1>2, <3>1
  <2> HIDE DEF At
  <2>3. h = [i \in 0 .. m |-> At(h, i)]
    BY <2>1, <2>2
  <2> QED  BY <2>3
<1> HIDE DEF Is
<1>3. bad = {}
  <2> SUFFICES ASSUME bad # {} PROVE FALSE
    OBVIOUS
  <2>1. bad \in SUBSET Nat
    BY <1>0
  <2>2. PICK m \in bad : \A n \in bad : m <= n
    BY <2>1, LeastOf
  <2>3. m \in Nat /\ m \in 0 .. Len(q) /\ ~(\E g : Is(g, m))
    BY <1>0, <2>2
  <2>4. m # 0
    BY <1>1, <2>3
  <2>5. m - 1 \in 0 .. Len(q) /\ ~(m <= m - 1)
    BY <1>0, <2>3, <2>4
  <2>6. PICK g : Is(g, m - 1)
    BY <2>2, <2>5
  <2> QED  BY <1>2, <2>3, <2>4, <2>6
<1>4. \E g : Is(g, Len(q))
  BY <1>0, <1>3
<1> QED  BY <1>4 DEF Is, IsKept

\* Without keeps the elements outside X, once each if they were there once.
LEMMA WithoutIs ==
  ASSUME NEW T, NEW q \in Seq(T), NEW X
  PROVE  /\ Without(q, X) \in Seq(T)
         /\ ToSet(Without(q, X)) = ToSet(q) \ X
         /\ IsInjective(q) => IsInjective(Without(q, X))
         /\ ToSet(q) \cap X = {} => Without(q, X) = q
<1> DEFINE kept[i \in 0 .. Len(q)] ==
        IF i = 0 THEN <<>> ELSE IF q[i] \in X THEN kept[i - 1] ELSE Append(kept[i - 1], q[i])
           Says(i) ==
             /\ kept[i] \in Seq(T)
             /\ ToSet(kept[i]) = {q[k] : k \in 1 .. i} \ X
             /\ IsInjective(q) => IsInjective(kept[i])
             /\ ToSet(q) \cap X = {} => kept[i] = SubSeq(q, 1, i)
           bad == {i \in 0 .. Len(q) : ~Says(i)}
<1>0. Len(q) \in Nat
  OBVIOUS
<1>1. Without(q, X) = kept[Len(q)]
  BY DEF Without
<1>2. kept = [i \in 0 .. Len(q) |->
        IF i = 0 THEN <<>> ELSE IF q[i] \in X THEN kept[i - 1] ELSE Append(kept[i - 1], q[i])]
  <2>1. \E g : IsKept(g, q, X)
    BY KeptIsThere
  <2>2. kept = CHOOSE g : IsKept(g, q, X)
    BY DEF IsKept, KeptStep
  <2> HIDE DEF kept
  <2>3. IsKept(kept, q, X)
    BY <2>1, <2>2
  <2> QED  BY <2>3 DEF IsKept, KeptStep
<1> HIDE DEF kept
<1>3. Says(0)
  <2>1. kept[0] = <<>>
    BY <1>0, <1>2
  <2>2. SubSeq(q, 1, 0) = <<>> /\ <<>> \in Seq(T)
    OBVIOUS
  <2>3. ToSet(<<>>) = {} /\ {q[k] : k \in 1 .. 0} = {}
    BY DEF ToSet
  <2>4. IsInjective(<<>>)
    BY DEF IsInjective
  <2>5. kept[0] \in Seq(T) /\ ToSet(kept[0]) = {q[k] : k \in 1 .. 0} \ X
    BY <2>1, <2>2, <2>3
  <2>6. IsInjective(kept[0]) /\ kept[0] = SubSeq(q, 1, 0)
    BY <2>1, <2>2, <2>4
  <2> QED  BY <2>5, <2>6
<1>4. ASSUME NEW m \in 1 .. Len(q), Says(m - 1) PROVE Says(m)
  <2>1. kept[m] = IF q[m] \in X THEN kept[m - 1] ELSE Append(kept[m - 1], q[m])
    <3>1. m \in 0 .. Len(q) /\ m # 0
      BY <1>0
    <3> QED  BY <1>2, <3>1
  <2>2. q[m] \in T /\ m \in Nat /\ m - 1 \in Nat /\ m - 1 \in 0 .. Len(q)
    BY <1>0
  <2>3. {q[k] : k \in 1 .. m} = {q[k] : k \in 1 .. m - 1} \cup {q[m]}
    <3>1. \A k \in 1 .. m : k \in 1 .. m - 1 \/ k = m
      BY <2>2
    <3>2. \A k \in 1 .. m - 1 : k \in 1 .. m
      BY <2>2
    <3>3. m \in 1 .. m
      BY <2>2
    <3> QED  BY <3>1, <3>2, <3>3
  <2>4. CASE q[m] \in X
    <3>1. kept[m] = kept[m - 1]
      BY <2>1, <2>4
    <3>2. ToSet(q) \cap X # {}
      BY <2>4 DEF ToSet
    <3> QED  BY <1>4, <2>3, <2>4, <3>1, <3>2
  <2>5. CASE q[m] \notin X
    <3> DEFINE s == kept[m - 1]
    <3>1. kept[m] = Append(s, q[m]) /\ s \in Seq(T)
      BY <1>4, <2>1, <2>5
    <3>2. ToSet(s) = {q[k] : k \in 1 .. m - 1} \ X /\ (IsInjective(q) => IsInjective(s))
      BY <1>4
    <3> HIDE DEF s
    <3>3. /\ kept[m] \in Seq(T) /\ ToSet(kept[m]) = ToSet(s) \cup {q[m]}
          /\ IsInjective(s) /\ q[m] \notin ToSet(s) => IsInjective(kept[m])
      BY <2>2, <3>1, Appended
    <3>4. ToSet(kept[m]) = {q[k] : k \in 1 .. m} \ X
      BY <2>3, <2>5, <3>2, <3>3
    <3>5. IsInjective(q) => IsInjective(kept[m])
      <4> SUFFICES ASSUME IsInjective(q) PROVE q[m] \notin ToSet(s)
        BY <3>2, <3>3
      <4>1. ASSUME NEW k \in 1 .. m - 1, q[k] = q[m] PROVE FALSE
        <5>1. k \in DOMAIN q /\ m \in DOMAIN q /\ k # m
          BY <1>0, <2>2
        <5> QED  BY <4>1, <5>1 DEF IsInjective
      <4> QED  BY <3>2, <4>1
    <3>6. ToSet(q) \cap X = {} => kept[m] = SubSeq(q, 1, m)
      <4> SUFFICES ASSUME s = SubSeq(q, 1, m - 1) PROVE kept[m] = SubSeq(q, 1, m)
        BY <1>4 DEF s
      <4>1. Append(SubSeq(q, 1, m - 1), q[m]) = SubSeq(q, 1, m)
        BY <1>0, <2>2
      <4> QED  BY <3>1, <4>1
    <3> QED  BY <3>3, <3>4, <3>5, <3>6
  <2> QED  BY <2>4, <2>5
<1> HIDE DEF Says
<1>5. bad = {}
  <2> SUFFICES ASSUME bad # {} PROVE FALSE
    OBVIOUS
  <2>1. bad \in SUBSET Nat
    BY <1>0
  <2>2. PICK m \in bad : \A n \in bad : m <= n
    BY <2>1, LeastOf
  <2>3. m \in Nat /\ m \in 0 .. Len(q) /\ m # 0 /\ ~Says(m)
    BY <1>0, <1>3, <2>2
  <2>4. m - 1 \in 0 .. Len(q) /\ ~(m <= m - 1) /\ m \in 1 .. Len(q)
    BY <1>0, <2>3
  <2> QED  BY <1>4, <2>2, <2>3, <2>4
<1>6. Says(Len(q))
  BY <1>0, <1>5
<1>7. SubSeq(q, 1, Len(q)) = q /\ ToSet(q) = {q[k] : k \in 1 .. Len(q)}
  BY DEF ToSet
<1> QED  BY <1>1, <1>6, <1>7 DEF Says

\* g is the recursive function of Replay.
ReplayStep(g, S, r, n) == IF n = 0 THEN S ELSE Restore(g[n - 1], r[n])
IsReplay(g, S, r) == g = [n \in 0 .. Len(r) |-> ReplayStep(g, S, r, n)]

\* The recursive function of Replay is there.
LEMMA ReplayIsThere ==
  ASSUME NEW T, NEW S, NEW r \in Seq(T)
  PROVE  \E g : IsReplay(g, S, r)
<1> DEFINE At(g, i) == ReplayStep(g, S, r, i)
           Is(g, n) == g = [i \in 0 .. n |-> At(g, i)]
           bad == {n \in 0 .. Len(r) : ~(\E g : Is(g, n))}
<1>0. Len(r) \in Nat
  OBVIOUS
<1>1. Is([i \in 0 .. 0 |-> S], 0)
  BY DEF ReplayStep
<1>2. ASSUME NEW m \in Nat \ {0}, NEW g, Is(g, m - 1)
      PROVE  \E h : Is(h, m)
  <2> DEFINE h == [i \in 0 .. m |-> IF i = m THEN At(g, m) ELSE g[i]]
  <2>1. \A i \in 0 .. m : At(h, i) = At(g, i)
    <3>1. \A i \in 0 .. m : i # 0 => i - 1 \in 0 .. m /\ i - 1 # m
      OBVIOUS
    <3> QED  BY <3>1 DEF ReplayStep
  <2>2. \A i \in 0 .. m : i # m => g[i] = At(g, i)
    <3>1. \A i \in 0 .. m : i # m => i \in 0 .. m - 1
      OBVIOUS
    <3> HIDE DEF At
    <3> QED  BY <1>2, <3>1
  <2> HIDE DEF At
  <2>3. h = [i \in 0 .. m |-> At(h, i)]
    BY <2>1, <2>2
  <2> QED  BY <2>3
<1> HIDE DEF Is
<1>3. bad = {}
  <2> SUFFICES ASSUME bad # {} PROVE FALSE
    OBVIOUS
  <2>1. bad \in SUBSET Nat
    BY <1>0
  <2>2. PICK m \in bad : \A n \in bad : m <= n
    BY <2>1, LeastOf
  <2>3. m \in Nat /\ m \in 0 .. Len(r) /\ ~(\E g : Is(g, m))
    BY <1>0, <2>2
  <2>4. m # 0
    BY <1>1, <2>3
  <2>5. m - 1 \in 0 .. Len(r) /\ ~(m <= m - 1)
    BY <1>0, <2>3, <2>4
  <2>6. PICK g : Is(g, m - 1)
    BY <2>2, <2>5
  <2> QED  BY <1>2, <2>3, <2>4, <2>6
<1>4. \E g : Is(g, Len(r))
  BY <1>0, <1>3
<1> QED  BY <1>4 DEF Is, IsReplay

\* g holds what each prefix of r is replayed to.
Replays(g, S, r) ==
  /\ Replay(S, r) = g[Len(r)] /\ g[0] = S
  /\ \A n \in 1 .. Len(r) : g[n] = Restore(g[n - 1], r[n])

\* Replay is a recursion that every prefix of the records starts.
LEMMA ReplayIs ==
  ASSUME NEW T, NEW S, NEW r \in Seq(T)
  PROVE  \E g : Replays(g, S, r)
<1> DEFINE after[n \in 0 .. Len(r)] == IF n = 0 THEN S ELSE Restore(after[n - 1], r[n])
<1>0. Len(r) \in Nat
  OBVIOUS
<1>1. Replay(S, r) = after[Len(r)]
  BY DEF Replay
<1>2. \E g : IsReplay(g, S, r)
  BY ReplayIsThere
<1>3. after = CHOOSE g : IsReplay(g, S, r)
  BY DEF IsReplay, ReplayStep
<1> HIDE DEF after
<1>4. IsReplay(after, S, r)
  BY <1>2, <1>3
<1>5. after = [n \in 0 .. Len(r) |-> IF n = 0 THEN S ELSE Restore(after[n - 1], r[n])]
  BY <1>4 DEF IsReplay, ReplayStep
<1>6. after[0] = S
  BY <1>0, <1>5
<1>7. ASSUME NEW n \in 1 .. Len(r) PROVE after[n] = Restore(after[n - 1], r[n])
  <2>1. n \in 0 .. Len(r) /\ n # 0
    BY <1>0
  <2> QED  BY <1>5, <2>1
<1> QED  BY <1>1, <1>6, <1>7 DEF Replays

\* A record is replayed on what the records before it give.
LEMMA ReplayNone ==
  ASSUME NEW S
  PROVE  Replay(S, <<>>) = S
<1>1. PICK e : e = <<>>
  OBVIOUS
<1>2. e \in Seq({}) /\ Len(e) = 0
  BY <1>1
<1>3. PICK g : Replays(g, S, e)
  BY <1>2, ReplayIs
<1> QED  BY <1>1, <1>2, <1>3 DEF Replays

\* The replay of one record more.
LEMMA ReplayOne ==
  ASSUME NEW T, NEW S, NEW r \in Seq(T), NEW n \in 1 .. Len(r)
  PROVE  Replay(S, SubSeq(r, 1, n)) = Restore(Replay(S, SubSeq(r, 1, n - 1)), r[n])
<1>0. Len(r) \in Nat
  OBVIOUS
<1> DEFINE p == SubSeq(r, 1, n)
           q == SubSeq(r, 1, n - 1)
<1>1. /\ p \in Seq(T) /\ Len(p) = n /\ \A i \in 1 .. n : p[i] = r[i]
      /\ q \in Seq(T) /\ Len(q) = n - 1 /\ \A i \in 1 .. n - 1 : q[i] = r[i]
      /\ n \in Nat /\ n - 1 \in Nat
  BY <1>0
<1> HIDE DEF p, q
<1>2. PICK g : /\ Replay(S, p) = g[n] /\ g[0] = S
               /\ \A i \in 1 .. n : g[i] = Restore(g[i - 1], p[i])
  <2>1. p \in Seq(T)
    BY <1>1
  <2>2. PICK g : Replays(g, S, p)
    BY <2>1, ReplayIs
  <2> QED  BY <1>1, <2>2 DEF Replays
<1>3. PICK h : /\ Replay(S, q) = h[n - 1] /\ h[0] = S
               /\ \A i \in 1 .. n - 1 : h[i] = Restore(h[i - 1], q[i])
  <2>1. q \in Seq(T)
    BY <1>1
  <2>2. PICK h : Replays(h, S, q)
    BY <2>1, ReplayIs
  <2> QED  BY <1>1, <2>2 DEF Replays
<1> DEFINE bad == {i \in 0 .. n - 1 : g[i] # h[i]}
<1>4. bad = {}
  <2> SUFFICES ASSUME bad # {} PROVE FALSE
    OBVIOUS
  <2>1. bad \in SUBSET Nat
    BY <1>1
  <2>2. PICK m \in bad : \A i \in bad : m <= i
    BY <2>1, LeastOf
  <2>3. m \in 0 .. n - 1 /\ g[m] # h[m] /\ m # 0
    BY <1>2, <1>3, <2>2
  <2>4. m \in 1 .. n - 1 /\ m \in 1 .. n /\ m - 1 \in 0 .. n - 1 /\ ~(m <= m - 1)
    BY <1>1, <2>3
  <2>5. g[m - 1] = h[m - 1]
    BY <2>2, <2>4
  <2>6. g[m] = Restore(g[m - 1], r[m]) /\ h[m] = Restore(h[m - 1], r[m])
    BY <1>1, <1>2, <1>3, <2>4
  <2> QED  BY <2>3, <2>5, <2>6
<1>5. g[n - 1] = h[n - 1]
  BY <1>1, <1>4
<1>6. g[n] = Restore(g[n - 1], r[n])
  BY <1>1, <1>2
<1>7. Replay(S, p) = Restore(Replay(S, q), r[n])
  BY <1>2, <1>3, <1>5, <1>6
<1> QED  BY <1>7 DEF p, q

\* The records of b are replayed on what those of a give.
LEMMA ReplayJoined ==
  ASSUME NEW T, NEW S, NEW a \in Seq(T), NEW b \in Seq(T)
  PROVE  /\ \A n \in 0 .. Len(a) :
              Replay(S, SubSeq(a \o b, 1, n)) = Replay(S, SubSeq(a, 1, n))
         /\ \A n \in 0 .. Len(b) :
              Replay(S, SubSeq(a \o b, 1, Len(a) + n)) = Replay(Replay(S, a), SubSeq(b, 1, n))
<1> DEFINE r == a \o b
           From(n) == Replay(S, SubSeq(r, 1, Len(a) + n)) = Replay(Replay(S, a), SubSeq(b, 1, n))
           bad == {n \in 0 .. Len(b) : ~From(n)}
<1>0. /\ r \in Seq(T) /\ Len(a) \in Nat /\ Len(b) \in Nat /\ Len(r) = Len(a) + Len(b)
      /\ \A i \in 1 .. Len(a) : r[i] = a[i]
      /\ \A i \in 1 .. Len(b) : r[Len(a) + i] = b[i]
  OBVIOUS
<1> HIDE DEF r
<1>1. ASSUME NEW n \in 0 .. Len(a) PROVE SubSeq(r, 1, n) = SubSeq(a, 1, n)
  <2>1. n \in Nat /\ n <= Len(r) /\ \A i \in 1 .. n : i \in 1 .. Len(a)
    BY <1>0
  <2>2. SubSeq(r, 1, n) \in Seq(T) /\ Len(SubSeq(r, 1, n)) = n
        /\ \A i \in 1 .. n : SubSeq(r, 1, n)[i] = r[i]
    BY <1>0, <2>1
  <2>3. SubSeq(a, 1, n) \in Seq(T) /\ Len(SubSeq(a, 1, n)) = n
        /\ \A i \in 1 .. n : SubSeq(a, 1, n)[i] = a[i]
    BY <1>0, <2>1
  <2>4. \A i \in 1 .. n : SubSeq(r, 1, n)[i] = SubSeq(a, 1, n)[i]
    BY <1>0, <2>1, <2>2, <2>3
  <2> QED  BY <2>2, <2>3, <2>4, SeqEqual
<1>2. From(0)
  <2>1. SubSeq(b, 1, 0) = <<>> /\ SubSeq(a, 1, Len(a)) = a /\ Len(a) + 0 = Len(a) /\ Len(a) \in 0 .. Len(a)
    BY <1>0
  <2>2. Replay(Replay(S, a), <<>>) = Replay(S, a)
    BY ReplayNone
  <2>3. SubSeq(r, 1, Len(a)) = a
    BY <1>1, <2>1
  <2> QED  BY <2>1, <2>2, <2>3
<1>3. ASSUME NEW m \in 1 .. Len(b), From(m - 1) PROVE From(m)
  <2>1. Len(a) + m \in 1 .. Len(r) /\ (Len(a) + m) - 1 = Len(a) + (m - 1)
    BY <1>0
  <2>2. Replay(S, SubSeq(r, 1, Len(a) + m)) = Restore(Replay(S, SubSeq(r, 1, Len(a) + (m - 1))), r[Len(a) + m])
    <3>1. PICK k : k = Len(a) + m
      OBVIOUS
    <3>2. k \in 1 .. Len(r) /\ r \in Seq(T)
      BY <1>0, <2>1, <3>1
    <3>3. Replay(S, SubSeq(r, 1, k)) = Restore(Replay(S, SubSeq(r, 1, k - 1)), r[k])
      BY <3>2, ReplayOne
    <3> QED  BY <2>1, <3>1, <3>3
  <2>3. Replay(Replay(S, a), SubSeq(b, 1, m)) = Restore(Replay(Replay(S, a), SubSeq(b, 1, m - 1)), b[m])
    <3>1. PICK L : L = Replay(S, a)
      OBVIOUS
    <3>2. Replay(L, SubSeq(b, 1, m)) = Restore(Replay(L, SubSeq(b, 1, m - 1)), b[m])
      BY ReplayOne
    <3> QED  BY <3>1, <3>2
  <2>4. r[Len(a) + m] = b[m]
    BY <1>0
  <2> QED  BY <1>3, <2>2, <2>3, <2>4
<1> HIDE DEF From
<1>4. bad = {}
  <2> SUFFICES ASSUME bad # {} PROVE FALSE
    OBVIOUS
  <2>1. bad \in SUBSET Nat
    BY <1>0
  <2>2. PICK m \in bad : \A n \in bad : m <= n
    BY <2>1, LeastOf
  <2>3. m \in Nat /\ m \in 0 .. Len(b) /\ m # 0 /\ ~From(m)
    BY <1>0, <1>2, <2>2
  <2>4. m - 1 \in 0 .. Len(b) /\ ~(m <= m - 1) /\ m \in 1 .. Len(b)
    BY <1>0, <2>3
  <2> QED  BY <1>3, <2>2, <2>3, <2>4
<1> QED  BY <1>1, <1>4 DEF From, r

-----------------------------------------------------------------------------
(***************************************************************************)
(* The invariant.                                                          *)
(***************************************************************************)

Busy       == queue \cup running
FlowPlaces == Busy \cup Letters \cup Held

\* The records of the log.
FlowRecords ==
  [op : {"CHAIN_REGISTER", "CHAIN_COMPLETE"}, id : Chains]
    \cup [op : {"CHAIN_ADVANCE"}, id : Chains, step : 1 .. Steps]
    \cup [op : {"DAG_REGISTER"}, id : Dags, nodes : Seq(Nodes)]
    \cup [op : {"DAG_COMPLETE_DEP"}, id : Nodes, dep : Nodes]
    \cup [op : {"DLQ_ADD", "DLQ_REMOVE"}, id : Jobs]

\* What a log is replayed to.
SavedFlows == [chain : [Chains -> 0 .. Steps], nodes : Seq(Nodes),
               deps : [Nodes -> SUBSET Nodes], dlq : Seq(Jobs)]

Calling == [called : BOOLEAN, todo : Seq(Jobs), hold : SUBSET Jobs]

FlowTypes ==
  /\ FlowTypeOK
  /\ attempts \in [Jobs -> Nat]
  /\ retrying \in [Retriers -> Calling]
  /\ \A r \in Retriers : ~retrying[r].called => retrying[r].hold = {}
  /\ unlocking \subseteq Nodes \X SUBSET Nodes
  /\ stream \in Seq(FlowRecords) /\ disk \in SavedFlows
  /\ started \subseteq Chains \cup Dags /\ created \subseteq Jobs
  /\ completed \subseteq created /\ failed \subseteq created /\ dropped \subseteq Jobs

\* The nodes of the graphs in st.
AcceptedOf(st) == UNION {ToSet(NodesOf(d)) : d \in Dags \cap st}

\* Of chain f, at its step c, the jobs js are of no later step; and only of step c if no
\* snapshot brought one back (rv are those that came).
Current(f, c, js, rv) ==
  \A s \in 1 .. Steps : <<f, s>> \in js \ rv =>
    s <= c /\ ((\A j \in rv : Flow(j) # f) => s = c)

\* A job somewhere was created, by a chain or graph that was started, and has an attempt
\* left, or failed and waits, or came back from a snapshot and its attempts do not count.
CreatedOK ==
  /\ FlowPlaces \subseteq created
  /\ \A j \in Jobs :
       attempts[j] < MaxAttempts(j) \/ (j \in failed /\ j \notin Busy) \/ j \in revived
  /\ \A j \in created :
       /\ Flow(j) \in Chains => Flow(j) \in started
       /\ Flow(j) \in Nodes => Flow(j) \in Accepted

\* Of a chain that is under way, only the current step is anywhere, if no snapshot brought
\* one back; none failed.
ChainsOK ==
  /\ \A f \in Chains : chainMap[f] # 0 =>
       f \in started /\ Current(f, chainMap[f], FlowPlaces, revived)
  /\ \A j \in failed : Flow(j) \in Chains => chainMap[Flow(j)] = 0

\* Until the second restart no step is anywhere once a later one was created, if no
\* snapshot brought one back, and until the first none failed.
OrderOK ==
  /\ crashes <= 1 => \A f \in Chains, s, h \in 1 .. Steps :
       <<f, s>> \in FlowPlaces /\ h > s /\ ~Again(f) => <<f, h>> \notin created
  /\ crashes = 0 => \A f \in Chains, s, h \in 1 .. Steps :
       <<f, s>> \in failed /\ h > s => <<f, h>> \notin created

\* Nothing will push a node of the graph again: a restart came between.
Dead(d) ==
  /\ rooting[d] = <<>>
  /\ \A n \in ToSet(NodesOf(d)) : n \notin tracked /\ \A u \in unlocking : u[1] # n

\* What may yet be pushed was not created.
Fresh(d) ==
  \A n \in ToSet(NodesOf(d)) :
    (n \in ToSet(dagNodes) /\ Deps(n) # {}) \/ n \in ToSet(rooting[d]) => NodeJob(n) \notin created

GraphsOK ==
  /\ IsInjective(dagNodes) /\ ToSet(dagNodes) \subseteq Accepted /\ tracked \subseteq Accepted
  /\ \A u \in unlocking : u[1] \in Accepted /\ NodeJob(u[1]) \in completed
  /\ \A n \in Nodes : \A m \in doneDeps[n] : NodeJob(m) \in completed
  /\ \A d \in Dags :
       /\ IsInjective(rooting[d])
       /\ \A n \in ToSet(rooting[d]) : n \in ToSet(NodesOf(d)) /\ Deps(n) = {}
       /\ d \notin started => rooting[d] = <<>>
       /\ d \in started => Sortable(d) /\ (Dead(d) \/ Fresh(d))

\* What a restart from S would make of the flows is true of those in st, cr, co, fa and rv
\* (started, created, completed, failed and revived after n crashes).
GoodFor(S, st, cr, co, fa, n, rv) ==
  /\ S \in SavedFlows
  /\ IsInjective(S.nodes) /\ ToSet(S.nodes) \subseteq AcceptedOf(st)
  /\ \A k \in Nodes : \A m \in S.deps[k] : NodeJob(m) \in co
  /\ IsInjective(S.dlq) /\ ToSet(S.dlq) \subseteq cr
  /\ \A f \in Chains : S.chain[f] # 0 => f \in st /\ Current(f, S.chain[f], ToSet(S.dlq), rv)
  /\ n = 0 => ToSet(S.dlq) \subseteq fa

\* Every restart finds flows that are true, and the whole log no dead letter that was
\* taken and no chain elsewhere than it is.
LogOK ==
  crashes < flowBudget.crashes =>
    /\ \A n \in 0 .. Len(stream) :
         GoodFor(Replay(disk, SubSeq(stream, 1, n)), started, created, completed, failed, crashes, revived)
    /\ ToSet(Replay(disk, stream).dlq) \subseteq Letters
    /\ \A f \in Chains : Replay(disk, stream).chain[f] \in {0, chainMap[f]}

\* A node without a job is still to be pushed, or misses a dependency that a loop
\* under way has yet to mark.
Waits(n) ==
  /\ Deps(n) = {} => \E d \in Dags : n \in ToSet(rooting[d])
  /\ Deps(n) # {} =>
       /\ n \in ToSet(dagNodes) /\ doneDeps[n] \subseteq Deps(n) /\ doneDeps[n] # Deps(n)
       /\ \A m \in Deps(n) : NodeJob(m) \in completed =>
            m \in doneDeps[n] \/ \E u \in unlocking : u[1] = m /\ n \notin u[2]

\* Until a restart every job is followed, and whoever waits for it learns of its end.
FirstLife ==
  crashes = 0 =>
    /\ created \subseteq completed \cup dropped \cup FlowPlaces
    /\ Letters \subseteq failed
    /\ \A f \in Chains : chainMap[f] # 0 => <<f, chainMap[f]>> \in Busy \cup dropped
    /\ \A n \in Nodes : NodeJob(n) \in created \ completed => n \in tracked
    /\ \A n \in Nodes : NodeJob(n) \in FlowPlaces => NodeJob(n) \notin completed
    /\ \A n \in Accepted : NodeJob(n) \notin created => Waits(n)

\* What runs twice came back; what came back, entered or may come back was created, and
\* nothing came back before the first restart.
CopiesOK ==
  /\ twins \subseteq revived
  /\ entered \cup snap \cup revived \subseteq created
  /\ crashes = 0 => revived = {}

FlowInv ==
  FlowTypes /\ OnePlace /\ CreatedOK /\ ChainsOK /\ OrderOK /\ GraphsOK /\ LogOK /\ FirstLife

-----------------------------------------------------------------------------
(***************************************************************************)
(* Jobs and records.                                                       *)
(***************************************************************************)

\* A job is a step of a chain or a node, never both, and no node has its name.
LEMMA JobsAre ==
  /\ \A n \in Nodes : NodeJob(n) \in Jobs /\ Flow(NodeJob(n)) = n /\ n \notin Chains
  /\ \A f \in Chains, s \in 1 .. Steps : <<f, s>> \in Jobs /\ Flow(<<f, s>>) = f /\ f \notin Nodes
  /\ \A j \in Jobs : \/ Flow(j) \in Chains /\ Flow(j) \notin Nodes /\ j[2] \in 1 .. Steps /\ j = <<Flow(j), j[2]>>
                     \/ Flow(j) \in Nodes /\ Flow(j) \notin Chains /\ j = NodeJob(Flow(j))
  /\ \A j \in Jobs : j \notin Nodes
  /\ Steps \in Nat \ {0} /\ 1 \in 1 .. Steps
<1>1. Chains \cap Nodes = {} /\ Steps \in Nat \ {0} /\ Jobs \cap Nodes = {}
  BY FlowsAssumption DEF Jobs
<1>2. 1 \in 1 .. Steps
  BY <1>1
<1> QED  BY <1>1, <1>2 DEF Jobs, Flow, NodeJob

\* No node depends on a job's id: cancelDownstream finds nothing.
LEMMA NothingDownstream ==
  ASSUME NEW j \in Jobs
  PROVE  Downstream(j) = {}
<1>1. \A q \in Nodes : j \notin Deps(q)
  BY JobsAre, FlowsAssumption
<1>2. \A q \in Nodes : j \in Deps(q) \/ Deps(q) \cap {} # {} => q \in {}
  BY <1>1
<1> QED  BY <1>2 DEF Downstream

\* A saved state by its fields.
LEMMA SavedIs ==
  ASSUME NEW S \in SavedFlows
  PROVE  /\ S = [chain |-> S.chain, nodes |-> S.nodes, deps |-> S.deps, dlq |-> S.dlq]
         /\ S.chain \in [Chains -> 0 .. Steps] /\ S.nodes \in Seq(Nodes)
         /\ S.deps \in [Nodes -> SUBSET Nodes] /\ S.dlq \in Seq(Jobs)
  BY DEF SavedFlows

\* A saved state from its fields.
LEMMA SavedHas ==
  ASSUME NEW c \in [Chains -> 0 .. Steps], NEW n \in Seq(Nodes),
         NEW d \in [Nodes -> SUBSET Nodes], NEW q \in Seq(Jobs)
  PROVE  [chain |-> c, nodes |-> n, deps |-> d, dlq |-> q] \in SavedFlows
  BY DEF SavedFlows

\* A sequence of one element, and two sequences one after the other.
LEMMA OneIs ==
  ASSUME NEW T, NEW e \in T
  PROVE  <<e>> \in Seq(T) /\ ToSet(<<e>>) = {e} /\ IsInjective(<<e>>) /\ Len(<<e>>) = 1
<1>1. PICK s : s = <<e>>
  OBVIOUS
<1>2. s \in Seq(T) /\ Len(s) = 1 /\ DOMAIN s = {1} /\ s[1] = e
  BY <1>1
<1>3. ToSet(s) = {e} /\ IsInjective(s)
  BY <1>2 DEF ToSet, IsInjective
<1> QED  BY <1>1, <1>2, <1>3

\* Two sequences one after the other.
LEMMA JoinedIs ==
  ASSUME NEW T, NEW p \in Seq(T), NEW q \in Seq(T)
  PROVE  /\ p \o q \in Seq(T) /\ ToSet(p \o q) = ToSet(p) \cup ToSet(q)
         /\ IsInjective(p) /\ IsInjective(q) /\ ToSet(p) \cap ToSet(q) = {} => IsInjective(p \o q)
<1>1. PICK t : t = p \o q
  OBVIOUS
<1>2. /\ t \in Seq(T) /\ Len(p) \in Nat /\ Len(q) \in Nat /\ Len(t) = Len(p) + Len(q)
      /\ \A k \in 1 .. Len(p) : t[k] = p[k]
      /\ \A k \in 1 .. Len(q) : t[Len(p) + k] = q[k]
      /\ DOMAIN t = 1 .. Len(p) + Len(q) /\ DOMAIN p = 1 .. Len(p) /\ DOMAIN q = 1 .. Len(q)
  BY <1>1
<1>3. \A k \in 1 .. Len(p) + Len(q) :
        k \in 1 .. Len(p) \/ (k - Len(p) \in 1 .. Len(q) /\ k = Len(p) + (k - Len(p)))
  BY <1>2
<1>4. /\ \A k \in 1 .. Len(p) : k \in 1 .. Len(p) + Len(q)
      /\ \A k \in 1 .. Len(q) : Len(p) + k \in 1 .. Len(p) + Len(q)
  BY <1>2
<1>5. ASSUME NEW x \in ToSet(t) PROVE x \in ToSet(p) \cup ToSet(q)
  <2>1. PICK k \in 1 .. Len(p) + Len(q) : t[k] = x
    BY <1>2 DEF ToSet
  <2>2. CASE k \in 1 .. Len(p)
    BY <1>2, <2>1, <2>2 DEF ToSet
  <2>3. CASE k - Len(p) \in 1 .. Len(q) /\ k = Len(p) + (k - Len(p))
    <3>1. t[k] = q[k - Len(p)]
      BY <1>2, <2>3
    <3> QED  BY <1>2, <2>1, <2>3, <3>1 DEF ToSet
  <2> QED  BY <1>3, <2>2, <2>3
<1>6. ToSet(p) \cup ToSet(q) \subseteq ToSet(t)
  BY <1>2, <1>4 DEF ToSet
<1>7. ASSUME IsInjective(p), IsInjective(q), ToSet(p) \cap ToSet(q) = {} PROVE IsInjective(t)
  <2>1. \A h, k \in 1 .. Len(p) : p[h] = p[k] => h = k
    BY <1>2, <1>7 DEF IsInjective
  <2>2. \A h, k \in 1 .. Len(q) : q[h] = q[k] => h = k
    BY <1>2, <1>7 DEF IsInjective
  <2>3. \A h \in 1 .. Len(p), k \in 1 .. Len(q) : p[h] # q[k]
    BY <1>2, <1>7 DEF ToSet
  <2>4. ASSUME NEW h \in 1 .. Len(p) + Len(q), NEW k \in 1 .. Len(p) + Len(q), t[h] = t[k]
        PROVE  h = k
    <3>1. CASE h \in 1 .. Len(p) /\ k \in 1 .. Len(p)
      BY <1>2, <2>1, <2>4, <3>1
    <3>2. CASE h \in 1 .. Len(p) /\ k \notin 1 .. Len(p)
      <4>1. k - Len(p) \in 1 .. Len(q) /\ t[k] = q[k - Len(p)]
        BY <1>2, <1>3, <3>2
      <4> QED  BY <1>2, <2>3, <2>4, <3>2, <4>1
    <3>3. CASE h \notin 1 .. Len(p) /\ k \in 1 .. Len(p)
      <4>1. h - Len(p) \in 1 .. Len(q) /\ t[h] = q[h - Len(p)]
        BY <1>2, <1>3, <3>3
      <4> QED  BY <1>2, <2>3, <2>4, <3>3, <4>1
    <3>4. CASE h \notin 1 .. Len(p) /\ k \notin 1 .. Len(p)
      <4>1. h - Len(p) \in 1 .. Len(q) /\ t[h] = q[h - Len(p)]
        BY <1>2, <1>3, <3>4
      <4>2. k - Len(p) \in 1 .. Len(q) /\ t[k] = q[k - Len(p)]
        BY <1>2, <1>3, <3>4
      <4>3. h - Len(p) = k - Len(p)
        BY <2>2, <2>4, <4>1, <4>2
      <4> QED  BY <1>2, <4>3
    <3> QED  BY <3>1, <3>2, <3>3, <3>4
  <2> QED  BY <1>2, <2>4 DEF IsInjective
<1> QED  BY <1>1, <1>2, <1>5, <1>6, <1>7

\* Map.set of several keys.
LEMMA SetAllIs ==
  ASSUME NEW T, NEW m \in Seq(T), NEW ns \in Seq(T)
  PROVE  /\ SetAll(m, ns) \in Seq(T) /\ ToSet(SetAll(m, ns)) = ToSet(m) \cup ToSet(ns)
         /\ IsInjective(m) /\ IsInjective(ns) => IsInjective(SetAll(m, ns))
<1>1. PICK w : w = Without(ns, ToSet(m))
  OBVIOUS
<1>2. w \in Seq(T) /\ ToSet(w) = ToSet(ns) \ ToSet(m) /\ (IsInjective(ns) => IsInjective(w))
  BY <1>1, WithoutIs
<1>3. SetAll(m, ns) = m \o w
  BY <1>1 DEF SetAll
<1>4. ToSet(m) \cap ToSet(w) = {}
  BY <1>2
<1>5. /\ m \o w \in Seq(T) /\ ToSet(m \o w) = ToSet(m) \cup ToSet(w)
      /\ IsInjective(m) /\ IsInjective(w) /\ ToSet(m) \cap ToSet(w) = {} => IsInjective(m \o w)
  BY <1>2, JoinedIs
<1> QED  BY <1>2, <1>3, <1>4, <1>5

\* What each record does to a saved state.
LEMMA RestoreIs ==
  ASSUME NEW S \in SavedFlows
  PROVE  /\ \A f \in Chains :
              /\ Restore(S, [op |-> "CHAIN_REGISTER", id |-> f])
                   = [chain |-> [S.chain EXCEPT ![f] = 1], nodes |-> S.nodes, deps |-> S.deps, dlq |-> S.dlq]
              /\ Restore(S, [op |-> "CHAIN_COMPLETE", id |-> f])
                   = [chain |-> [S.chain EXCEPT ![f] = 0], nodes |-> S.nodes, deps |-> S.deps, dlq |-> S.dlq]
         /\ \A f \in Chains, s \in 1 .. Steps :
              Restore(S, [op |-> "CHAIN_ADVANCE", id |-> f, step |-> s])
                = IF S.chain[f] = 0 THEN S
                  ELSE [chain |-> [S.chain EXCEPT ![f] = s], nodes |-> S.nodes, deps |-> S.deps, dlq |-> S.dlq]
         /\ \A d \in Dags, ns \in Seq(Nodes) :
              Restore(S, [op |-> "DAG_REGISTER", id |-> d, nodes |-> ns])
                = [chain |-> S.chain, nodes |-> SetAll(S.nodes, ns),
                   deps |-> Cleared(S.deps, ns), dlq |-> S.dlq]
         /\ \A n, m \in Nodes :
              Restore(S, [op |-> "DAG_COMPLETE_DEP", id |-> n, dep |-> m])
                = IF n \in ToSet(S.nodes)
                  THEN [chain |-> S.chain, nodes |-> S.nodes, deps |-> [S.deps EXCEPT ![n] = @ \cup {m}], dlq |-> S.dlq]
                  ELSE S
         /\ \A j \in Jobs :
              /\ Restore(S, [op |-> "DLQ_ADD", id |-> j])
                   = [chain |-> S.chain, nodes |-> S.nodes, deps |-> S.deps, dlq |-> SetAll(S.dlq, <<j>>)]
              /\ Restore(S, [op |-> "DLQ_REMOVE", id |-> j])
                   = [chain |-> S.chain, nodes |-> S.nodes, deps |-> S.deps, dlq |-> Without(S.dlq, {j})]
<1>1. PICK c, n, d, q : c = S.chain /\ n = S.nodes /\ d = S.deps /\ q = S.dlq
  OBVIOUS
<1>2. S = [chain |-> c, nodes |-> n, deps |-> d, dlq |-> q]
  BY <1>1, SavedIs
<1>3. \A f \in Chains :
        /\ Restore(S, [op |-> "CHAIN_REGISTER", id |-> f])
             = [chain |-> [c EXCEPT ![f] = 1], nodes |-> n, deps |-> d, dlq |-> q]
        /\ Restore(S, [op |-> "CHAIN_COMPLETE", id |-> f])
             = [chain |-> [c EXCEPT ![f] = 0], nodes |-> n, deps |-> d, dlq |-> q]
  BY <1>2 DEF Restore
<1>4. \A f \in Chains, s \in 1 .. Steps :
        Restore(S, [op |-> "CHAIN_ADVANCE", id |-> f, step |-> s])
          = IF c[f] = 0 THEN S
            ELSE [chain |-> [c EXCEPT ![f] = s], nodes |-> n, deps |-> d, dlq |-> q]
  BY <1>2 DEF Restore
<1>5. \A g \in Dags, ns \in Seq(Nodes) :
        Restore(S, [op |-> "DAG_REGISTER", id |-> g, nodes |-> ns])
          = [chain |-> c, nodes |-> SetAll(n, ns),
             deps |-> Cleared(d, ns), dlq |-> q]
  BY <1>2, ZenonT(60) DEF Restore
<1>6. \A k, m \in Nodes :
        Restore(S, [op |-> "DAG_COMPLETE_DEP", id |-> k, dep |-> m])
          = IF k \in ToSet(n)
            THEN [chain |-> c, nodes |-> n, deps |-> [d EXCEPT ![k] = @ \cup {m}], dlq |-> q]
            ELSE S
  BY <1>2 DEF Restore
<1>7. \A j \in Jobs :
        /\ Restore(S, [op |-> "DLQ_ADD", id |-> j])
             = [chain |-> c, nodes |-> n, deps |-> d, dlq |-> SetAll(q, <<j>>)]
        /\ Restore(S, [op |-> "DLQ_REMOVE", id |-> j])
             = [chain |-> c, nodes |-> n, deps |-> d, dlq |-> Without(q, {j})]
  BY <1>2 DEF Restore
<1> QED  BY <1>1, <1>3, <1>4, <1>5, <1>6, <1>7

\* What holds of every replay of a prefix, G[n] of n records.
LEMMA ReplayIn ==
  ASSUME NEW T, NEW S, NEW r \in Seq(T), NEW G, S \in G[0],
         \A n \in 1 .. Len(r) : \A s \in G[n - 1] : Restore(s, r[n]) \in G[n]
  PROVE  \A n \in 0 .. Len(r) : Replay(S, SubSeq(r, 1, n)) \in G[n]
<1> DEFINE bad == {n \in 0 .. Len(r) : Replay(S, SubSeq(r, 1, n)) \notin G[n]}
<1>0. Len(r) \in Nat
  OBVIOUS
<1>1. Replay(S, SubSeq(r, 1, 0)) \in G[0]
  <2>1. SubSeq(r, 1, 0) = <<>>
    OBVIOUS
  <2> QED  BY <2>1, ReplayNone
<1>2. bad = {}
  <2> SUFFICES ASSUME bad # {} PROVE FALSE
    OBVIOUS
  <2>1. bad \in SUBSET Nat
    BY <1>0
  <2>2. PICK m \in bad : \A n \in bad : m <= n
    BY <2>1, LeastOf
  <2>3. m \in Nat /\ m \in 0 .. Len(r) /\ m # 0
    BY <1>0, <1>1, <2>2
  <2>4. m - 1 \in 0 .. Len(r) /\ ~(m <= m - 1) /\ m \in 1 .. Len(r)
    BY <1>0, <2>3
  <2>5. Replay(S, SubSeq(r, 1, m - 1)) \in G[m - 1]
    BY <2>2, <2>4
  <2>6. Replay(S, SubSeq(r, 1, m)) = Restore(Replay(S, SubSeq(r, 1, m - 1)), r[m])
    BY <2>4, ReplayOne
  <2> QED  BY <2>2, <2>4, <2>5, <2>6
<1> QED  BY <1>2

-----------------------------------------------------------------------------
(***************************************************************************)
(* The log.                                                                *)
(***************************************************************************)

\* Fewer jobs of a chain, more that came back.
LEMMA CurrentKept ==
  ASSUME NEW f, NEW c, NEW js, NEW rv, Current(f, c, js, rv),
         NEW js2, NEW rv2, js2 \subseteq js, rv \subseteq rv2
  PROVE  Current(f, c, js2, rv2)
  BY DEF Current

\* More jobs of which the same holds.
LEMMA CurrentJoined ==
  ASSUME NEW f, NEW c, NEW js, NEW js2, NEW rv, Current(f, c, js, rv), Current(f, c, js2, rv)
  PROVE  Current(f, c, js \cup js2, rv)
  BY DEF Current

\* What is true of the past stays true when it grows.
LEMMA GoodGrows ==
  ASSUME NEW S, NEW st, NEW cr, NEW co, NEW fa, NEW n, NEW rv, GoodFor(S, st, cr, co, fa, n, rv),
         NEW st2, NEW cr2, NEW co2, NEW fa2, NEW rv2,
         st \subseteq st2, cr \subseteq cr2, co \subseteq co2, fa \subseteq fa2, rv \subseteq rv2
  PROVE  GoodFor(S, st2, cr2, co2, fa2, n, rv2)
<1>1. AcceptedOf(st) \subseteq AcceptedOf(st2)
  BY DEF AcceptedOf
<1>2. ToSet(S.nodes) \subseteq AcceptedOf(st2)
  BY <1>1 DEF GoodFor
<1>3. S \in SavedFlows /\ IsInjective(S.nodes) /\ IsInjective(S.dlq) /\ ToSet(S.dlq) \subseteq cr2
  BY DEF GoodFor
<1>4. \A k \in Nodes : \A m \in S.deps[k] : NodeJob(m) \in co2
  BY DEF GoodFor
<1>5. \A f \in Chains : S.chain[f] # 0 => f \in st2 /\ Current(f, S.chain[f], ToSet(S.dlq), rv2)
  BY CurrentKept DEF GoodFor
<1>6. n = 0 => ToSet(S.dlq) \subseteq fa2
  BY DEF GoodFor
<1> QED  BY <1>2, <1>3, <1>4, <1>5, <1>6 DEF GoodFor

\* A queue that starts from an empty log has nothing that could be wrong.
LEMMA NothingIsGood ==
  ASSUME NEW st, NEW cr, NEW co, NEW fa, NEW n, NEW rv
  PROVE  GoodFor(Nothing, st, cr, co, fa, n, rv)
<1>1. PICK e : e = <<>>
  OBVIOUS
<1>2. e \in Seq(Nodes) /\ e \in Seq(Jobs) /\ ToSet(e) = {} /\ IsInjective(e)
  BY <1>1 DEF ToSet, IsInjective
<1>3. PICK c, d : c = [f \in Chains |-> 0] /\ d = [k \in Nodes |-> {}]
  OBVIOUS
<1>4. c \in [Chains -> 0 .. Steps] /\ d \in [Nodes -> SUBSET Nodes]
  BY <1>3, JobsAre
<1>5. Nothing = [chain |-> c, nodes |-> e, deps |-> d, dlq |-> e]
  BY <1>1, <1>3 DEF Nothing
<1>6. Nothing \in SavedFlows
  BY <1>2, <1>4, <1>5, SavedHas
<1>7. Nothing.chain = c /\ Nothing.nodes = e /\ Nothing.deps = d /\ Nothing.dlq = e
  BY <1>5
<1> QED  BY <1>2, <1>3, <1>6, <1>7 DEF GoodFor

\* The bounds are numbers, and the last crash ends the log.
LEMMA BoundsAre ==
  ASSUME FlowTypes
  PROVE  /\ crashes \in Nat /\ flowBudget.crashes \in Nat /\ MaxUnwritten \in Nat
         /\ crashes < flowBudget.crashes \/ crashes = flowBudget.crashes
<1>1. flowBudget.crashes \in Nat /\ MaxUnwritten \in Nat
  BY FlowsAssumption DEF FlowTypes, FlowTypeOK
<1> QED  BY <1>1 DEF FlowTypes, FlowTypeOK

\* What a restart from the whole log would find.
LEMMA LogIs ==
  ASSUME FlowTypes, LogOK, crashes < flowBudget.crashes
  PROVE  GoodFor(Replay(disk, stream), started, created, completed, failed, crashes, revived)
<1>1. Len(stream) \in Nat /\ SubSeq(stream, 1, Len(stream)) = stream
  BY DEF FlowTypes
<1>2. Len(stream) \in 0 .. Len(stream)
  BY <1>1
<1>3. GoodFor(Replay(disk, SubSeq(stream, 1, Len(stream))), started, created, completed, failed, crashes, revived)
  BY <1>2 DEF LogOK
<1> QED  BY <1>1, <1>3

\* G[n] holds what M and n of the records are replayed to, which is true after the step,
\* and at last agrees with it.
SuitsFrom(M, G, records) ==
  /\ M \in G[0]
  /\ \A n \in 1 .. Len(records) : \A S \in G[n - 1] : Restore(S, records[n]) \in G[n]
  /\ \A n \in 0 .. Len(records) : \A S \in G[n] :
       GoodFor(S, started', created', completed', failed', crashes, revived)
  /\ \A S \in G[Len(records)] :
       /\ ToSet(S.dlq) \subseteq Letters'
       /\ \A f \in Chains : S.chain[f] \in {0, chainMap'[f]}

\* The same of what the log and n of the records are replayed to.
Suits(G, records) == SuitsFrom(Replay(disk, stream), G, records)

\* A step whose records suit it keeps the log true.
LEMMA LogKeeps ==
  ASSUME FlowTypes, LogOK, NEW records \in Seq(FlowRecords), Log(records),
         crashes' = crashes, flowBudget' = flowBudget, revived' = revived,
         started \subseteq started', created \subseteq created',
         completed \subseteq completed', failed \subseteq failed',
         crashes < flowBudget.crashes => \E G : Suits(G, records)
  PROVE  stream' \in Seq(FlowRecords) /\ disk' \in SavedFlows /\ LogOK'
<1>0. stream \in Seq(FlowRecords) /\ disk \in SavedFlows
  BY DEF FlowTypes
<1>1. CASE crashes = flowBudget.crashes
  <2>1. disk' = disk /\ stream' = stream
    BY <1>1 DEF Log
  <2>2. ~(crashes' < flowBudget'.crashes)
    BY <1>1, BoundsAre
  <2> QED  BY <1>0, <2>1, <2>2 DEF LogOK
<1>2. CASE crashes < flowBudget.crashes
  <2> DEFINE all  == stream \o records
             late == IF Len(all) > MaxUnwritten THEN Len(all) - MaxUnwritten ELSE 0
             p    == SubSeq(all, 1, late)
             q    == SubSeq(all, late + 1, Len(all))
             L    == Replay(disk, stream)
             Fine(S) == GoodFor(S, started', created', completed', failed', crashes, revived)
  <2>1. disk' = Replay(disk, p) /\ stream' = q
    <3>1. crashes # flowBudget.crashes
      BY <1>2, BoundsAre
    <3> QED  BY <3>1 DEF Log
  <2>2. /\ all \in Seq(FlowRecords) /\ Len(all) = Len(stream) + Len(records)
        /\ Len(stream) \in Nat /\ Len(records) \in Nat /\ Len(all) \in Nat
    BY <1>0
  <2>3. PICK G : Suits(G, records)
    BY <1>2
  <2>4. L \in G[0] /\ \A n \in 1 .. Len(records) : \A S \in G[n - 1] : Restore(S, records[n]) \in G[n]
    BY <2>3 DEF Suits, SuitsFrom
  <2> HIDE DEF L
  <2>5. \A n \in 0 .. Len(records) : Replay(L, SubSeq(records, 1, n)) \in G[n]
    BY <2>4, ReplayIn
  <2>6. /\ \A n \in 0 .. Len(stream) : Replay(disk, SubSeq(all, 1, n)) = Replay(disk, SubSeq(stream, 1, n))
        /\ \A n \in 0 .. Len(records) :
             Replay(disk, SubSeq(all, 1, Len(stream) + n)) = Replay(L, SubSeq(records, 1, n))
    BY <1>0, ReplayJoined DEF L
  <2>7. late \in 0 .. Len(all)
    BY <2>2, BoundsAre
  <2> HIDE DEF all, late
  <2>8. /\ p \in Seq(FlowRecords) /\ q \in Seq(FlowRecords) /\ p \o q = all
        /\ Len(p) = late /\ Len(q) = Len(all) - late
    <3>1. late \in Nat /\ late <= Len(all)
      BY <2>2, <2>7
    <3>2. p \in Seq(FlowRecords) /\ Len(p) = late /\ \A i \in 1 .. late : p[i] = all[i]
      BY <2>2, <3>1
    <3>3. /\ q \in Seq(FlowRecords) /\ Len(q) = Len(all) - late
          /\ \A i \in 1 .. Len(all) - late : q[i] = all[late + i]
      BY <2>2, <3>1
    <3> HIDE DEF p, q
    <3>4. PICK r : r = p \o q
      OBVIOUS
    <3>5. /\ r \in Seq(FlowRecords) /\ Len(r) = Len(all)
          /\ \A i \in 1 .. late : r[i] = p[i]
          /\ \A i \in 1 .. Len(all) - late : r[late + i] = q[i]
      <4>1. p \in Seq(FlowRecords) /\ q \in Seq(FlowRecords)
        BY <3>2, <3>3
      <4>2. /\ r \in Seq(FlowRecords) /\ Len(r) = Len(p) + Len(q)
            /\ \A i \in 1 .. Len(p) : r[i] = p[i]
            /\ \A i \in 1 .. Len(q) : r[Len(p) + i] = q[i]
        BY <3>4, <4>1
      <4> QED  BY <2>2, <3>1, <3>2, <3>3, <4>2
    <3>6. \A i \in 1 .. Len(all) : i \in 1 .. late \/ (i - late \in 1 .. Len(all) - late /\ i = late + (i - late))
      BY <2>2, <3>1
    <3>7. ASSUME NEW i \in 1 .. Len(all) PROVE r[i] = all[i]
      <4>1. CASE i \in 1 .. late
        BY <3>2, <3>5, <4>1
      <4>2. CASE i - late \in 1 .. Len(all) - late /\ i = late + (i - late)
        BY <3>3, <3>5, <4>2
      <4> QED  BY <3>6, <4>1, <4>2
    <3>8. r = all
      BY <2>2, <3>5, <3>7, SeqEqual
    <3> QED  BY <3>2, <3>3, <3>4, <3>8
  <2> HIDE DEF p, q
  <2>9. \A n \in 0 .. Len(q) : Replay(disk', SubSeq(q, 1, n)) = Replay(disk, SubSeq(all, 1, late + n))
    <3>1. \A n \in 0 .. Len(q) :
            Replay(disk, SubSeq(p \o q, 1, Len(p) + n)) = Replay(Replay(disk, p), SubSeq(q, 1, n))
      <4>1. p \in Seq(FlowRecords) /\ q \in Seq(FlowRecords)
        BY <2>8
      <4> QED  BY <4>1, ReplayJoined
    <3> QED  BY <2>1, <2>8, <3>1
  <2>10. ASSUME NEW m \in 0 .. Len(all) PROVE Fine(Replay(disk, SubSeq(all, 1, m)))
    <3>1. CASE m \in 0 .. Len(stream)
      <4>1. PICK S : S = Replay(disk, SubSeq(stream, 1, m))
        OBVIOUS
      <4>2. GoodFor(S, started, created, completed, failed, crashes, revived)
        BY <1>2, <3>1, <4>1 DEF LogOK
      <4>3. Fine(S)
        BY <4>2, GoodGrows
      <4> QED  BY <2>6, <3>1, <4>1, <4>3
    <3>2. CASE m - Len(stream) \in 0 .. Len(records)
      <4>1. m = Len(stream) + (m - Len(stream))
        BY <2>2
      <4>2. Replay(disk, SubSeq(all, 1, m)) = Replay(L, SubSeq(records, 1, m - Len(stream)))
        BY <2>6, <3>2, <4>1
      <4>3. Replay(L, SubSeq(records, 1, m - Len(stream))) \in G[m - Len(stream)]
        BY <2>5, <3>2
      <4> QED  BY <2>3, <3>2, <4>2, <4>3 DEF Suits, SuitsFrom
    <3>3. m \in 0 .. Len(stream) \/ m - Len(stream) \in 0 .. Len(records)
      BY <2>2
    <3> QED  BY <3>1, <3>2, <3>3
  <2>11. \A n \in 0 .. Len(q) : Fine(Replay(disk', SubSeq(q, 1, n)))
    <3>1. \A n \in 0 .. Len(q) : late + n \in 0 .. Len(all)
      BY <2>2, <2>7, <2>8
    <3> HIDE DEF Fine
    <3> QED  BY <2>9, <2>10, <3>1
  <2>12. disk' \in SavedFlows
    <3>1. late \in 0 .. Len(all) /\ SubSeq(p \o q, 1, late) = p
      <4>1. late \in Nat /\ Len(p) = late
        BY <2>2, <2>7, <2>8
      <4>2. /\ SubSeq(p \o q, 1, late) \in Seq(FlowRecords) /\ Len(SubSeq(p \o q, 1, late)) = late
            /\ \A i \in 1 .. late : SubSeq(p \o q, 1, late)[i] = (p \o q)[i]
        BY <2>2, <2>7, <2>8
      <4>3. \A i \in 1 .. late : (p \o q)[i] = p[i]
        BY <2>8
      <4> QED  BY <2>7, <2>8, <4>1, <4>2, <4>3, SeqEqual
    <3>2. Fine(Replay(disk, p))
      BY <2>8, <2>10, <3>1
    <3> QED  BY <2>1, <3>2 DEF GoodFor
  <2>13. Replay(disk', q) \in G[Len(records)]
    <3>1. Len(q) \in 0 .. Len(q) /\ SubSeq(q, 1, Len(q)) = q /\ late + Len(q) = Len(all)
      BY <2>2, <2>7, <2>8
    <3>2. Replay(disk', q) = Replay(disk, SubSeq(all, 1, Len(all)))
      BY <2>9, <3>1
    <3>3. Len(records) \in 0 .. Len(records)
      BY <2>2
    <3>4. Replay(disk, SubSeq(all, 1, Len(all))) = Replay(L, SubSeq(records, 1, Len(records)))
      BY <2>2, <2>6, <3>3
    <3> QED  BY <2>5, <3>2, <3>3, <3>4
  <2>14. /\ ToSet(Replay(disk', stream').dlq) \subseteq Letters'
         /\ \A f \in Chains : Replay(disk', stream').chain[f] \in {0, chainMap'[f]}
    BY <2>1, <2>3, <2>13 DEF Suits, SuitsFrom
  <2>15. LogOK'
    BY <2>1, <2>11, <2>14 DEF LogOK
  <2> QED  BY <2>1, <2>8, <2>12, <2>15
<1> QED  BY <1>1, <1>2, BoundsAre

\* A step that writes no record.
LEMMA LogUnchanged ==
  ASSUME FlowTypes, LogOK, disk' = disk, stream' = stream,
         crashes' = crashes, flowBudget' = flowBudget, revived' = revived,
         started \subseteq started', created \subseteq created',
         completed \subseteq completed', failed \subseteq failed',
         Letters \subseteq Letters', chainMap' = chainMap
  PROVE  stream' \in Seq(FlowRecords) /\ disk' \in SavedFlows /\ LogOK'
<1>1. stream' \in Seq(FlowRecords) /\ disk' \in SavedFlows
  BY DEF FlowTypes
<1>2. ASSUME crashes < flowBudget.crashes, NEW n \in 0 .. Len(stream)
      PROVE  GoodFor(Replay(disk, SubSeq(stream, 1, n)), started', created', completed', failed', crashes, revived)
  <2>1. PICK S : S = Replay(disk, SubSeq(stream, 1, n))
    OBVIOUS
  <2>2. GoodFor(S, started, created, completed, failed, crashes, revived)
    BY <1>2, <2>1 DEF LogOK
  <2>3. GoodFor(S, started', created', completed', failed', crashes, revived)
    BY <2>2, GoodGrows
  <2> QED  BY <2>1, <2>3
<1>3. LogOK'
  <2>1. crashes < flowBudget.crashes =>
          /\ ToSet(Replay(disk, stream).dlq) \subseteq Letters'
          /\ \A f \in Chains : Replay(disk, stream).chain[f] \in {0, chainMap'[f]}
    BY DEF LogOK
  <2> QED  BY <1>2, <2>1 DEF LogOK
<1> QED  BY <1>1, <1>3

\* One record, and none.
LEMMA LogOne ==
  ASSUME FlowTypes, LogOK, NEW e \in FlowRecords, Log(<<e>>),
         crashes' = crashes, flowBudget' = flowBudget, revived' = revived,
         started \subseteq started', created \subseteq created',
         completed \subseteq completed', failed \subseteq failed',
         crashes < flowBudget.crashes =>
           /\ GoodFor(Restore(Replay(disk, stream), e), started', created', completed', failed', crashes, revived)
           /\ ToSet(Restore(Replay(disk, stream), e).dlq) \subseteq Letters'
           /\ \A f \in Chains : Restore(Replay(disk, stream), e).chain[f] \in {0, chainMap'[f]}
  PROVE  stream' \in Seq(FlowRecords) /\ disk' \in SavedFlows /\ LogOK'
<1>1. PICK r : r = <<e>>
  OBVIOUS
<1>2. r \in Seq(FlowRecords) /\ Len(r) = 1 /\ r[1] = e
  BY <1>1
<1>3. ASSUME crashes < flowBudget.crashes PROVE \E G : Suits(G, r)
  <2>1. PICK L, R : L = Replay(disk, stream) /\ R = Restore(L, e)
    OBVIOUS
  <2>2. PICK G : G = [n \in 0 .. 1 |-> IF n = 0 THEN {L} ELSE {R}]
    OBVIOUS
  <2>3. G[0] = {L} /\ G[1] = {R}
    BY <2>2
  <2>4. GoodFor(L, started', created', completed', failed', crashes, revived)
    <3>1. GoodFor(L, started, created, completed, failed, crashes, revived)
      BY <1>3, <2>1, LogIs
    <3> QED  BY <3>1, GoodGrows
  <2>5. /\ GoodFor(R, started', created', completed', failed', crashes, revived)
        /\ ToSet(R.dlq) \subseteq Letters'
        /\ \A f \in Chains : R.chain[f] \in {0, chainMap'[f]}
    BY <1>3, <2>1
  <2>6. (\A n \in 1 .. Len(r) : n = 1) /\ (\A n \in 0 .. Len(r) : n = 0 \/ n = 1)
    BY <1>2
  <2>7. \A n \in 1 .. Len(r) : \A S \in G[n - 1] : Restore(S, r[n]) \in G[n]
    BY <1>2, <2>1, <2>3, <2>6
  <2>8. \A n \in 0 .. Len(r) : \A S \in G[n] : S = L \/ S = R
    BY <2>3, <2>6
  <2>9. \A S \in G[Len(r)] : S = R
    BY <1>2, <2>3
  <2> QED  BY <2>1, <2>3, <2>4, <2>5, <2>7, <2>8, <2>9 DEF Suits, SuitsFrom
<1> QED  BY <1>1, <1>2, <1>3, LogKeeps

\* Log of no records.
LEMMA LogNone ==
  ASSUME FlowTypes, LogOK, Log(<<>>), crashes' = crashes, flowBudget' = flowBudget, revived' = revived,
         started \subseteq started', created \subseteq created',
         completed \subseteq completed', failed \subseteq failed',
         Letters \subseteq Letters', \A f \in Chains : chainMap[f] \in {0, chainMap'[f]}
  PROVE  stream' \in Seq(FlowRecords) /\ disk' \in SavedFlows /\ LogOK'
<1>1. PICK r : r = <<>>
  OBVIOUS
<1>2. r \in Seq(FlowRecords) /\ Len(r) = 0
  BY <1>1
<1>3. ASSUME crashes < flowBudget.crashes PROVE \E G : Suits(G, r)
  <2>1. PICK L : L = Replay(disk, stream)
    OBVIOUS
  <2>2. PICK G : G = [n \in 0 .. 0 |-> {L}]
    OBVIOUS
  <2>3. G[0] = {L} /\ G[Len(r)] = {L}
    BY <1>2, <2>2
  <2>4. GoodFor(L, started', created', completed', failed', crashes, revived)
    <3>1. GoodFor(L, started, created, completed, failed, crashes, revived)
      BY <1>3, <2>1, LogIs
    <3> QED  BY <3>1, GoodGrows
  <2>5. ToSet(L.dlq) \subseteq Letters' /\ \A f \in Chains : L.chain[f] \in {0, chainMap'[f]}
    BY <1>3, <2>1 DEF LogOK
  <2>6. (\A n \in 1 .. Len(r) : FALSE) /\ (\A n \in 0 .. Len(r) : n = 0)
    BY <1>2
  <2> QED  BY <2>1, <2>3, <2>4, <2>5, <2>6 DEF Suits, SuitsFrom
<1> QED  BY <1>1, <1>2, <1>3, LogKeeps

-----------------------------------------------------------------------------
(* What each record makes of true flows.                                   *)

\* What a good saved state says, and from what it follows.
LEMMA GoodHas ==
  ASSUME NEW S, NEW st, NEW cr, NEW co, NEW fa, NEW n, NEW rv, GoodFor(S, st, cr, co, fa, n, rv)
  PROVE  /\ S \in SavedFlows
         /\ S.chain \in [Chains -> 0 .. Steps] /\ S.nodes \in Seq(Nodes)
         /\ S.deps \in [Nodes -> SUBSET Nodes] /\ S.dlq \in Seq(Jobs)
         /\ IsInjective(S.nodes) /\ ToSet(S.nodes) \subseteq AcceptedOf(st)
         /\ \A k \in Nodes : \A m \in S.deps[k] : NodeJob(m) \in co
         /\ IsInjective(S.dlq) /\ ToSet(S.dlq) \subseteq cr
         /\ \A f \in Chains : S.chain[f] # 0 =>
              f \in st /\ Current(f, S.chain[f], ToSet(S.dlq), rv)
         /\ n = 0 => ToSet(S.dlq) \subseteq fa
<1>1. S \in SavedFlows
  BY DEF GoodFor
<1>2. /\ S.chain \in [Chains -> 0 .. Steps] /\ S.nodes \in Seq(Nodes)
      /\ S.deps \in [Nodes -> SUBSET Nodes] /\ S.dlq \in Seq(Jobs)
  BY <1>1, SavedIs
<1> QED  BY <1>1, <1>2 DEF GoodFor

\* A saved state with these fields is good.
LEMMA GoodIs ==
  ASSUME NEW R, NEW st, NEW cr, NEW co, NEW fa, NEW n, NEW rv,
         NEW c \in [Chains -> 0 .. Steps], NEW ns \in Seq(Nodes),
         NEW d \in [Nodes -> SUBSET Nodes], NEW q \in Seq(Jobs),
         R = [chain |-> c, nodes |-> ns, deps |-> d, dlq |-> q],
         IsInjective(ns), ToSet(ns) \subseteq AcceptedOf(st),
         \A k \in Nodes : \A m \in d[k] : NodeJob(m) \in co,
         IsInjective(q), ToSet(q) \subseteq cr,
         \A f \in Chains : c[f] # 0 =>
           f \in st /\ Current(f, c[f], ToSet(q), rv),
         n = 0 => ToSet(q) \subseteq fa
  PROVE  GoodFor(R, st, cr, co, fa, n, rv) /\ R.chain = c /\ R.nodes = ns /\ R.deps = d /\ R.dlq = q
<1>1. R.chain = c /\ R.nodes = ns /\ R.deps = d /\ R.dlq = q
  OBVIOUS
<1>2. R \in SavedFlows
  BY SavedHas
<1> QED  BY <1>1, <1>2 DEF GoodFor

\* A letter less.
LEMMA GoodRemoved ==
  ASSUME NEW S, NEW st, NEW cr, NEW co, NEW fa, NEW n, NEW rv, GoodFor(S, st, cr, co, fa, n, rv),
         NEW j \in Jobs, NEW R, R = Restore(S, [op |-> "DLQ_REMOVE", id |-> j])
  PROVE  /\ GoodFor(R, st, cr, co, fa, n, rv)
         /\ R.chain = S.chain /\ ToSet(R.dlq) = ToSet(S.dlq) \ {j}
<1>1. PICK q : q = Without(S.dlq, {j})
  OBVIOUS
<1>2. q \in Seq(Jobs) /\ ToSet(q) = ToSet(S.dlq) \ {j} /\ (IsInjective(S.dlq) => IsInjective(q))
  BY <1>1, GoodHas, WithoutIs
<1>3. R = [chain |-> S.chain, nodes |-> S.nodes, deps |-> S.deps, dlq |-> q]
  BY <1>1, GoodHas, RestoreIs
<1>4. PICK c, ns, d : c = S.chain /\ ns = S.nodes /\ d = S.deps
  OBVIOUS
<1>5. ToSet(q) \subseteq ToSet(S.dlq)
  BY <1>2
<1>6. /\ c \in [Chains -> 0 .. Steps] /\ ns \in Seq(Nodes) /\ d \in [Nodes -> SUBSET Nodes]
      /\ IsInjective(ns) /\ ToSet(ns) \subseteq AcceptedOf(st) /\ IsInjective(q)
      /\ \A k \in Nodes : \A m \in d[k] : NodeJob(m) \in co
      /\ ToSet(q) \subseteq cr /\ (n = 0 => ToSet(q) \subseteq fa)
  BY <1>2, <1>4, <1>5, GoodHas
<1>7. \A f \in Chains : c[f] # 0 =>
        f \in st /\ Current(f, c[f], ToSet(q), rv)
  BY <1>4, <1>5, GoodHas, CurrentKept
<1>8. R = [chain |-> c, nodes |-> ns, deps |-> d, dlq |-> q] /\ q \in Seq(Jobs)
  BY <1>2, <1>3, <1>4
<1>9. GoodFor(R, st, cr, co, fa, n, rv) /\ R.chain = c /\ R.dlq = q
  BY <1>6, <1>7, <1>8, GoodIs
<1> QED  BY <1>2, <1>4, <1>9

\* A letter more.
LEMMA GoodAdded ==
  ASSUME NEW S, NEW st, NEW cr, NEW co, NEW fa, NEW n, NEW rv, GoodFor(S, st, cr, co, fa, n, rv),
         NEW j \in Jobs, NEW R, R = Restore(S, [op |-> "DLQ_ADD", id |-> j]),
         j \in cr, n = 0 => j \in fa,
         \A f \in Chains : S.chain[f] # 0 => Current(f, S.chain[f], {j}, rv)
  PROVE  /\ GoodFor(R, st, cr, co, fa, n, rv)
         /\ R.chain = S.chain /\ ToSet(R.dlq) = ToSet(S.dlq) \cup {j}
<1>0. PICK o : o = <<j>>
  OBVIOUS
<1>1. PICK q : q = SetAll(S.dlq, o)
  OBVIOUS
<1>2. q \in Seq(Jobs) /\ ToSet(q) = ToSet(S.dlq) \cup {j} /\ (IsInjective(S.dlq) => IsInjective(q))
  <2>1. o \in Seq(Jobs) /\ ToSet(o) = {j} /\ IsInjective(o)
    BY <1>0, OneIs
  <2>2. S.dlq \in Seq(Jobs)
    BY GoodHas
  <2> QED  BY <1>1, <2>1, <2>2, SetAllIs
<1>3. R = [chain |-> S.chain, nodes |-> S.nodes, deps |-> S.deps, dlq |-> q]
  BY <1>0, <1>1, GoodHas, RestoreIs
<1>4. PICK c, ns, d : c = S.chain /\ ns = S.nodes /\ d = S.deps
  OBVIOUS
<1>6. /\ c \in [Chains -> 0 .. Steps] /\ ns \in Seq(Nodes) /\ d \in [Nodes -> SUBSET Nodes]
      /\ IsInjective(ns) /\ ToSet(ns) \subseteq AcceptedOf(st) /\ IsInjective(q)
      /\ \A k \in Nodes : \A m \in d[k] : NodeJob(m) \in co
      /\ ToSet(q) \subseteq cr /\ (n = 0 => ToSet(q) \subseteq fa)
  BY <1>2, <1>4, GoodHas
<1>7. \A f \in Chains : c[f] # 0 =>
        f \in st /\ Current(f, c[f], ToSet(q), rv)
  BY <1>2, <1>4, GoodHas, CurrentJoined
<1>8. R = [chain |-> c, nodes |-> ns, deps |-> d, dlq |-> q] /\ q \in Seq(Jobs)
  BY <1>2, <1>3, <1>4
<1>9. GoodFor(R, st, cr, co, fa, n, rv) /\ R.chain = c /\ R.dlq = q
  BY <1>6, <1>7, <1>8, GoodIs
<1> QED  BY <1>2, <1>4, <1>9

\* A chain that is elsewhere: v is its step, 0 when it is over.
LEMMA GoodChained ==
  ASSUME NEW S, NEW st, NEW cr, NEW co, NEW fa, NEW n, NEW rv, GoodFor(S, st, cr, co, fa, n, rv),
         NEW f \in Chains, NEW v \in 0 .. Steps, NEW R,
         R = [chain |-> [S.chain EXCEPT ![f] = v], nodes |-> S.nodes, deps |-> S.deps, dlq |-> S.dlq],
         v # 0 => f \in st /\ Current(f, v, ToSet(S.dlq), rv)
  PROVE  /\ GoodFor(R, st, cr, co, fa, n, rv)
         /\ R.chain = [S.chain EXCEPT ![f] = v] /\ R.dlq = S.dlq
<1>4. PICK c, ns, d, q : c = [S.chain EXCEPT ![f] = v] /\ ns = S.nodes /\ d = S.deps /\ q = S.dlq
  OBVIOUS
<1>5. c \in [Chains -> 0 .. Steps] /\ c[f] = v /\ \A g \in Chains : g # f => c[g] = S.chain[g]
  BY <1>4, GoodHas
<1>6. /\ ns \in Seq(Nodes) /\ d \in [Nodes -> SUBSET Nodes] /\ q \in Seq(Jobs)
      /\ IsInjective(ns) /\ ToSet(ns) \subseteq AcceptedOf(st) /\ IsInjective(q)
      /\ \A k \in Nodes : \A m \in d[k] : NodeJob(m) \in co
      /\ ToSet(q) \subseteq cr /\ (n = 0 => ToSet(q) \subseteq fa)
  BY <1>4, GoodHas
<1>7. \A g \in Chains : c[g] # 0 =>
        g \in st /\ Current(g, c[g], ToSet(q), rv)
  <2> TAKE g \in Chains
  <2>1. CASE g = f
    BY <1>4, <1>5, <2>1
  <2>2. CASE g # f
    <3>1. S.chain[g] # 0 =>
            g \in st /\ Current(g, S.chain[g], ToSet(S.dlq), rv)
      BY GoodHas
    <3> QED  BY <1>4, <1>5, <2>2, <3>1
  <2> QED  BY <2>1, <2>2
<1>8. R = [chain |-> c, nodes |-> ns, deps |-> d, dlq |-> q]
  BY <1>4
<1>9. GoodFor(R, st, cr, co, fa, n, rv) /\ R.chain = c /\ R.dlq = q
  BY <1>5, <1>6, <1>7, <1>8, GoodIs, SMTT(60)
<1> QED  BY <1>4, <1>9

\* A dependency that completed.
LEMMA GoodMarked ==
  ASSUME NEW S, NEW st, NEW cr, NEW co, NEW fa, NEW n, NEW rv, GoodFor(S, st, cr, co, fa, n, rv),
         NEW k \in Nodes, NEW m \in Nodes, NodeJob(m) \in co,
         NEW R, R = Restore(S, [op |-> "DAG_COMPLETE_DEP", id |-> k, dep |-> m])
  PROVE  GoodFor(R, st, cr, co, fa, n, rv) /\ R.chain = S.chain /\ R.dlq = S.dlq
<1>1. CASE k \notin ToSet(S.nodes)
  <2>1. S \in SavedFlows
    BY GoodHas
  <2>2. \A h, g \in Nodes : h \notin ToSet(S.nodes) =>
          Restore(S, [op |-> "DAG_COMPLETE_DEP", id |-> h, dep |-> g]) = S
    BY <2>1, RestoreIs
  <2>3. R = S
    BY <1>1, <2>2
  <2> QED  BY <2>3
<1>2. CASE k \in ToSet(S.nodes)
  <2>1. PICK c, ns, d, q : c = S.chain /\ ns = S.nodes /\ d = [S.deps EXCEPT ![k] = @ \cup {m}] /\ q = S.dlq
    OBVIOUS
  <2>2. R = [chain |-> c, nodes |-> ns, deps |-> d, dlq |-> q]
    BY <1>2, <2>1, GoodHas, RestoreIs
  <2>3. d \in [Nodes -> SUBSET Nodes] /\ d[k] = S.deps[k] \cup {m} /\ \A h \in Nodes : h # k => d[h] = S.deps[h]
    BY <2>1, GoodHas
  <2>4. \A h \in Nodes : \A g \in d[h] : NodeJob(g) \in co
    BY <2>3, GoodHas
  <2>5. /\ c \in [Chains -> 0 .. Steps] /\ ns \in Seq(Nodes) /\ q \in Seq(Jobs)
        /\ IsInjective(ns) /\ ToSet(ns) \subseteq AcceptedOf(st) /\ IsInjective(q)
        /\ ToSet(q) \subseteq cr /\ (n = 0 => ToSet(q) \subseteq fa)
        /\ \A f \in Chains : c[f] # 0 =>
             f \in st /\ Current(f, c[f], ToSet(q), rv)
    BY <2>1, GoodHas
  <2>6. GoodFor(R, st, cr, co, fa, n, rv) /\ R.chain = c /\ R.dlq = q
    BY <2>2, <2>3, <2>4, <2>5, GoodIs
  <2> QED  BY <2>1, <2>6
<1> QED  BY <1>1, <1>2

\* A graph with all nodes there were.
LEMMA GoodAccepted ==
  ASSUME NEW S, NEW st, NEW cr, NEW co, NEW fa, NEW n, NEW rv, GoodFor(S, st, cr, co, fa, n, rv),
         NEW g \in Dags, NEW all \in Seq(Nodes), IsInjective(all), ToSet(all) \subseteq AcceptedOf(st),
         NEW R, R = Restore(S, [op |-> "DAG_REGISTER", id |-> g, nodes |-> all])
  PROVE  GoodFor(R, st, cr, co, fa, n, rv) /\ R.chain = S.chain /\ R.dlq = S.dlq
<1>1. PICK c, ns, d, q : c = S.chain /\ ns = SetAll(S.nodes, all) /\ d = Cleared(S.deps, all) /\ q = S.dlq
  OBVIOUS
<1>2. R = [chain |-> c, nodes |-> ns, deps |-> d, dlq |-> q]
  BY <1>1, GoodHas, RestoreIs
<1>3. ns \in Seq(Nodes) /\ IsInjective(ns) /\ ToSet(ns) = ToSet(S.nodes) \cup ToSet(all)
  BY <1>1, GoodHas, SetAllIs
<1>4. d \in [Nodes -> SUBSET Nodes] /\ \A h \in Nodes : d[h] \subseteq S.deps[h]
  BY <1>1, GoodHas DEF Cleared
<1>5. \A h \in Nodes : \A m \in d[h] : NodeJob(m) \in co
  BY <1>4, GoodHas
<1>6. /\ c \in [Chains -> 0 .. Steps] /\ q \in Seq(Jobs) /\ ToSet(ns) \subseteq AcceptedOf(st)
      /\ IsInjective(q) /\ ToSet(q) \subseteq cr /\ (n = 0 => ToSet(q) \subseteq fa)
      /\ \A f \in Chains : c[f] # 0 =>
           f \in st /\ Current(f, c[f], ToSet(q), rv)
  BY <1>1, <1>3, GoodHas
<1>7. ns \in Seq(Nodes) /\ IsInjective(ns) /\ d \in [Nodes -> SUBSET Nodes]
  BY <1>3, <1>4
<1>8. GoodFor(R, st, cr, co, fa, n, rv) /\ R.chain = c /\ R.dlq = q
  BY <1>2, <1>5, <1>6, <1>7, GoodIs, SMTT(60)
<1> QED  BY <1>1, <1>8

\* The records are records of the log.
LEMMA RecordsAre ==
  /\ \A j \in Jobs : [op |-> "DLQ_REMOVE", id |-> j] \in FlowRecords
  /\ \A j \in Jobs : [op |-> "DLQ_ADD", id |-> j] \in FlowRecords
  /\ \A f \in Chains : [op |-> "CHAIN_REGISTER", id |-> f] \in FlowRecords
  /\ \A f \in Chains : [op |-> "CHAIN_COMPLETE", id |-> f] \in FlowRecords
  /\ \A f \in Chains, s \in 1 .. Steps : [op |-> "CHAIN_ADVANCE", id |-> f, step |-> s] \in FlowRecords
  /\ \A d \in Dags, ns \in Seq(Nodes) : [op |-> "DAG_REGISTER", id |-> d, nodes |-> ns] \in FlowRecords
  /\ \A n, m \in Nodes : [op |-> "DAG_COMPLETE_DEP", id |-> n, dep |-> m] \in FlowRecords
<1>1. \A j \in Jobs : [op |-> "DLQ_REMOVE", id |-> j] \in FlowRecords
  BY DEF FlowRecords
<1>2. \A j \in Jobs : [op |-> "DLQ_ADD", id |-> j] \in FlowRecords
  BY DEF FlowRecords
<1>3. \A f \in Chains : [op |-> "CHAIN_REGISTER", id |-> f] \in FlowRecords
  BY DEF FlowRecords
<1>4. \A f \in Chains : [op |-> "CHAIN_COMPLETE", id |-> f] \in FlowRecords
  BY DEF FlowRecords
<1>5. \A f \in Chains, s \in 1 .. Steps : [op |-> "CHAIN_ADVANCE", id |-> f, step |-> s] \in FlowRecords
  BY DEF FlowRecords
<1>6. \A d \in Dags, ns \in Seq(Nodes) : [op |-> "DAG_REGISTER", id |-> d, nodes |-> ns] \in FlowRecords
  BY DEF FlowRecords
<1>7. \A n, m \in Nodes : [op |-> "DAG_COMPLETE_DEP", id |-> n, dep |-> m] \in FlowRecords
  BY DEF FlowRecords
<1> QED  BY <1>1, <1>2, <1>3, <1>4, <1>5, <1>6, <1>7

-----------------------------------------------------------------------------
(* The log of a job that completes: its dead letter is removed first.      *)

Removed(j) == IF j \in ToSet(dlq) THEN <<[op |-> "DLQ_REMOVE", id |-> j]>> ELSE <<>>

\* What a restart could find once the dead letter of j is removed.
AfterRemoval(M, j) ==
  /\ GoodFor(M, started', created', completed', failed', crashes, revived)
  /\ ToSet(M.dlq) \subseteq Letters \ {j}
  /\ \A f \in Chains : M.chain[f] \in {0, chainMap[f]}

\* A step whose records suit what is left when the letter is removed.
LEMMA LogAfterRemoval ==
  ASSUME FlowTypes, LogOK, NEW j \in Jobs, NEW records \in Seq(FlowRecords),
         Log(Removed(j) \o records),
         crashes' = crashes, flowBudget' = flowBudget, revived' = revived,
         started \subseteq started', created \subseteq created',
         completed \subseteq completed', failed \subseteq failed',
         crashes < flowBudget.crashes =>
           \A M : AfterRemoval(M, j) => \E G : SuitsFrom(M, G, records)
  PROVE  stream' \in Seq(FlowRecords) /\ disk' \in SavedFlows /\ LogOK'
<1>0. PICK all : all = Removed(j) \o records
  OBVIOUS
<1>1. PICK L : L = Replay(disk, stream)
  OBVIOUS
<1>2. ASSUME crashes < flowBudget.crashes
      PROVE  /\ GoodFor(L, started', created', completed', failed', crashes, revived)
             /\ ToSet(L.dlq) \subseteq Letters /\ \A f \in Chains : L.chain[f] \in {0, chainMap[f]}
  <2>1. GoodFor(L, started, created, completed, failed, crashes, revived)
    BY <1>1, <1>2, LogIs
  <2>2. GoodFor(L, started', created', completed', failed', crashes, revived)
    BY <2>1, GoodGrows
  <2> QED  BY <1>1, <1>2, <2>2 DEF LogOK
<1>3. CASE j \notin ToSet(dlq)
  <2>1. all = records
    <3>1. PICK o : o = <<>>
      OBVIOUS
    <3>2. o \in Seq(FlowRecords) /\ Len(o) = 0 /\ Removed(j) = o
      BY <1>3, <3>1 DEF Removed
    <3>3. /\ o \o records \in Seq(FlowRecords) /\ Len(o \o records) = Len(records)
          /\ \A i \in 1 .. Len(records) : (o \o records)[i] = records[i]
      BY <3>2
    <3> QED  BY <1>0, <3>2, <3>3, SeqEqual
  <2>2. ASSUME crashes < flowBudget.crashes PROVE \E G : Suits(G, records)
    <3>1. AfterRemoval(L, j)
      BY <1>2, <1>3, <2>2 DEF AfterRemoval, Letters
    <3> QED  BY <1>1, <2>2, <3>1 DEF Suits
  <2> QED  BY <1>0, <2>1, <2>2, LogKeeps
<1>4. CASE j \in ToSet(dlq)
  <2>1. PICK e, o : e = [op |-> "DLQ_REMOVE", id |-> j] /\ o = <<e>>
    OBVIOUS
  <2>2. e \in FlowRecords /\ o \in Seq(FlowRecords) /\ Len(o) = 1 /\ o[1] = e /\ all = o \o records
    BY <1>0, <1>4, <2>1, RecordsAre DEF Removed
  <2>3. /\ all \in Seq(FlowRecords) /\ Len(records) \in Nat /\ Len(all) = Len(records) + 1 /\ all[1] = e
        /\ \A i \in 1 .. Len(records) : all[1 + i] = records[i]
    <3>1. /\ all \in Seq(FlowRecords) /\ Len(all) = Len(o) + Len(records) /\ Len(records) \in Nat
          /\ \A i \in 1 .. Len(o) : all[i] = o[i]
          /\ \A i \in 1 .. Len(records) : all[Len(o) + i] = records[i]
      <4>1. PICK r : r = records
        OBVIOUS
      <4>2. o \in Seq(FlowRecords) /\ r \in Seq(FlowRecords) /\ all = o \o r
        BY <2>2, <4>1
      <4>3. /\ all \in Seq(FlowRecords) /\ Len(all) = Len(o) + Len(r) /\ Len(r) \in Nat
            /\ \A i \in 1 .. Len(o) : all[i] = o[i]
            /\ \A i \in 1 .. Len(r) : all[Len(o) + i] = r[i]
        BY <4>2
      <4> QED  BY <4>1, <4>3
    <3> QED  BY <2>2, <3>1
  <2>4. ASSUME crashes < flowBudget.crashes PROVE \E G : Suits(G, all)
    <3>1. PICK M : M = Restore(L, e)
      OBVIOUS
    <3>2. /\ GoodFor(M, started', created', completed', failed', crashes, revived)
          /\ M.chain = L.chain /\ ToSet(M.dlq) = ToSet(L.dlq) \ {j}
      BY <1>2, <2>1, <2>4, <3>1, GoodRemoved
    <3>3. AfterRemoval(M, j)
      BY <1>2, <2>4, <3>2 DEF AfterRemoval
    <3>4. PICK G : SuitsFrom(M, G, records)
      BY <2>4, <3>3
    <3>5. PICK H : H = [n \in 0 .. Len(records) + 1 |-> IF n = 0 THEN {L} ELSE G[n - 1]]
      OBVIOUS
    <3>6. /\ H[0] = {L} /\ \A n \in 1 .. Len(records) + 1 : H[n] = G[n - 1]
      BY <2>3, <3>5
    <3>7. ASSUME NEW n \in 1 .. Len(all), NEW S \in H[n - 1] PROVE Restore(S, all[n]) \in H[n]
      <4>1. CASE n = 1
        <5>1. S = L /\ H[1] = G[0] /\ M \in G[0]
          BY <2>3, <3>4, <3>6, <3>7, <4>1 DEF SuitsFrom
        <5> QED  BY <2>3, <3>1, <4>1, <5>1
      <4>2. CASE n # 1
        <5>1. n - 1 \in 1 .. Len(records) /\ n - 1 \in 1 .. Len(records) + 1 /\ n \in 1 .. Len(records) + 1
              /\ n = 1 + (n - 1)
          BY <2>3, <4>2
        <5>2. H[n - 1] = G[(n - 1) - 1] /\ H[n] = G[n - 1] /\ all[n] = records[n - 1]
          BY <2>3, <3>6, <5>1
        <5> QED  BY <3>4, <3>7, <5>1, <5>2 DEF SuitsFrom
      <4> QED  BY <4>1, <4>2
    <3>8. ASSUME NEW n \in 0 .. Len(all), NEW S \in H[n]
          PROVE  GoodFor(S, started', created', completed', failed', crashes, revived)
      <4>1. CASE n = 0
        BY <1>2, <2>4, <3>6, <3>8, <4>1
      <4>2. CASE n # 0
        <5>1. n \in 1 .. Len(records) + 1 /\ n - 1 \in 0 .. Len(records)
          BY <2>3, <4>2
        <5> QED  BY <3>4, <3>6, <3>8, <5>1 DEF SuitsFrom
      <4> QED  BY <4>1, <4>2
    <3>9. H[Len(all)] = G[Len(records)]
      <4>1. Len(records) + 1 \in 1 .. Len(records) + 1 /\ (Len(records) + 1) - 1 = Len(records)
        BY <2>3
      <4> QED  BY <2>3, <3>6, <4>1
    <3> QED  BY <1>1, <3>4, <3>6, <3>7, <3>8, <3>9 DEF Suits, SuitsFrom
  <2> QED  BY <1>0, <2>3, <2>4, LogKeeps
<1> QED  BY <1>3, <1>4

\* One record after the removal, and none.
LEMMA LogOneAfter ==
  ASSUME FlowTypes, LogOK, NEW j \in Jobs, NEW e \in FlowRecords, Log(Removed(j) \o <<e>>),
         crashes' = crashes, flowBudget' = flowBudget, revived' = revived,
         started \subseteq started', created \subseteq created',
         completed \subseteq completed', failed \subseteq failed',
         crashes < flowBudget.crashes =>
           \A M : AfterRemoval(M, j) =>
             /\ GoodFor(Restore(M, e), started', created', completed', failed', crashes, revived)
             /\ ToSet(Restore(M, e).dlq) \subseteq Letters'
             /\ \A f \in Chains : Restore(M, e).chain[f] \in {0, chainMap'[f]}
  PROVE  stream' \in Seq(FlowRecords) /\ disk' \in SavedFlows /\ LogOK'
<1>1. PICK r : r = <<e>>
  OBVIOUS
<1>2. r \in Seq(FlowRecords) /\ Len(r) = 1 /\ r[1] = e
  BY <1>1
<1>3. ASSUME crashes < flowBudget.crashes, NEW M, AfterRemoval(M, j) PROVE \E G : SuitsFrom(M, G, r)
  <2>1. PICK R : R = Restore(M, e)
    OBVIOUS
  <2>2. PICK G : G = [n \in 0 .. 1 |-> IF n = 0 THEN {M} ELSE {R}]
    OBVIOUS
  <2>3. G[0] = {M} /\ G[1] = {R}
    BY <2>2
  <2>4. GoodFor(M, started', created', completed', failed', crashes, revived)
    BY <1>3 DEF AfterRemoval
  <2>5. /\ GoodFor(R, started', created', completed', failed', crashes, revived)
        /\ ToSet(R.dlq) \subseteq Letters'
        /\ \A f \in Chains : R.chain[f] \in {0, chainMap'[f]}
    BY <1>3, <2>1
  <2>6. (\A n \in 1 .. Len(r) : n = 1) /\ (\A n \in 0 .. Len(r) : n = 0 \/ n = 1)
    BY <1>2
  <2>7. \A n \in 1 .. Len(r) : \A S \in G[n - 1] : Restore(S, r[n]) \in G[n]
    BY <1>2, <2>1, <2>3, <2>6
  <2>8. \A n \in 0 .. Len(r) : \A S \in G[n] : S = M \/ S = R
    BY <2>3, <2>6
  <2>9. \A S \in G[Len(r)] : S = R
    BY <1>2, <2>3
  <2> QED  BY <2>1, <2>3, <2>4, <2>5, <2>7, <2>8, <2>9 DEF SuitsFrom
<1> QED  BY <1>1, <1>2, <1>3, LogAfterRemoval

\* The removal alone.
LEMMA LogNoneAfter ==
  ASSUME FlowTypes, LogOK, NEW j \in Jobs, Log(Removed(j)),
         crashes' = crashes, flowBudget' = flowBudget, revived' = revived,
         started \subseteq started', created \subseteq created',
         completed \subseteq completed', failed \subseteq failed',
         Letters \ {j} \subseteq Letters', \A f \in Chains : chainMap[f] \in {0, chainMap'[f]}
  PROVE  stream' \in Seq(FlowRecords) /\ disk' \in SavedFlows /\ LogOK'
<1>1. PICK r : r = <<>>
  OBVIOUS
<1>2. r \in Seq(FlowRecords) /\ Len(r) = 0
  BY <1>1
<1>3. Log(Removed(j) \o r)
  <2>1. PICK o : o = Removed(j)
    OBVIOUS
  <2>2. o \in Seq(FlowRecords)
    BY <2>1, RecordsAre DEF Removed
  <2>3. o \o r = o
    BY <1>2, <2>2, SeqEqual
  <2> QED  BY <2>1, <2>3
<1>4. ASSUME crashes < flowBudget.crashes, NEW M, AfterRemoval(M, j) PROVE \E G : SuitsFrom(M, G, r)
  <2>1. PICK G : G = [n \in 0 .. 0 |-> {M}]
    OBVIOUS
  <2>2. G[0] = {M} /\ G[Len(r)] = {M}
    BY <1>2, <2>1
  <2>3. /\ GoodFor(M, started', created', completed', failed', crashes, revived)
        /\ ToSet(M.dlq) \subseteq Letters' /\ \A f \in Chains : M.chain[f] \in {0, chainMap'[f]}
    BY <1>4 DEF AfterRemoval
  <2>4. (\A n \in 1 .. Len(r) : FALSE) /\ (\A n \in 0 .. Len(r) : n = 0)
    BY <1>2
  <2> QED  BY <2>2, <2>3, <2>4 DEF SuitsFrom
<1> QED  BY <1>2, <1>3, <1>4, LogAfterRemoval

-----------------------------------------------------------------------------
(* Steps that leave the flows alone.                                       *)

\* A step that moves no chain and brings no step of a chain anywhere.
LEMMA ChainsKept ==
  ASSUME ChainsOK, OrderOK, chainMap' = chainMap, crashes' = crashes, failed' = failed,
         revived' = revived, started \subseteq started',
         \A j \in FlowPlaces' : Flow(j) \in Chains => j \in FlowPlaces,
         \A j \in created' : Flow(j) \in Chains => j \in created
  PROVE  ChainsOK' /\ OrderOK'
<1>1. \A f \in Chains, s \in 1 .. Steps : <<f, s>> \in FlowPlaces' => <<f, s>> \in FlowPlaces
  BY JobsAre
<1>2. \A f \in Chains, s \in 1 .. Steps : <<f, s>> \in created' => <<f, s>> \in created
  BY JobsAre
<1>3. \A f \in Chains : \A c : Current(f, c, FlowPlaces, revived) => Current(f, c, FlowPlaces', revived)
  BY <1>1 DEF Current
<1>4. ChainsOK'
  BY <1>3 DEF ChainsOK
<1>5. OrderOK'
  BY <1>1, <1>2 DEF OrderOK, Again
<1> QED  BY <1>4, <1>5

\* Jobs move between the adapter, workers, dead letters and hands, or are dropped.
LEMMA QuietKeeps ==
  ASSUME FlowInv,
         UNCHANGED <<flows, crashes, flowBudget, revived, started, created, completed, failed>>,
         FlowTypeOK', attempts' \in [Jobs -> Nat], retrying' \in [Retriers -> Calling],
         \A r \in Retriers : ~retrying'[r].called => retrying'[r].hold = {},
         stream' \in Seq(FlowRecords), disk' \in SavedFlows, LogOK',
         dropped \subseteq dropped', dropped' \subseteq Jobs,
         Letters' \subseteq Letters, FlowPlaces' \subseteq FlowPlaces,
         FlowPlaces \subseteq FlowPlaces' \cup dropped', Busy \subseteq Busy' \cup dropped',
         \A j \in Jobs :
           attempts'[j] < MaxAttempts(j) \/ (j \in failed /\ j \notin Busy') \/ j \in revived,
         OnePlace'
  PROVE  FlowInv'
<1>1. /\ chainMap' = chainMap /\ dagNodes' = dagNodes /\ doneDeps' = doneDeps /\ tracked' = tracked
      /\ rooting' = rooting /\ unlocking' = unlocking /\ crashes' = crashes /\ revived' = revived
      /\ started' = started /\ created' = created /\ completed' = completed /\ failed' = failed
  BY DEF flows
<1>2. FlowTypes'
  BY <1>1 DEF FlowInv, FlowTypes
<1>3. CreatedOK'
  BY <1>1 DEF FlowInv, CreatedOK, Accepted
<1>4. ChainsOK' /\ OrderOK'
  BY <1>1, ChainsKept DEF FlowInv
<1>5. GraphsOK'
  BY <1>1 DEF FlowInv, GraphsOK, Dead, Fresh, Accepted
<1>6. FirstLife'
  <2> SUFFICES ASSUME crashes = 0 PROVE
           /\ created \subseteq completed \cup dropped' \cup FlowPlaces'
           /\ Letters' \subseteq failed
           /\ \A f \in Chains : chainMap[f] # 0 => <<f, chainMap[f]>> \in Busy' \cup dropped'
           /\ \A n \in Nodes : NodeJob(n) \in created \ completed => n \in tracked
           /\ \A n \in Nodes : NodeJob(n) \in FlowPlaces' => NodeJob(n) \notin completed
           /\ \A n \in Accepted : NodeJob(n) \notin created => Waits(n)
    BY <1>1 DEF FirstLife, Waits, Accepted
  <2>1. FirstLife
    BY DEF FlowInv
  <2> QED  BY <2>1 DEF FirstLife
<1> QED  BY <1>2, <1>3, <1>4, <1>5, <1>6 DEF FlowInv

\* What the invariant says, and the places by their parts.
LEMMA InvHas ==
  ASSUME FlowInv
  PROVE  /\ FlowTypes /\ FlowTypeOK /\ OnePlace /\ CreatedOK /\ ChainsOK /\ OrderOK /\ GraphsOK
         /\ LogOK /\ FirstLife
         /\ FlowPlaces = queue \cup running \cup Letters \cup Held /\ Busy = queue \cup running
         /\ FlowPlaces \subseteq created /\ created \subseteq Jobs /\ FlowPlaces \subseteq Jobs
<1>1. FlowPlaces = queue \cup running \cup Letters \cup Held /\ Busy = queue \cup running
  BY DEF FlowPlaces, Busy
<1>2. FlowPlaces \subseteq created /\ created \subseteq Jobs
  BY DEF FlowInv, FlowTypes, CreatedOK
<1> QED  BY <1>1, <1>2 DEF FlowInv, FlowTypes

\* The queue: a worker takes a job, a failed attempt returns, a job is dropped.
LEMMA PopKeeps ==
  ASSUME FlowInv, NEW j \in Jobs, Pop(j)
  PROVE  FlowInv'
<1> USE InvHas
<1>1. /\ j \in queue /\ queue' = queue \ {j} /\ running' = running \cup {j}
      /\ UNCHANGED <<flows, attempts, letters, disk, stream, entered, life, past>>
  BY DEF Pop
<1>2. /\ UNCHANGED <<flows, crashes, flowBudget, revived, started, created, completed, failed>>
      /\ attempts' = attempts /\ dlq' = dlq /\ retrying' = retrying
      /\ disk' = disk /\ stream' = stream /\ dropped' = dropped
      /\ chainMap' = chainMap /\ crashes' = crashes /\ flowBudget' = flowBudget
      /\ snap' = snap /\ cutting' = cutting /\ snaps' = snaps /\ revived' = revived
      /\ started' = started /\ created' = created /\ completed' = completed /\ failed' = failed
  BY <1>1 DEF letters, past, life, flows
<1>3. Letters' = Letters /\ Held' = Held
  BY <1>2 DEF Letters, Held
<1>4. Busy' = Busy /\ FlowPlaces' = FlowPlaces
  BY <1>1, <1>3 DEF Busy, FlowPlaces
<1>5. FlowTypeOK'
  BY <1>1, <1>2 DEF FlowTypeOK, flows
<1>6. OnePlace'
  BY <1>1, <1>2, <1>3 DEF OnePlace
<1>7. stream' \in Seq(FlowRecords) /\ disk' \in SavedFlows /\ LogOK'
  BY <1>2, <1>3, LogUnchanged
<1>8. /\ attempts' \in [Jobs -> Nat] /\ retrying' \in [Retriers -> Calling]
      /\ \A r \in Retriers : ~retrying'[r].called => retrying'[r].hold = {}
      /\ dropped' \subseteq Jobs
  BY <1>2 DEF FlowTypes
<1>9. \A k \in Jobs :
        attempts'[k] < MaxAttempts(k) \/ (k \in failed /\ k \notin Busy') \/ k \in revived
  BY <1>2, <1>4 DEF CreatedOK
<1> QED  BY <1>2, <1>3, <1>4, <1>5, <1>6, <1>7, <1>8, <1>9, QuietKeeps

\* A failed attempt returns to the queue with an attempt left.
LEMMA RetryKeeps ==
  ASSUME FlowInv, CopiesOK, NEW j \in Jobs, Retry(j)
  PROVE  FlowInv'
<1> USE InvHas
<1>1. /\ j \in running /\ queue' = queue \cup {j}
      /\ running \ {j} \subseteq running' /\ running' \subseteq running
      /\ j \in running' => j \in revived
      /\ j \in revived \/ attempts[j] + 1 < MaxAttempts(j)
      /\ attempts' = [attempts EXCEPT ![j] = IF j \in revived THEN @ ELSE @ + 1]
      /\ UNCHANGED <<flows, letters, disk, stream, entered, life, past>>
  BY DEF Retry, CopyEnds, Attempted, CopiesOK
<1>2. /\ UNCHANGED <<flows, crashes, flowBudget, revived, started, created, completed, failed>>
      /\ dlq' = dlq /\ retrying' = retrying
      /\ disk' = disk /\ stream' = stream /\ dropped' = dropped
      /\ chainMap' = chainMap /\ crashes' = crashes /\ flowBudget' = flowBudget
      /\ snap' = snap /\ cutting' = cutting /\ snaps' = snaps /\ revived' = revived
      /\ started' = started /\ created' = created /\ completed' = completed /\ failed' = failed
  BY <1>1 DEF letters, past, life, flows
<1>3. Letters' = Letters /\ Held' = Held
  BY <1>2 DEF Letters, Held
<1>4. Busy' = Busy /\ FlowPlaces' = FlowPlaces
  BY <1>1, <1>3 DEF Busy, FlowPlaces
<1>5. /\ attempts \in [Jobs -> Nat] /\ attempts' \in [Jobs -> Nat] 
      /\ attempts'[j] = IF j \in revived THEN attempts[j] ELSE attempts[j] + 1
      /\ \A k \in Jobs : k # j => attempts'[k] = attempts[k]
      /\ \A k \in Jobs : MaxAttempts(k) \in Nat
  BY <1>1, FlowsAssumption DEF FlowTypes, Jobs
<1>6. FlowTypeOK'
  <2>1. \A k \in Jobs : attempts'[k] \in 0 .. MaxAttempts(k)
    BY <1>1, <1>5 DEF FlowTypeOK
  <2> QED  BY <1>1, <1>2, <2>1 DEF FlowTypeOK, flows
<1>7. OnePlace'
  BY <1>1, <1>2, <1>3 DEF OnePlace
<1>8. stream' \in Seq(FlowRecords) /\ disk' \in SavedFlows /\ LogOK'
  BY <1>2, <1>3, LogUnchanged
<1>9. /\ retrying' \in [Retriers -> Calling]
      /\ \A r \in Retriers : ~retrying'[r].called => retrying'[r].hold = {}
      /\ dropped' \subseteq Jobs
  BY <1>2 DEF FlowTypes
<1>10. \A k \in Jobs :
         attempts'[k] < MaxAttempts(k) \/ (k \in failed /\ k \notin Busy') \/ k \in revived
  BY <1>1, <1>4, <1>5 DEF CreatedOK
<1> QED  BY <1>2, <1>3, <1>4, <1>5, <1>6, <1>7, <1>8, <1>9, <1>10, QuietKeeps

\* A dropped job is the one way a chain may come to wait for nothing.
LEMMA DropKeeps ==
  ASSUME FlowInv, NEW j \in Jobs, Drop(j)
  PROVE  FlowInv'
<1> USE InvHas
<1>1. /\ j \in queue /\ queue' = queue \ {j} /\ dropped' = dropped \cup {j} /\ running' = running
      /\ UNCHANGED <<flows, attempts, letters, disk, stream, entered, life>>
      /\ started' = started /\ created' = created /\ completed' = completed /\ failed' = failed
  BY DEF Drop, workers
<1>2. /\ UNCHANGED <<flows, crashes, flowBudget, revived, started, created, completed, failed>>
      /\ attempts' = attempts /\ dlq' = dlq /\ retrying' = retrying
      /\ disk' = disk /\ stream' = stream
      /\ chainMap' = chainMap /\ crashes' = crashes /\ flowBudget' = flowBudget
      /\ snap' = snap /\ cutting' = cutting /\ snaps' = snaps /\ revived' = revived
  BY <1>1 DEF letters, life, flows
<1>3. Letters' = Letters /\ Held' = Held
  BY <1>2 DEF Letters, Held
<1>4. /\ Busy' \subseteq Busy /\ Busy \subseteq Busy' \cup dropped'
      /\ FlowPlaces' \subseteq FlowPlaces /\ FlowPlaces \subseteq FlowPlaces' \cup dropped'
  BY <1>1, <1>3 DEF Busy, FlowPlaces
<1>5. FlowTypeOK'
  BY <1>1, <1>2 DEF FlowTypeOK, flows
<1>6. OnePlace'
  BY <1>1, <1>2, <1>3 DEF OnePlace
<1>7. stream' \in Seq(FlowRecords) /\ disk' \in SavedFlows /\ LogOK'
  BY <1>1, <1>2, <1>3, LogUnchanged
<1>8. /\ attempts' \in [Jobs -> Nat] /\ retrying' \in [Retriers -> Calling]
      /\ \A r \in Retriers : ~retrying'[r].called => retrying'[r].hold = {}
      /\ dropped' \subseteq Jobs /\ dropped \subseteq dropped'
  BY <1>1, <1>2 DEF FlowTypes
<1>9. \A k \in Jobs :
        attempts'[k] < MaxAttempts(k) \/ (k \in failed /\ k \notin Busy') \/ k \in revived
  BY <1>2, <1>4 DEF CreatedOK
<1> QED  BY <1>1, <1>2, <1>3, <1>4, <1>5, <1>6, <1>7, <1>8, <1>9, QuietKeeps

\* A retry call pushes the job in its hands.
LEMMA RetryPushKeeps ==
  ASSUME FlowInv, NEW r \in Retriers, RetryPush(r)
  PROVE  FlowInv'
<1> USE InvHas
<1> DEFINE H == retrying[r].hold
<1>1. /\ queue' = queue \cup H
      /\ attempts' = [j \in Jobs |-> IF j \in H THEN 0 ELSE attempts[j]]
      /\ retrying' = [retrying EXCEPT ![r].hold = {}]
      /\ entered' = entered \cup H
      /\ UNCHANGED <<flows, workers, dlq, disk, stream, life, past>>
  BY DEF RetryPush
<1>2. /\ UNCHANGED <<flows, crashes, flowBudget, revived, started, created, completed, failed>>
      /\ dlq' = dlq /\ running' = running
      /\ disk' = disk /\ stream' = stream /\ dropped' = dropped
      /\ chainMap' = chainMap /\ crashes' = crashes /\ flowBudget' = flowBudget
      /\ snap' = snap /\ cutting' = cutting /\ snaps' = snaps /\ revived' = revived
      /\ started' = started /\ created' = created /\ completed' = completed /\ failed' = failed
  BY <1>1 DEF past, life, flows, workers
<1>3. /\ retrying \in [Retriers -> Calling] /\ H \in SUBSET Jobs
      /\ retrying' \in [Retriers -> Calling] /\ retrying'[r].hold = {}
      /\ retrying'[r].called = retrying[r].called
      /\ \A q \in Retriers : q # r => retrying'[q] = retrying[q]
  <2>1. retrying \in [Retriers -> Calling]
    BY DEF FlowTypes
  <2>2. PICK c, t, h : c = retrying[r].called /\ t = retrying[r].todo /\ h = retrying[r].hold
    OBVIOUS
  <2>3. c \in BOOLEAN /\ t \in Seq(Jobs) /\ h \in SUBSET Jobs /\ retrying[r] = [called |-> c, todo |-> t, hold |-> h]
    BY <2>1, <2>2 DEF Calling
  <2>4. PICK x : x = [called |-> c, todo |-> t, hold |-> h]
    OBVIOUS
  <2>5. retrying'[r] = [x EXCEPT !.hold = {}]
    BY <1>1, <2>1, <2>3, <2>4
  <2>6. [x EXCEPT !.hold = {}] \in Calling
    BY <2>3, <2>4 DEF Calling
  <2>7. [x EXCEPT !.hold = {}].hold = {} /\ [x EXCEPT !.hold = {}].called = x.called
    BY <2>3, <2>4
  <2> QED  BY <1>1, <2>1, <2>2, <2>3, <2>4, <2>5, <2>6, <2>7
<1> HIDE DEF H
<1>4. /\ H \subseteq Held /\ Held \subseteq Held' \cup H /\ Held' \subseteq Held
      /\ Held' \cap H \subseteq revived /\ Letters' = Letters
  <2>1. H = retrying[r].hold
    BY DEF H
  <2>2. \A q \in Retriers : q # r => retrying[q].hold \cap H \subseteq revived
    BY <2>1 DEF OnePlace
  <2> QED  BY <1>2, <1>3, <2>1, <2>2 DEF Held, Letters
<1>5. Busy \subseteq Busy' /\ FlowPlaces' = FlowPlaces /\ Busy' = Busy \cup H
  BY <1>1, <1>2, <1>4 DEF Busy, FlowPlaces
<1>6. attempts \in [Jobs -> Nat] /\ \A j \in Jobs : MaxAttempts(j) \in Nat \ {0}
  BY FlowsAssumption DEF FlowTypes, Jobs
<1>7. /\ attempts' \in [Jobs -> Nat]
      /\ \A j \in Jobs : attempts'[j] = 0 \/ (j \notin H /\ attempts'[j] = attempts[j])
  BY <1>1, <1>6
<1>8. FlowTypeOK'
  <2>1. \A k \in Jobs : attempts'[k] \in 0 .. MaxAttempts(k)
    <3>1. \A k \in Jobs : attempts[k] \in 0 .. MaxAttempts(k)
      BY DEF FlowTypeOK
    <3>2. \A k \in Jobs : 0 \in 0 .. MaxAttempts(k)
      BY <1>6
    <3> QED  BY <1>7, <3>1, <3>2
  <2>2. \A q \in Retriers : retrying'[q].hold \subseteq Jobs
    BY <1>3 DEF Calling
  <2>3. queue' \subseteq Jobs /\ entered' \subseteq Jobs
    BY <1>1, <1>3 DEF FlowTypeOK
  <2> QED  BY <1>2, <2>1, <2>2, <2>3 DEF FlowTypeOK, flows
<1>9. OnePlace'
  <2>1. /\ queue' \cap running' \subseteq revived
        /\ (queue' \cup running') \cap (Letters' \cup Held') \subseteq revived
        /\ Letters' \cap Held' \subseteq revived /\ IsInjective(dlq')
    BY <1>1, <1>2, <1>4 DEF OnePlace
  <2>2. \A p, q \in Retriers : p # q => retrying'[p].hold \cap retrying'[q].hold \subseteq revived
    BY <1>3 DEF OnePlace
  <2> QED  BY <1>2, <2>1, <2>2 DEF OnePlace
<1>10. stream' \in Seq(FlowRecords) /\ disk' \in SavedFlows /\ LogOK'
  BY <1>2, <1>4, LogUnchanged
<1>11. /\ \A q \in Retriers : ~retrying'[q].called => retrying'[q].hold = {}
       /\ dropped' \subseteq Jobs
  BY <1>2, <1>3 DEF FlowTypes
<1>12. \A k \in Jobs :
         attempts'[k] < MaxAttempts(k) \/ (k \in failed /\ k \notin Busy') \/ k \in revived
  BY <1>5, <1>6, <1>7 DEF CreatedOK
<1> QED  BY <1>2, <1>3, <1>4, <1>5, <1>7, <1>8, <1>9, <1>10, <1>11, <1>12, QuietKeeps

\* One iteration of retryAll, also as a call's first.
LEMMA TakeKeeps ==
  ASSUME FlowInv, NEW r \in Retriers, NEW ids \in Seq(Jobs), ids # <<>>, retrying[r].hold = {},
         RetryTake(r, ids), UNCHANGED <<flows, queue, entered, workers, attempts, life, past>>
  PROVE  FlowInv'
<1> USE InvHas
<1>1. /\ UNCHANGED <<flows, crashes, flowBudget, revived, started, created, completed, failed>>
      /\ attempts' = attempts /\ running' = running /\ queue' = queue /\ dropped' = dropped
      /\ entered' = entered
      /\ chainMap' = chainMap /\ crashes' = crashes /\ flowBudget' = flowBudget
      /\ snap' = snap /\ cutting' = cutting /\ snaps' = snaps /\ revived' = revived
      /\ started' = started /\ created' = created /\ completed' = completed /\ failed' = failed
  BY DEF past, life, flows, workers
<1>2. retrying \in [Retriers -> Calling] /\ dlq \in Seq(Jobs) /\ IsInjective(dlq)
  BY DEF FlowTypes, FlowTypeOK, OnePlace
<1>3. Busy' = Busy
  BY <1>1 DEF Busy
<1>4. ASSUME NEW t \in Seq(Jobs), NEW h \in SUBSET Jobs,
             retrying' = [retrying EXCEPT ![r] = Hands(t, h)],
             dlq' \in Seq(Jobs), IsInjective(dlq'), Letters' = Letters \ h, h \subseteq Letters,
             stream' \in Seq(FlowRecords), disk' \in SavedFlows, LogOK'
      PROVE  FlowInv'
  <2>1. Hands(t, h) \in Calling /\ Hands(t, h).called /\ Hands(t, h).hold = h
    BY DEF Hands, Calling
  <2>2. /\ retrying' \in [Retriers -> Calling] /\ retrying'[r].called /\ retrying'[r].hold = h
        /\ \A q \in Retriers : q # r => retrying'[q] = retrying[q]
    BY <1>2, <1>4, <2>1
  <2>3. Held' = Held \cup h /\ Held \cap Letters \subseteq revived
    BY <2>2 DEF Held, OnePlace
  <2>4. FlowPlaces' = FlowPlaces
    BY <1>1, <1>4, <2>3 DEF FlowPlaces, Busy
  <2>5. FlowTypeOK'
    <3>1. \A q \in Retriers : retrying'[q].hold \subseteq Jobs
      BY <2>2 DEF Calling
    <3> QED  BY <1>1, <1>4, <3>1 DEF FlowTypeOK, flows
  <2>6. OnePlace'
    <3>1. /\ queue' \cap running' \subseteq revived
          /\ (queue' \cup running') \cap (Letters' \cup Held') \subseteq revived
          /\ Letters' \cap Held' \subseteq revived /\ IsInjective(dlq')
      BY <1>1, <1>4, <2>3 DEF OnePlace
    <3>2. \A p, q \in Retriers : p # q => retrying'[p].hold \cap retrying'[q].hold \subseteq revived
      <4>1. \A q \in Retriers : retrying[q].hold \cap h \subseteq revived
        BY <1>4, <2>3 DEF Held
      <4> QED  BY <2>2, <4>1 DEF OnePlace
    <3> QED  BY <1>1, <3>1, <3>2 DEF OnePlace
  <2>7. /\ \A q \in Retriers : ~retrying'[q].called => retrying'[q].hold = {}
        /\ dropped' \subseteq Jobs /\ attempts' \in [Jobs -> Nat]
    BY <1>1, <2>2 DEF FlowTypes
  <2>8. \A k \in Jobs :
          attempts'[k] < MaxAttempts(k) \/ (k \in failed /\ k \notin Busy') \/ k \in revived
    BY <1>1, <1>3 DEF CreatedOK
  <2> QED  BY <1>1, <1>3, <1>4, <2>2, <2>4, <2>5, <2>6, <2>7, <2>8, QuietKeeps
<1>5. CASE ids = <<>> \/ Head(ids) \notin ToSet(dlq)
  <2>1. retrying' = [retrying EXCEPT ![r] = Hands(<<>>, {})] /\ Log(<<>>) /\ dlq' = dlq
    BY <1>5 DEF RetryTake
  <2>2. Letters' = Letters
    BY <2>1 DEF Letters
  <2>3. stream' \in Seq(FlowRecords) /\ disk' \in SavedFlows /\ LogOK'
    BY <1>1, <2>1, <2>2, LogNone
  <2>4. <<>> \in Seq(Jobs)
    OBVIOUS
  <2> QED  BY <1>2, <1>4, <2>1, <2>2, <2>3, <2>4
<1>6. CASE ~(ids = <<>> \/ Head(ids) \notin ToSet(dlq))
  <2>1. PICK j : j = Head(ids)
    OBVIOUS
  <2>2. j \in Jobs /\ Tail(ids) \in Seq(Jobs) /\ j \in Letters
    BY <1>6, <2>1 DEF Letters
  <2>3. PICK e : e = [op |-> "DLQ_REMOVE", id |-> j]
    OBVIOUS
  <2>4. /\ retrying' = [retrying EXCEPT ![r] = Hands(Tail(ids), {j})]
        /\ Log(<<e>>) /\ dlq' = Without(dlq, {j})
    BY <1>6, <2>1, <2>3 DEF RetryTake
  <2>5. dlq' \in Seq(Jobs) /\ IsInjective(dlq') /\ Letters' = Letters \ {j}
    <3>1. PICK w : w = Without(dlq, {j})
      OBVIOUS
    <3>2. w \in Seq(Jobs) /\ IsInjective(w) /\ ToSet(w) = ToSet(dlq) \ {j}
      BY <1>2, <3>1, WithoutIs
    <3> QED  BY <2>4, <3>1, <3>2 DEF Letters
  <2>6. ASSUME crashes < flowBudget.crashes
        PROVE  /\ GoodFor(Restore(Replay(disk, stream), e), started', created', completed', failed', crashes, revived)
               /\ ToSet(Restore(Replay(disk, stream), e).dlq) \subseteq Letters'
               /\ \A f \in Chains : Restore(Replay(disk, stream), e).chain[f] \in {0, chainMap'[f]}
    <3>1. PICK L, R : L = Replay(disk, stream) /\ R = Restore(L, e)
      OBVIOUS
    <3>2. /\ GoodFor(L, started', created', completed', failed', crashes, revived)
          /\ ToSet(L.dlq) \subseteq Letters /\ \A f \in Chains : L.chain[f] \in {0, chainMap[f]}
      BY <1>1, <2>6, <3>1, LogIs DEF LogOK
    <3>3. /\ GoodFor(R, started', created', completed', failed', crashes, revived)
          /\ R.chain = L.chain /\ ToSet(R.dlq) = ToSet(L.dlq) \ {j}
      BY <2>2, <2>3, <3>1, <3>2, GoodRemoved
    <3> QED  BY <1>1, <2>5, <3>1, <3>2, <3>3
  <2>7. stream' \in Seq(FlowRecords) /\ disk' \in SavedFlows /\ LogOK'
    <3>1. e \in FlowRecords
      BY <2>2, <2>3, RecordsAre
    <3> QED  BY <1>1, <2>4, <2>6, <3>1, LogOne
  <2>8. {j} \in SUBSET Jobs /\ {j} \subseteq Letters
    BY <2>2
  <2> QED  BY <1>4, <2>2, <2>4, <2>5, <2>7, <2>8
<1> QED  BY <1>5, <1>6

\* retry() and retryAll() begin.
LEMMA RetryCallKeeps ==
  ASSUME FlowInv, NEW r \in Retriers, NEW ids \in Seq(Jobs), RetryCall(r, ids)
  PROVE  FlowInv'
<1>1. ids # <<>> /\ RetryTake(r, ids) /\ UNCHANGED <<flows, queue, entered, workers, attempts, life, past>>
  BY DEF RetryCall
<1>2. retrying[r].hold = {}
  BY InvHas DEF RetryCall, FlowTypes
<1> QED  BY <1>1, <1>2, TakeKeeps

\* retryAll() goes on with the id it read before its await.
LEMMA RetryNextKeeps ==
  ASSUME FlowInv, NEW r \in Retriers, RetryNext(r)
  PROVE  FlowInv'
<1>1. PICK ids : ids = retrying[r].todo
  OBVIOUS
<1>2. /\ ids # <<>> /\ RetryTake(r, ids) /\ UNCHANGED <<flows, queue, entered, workers, attempts, life, past>>
      /\ retrying[r].hold = {}
  BY <1>1 DEF RetryNext
<1>3. ids \in Seq(Jobs)
  BY <1>1, InvHas DEF FlowTypes, Calling
<1> QED  BY <1>2, <1>3, TakeKeeps

\* purge() removes the oldest letters, one record for each.
LEMMA PurgeKeeps ==
  ASSUME FlowInv, NEW n \in Nat, Purge(n)
  PROVE  FlowInv'
<1> USE InvHas
<1> DEFINE gone == {dlq[k] : k \in 1 .. n}
<1>0. PICK records : records = [k \in 1 .. n |-> [op |-> "DLQ_REMOVE", id |-> dlq[k]]]
  OBVIOUS
<1>1. /\ n \in 1 .. Len(dlq) /\ dlq' = SubSeq(dlq, n + 1, Len(dlq)) /\ Log(records)
      /\ dropped' = dropped \cup gone
      /\ UNCHANGED <<flows, queue, entered, workers, attempts, retrying, life, started,
                     created, completed, failed>>
  BY <1>0 DEF Purge
<1>2. /\ UNCHANGED <<flows, crashes, flowBudget, revived, started, created, completed, failed>>
      /\ entered' = entered
      /\ chainMap' = chainMap /\ crashes' = crashes /\ flowBudget' = flowBudget
      /\ snap' = snap /\ cutting' = cutting /\ snaps' = snaps /\ revived' = revived
      /\ attempts' = attempts /\ running' = running /\ queue' = queue /\ retrying' = retrying
      /\ started' = started /\ created' = created /\ completed' = completed /\ failed' = failed
  BY <1>1 DEF life, flows, workers
<1>3. dlq \in Seq(Jobs) /\ IsInjective(dlq) /\ Len(dlq) \in Nat /\ \A k \in 1 .. n : dlq[k] \in Jobs
  BY <1>1 DEF FlowTypeOK, OnePlace
<1>4. /\ dlq' \in Seq(Jobs) /\ IsInjective(dlq') /\ Letters' = Letters \ gone /\ gone \subseteq Letters
  <2>1. PICK w : w = SubSeq(dlq, n + 1, Len(dlq))
    OBVIOUS
  <2>2. /\ w \in Seq(Jobs) /\ Len(w) = Len(dlq) - n /\ DOMAIN w = 1 .. Len(dlq) - n
        /\ \A i \in 1 .. Len(dlq) - n : w[i] = dlq[n + i]
    BY <1>1, <1>3, <2>1
  <2>3. \A h, k \in 1 .. Len(dlq) : dlq[h] = dlq[k] => h = k
    BY <1>3 DEF IsInjective
  <2>4. /\ \A i \in 1 .. Len(dlq) - n : n + i \in 1 .. Len(dlq) /\ n + i \notin 1 .. n
        /\ \A i \in 1 .. Len(dlq) : i \in 1 .. n \/ (i - n \in 1 .. Len(dlq) - n /\ n + (i - n) = i)
        /\ \A i \in 1 .. n : i \in 1 .. Len(dlq)
    BY <1>1, <1>3
  <2>5. IsInjective(w)
    <3>1. \A h, k \in 1 .. Len(dlq) - n : w[h] = w[k] => n + h = n + k
      BY <2>2, <2>3, <2>4
    <3>2. \A h, k \in 1 .. Len(dlq) - n : n + h = n + k => h = k
      BY <1>1, <1>3
    <3> QED  BY <2>2, <3>1, <3>2 DEF IsInjective
  <2>6. ToSet(dlq) = {dlq[k] : k \in 1 .. Len(dlq)} /\ ToSet(w) = {w[i] : i \in 1 .. Len(dlq) - n}
    BY <1>3, <2>2 DEF ToSet
  <2>7. ASSUME NEW x \in ToSet(w) PROVE x \in ToSet(dlq) \ gone
    <3>1. PICK i \in 1 .. Len(dlq) - n : x = w[i]
      BY <2>6
    <3>2. x = dlq[n + i] /\ n + i \in 1 .. Len(dlq) /\ n + i \notin 1 .. n
      BY <2>2, <2>4, <3>1
    <3>3. \A k \in 1 .. n : dlq[k] # x
      BY <2>3, <2>4, <3>2
    <3> QED  BY <2>6, <3>2, <3>3
  <2>8. ASSUME NEW x \in ToSet(dlq), x \notin gone PROVE x \in ToSet(w)
    <3>1. PICK i \in 1 .. Len(dlq) : x = dlq[i]
      BY <2>6
    <3>2. i - n \in 1 .. Len(dlq) - n /\ n + (i - n) = i
      BY <2>4, <2>8, <3>1
    <3>3. w[i - n] = x
      BY <2>2, <3>1, <3>2
    <3> QED  BY <2>6, <3>2, <3>3
  <2>9. gone \subseteq ToSet(dlq)
    BY <2>4, <2>6
  <2> HIDE DEF gone
  <2>10. ToSet(w) = ToSet(dlq) \ gone
    BY <2>7, <2>8
  <2> QED  BY <1>1, <2>1, <2>2, <2>5, <2>9, <2>10 DEF Letters
<1>5. records \in Seq(FlowRecords) /\ Len(records) = n /\ \A k \in 1 .. n : records[k] = [op |-> "DLQ_REMOVE", id |-> dlq[k]]
  <2>1. \A k \in 1 .. n : [op |-> "DLQ_REMOVE", id |-> dlq[k]] \in FlowRecords
    BY <1>3, RecordsAre
  <2>2. records \in [1 .. n -> FlowRecords]
    BY <1>0, <2>1
  <2> QED  BY <1>0, <2>2
<1>6. ASSUME crashes < flowBudget.crashes PROVE \E G : Suits(G, records)
  <2>1. PICK L : L = Replay(disk, stream)
    OBVIOUS
  <2>2. /\ GoodFor(L, started', created', completed', failed', crashes, revived)
        /\ ToSet(L.dlq) \subseteq Letters /\ \A f \in Chains : L.chain[f] \in {0, chainMap[f]}
    BY <1>2, <1>6, <2>1, LogIs DEF LogOK
  <2> DEFINE Up(k) == {S \in SavedFlows :
               /\ GoodFor(S, started', created', completed', failed', crashes, revived)
               /\ S.chain = L.chain /\ ToSet(S.dlq) \subseteq Letters \ {dlq[i] : i \in 1 .. k}}
  <2>3. PICK G : G = [k \in 0 .. n |-> Up(k)]
    OBVIOUS
  <2>4. \A k \in 0 .. n : \A S : S \in G[k] <=> S \in Up(k)
    BY <2>3
  <2>5. L \in G[0]
    <3>1. 0 \in 0 .. n /\ {dlq[i] : i \in 1 .. 0} = {}
      BY <1>1, <1>3
    <3>2. L \in Up(0)
      BY <2>2, <3>1 DEF GoodFor
    <3> HIDE DEF Up
    <3> QED  BY <2>4, <3>1, <3>2
  <2>6. ASSUME NEW k \in 1 .. n, NEW S \in G[k - 1] PROVE Restore(S, records[k]) \in G[k]
    <3>1. k \in 0 .. n /\ k - 1 \in 0 .. n /\ k \in Nat /\ dlq[k] \in Jobs
      BY <1>1, <1>3
    <3>2. S \in Up(k - 1)
      <4> HIDE DEF Up
      <4> QED  BY <2>4, <3>1
    <3>3. PICK R : R = Restore(S, [op |-> "DLQ_REMOVE", id |-> dlq[k]])
      OBVIOUS
    <3>4. /\ GoodFor(R, started', created', completed', failed', crashes, revived)
          /\ R.chain = S.chain /\ ToSet(R.dlq) = ToSet(S.dlq) \ {dlq[k]}
      BY <3>1, <3>2, <3>3, GoodRemoved
    <3>5. \A i \in 1 .. k : i \in 1 .. k - 1 \/ i = k
      BY <3>1
    <3>6. ToSet(R.dlq) \subseteq Letters \ {dlq[i] : i \in 1 .. k}
      BY <3>2, <3>4, <3>5
    <3>7. R \in Up(k)
      BY <3>2, <3>4, <3>6 DEF GoodFor
    <3> HIDE DEF Up
    <3> QED  BY <1>5, <2>4, <3>1, <3>3, <3>7
  <2>7. \A k \in 0 .. n : \A S \in G[k] : GoodFor(S, started', created', completed', failed', crashes, revived)
    BY <2>4
  <2>8. \A S \in G[n] : ToSet(S.dlq) \subseteq Letters' /\ \A f \in Chains : S.chain[f] \in {0, chainMap'[f]}
    <3>1. n \in 0 .. n
      BY <1>1, <1>3
    <3> QED  BY <1>2, <1>4, <2>2, <2>4, <3>1
  <2> QED  BY <1>5, <2>1, <2>5, <2>6, <2>7, <2>8 DEF Suits, SuitsFrom
<1>7. stream' \in Seq(FlowRecords) /\ disk' \in SavedFlows /\ LogOK'
  BY <1>1, <1>2, <1>5, <1>6, LogKeeps
<1>8. gone \subseteq Jobs
  BY <1>3
<1> HIDE DEF gone
<1>9. Held' = Held
  BY <1>2 DEF Held
<1>10. /\ Busy' = Busy /\ FlowPlaces' \subseteq FlowPlaces /\ FlowPlaces \subseteq FlowPlaces' \cup dropped'
  BY <1>1, <1>2, <1>4, <1>9 DEF Busy, FlowPlaces
<1>11. FlowTypeOK'
  BY <1>2, <1>4 DEF FlowTypeOK, flows
<1>12. OnePlace'
  BY <1>2, <1>4, <1>9 DEF OnePlace
<1>13. /\ attempts' \in [Jobs -> Nat] /\ retrying' \in [Retriers -> Calling]
       /\ \A q \in Retriers : ~retrying'[q].called => retrying'[q].hold = {}
       /\ dropped' \subseteq Jobs /\ dropped \subseteq dropped'
  BY <1>1, <1>2, <1>8 DEF FlowTypes
<1>14. \A k \in Jobs :
         attempts'[k] < MaxAttempts(k) \/ (k \in failed /\ k \notin Busy') \/ k \in revived
  BY <1>2, <1>10 DEF CreatedOK
<1> QED  BY <1>2, <1>4, <1>7, <1>10, <1>11, <1>12, <1>13, <1>14, QuietKeeps

\* A log that is cut is replayed to nothing, which is always a past.
LEMMA TruncateKeeps ==
  ASSUME FlowInv, Truncate
  PROVE  FlowInv'
<1> USE InvHas
<1>1. /\ disk' = Nothing /\ stream' = <<>> /\ cutting' = FALSE
      /\ UNCHANGED <<flows, queue, entered, workers, attempts, letters, snap, crashes, snaps,
                     flowBudget, past, revived>>
  BY DEF Truncate
<1>2. /\ UNCHANGED <<flows, crashes, flowBudget, revived, started, created, completed, failed>>
      /\ attempts' = attempts /\ dlq' = dlq /\ retrying' = retrying
      /\ queue' = queue /\ running' = running /\ dropped' = dropped
      /\ chainMap' = chainMap /\ crashes' = crashes /\ flowBudget' = flowBudget
      /\ snap' = snap /\ snaps' = snaps /\ revived' = revived /\ entered' = entered
      /\ started' = started /\ created' = created /\ completed' = completed /\ failed' = failed
  BY <1>1 DEF letters, past, flows, workers
<1>3. Letters' = Letters /\ Held' = Held
  BY <1>2 DEF Letters, Held
<1>4. Busy' = Busy /\ FlowPlaces' = FlowPlaces
  BY <1>2, <1>3 DEF Busy, FlowPlaces
<1>5. FlowTypeOK'
  BY <1>1, <1>2 DEF FlowTypeOK, flows
<1>6. OnePlace'
  BY <1>2, <1>3 DEF OnePlace
<1>7. stream' \in Seq(FlowRecords) /\ disk' \in SavedFlows /\ LogOK'
  <2>1. PICK e : e = <<>>
    OBVIOUS
  <2>2. e \in Seq(FlowRecords) /\ Len(e) = 0 /\ SubSeq(e, 1, 0) = <<>>
    BY <2>1
  <2>3. GoodFor(Nothing, started', created', completed', failed', crashes', revived')
    BY NothingIsGood
  <2>4. Replay(Nothing, <<>>) = Nothing
    BY ReplayNone
  <2>5. \A k \in 0 .. Len(e) : Replay(Nothing, SubSeq(e, 1, k)) = Nothing
    <3>1. \A k \in 0 .. Len(e) : k = 0
      BY <2>2
    <3> QED  BY <2>2, <2>4, <3>1
  <2>6. ToSet(Nothing.dlq) = {} /\ \A f \in Chains : Nothing.chain[f] = 0
    BY DEF Nothing, ToSet
  <2>7. LogOK'
    BY <1>1, <2>1, <2>3, <2>4, <2>5, <2>6 DEF LogOK
  <2> QED  BY <1>1, <2>1, <2>2, <2>3, <2>7 DEF GoodFor
<1>8. /\ attempts' \in [Jobs -> Nat] /\ retrying' \in [Retriers -> Calling]
      /\ \A r \in Retriers : ~retrying'[r].called => retrying'[r].hold = {}
      /\ dropped' \subseteq Jobs
  BY <1>2 DEF FlowTypes
<1>9. \A k \in Jobs :
        attempts'[k] < MaxAttempts(k) \/ (k \in failed /\ k \notin Busy') \/ k \in revived
  BY <1>2, <1>4 DEF CreatedOK
<1> QED  BY <1>2, <1>3, <1>4, <1>5, <1>6, <1>7, <1>8, <1>9, QuietKeeps

\* A snapshot is renamed into place.
LEMMA SnapshotKeeps ==
  ASSUME FlowInv, Snapshot
  PROVE  FlowInv'
<1> USE InvHas
<1>1. /\ snaps < flowBudget.snaps /\ snaps' = snaps + 1 /\ cutting' = TRUE /\ snap' = entered
      /\ UNCHANGED <<flows, queue, entered, workers, attempts, letters, disk, stream, crashes,
                     flowBudget, past, revived>>
  BY DEF Snapshot
<1>2. /\ UNCHANGED <<flows, crashes, flowBudget, revived, started, created, completed, failed>>
      /\ attempts' = attempts /\ dlq' = dlq /\ retrying' = retrying
      /\ queue' = queue /\ running' = running /\ dropped' = dropped
      /\ disk' = disk /\ stream' = stream
      /\ chainMap' = chainMap /\ crashes' = crashes /\ flowBudget' = flowBudget
      /\ revived' = revived /\ entered' = entered
      /\ started' = started /\ created' = created /\ completed' = completed /\ failed' = failed
  BY <1>1 DEF letters, past, flows, workers
<1>3. Letters' = Letters /\ Held' = Held
  BY <1>2 DEF Letters, Held
<1>4. Busy' = Busy /\ FlowPlaces' = FlowPlaces
  BY <1>2, <1>3 DEF Busy, FlowPlaces
<1>5. FlowTypeOK'
  <2>1. flowBudget \in FlowBudgets /\ flowBudget.snaps \in Nat /\ snaps \in 0 .. flowBudget.snaps
    BY FlowsAssumption DEF FlowTypeOK
  <2>2. snaps' \in 0 .. flowBudget.snaps
    BY <1>1, <2>1
  <2> QED  BY <1>1, <1>2, <2>2 DEF FlowTypeOK, flows
<1>6. OnePlace'
  BY <1>2, <1>3 DEF OnePlace
<1>7. stream' \in Seq(FlowRecords) /\ disk' \in SavedFlows /\ LogOK'
  BY <1>2, <1>3, LogUnchanged
<1>8. /\ attempts' \in [Jobs -> Nat] /\ retrying' \in [Retriers -> Calling]
      /\ \A r \in Retriers : ~retrying'[r].called => retrying'[r].hold = {}
      /\ dropped' \subseteq Jobs
  BY <1>2 DEF FlowTypes
<1>9. \A k \in Jobs :
        attempts'[k] < MaxAttempts(k) \/ (k \in failed /\ k \notin Busy') \/ k \in revived
  BY <1>2, <1>4 DEF CreatedOK
<1> QED  BY <1>2, <1>3, <1>4, <1>5, <1>6, <1>7, <1>8, <1>9, QuietKeeps

-----------------------------------------------------------------------------
(* Steps of chains.                                                        *)

\* A step that leaves the graphs alone.
LEMMA GraphsKept ==
  ASSUME GraphsOK, dagNodes' = dagNodes, doneDeps' = doneDeps, tracked' = tracked,
         rooting' = rooting, unlocking' = unlocking,
         \A d \in Dags : d \in started' <=> d \in started,
         completed \subseteq completed',
         \A n \in Nodes : NodeJob(n) \in created' <=> NodeJob(n) \in created
  PROVE  /\ GraphsOK' /\ Accepted' = Accepted
         /\ \A n \in Nodes : Waits(n) /\ (\A m \in Nodes : NodeJob(m) \in completed' => NodeJob(m) \in completed)
              => Waits(n)'
<1>1. Accepted' = Accepted
  BY DEF Accepted
<1>2. \A d \in Dags : Dead(d) => Dead(d)'
  BY DEF Dead
<1>3. \A d \in Dags : Fresh(d) => Fresh(d)'
  <2>1. \A d \in Dags : ToSet(NodesOf(d)) \subseteq Nodes
    BY FlowsAssumption DEF ToSet
  <2> QED  BY <2>1 DEF Fresh
<1>4. GraphsOK'
  <2>1. IsInjective(dagNodes') /\ ToSet(dagNodes') \subseteq Accepted' /\ tracked' \subseteq Accepted'
    BY <1>1 DEF GraphsOK
  <2>2. \A u \in unlocking' : u[1] \in Accepted' /\ NodeJob(u[1]) \in completed'
    BY <1>1 DEF GraphsOK
  <2>3. \A n \in Nodes : \A m \in doneDeps'[n] : NodeJob(m) \in completed'
    BY DEF GraphsOK
  <2>4. ASSUME NEW d \in Dags
        PROVE  /\ IsInjective(rooting'[d])
               /\ \A n \in ToSet(rooting'[d]) : n \in ToSet(NodesOf(d)) /\ Deps(n) = {}
               /\ d \notin started' => rooting'[d] = <<>>
               /\ d \in started' => Sortable(d) /\ (Dead(d)' \/ Fresh(d)')
    BY <1>2, <1>3, <2>4 DEF GraphsOK
  <2> QED  BY <2>1, <2>2, <2>3, <2>4 DEF GraphsOK
<1>5. ASSUME NEW n \in Nodes, Waits(n), \A m \in Nodes : NodeJob(m) \in completed' => NodeJob(m) \in completed
      PROVE  Waits(n)'
  <2>1. Deps(n) \subseteq Nodes
    BY FlowsAssumption
  <2> QED  BY <1>5, <2>1 DEF Waits
<1> QED  BY <1>1, <1>4, <1>5

\* Accepted nodes are nodes of one graph each.
LEMMA AcceptedAre ==
  /\ Accepted \subseteq Nodes /\ Accepted = AcceptedOf(started)
  /\ \A d \in Dags : ToSet(NodesOf(d)) \subseteq Nodes /\ NodesOf(d) \in Seq(Nodes) /\ IsInjective(NodesOf(d))
  /\ \A n \in Nodes, d, e \in Dags : n \in ToSet(NodesOf(d)) /\ n \in ToSet(NodesOf(e)) => d = e
<1>1. \A d \in Dags : ToSet(NodesOf(d)) \subseteq Nodes /\ NodesOf(d) \in Seq(Nodes) /\ IsInjective(NodesOf(d))
  BY FlowsAssumption DEF ToSet
<1>2. \A n \in Nodes, d, e \in Dags : n \in ToSet(NodesOf(d)) /\ n \in ToSet(NodesOf(e)) => d = e
  BY FlowsAssumption
<1> QED  BY <1>1, <1>2 DEF Accepted, AcceptedOf

\* A chain starts: its first step is new.
LEMMA ChainKeeps ==
  ASSUME FlowInv, NEW f \in Chains, Chain(f)
  PROVE  FlowInv' /\ <<f, 1>> \notin created
<1> USE InvHas
<1>0. PICK j : j = <<f, 1>>
  OBVIOUS
<1>1. PICK e : e = [op |-> "CHAIN_REGISTER", id |-> f]
  OBVIOUS
<1>2. /\ f \notin started /\ started' = started \cup {f} /\ chainMap' = [chainMap EXCEPT ![f] = 1]
      /\ Log(<<e>>) /\ queue' = queue \cup {j} /\ created' = created \cup {j}
      /\ dagNodes' = dagNodes /\ doneDeps' = doneDeps /\ tracked' = tracked
      /\ rooting' = rooting /\ unlocking' = unlocking /\ running' = running /\ attempts' = attempts
      /\ dlq' = dlq /\ retrying' = retrying /\ crashes' = crashes /\ flowBudget' = flowBudget
      /\ snap' = snap /\ cutting' = cutting /\ snaps' = snaps /\ revived' = revived
      /\ entered' = entered \cup {j}
      /\ completed' = completed /\ failed' = failed /\ dropped' = dropped
  BY <1>0, <1>1 DEF Chain, Create, letters, life, workers
<1>3. /\ j \in Jobs /\ Flow(j) = f /\ f \notin Nodes /\ f \notin Dags /\ e \in FlowRecords
      /\ \A n \in Nodes : NodeJob(n) # j
      /\ \A g \in Chains, s \in 1 .. Steps : <<g, s>> = j => g = f /\ s = 1
  BY <1>0, <1>1, JobsAre, RecordsAre, FlowsAssumption DEF NodeJob
<1>4. \A k \in created : Flow(k) # f
  BY <1>2 DEF CreatedOK
<1>5. j \notin created /\ j \notin FlowPlaces /\ j \notin failed
  BY <1>3, <1>4 DEF FlowTypes
<1>6. /\ chainMap \in [Chains -> 0 .. Steps] /\ chainMap' \in [Chains -> 0 .. Steps]
      /\ chainMap'[f] = 1 /\ \A g \in Chains : g # f => chainMap'[g] = chainMap[g]
  BY <1>2, JobsAre DEF FlowTypeOK
<1>7. Letters' = Letters /\ Held' = Held
  BY <1>2 DEF Letters, Held
<1>8. Busy' = Busy \cup {j} /\ FlowPlaces' = FlowPlaces \cup {j}
  BY <1>2, <1>7 DEF Busy, FlowPlaces
<1>9. stream' \in Seq(FlowRecords) /\ disk' \in SavedFlows /\ LogOK'
  <2>1. ASSUME crashes < flowBudget.crashes
        PROVE  /\ GoodFor(Restore(Replay(disk, stream), e), started', created', completed', failed', crashes, revived)
               /\ ToSet(Restore(Replay(disk, stream), e).dlq) \subseteq Letters'
               /\ \A g \in Chains : Restore(Replay(disk, stream), e).chain[g] \in {0, chainMap'[g]}
    <3>1. PICK L, R : L = Replay(disk, stream) /\ R = Restore(L, e)
      OBVIOUS
    <3>2. /\ GoodFor(L, started, created, completed, failed, crashes, revived)
          /\ ToSet(L.dlq) \subseteq Letters /\ \A g \in Chains : L.chain[g] \in {0, chainMap[g]}
      BY <2>1, <3>1, LogIs DEF LogOK
    <3>3. GoodFor(L, started', created', completed', failed', crashes, revived)
      BY <1>2, <3>2, GoodGrows
    <3>4. /\ L \in SavedFlows /\ L.chain \in [Chains -> 0 .. Steps] /\ ToSet(L.dlq) \subseteq created
      BY <3>2, GoodHas
    <3>5. R = [chain |-> [L.chain EXCEPT ![f] = 1], nodes |-> L.nodes, deps |-> L.deps, dlq |-> L.dlq]
      BY <1>1, <3>1, <3>4, RestoreIs
    <3>6. f \in started' /\ Current(f, 1, ToSet(L.dlq), revived)
      BY <1>2, <1>4, <3>4, JobsAre DEF Current
    <3>7. 1 \in 0 .. Steps
      BY JobsAre
    <3>8. /\ GoodFor(R, started', created', completed', failed', crashes, revived)
          /\ R.chain = [L.chain EXCEPT ![f] = 1] /\ R.dlq = L.dlq
      BY <3>3, <3>5, <3>6, <3>7, GoodChained
    <3>9. R.chain[f] = 1 /\ \A g \in Chains : g # f => R.chain[g] = L.chain[g]
      BY <3>4, <3>8
    <3> QED  BY <1>6, <1>7, <3>1, <3>2, <3>8, <3>9
  <2> QED  BY <1>2, <1>3, <2>1, LogOne
<1>10. FlowTypes'
  <2>1. FlowTypeOK'
    BY <1>2, <1>3, <1>6 DEF FlowTypeOK
  <2> QED  BY <1>2, <1>3, <1>9, <2>1 DEF FlowTypes
<1>11. OnePlace'
  BY <1>2, <1>5, <1>7 DEF OnePlace, FlowPlaces, Busy
<1>12. GraphsOK' /\ Accepted' = Accepted /\ \A n \in Nodes : Waits(n) => Waits(n)'
  BY <1>2, <1>3, GraphsKept
<1>13. CreatedOK'
  <2>1. FlowPlaces' \subseteq created'
    BY <1>2, <1>8
  <2>2. \A k \in Jobs :
          attempts'[k] < MaxAttempts(k) \/ (k \in failed' /\ k \notin Busy') \/ k \in revived
    BY <1>2, <1>5, <1>8 DEF CreatedOK
  <2>3. \A k \in created' : (Flow(k) \in Chains => Flow(k) \in started') /\ (Flow(k) \in Nodes => Flow(k) \in Accepted')
    BY <1>2, <1>3, <1>12 DEF CreatedOK
  <2> QED  BY <1>2, <2>1, <2>2, <2>3 DEF CreatedOK
<1>14. ChainsOK'
  <2>1. ASSUME NEW g \in Chains, chainMap'[g] # 0
        PROVE  g \in started' /\ Current(g, chainMap'[g], FlowPlaces', revived)
    <3>1. CASE g = f
      BY <1>2, <1>3, <1>4, <1>6, <1>8, <3>1, JobsAre DEF Current
    <3>2. CASE g # f
      BY <1>2, <1>3, <1>6, <1>8, <2>1, <3>2 DEF ChainsOK, Current
    <3> QED  BY <3>1, <3>2
  <2>2. \A k \in failed' : Flow(k) \in Chains => chainMap'[Flow(k)] = 0
    BY <1>2, <1>4, <1>6 DEF ChainsOK, FlowTypes
  <2> QED  BY <1>2, <2>1, <2>2 DEF ChainsOK
<1>15. OrderOK'
  <2>1. ASSUME NEW g \in Chains, NEW s \in 1 .. Steps, NEW h \in 1 .. Steps, h > s, <<g, h>> \in created'
        PROVE  <<g, h>> \in created /\ (<<g, s>> \in FlowPlaces' => <<g, s>> \in FlowPlaces)
    <3>1. <<g, h>> # j
      <4>1. s \in Nat /\ h \in Nat /\ s >= 1
        BY JobsAre
      <4> QED  BY <1>3, <2>1, <4>1
    <3>2. <<g, h>> \in created
      BY <1>2, <2>1, <3>1
    <3>3. <<g, s>> # j
      BY <1>3, <1>4, <3>2, JobsAre
    <3> QED  BY <1>8, <3>2, <3>3
  <2> QED  BY <1>2, <2>1 DEF OrderOK, Again
<1>16. FirstLife'
  <2> SUFFICES ASSUME crashes = 0 PROVE
           /\ created' \subseteq completed \cup dropped \cup FlowPlaces'
           /\ Letters' \subseteq failed
           /\ \A g \in Chains : chainMap'[g] # 0 => <<g, chainMap'[g]>> \in Busy' \cup dropped
           /\ \A n \in Nodes : NodeJob(n) \in created' \ completed => n \in tracked
           /\ \A n \in Nodes : NodeJob(n) \in FlowPlaces' => NodeJob(n) \notin completed
           /\ \A n \in Accepted : NodeJob(n) \notin created' => Waits(n)'
    BY <1>2, <1>12 DEF FirstLife
  <2>1. /\ created' \subseteq completed \cup dropped \cup FlowPlaces' /\ Letters' \subseteq failed
    BY <1>2, <1>7, <1>8 DEF FirstLife
  <2>2. \A g \in Chains : chainMap'[g] # 0 => <<g, chainMap'[g]>> \in Busy' \cup dropped
    BY <1>0, <1>6, <1>8 DEF FirstLife
  <2>3. /\ \A n \in Nodes : NodeJob(n) \in created' \ completed => n \in tracked
        /\ \A n \in Nodes : NodeJob(n) \in FlowPlaces' => NodeJob(n) \notin completed
    BY <1>2, <1>3, <1>8 DEF FirstLife
  <2>4. \A n \in Accepted : NodeJob(n) \notin created' => Waits(n)'
    BY <1>2, <1>12, AcceptedAre DEF FirstLife
  <2> QED  BY <2>1, <2>2, <2>3, <2>4
<1> QED  BY <1>0, <1>5, <1>9, <1>10, <1>11, <1>12, <1>13, <1>14, <1>15, <1>16 DEF FlowInv

\* What runs is nowhere else and its chain's current step, unless it or another job of its
\* chain came back from a snapshot.
LEMMA RunsAlone ==
  ASSUME FlowInv, NEW j \in running
  PROVE  /\ j \in FlowPlaces /\ j \in Busy /\ j \in created /\ j \in Jobs
         /\ j \notin revived => j \notin queue /\ j \notin Letters /\ j \notin Held
         /\ \A f \in Chains : Flow(j) = f /\ chainMap[f] # 0 /\ ~Again(f) => j = <<f, chainMap[f]>>
<1> USE InvHas
<1>1. j \in FlowPlaces /\ j \in Busy /\ j \in created /\ j \in Jobs
  BY DEF FlowPlaces, Busy
<1>2. j \notin revived => j \notin queue /\ j \notin Letters /\ j \notin Held
  BY DEF OnePlace
<1>3. ASSUME NEW f \in Chains, Flow(j) = f, chainMap[f] # 0, ~Again(f) PROVE j = <<f, chainMap[f]>>
  <2>1. j \notin revived /\ \A k \in revived : Flow(k) # f
    BY <1>3 DEF Again
  <2> QED  BY <1>1, <1>3, <2>1, JobsAre DEF ChainsOK, Current
<1> QED  BY <1>1, <1>2, <1>3

\* A copy of a job ends: where the job was, and where all are when those of S enter.
LEMMA CopyEndsIs ==
  ASSUME FlowInv, CopiesOK, NEW j \in Jobs, CopyEnds(j)
  PROVE  /\ j \in running /\ running' \subseteq running /\ running \ {j} \subseteq running'
         /\ j \in running' => j \in revived
         /\ crashes = 0 => revived = {} /\ running' = running \ {j}
  BY DEF CopyEnds, CopiesOK

\* A job completes: its dead letter, if any, goes.
LEMMA CompletesIs ==
  ASSUME FlowInv, CopiesOK, NEW j \in Jobs, CopyEnds(j), dlq' = Without(dlq, {j}),
         retrying' = retrying, revived' = revived, NEW S \in SUBSET Jobs, queue' = queue \cup S
  PROVE  /\ dlq' \in Seq(Jobs) /\ IsInjective(dlq') /\ Letters' = Letters \ {j} /\ Held' = Held
         /\ Busy' \subseteq Busy \cup S /\ (Busy \ {j}) \cup S \subseteq Busy'
         /\ FlowPlaces' \subseteq FlowPlaces \cup S /\ (FlowPlaces \ {j}) \cup S \subseteq FlowPlaces'
         /\ j \in FlowPlaces' => j \in revived \cup S
         /\ crashes = 0 => Letters' = Letters
         /\ S \cap FlowPlaces \subseteq revived => OnePlace'
<1> USE InvHas
<1>1. /\ j \in running /\ running' \subseteq running /\ running \ {j} \subseteq running'
      /\ j \in running' => j \in revived
      /\ crashes = 0 => revived = {} /\ running' = running \ {j}
  BY CopyEndsIs
<1>2. dlq' \in Seq(Jobs) /\ IsInjective(dlq') /\ Letters' = Letters \ {j} /\ Held' = Held
  <2>1. PICK w : w = Without(dlq, {j})
    OBVIOUS
  <2>2. dlq \in Seq(Jobs) /\ IsInjective(dlq)
    BY DEF FlowTypeOK, OnePlace
  <2>3. w \in Seq(Jobs) /\ IsInjective(w) /\ ToSet(w) = ToSet(dlq) \ {j}
    BY <2>1, <2>2, WithoutIs
  <2> QED  BY <2>1, <2>3 DEF Letters, Held
<1>3. j \notin revived => j \notin queue /\ j \notin Letters /\ j \notin Held
  BY <1>1, RunsAlone
<1>4. /\ Busy' \subseteq Busy \cup S /\ (Busy \ {j}) \cup S \subseteq Busy'
      /\ FlowPlaces' \subseteq FlowPlaces \cup S /\ (FlowPlaces \ {j}) \cup S \subseteq FlowPlaces'
  BY <1>1, <1>2 DEF Busy, FlowPlaces
<1>5. j \in FlowPlaces' => j \in revived \cup S
  BY <1>1, <1>2, <1>3 DEF Busy, FlowPlaces
<1>6. crashes = 0 => Letters' = Letters
  BY <1>1, <1>2, <1>3
<1>7. ASSUME S \cap FlowPlaces \subseteq revived PROVE OnePlace'
  <2>1. S \cap running \subseteq revived /\ S \cap (Letters \cup Held) \subseteq revived
    BY <1>7
  <2>2. /\ queue' \cap running' \subseteq revived
        /\ (queue' \cup running') \cap (Letters' \cup Held') \subseteq revived
        /\ Letters' \cap Held' \subseteq revived
    BY <1>1, <1>2, <2>1 DEF OnePlace
  <2> QED  BY <1>2, <2>2 DEF OnePlace
<1> QED  BY <1>2, <1>4, <1>5, <1>6, <1>7

\* A job completes that is no current step and no tracked node.
LEMMA OtherCompleteKeeps ==
  ASSUME FlowInv, CopiesOK, NEW j \in Jobs, Complete(j),
         ~(Flow(j) \in Chains /\ chainMap[Flow(j)] # 0), Flow(j) \notin tracked
  PROVE  FlowInv' /\ queue' = queue /\ created' = created
<1> USE InvHas
<1>1. /\ CopyEnds(j) /\ completed' = completed \cup {j}
      /\ dlq' = Without(dlq, {j}) /\ queue' = queue \cup {} /\ created' = created \cup {}
      /\ entered' = entered \cup {} /\ Log(Removed(j))
      /\ dagNodes' = dagNodes /\ doneDeps' = doneDeps /\ tracked' = tracked /\ unlocking' = unlocking
      /\ chainMap' = chainMap /\ rooting' = rooting /\ attempts' = attempts /\ retrying' = retrying
      /\ started' = started /\ failed' = failed /\ dropped' = dropped
      /\ crashes' = crashes /\ flowBudget' = flowBudget
      /\ snap' = snap /\ cutting' = cutting /\ snaps' = snaps /\ revived' = revived
  BY DEF Complete, Create, Removed, life
<1>2. queue' = queue /\ created' = created /\ entered' = entered
  BY <1>1
<1>3. /\ j \in running /\ running' \subseteq running /\ j \in FlowPlaces /\ j \in created
      /\ crashes = 0 => revived = {}
  BY <1>1, CopyEndsIs, RunsAlone
<1>4. /\ dlq' \in Seq(Jobs) /\ Letters' = Letters \ {j} /\ Held' = Held /\ OnePlace'
      /\ Busy' \subseteq Busy /\ Busy \ {j} \subseteq Busy'
      /\ FlowPlaces' \subseteq FlowPlaces /\ FlowPlaces \ {j} \subseteq FlowPlaces'
      /\ j \in FlowPlaces' => j \in revived
      /\ crashes = 0 => Letters' = Letters
  <2>1. PICK S : S = {}
    OBVIOUS
  <2>2. S \in SUBSET Jobs /\ S \cap FlowPlaces \subseteq revived /\ queue' = queue \cup S
    BY <1>1, <2>1
  <2>3. /\ dlq' \in Seq(Jobs) /\ Letters' = Letters \ {j} /\ Held' = Held /\ OnePlace'
        /\ Busy' \subseteq Busy \cup S /\ (Busy \ {j}) \cup S \subseteq Busy'
        /\ FlowPlaces' \subseteq FlowPlaces \cup S /\ (FlowPlaces \ {j}) \cup S \subseteq FlowPlaces'
        /\ j \in FlowPlaces' => j \in revived \cup S
        /\ crashes = 0 => Letters' = Letters
    BY <1>1, <2>2, CompletesIs, ZenonT(60)
  <2> QED  BY <2>1, <2>3
<1>6. stream' \in Seq(FlowRecords) /\ disk' \in SavedFlows /\ LogOK'
  <2>1. \A f \in Chains : chainMap[f] \in {0, chainMap'[f]}
    BY <1>1
  <2> QED  BY <1>1, <1>2, <1>4, <2>1, LogNoneAfter
<1>7. FlowTypes'
  <2>1. FlowTypeOK'
    BY <1>1, <1>2, <1>3, <1>4 DEF FlowTypeOK
  <2> QED  BY <1>1, <1>2, <1>3, <1>6, <2>1 DEF FlowTypes
<1>9. /\ GraphsOK' /\ Accepted' = Accepted
      /\ \A n \in Nodes : Waits(n) /\ (\A m \in Nodes : NodeJob(m) \in completed' => NodeJob(m) \in completed)
              => Waits(n)'
  BY <1>1, <1>2, GraphsKept
<1>10. CreatedOK'
  BY <1>1, <1>2, <1>4, <1>9 DEF CreatedOK
<1>11. ChainsOK' /\ OrderOK'
  BY <1>1, <1>2, <1>4, ChainsKept
<1>12. FirstLife'
  <2> SUFFICES ASSUME crashes = 0 PROVE
           /\ created \subseteq completed' \cup dropped \cup FlowPlaces'
           /\ Letters \subseteq failed
           /\ \A f \in Chains : chainMap[f] # 0 => <<f, chainMap[f]>> \in Busy' \cup dropped
           /\ \A n \in Nodes : NodeJob(n) \in created \ completed' => n \in tracked
           /\ \A n \in Nodes : NodeJob(n) \in FlowPlaces' => NodeJob(n) \notin completed'
           /\ \A n \in Accepted : NodeJob(n) \notin created => Waits(n)'
    BY <1>1, <1>2, <1>4, <1>9 DEF FirstLife
  <2>1. created \subseteq completed' \cup dropped \cup FlowPlaces' /\ Letters \subseteq failed
    BY <1>1, <1>4 DEF FirstLife
  <2>2. ASSUME NEW f \in Chains, chainMap[f] # 0 PROVE <<f, chainMap[f]>> \in Busy' \cup dropped
    <3>1. <<f, chainMap[f]>> # j
      BY <2>2 DEF Flow
    <3> QED  BY <1>4, <2>2, <3>1 DEF FirstLife
  <2>3. \A n \in Nodes : NodeJob(n) \in created \ completed' => n \in tracked
    BY <1>1 DEF FirstLife
  <2>4. \A n \in Nodes : NodeJob(n) \in FlowPlaces' => NodeJob(n) \notin completed'
    BY <1>1, <1>3, <1>4 DEF FirstLife
  <2>5. \A m \in Nodes : NodeJob(m) # j
    <3> SUFFICES ASSUME NEW m \in Nodes, NodeJob(m) = j PROVE FALSE
      OBVIOUS
    <3>1. j \notin completed
      BY <1>3 DEF FirstLife
    <3>2. m \in tracked
      BY <1>3, <3>1 DEF FirstLife
    <3>3. Flow(j) = m
      BY JobsAre
    <3> QED  BY <3>2, <3>3
  <2>6. \A n \in Accepted : NodeJob(n) \notin created => Waits(n)'
    BY <1>1, <1>9, <2>5, AcceptedAre DEF FirstLife
  <2> QED  BY <2>1, <2>2, <2>3, <2>4, <2>5, <2>6
<1> QED  BY <1>2, <1>4, <1>6, <1>7, <1>9, <1>10, <1>11, <1>12 DEF FlowInv

\* The last step of a chain completes.
LEMMA EndKeeps ==
  ASSUME FlowInv, CopiesOK, NEW j \in Jobs, Complete(j), NEW f \in Chains, Flow(j) = f, chainMap[f] = Steps
  PROVE  FlowInv' /\ queue' = queue /\ created' = created
<1> USE InvHas
<1>0. PICK e : e = [op |-> "CHAIN_COMPLETE", id |-> f]
  OBVIOUS
<1>a. chainMap[f] # 0
  BY JobsAre
<1>1. /\ CopyEnds(j) /\ completed' = completed \cup {j}
      /\ dlq' = Without(dlq, {j}) /\ queue' = queue \cup {} /\ created' = created \cup {}
      /\ entered' = entered \cup {} /\ Log(Removed(j) \o <<e>>)
      /\ dagNodes' = dagNodes /\ doneDeps' = doneDeps /\ tracked' = tracked /\ unlocking' = unlocking
      /\ chainMap' = [chainMap EXCEPT ![f] = 0]
      /\ rooting' = rooting /\ attempts' = attempts /\ retrying' = retrying
      /\ started' = started /\ failed' = failed /\ dropped' = dropped
      /\ crashes' = crashes /\ flowBudget' = flowBudget
      /\ snap' = snap /\ cutting' = cutting /\ snaps' = snaps /\ revived' = revived
  <2>1. AdvanceChain(f, Removed(j))
    BY <1>a DEF Complete, Removed
  <2>2. Log(Removed(j) \o <<e>>) /\ chainMap' = [chainMap EXCEPT ![f] = 0] /\ Create({})
    BY <1>0, <2>1 DEF AdvanceChain
  <2> QED  BY <1>a, <2>2 DEF Complete, Create, life
<1>2. queue' = queue /\ created' = created /\ entered' = entered
  BY <1>1
<1>3. /\ j \in running /\ running' \subseteq running /\ j \in FlowPlaces /\ j \in created
      /\ crashes = 0 => revived = {}
      /\ ~Again(f) => j = <<f, chainMap[f]>>
      /\ e \in FlowRecords
  BY <1>0, <1>1, <1>a, CopyEndsIs, RunsAlone, RecordsAre
<1>4. /\ dlq' \in Seq(Jobs) /\ Letters' = Letters \ {j} /\ Held' = Held /\ OnePlace'
      /\ Busy' \subseteq Busy /\ Busy \ {j} \subseteq Busy'
      /\ FlowPlaces' \subseteq FlowPlaces /\ FlowPlaces \ {j} \subseteq FlowPlaces'
      /\ j \in FlowPlaces' => j \in revived
      /\ crashes = 0 => Letters' = Letters
  <2>1. PICK S : S = {}
    OBVIOUS
  <2>2. S \in SUBSET Jobs /\ S \cap FlowPlaces \subseteq revived /\ queue' = queue \cup S
    BY <1>1, <2>1
  <2>3. /\ dlq' \in Seq(Jobs) /\ Letters' = Letters \ {j} /\ Held' = Held /\ OnePlace'
        /\ Busy' \subseteq Busy \cup S /\ (Busy \ {j}) \cup S \subseteq Busy'
        /\ FlowPlaces' \subseteq FlowPlaces \cup S /\ (FlowPlaces \ {j}) \cup S \subseteq FlowPlaces'
        /\ j \in FlowPlaces' => j \in revived \cup S
        /\ crashes = 0 => Letters' = Letters
    BY <1>1, <2>2, CompletesIs, ZenonT(60)
  <2> QED  BY <2>1, <2>3
<1>6. /\ chainMap \in [Chains -> 0 .. Steps] /\ chainMap' \in [Chains -> 0 .. Steps]
      /\ chainMap'[f] = 0 /\ \A g \in Chains : g # f => chainMap'[g] = chainMap[g]
  <2>1. 0 \in 0 .. Steps
    BY JobsAre
  <2> QED  BY <1>1, <2>1 DEF FlowTypeOK
<1>7. \A n \in Nodes : NodeJob(n) # j
  BY JobsAre
<1>8. stream' \in Seq(FlowRecords) /\ disk' \in SavedFlows /\ LogOK'
  <2>1. ASSUME NEW M, AfterRemoval(M, j)
        PROVE  /\ GoodFor(Restore(M, e), started', created', completed', failed', crashes, revived)
               /\ ToSet(Restore(M, e).dlq) \subseteq Letters'
               /\ \A g \in Chains : Restore(M, e).chain[g] \in {0, chainMap'[g]}
    <3>1. PICK R : R = Restore(M, e)
      OBVIOUS
    <3>2. /\ GoodFor(M, started', created', completed', failed', crashes, revived)
          /\ ToSet(M.dlq) \subseteq Letters' /\ \A g \in Chains : M.chain[g] \in {0, chainMap[g]}
      BY <1>4, <2>1 DEF AfterRemoval
    <3>4. M \in SavedFlows /\ M.chain \in [Chains -> 0 .. Steps]
      BY <3>2, GoodHas
    <3>5. R = [chain |-> [M.chain EXCEPT ![f] = 0], nodes |-> M.nodes, deps |-> M.deps, dlq |-> M.dlq]
      <4>1. \A g \in Chains : Restore(M, [op |-> "CHAIN_COMPLETE", id |-> g])
              = [chain |-> [M.chain EXCEPT ![g] = 0], nodes |-> M.nodes, deps |-> M.deps, dlq |-> M.dlq]
        BY <3>4, RestoreIs
      <4> QED  BY <1>0, <3>1, <4>1
    <3>6. 0 \in 0 .. Steps
      BY JobsAre
    <3>7. /\ GoodFor(R, started', created', completed', failed', crashes, revived)
          /\ R.chain = [M.chain EXCEPT ![f] = 0] /\ R.dlq = M.dlq
      BY <3>2, <3>5, <3>6, GoodChained
    <3>8. R.chain[f] = 0 /\ \A g \in Chains : g # f => R.chain[g] = M.chain[g]
      BY <3>4, <3>7
    <3> QED  BY <1>6, <3>1, <3>2, <3>7, <3>8
  <2> QED  BY <1>1, <1>2, <1>3, <2>1, LogOneAfter
<1>9. FlowTypes'
  <2>1. FlowTypeOK'
    BY <1>1, <1>2, <1>3, <1>4, <1>6 DEF FlowTypeOK
  <2> QED  BY <1>1, <1>2, <1>3, <1>8, <2>1 DEF FlowTypes
<1>11. GraphsOK' /\ Accepted' = Accepted /\ \A n \in Nodes : Waits(n) => Waits(n)'
  BY <1>1, <1>2, <1>7, GraphsKept
<1>12. CreatedOK'
  BY <1>1, <1>2, <1>4, <1>11 DEF CreatedOK
<1>13. ChainsOK'
  <2>1. \A g \in Chains : chainMap'[g] # 0 => g # f /\ chainMap'[g] = chainMap[g]
    BY <1>6
  <2>2. \A g \in Chains : chainMap[g] = 0 => chainMap'[g] = 0
    BY <1>6
  <2>3. \A g \in Chains : chainMap'[g] # 0 =>
          g \in started' /\ Current(g, chainMap'[g], FlowPlaces', revived)
    BY <1>1, <1>4, <2>1, CurrentKept DEF ChainsOK
  <2>4. \A k \in failed' : Flow(k) \in Chains => chainMap'[Flow(k)] = 0
    BY <1>1, <2>2 DEF ChainsOK
  <2> QED  BY <1>1, <2>3, <2>4 DEF ChainsOK
<1>14. OrderOK'
  BY <1>1, <1>2, <1>4 DEF OrderOK, Again
<1>15. FirstLife'
  <2> SUFFICES ASSUME crashes = 0 PROVE
           /\ created \subseteq completed' \cup dropped \cup FlowPlaces'
           /\ Letters \subseteq failed
           /\ \A g \in Chains : chainMap'[g] # 0 => <<g, chainMap'[g]>> \in Busy' \cup dropped
           /\ \A n \in Nodes : NodeJob(n) \in created \ completed' => n \in tracked
           /\ \A n \in Nodes : NodeJob(n) \in FlowPlaces' => NodeJob(n) \notin completed'
           /\ \A n \in Accepted : NodeJob(n) \notin created => Waits(n)'
    BY <1>1, <1>2, <1>4, <1>11 DEF FirstLife
  <2>1. created \subseteq completed' \cup dropped \cup FlowPlaces' /\ Letters \subseteq failed
    BY <1>1, <1>4 DEF FirstLife
  <2>2. ASSUME NEW g \in Chains, chainMap'[g] # 0 PROVE <<g, chainMap'[g]>> \in Busy' \cup dropped
    <3>1. g # f /\ chainMap'[g] = chainMap[g] /\ <<g, chainMap[g]>> # j
      BY <1>3, <1>6, <2>2 DEF Again
    <3> QED  BY <1>4, <2>2, <3>1 DEF FirstLife
  <2>3. \A n \in Nodes : NodeJob(n) \in created \ completed' => n \in tracked
    BY <1>1 DEF FirstLife
  <2>4. \A n \in Nodes : NodeJob(n) \in FlowPlaces' => NodeJob(n) \notin completed'
    BY <1>1, <1>3, <1>4 DEF FirstLife
  <2>5. \A n \in Accepted : NodeJob(n) \notin created => Waits(n)'
    BY <1>11, AcceptedAre DEF FirstLife
  <2> QED  BY <2>1, <2>2, <2>3, <2>4, <2>5
<1> QED  BY <1>2, <1>4, <1>8, <1>9, <1>11, <1>12, <1>13, <1>14, <1>15 DEF FlowInv

\* A step of a chain completes, and the next is created.
LEMMA AdvanceKeeps ==
  ASSUME FlowInv, CopiesOK, NEW j \in Jobs, Complete(j), NEW f \in Chains, Flow(j) = f,
         chainMap[f] # 0, chainMap[f] # Steps
  PROVE  /\ FlowInv' /\ chainMap[f] + 1 \in 2 .. Steps /\ (~Again(f) => j = <<f, chainMap[f]>>)
         /\ queue' = queue \cup {<<f, chainMap[f] + 1>>} /\ created' = created \cup {<<f, chainMap[f] + 1>>}
         /\ j \in completed' /\ (crashes <= 1 /\ ~Again(f) => <<f, chainMap[f] + 1>> \notin created)
<1> USE InvHas
<1>0. PICK c, n : c = chainMap[f] /\ n = <<f, c + 1>>
  OBVIOUS
<1>1. PICK e : e = [op |-> "CHAIN_ADVANCE", id |-> f, step |-> c + 1]
  OBVIOUS
<1>2. c \in 1 .. Steps /\ c + 1 \in 1 .. Steps /\ c + 1 \in 2 .. Steps /\ c + 1 \in 0 .. Steps /\ c + 1 > c
      /\ c + 1 # 0
  <2>1. c \in 0 .. Steps /\ c # 0 /\ c # Steps /\ Steps \in Nat
    BY <1>0, JobsAre DEF FlowTypeOK
  <2> QED  BY <2>1
<1>3. /\ CopyEnds(j) /\ completed' = completed \cup {j}
      /\ dlq' = Without(dlq, {j}) /\ queue' = queue \cup {n} /\ created' = created \cup {n}
      /\ entered' = entered \cup {n} /\ Log(Removed(j) \o <<e>>)
      /\ dagNodes' = dagNodes /\ doneDeps' = doneDeps /\ tracked' = tracked /\ unlocking' = unlocking
      /\ chainMap' = [chainMap EXCEPT ![f] = c + 1]
      /\ rooting' = rooting /\ attempts' = attempts /\ retrying' = retrying
      /\ started' = started /\ failed' = failed /\ dropped' = dropped
      /\ crashes' = crashes /\ flowBudget' = flowBudget
      /\ snap' = snap /\ cutting' = cutting /\ snaps' = snaps /\ revived' = revived
  <2>1. AdvanceChain(f, Removed(j))
    BY DEF Complete, Removed
  <2>2. Log(Removed(j) \o <<e>>) /\ chainMap' = [chainMap EXCEPT ![f] = c + 1] /\ Create({n})
    BY <1>0, <1>1, <2>1 DEF AdvanceChain
  <2> QED  BY <2>2 DEF Complete, Create, life
<1>4. /\ j \in running /\ running' \subseteq running /\ j \in FlowPlaces /\ j \in created
      /\ crashes = 0 => revived = {}
      /\ ~Again(f) => j = <<f, c>>
      /\ e \in FlowRecords /\ n \in Jobs /\ Flow(n) = f /\ f \notin Nodes
  BY <1>0, <1>1, <1>2, <1>3, CopyEndsIs, RunsAlone, RecordsAre, JobsAre
<1>5. /\ \A k \in Nodes : NodeJob(k) # j /\ NodeJob(k) # n
      /\ \A g \in Chains, s \in 1 .. Steps : <<g, s>> = n => g = f /\ s = c + 1
      /\ f \in started /\ Current(f, c, FlowPlaces, revived)
      /\ n \notin FlowPlaces \/ n \in revived
      /\ ~Again(f) => n # j
      /\ n \notin failed
  <2>1. f \in started /\ Current(f, c, FlowPlaces, revived)
    BY <1>0 DEF ChainsOK
  <2>2. c + 1 # c /\ ~(c + 1 <= c)
    BY <1>2
  <2>3. n \notin failed
    BY <1>4 DEF ChainsOK
  <2>4. n \notin FlowPlaces \/ n \in revived
    BY <1>0, <1>2, <2>1, <2>2 DEF Current
  <2>5. /\ \A k \in Nodes : NodeJob(k) # j /\ NodeJob(k) # n
        /\ \A g \in Chains, s \in 1 .. Steps : <<g, s>> = n => g = f /\ s = c + 1
    BY <1>0, <1>2, <1>4, JobsAre
  <2>6. ~Again(f) => n # j
    BY <1>0, <1>4, <2>2
  <2> QED  BY <2>1, <2>3, <2>4, <2>5, <2>6
<1>7. /\ dlq' \in Seq(Jobs) /\ Letters' = Letters \ {j} /\ Held' = Held /\ OnePlace'
      /\ Busy' \subseteq Busy \cup {n} /\ (Busy \ {j}) \cup {n} \subseteq Busy'
      /\ FlowPlaces' \subseteq FlowPlaces \cup {n} /\ (FlowPlaces \ {j}) \cup {n} \subseteq FlowPlaces'
      /\ j \in FlowPlaces' => j \in revived \/ j = n
      /\ crashes = 0 => Letters' = Letters
  <2>1. {n} \in SUBSET Jobs /\ {n} \cap FlowPlaces \subseteq revived
    BY <1>4, <1>5
  <2> QED  BY <1>3, <2>1, CompletesIs, ZenonT(60)
<1>8. /\ chainMap \in [Chains -> 0 .. Steps] /\ chainMap' \in [Chains -> 0 .. Steps]
      /\ chainMap'[f] = c + 1 /\ \A g \in Chains : g # f => chainMap'[g] = chainMap[g]
  BY <1>2, <1>3 DEF FlowTypeOK
<1>9. stream' \in Seq(FlowRecords) /\ disk' \in SavedFlows /\ LogOK'
  <2>1. ASSUME NEW M, AfterRemoval(M, j)
        PROVE  /\ GoodFor(Restore(M, e), started', created', completed', failed', crashes, revived)
               /\ ToSet(Restore(M, e).dlq) \subseteq Letters'
               /\ \A g \in Chains : Restore(M, e).chain[g] \in {0, chainMap'[g]}
    <3>1. PICK R : R = Restore(M, e)
      OBVIOUS
    <3>2. /\ GoodFor(M, started', created', completed', failed', crashes, revived)
          /\ ToSet(M.dlq) \subseteq Letters' /\ \A g \in Chains : M.chain[g] \in {0, chainMap[g]}
      BY <1>7, <2>1 DEF AfterRemoval
    <3>4. M \in SavedFlows /\ M.chain \in [Chains -> 0 .. Steps]
      BY <3>2, GoodHas
    <3>5. R = IF M.chain[f] = 0 THEN M
              ELSE [chain |-> [M.chain EXCEPT ![f] = c + 1], nodes |-> M.nodes, deps |-> M.deps, dlq |-> M.dlq]
      <4>1. \A s \in 1 .. Steps : Restore(M, [op |-> "CHAIN_ADVANCE", id |-> f, step |-> s])
              = IF M.chain[f] = 0 THEN M
                ELSE [chain |-> [M.chain EXCEPT ![f] = s], nodes |-> M.nodes, deps |-> M.deps, dlq |-> M.dlq]
        BY <3>4, RestoreIs
      <4> QED  BY <1>1, <1>2, <3>1, <4>1
    <3>6. CASE M.chain[f] = 0
      <4>1. R = M
        BY <3>5, <3>6
      <4>2. \A g \in Chains : M.chain[g] \in {0, chainMap'[g]}
        BY <1>8, <3>2, <3>6
      <4> QED  BY <3>1, <3>2, <4>1, <4>2
    <3>7. CASE M.chain[f] # 0
      <4>1. R = [chain |-> [M.chain EXCEPT ![f] = c + 1], nodes |-> M.nodes, deps |-> M.deps, dlq |-> M.dlq]
        BY <3>5, <3>7
      <4>2. f \in started' /\ Current(f, c + 1, ToSet(M.dlq), revived)
        <5>1. ToSet(M.dlq) \subseteq Letters \ {j} /\ Letters \subseteq FlowPlaces
          BY <2>1 DEF AfterRemoval
        <5>2. ASSUME NEW s \in 1 .. Steps, <<f, s>> \in ToSet(M.dlq) \ revived
              PROVE  s <= c + 1 /\ ((\A k \in revived : Flow(k) # f) => s = c + 1)
          <6>1. s <= c /\ ((\A k \in revived : Flow(k) # f) => s = c)
            BY <1>5, <5>1, <5>2 DEF Current
          <6>2. s <= c + 1
            BY <1>2, <6>1
          <6>3. ASSUME \A k \in revived : Flow(k) # f PROVE FALSE
            <7>1. <<f, s>> = j
              BY <1>4, <6>1, <6>3 DEF Again
            <7> QED  BY <5>1, <5>2, <7>1
          <6> QED  BY <6>2, <6>3
        <5>3. Current(f, c + 1, ToSet(M.dlq), revived)
          BY <5>2 DEF Current
        <5> QED  BY <1>3, <1>5, <5>3
      <4>3. /\ GoodFor(R, started', created', completed', failed', crashes, revived)
            /\ R.chain = [M.chain EXCEPT ![f] = c + 1] /\ R.dlq = M.dlq
        BY <1>2, <3>2, <4>1, <4>2, GoodChained
      <4>4. R.chain[f] = c + 1 /\ \A g \in Chains : g # f => R.chain[g] = M.chain[g]
        BY <3>4, <4>3
      <4> QED  BY <1>8, <3>1, <3>2, <4>3, <4>4
    <3> QED  BY <3>6, <3>7
  <2> QED  BY <1>3, <1>4, <2>1, LogOneAfter
<1>10. FlowTypes'
  <2>1. FlowTypeOK'
    BY <1>3, <1>4, <1>7, <1>8 DEF FlowTypeOK
  <2> QED  BY <1>3, <1>4, <1>9, <2>1 DEF FlowTypes
<1>12. GraphsOK' /\ Accepted' = Accepted /\ \A k \in Nodes : Waits(k) => Waits(k)'
  BY <1>3, <1>5, GraphsKept
<1>13. CreatedOK'
  <2>1. FlowPlaces' \subseteq created'
    BY <1>3, <1>7 DEF CreatedOK
  <2>2. \A k \in Jobs :
          attempts'[k] < MaxAttempts(k) \/ (k \in failed' /\ k \notin Busy') \/ k \in revived
    BY <1>3, <1>5, <1>7 DEF CreatedOK
  <2>3. \A k \in created' : (Flow(k) \in Chains => Flow(k) \in started') /\ (Flow(k) \in Nodes => Flow(k) \in Accepted')
    BY <1>3, <1>4, <1>5, <1>12 DEF CreatedOK
  <2> QED  BY <1>3, <2>1, <2>2, <2>3 DEF CreatedOK
<1>14. ChainsOK'
  <2>1. ASSUME NEW g \in Chains, chainMap'[g] # 0
        PROVE  g \in started' /\ Current(g, chainMap'[g], FlowPlaces', revived)
    <3>1. CASE g = f
      <4>1. ASSUME NEW s \in 1 .. Steps, <<f, s>> \in FlowPlaces' \ revived
            PROVE  s <= c + 1 /\ ((\A k \in revived : Flow(k) # f) => s = c + 1)
        <5>1. CASE <<f, s>> = n
          BY <1>2, <1>5, <5>1
        <5>2. CASE <<f, s>> # n
          <6>1. <<f, s>> \in FlowPlaces \ revived /\ <<f, s>> # j
            BY <1>7, <4>1, <5>2
          <6>2. s <= c /\ ((\A k \in revived : Flow(k) # f) => s = c)
            BY <1>5, <6>1 DEF Current
          <6>3. s <= c + 1
            BY <1>2, <6>2
          <6>4. ASSUME \A k \in revived : Flow(k) # f PROVE FALSE
            BY <1>4, <6>1, <6>2, <6>4 DEF Again
          <6> QED  BY <6>3, <6>4
        <5> QED  BY <5>1, <5>2
      <4>2. Current(f, c + 1, FlowPlaces', revived)
        BY <4>1 DEF Current
      <4> QED  BY <1>3, <1>5, <1>8, <3>1, <4>2
    <3>2. CASE g # f
      <4>1. \A s \in 1 .. Steps : <<g, s>> \in FlowPlaces' => <<g, s>> \in FlowPlaces
        BY <1>5, <1>7, <3>2
      <4>2. g \in started /\ Current(g, chainMap[g], FlowPlaces, revived)
        BY <1>8, <2>1, <3>2 DEF ChainsOK
      <4>3. Current(g, chainMap[g], FlowPlaces', revived)
        BY <4>1, <4>2 DEF Current
      <4> QED  BY <1>3, <1>8, <3>2, <4>2, <4>3
    <3> QED  BY <3>1, <3>2
  <2>2. \A k \in failed' : Flow(k) \in Chains => chainMap'[Flow(k)] = 0
    <3>1. \A k \in failed : Flow(k) # f
      BY <1>0, <1>2 DEF ChainsOK
    <3> QED  BY <1>3, <1>8, <3>1 DEF ChainsOK
  <2> QED  BY <1>3, <2>1, <2>2 DEF ChainsOK
<1>15. ASSUME crashes <= 1, ~Again(f), NEW h \in 1 .. Steps, h > c PROVE <<f, h>> \notin created
  BY <1>2, <1>4, <1>15 DEF OrderOK
<1>16. OrderOK'
  <2>1. ASSUME crashes <= 1, NEW g \in Chains, NEW s \in 1 .. Steps, NEW h \in 1 .. Steps,
               <<g, s>> \in FlowPlaces', h > s, ~Again(g)
        PROVE  <<g, h>> \notin created'
    <3>1. CASE <<g, s>> = n
      <4>1. g = f /\ s = c + 1
        BY <1>5, <3>1
      <4>2. h > c /\ h # c + 1
        BY <1>2, <2>1, <4>1
      <4>3. <<g, h>> \notin created
        BY <1>15, <2>1, <4>1, <4>2
      <4>4. <<g, h>> # n
        BY <1>5, <4>2
      <4> QED  BY <1>3, <4>3, <4>4
    <3>2. CASE <<g, s>> # n
      <4>1. <<g, s>> \in FlowPlaces /\ <<g, s>> # j
        <5>1. <<g, s>> \notin revived
          BY <2>1, JobsAre DEF Again
        <5> QED  BY <1>7, <2>1, <3>2, <5>1
      <4>2. g # f
        <5> SUFFICES ASSUME g = f PROVE FALSE
          OBVIOUS
        <5>1. \A k \in revived : Flow(k) # f
          BY <2>1 DEF Again
        <5>2. <<f, s>> \notin revived
          BY <5>1, JobsAre
        <5>3. s = c
          BY <1>5, <4>1, <5>1, <5>2 DEF Current
        <5> QED  BY <1>4, <2>1, <4>1, <5>3
      <4>3. <<g, h>> # n
        BY <1>5, <4>2
      <4> QED  BY <1>3, <2>1, <4>1, <4>2, <4>3 DEF OrderOK
    <3> QED  BY <3>1, <3>2
  <2>2. ASSUME crashes = 0, NEW g \in Chains, NEW s \in 1 .. Steps, NEW h \in 1 .. Steps,
               <<g, s>> \in failed, h > s
        PROVE  <<g, h>> \notin created'
    <3>1. g # f
      BY <1>0, <1>2, <2>2, JobsAre DEF ChainsOK
    <3>2. <<g, h>> # n
      BY <1>5, <3>1
    <3> QED  BY <1>3, <2>2, <3>2 DEF OrderOK
  <2> QED  BY <1>3, <2>1, <2>2 DEF OrderOK, Again
<1>17. FirstLife'
  <2> SUFFICES ASSUME crashes = 0 PROVE
           /\ created' \subseteq completed' \cup dropped \cup FlowPlaces'
           /\ Letters \subseteq failed
           /\ \A g \in Chains : chainMap'[g] # 0 => <<g, chainMap'[g]>> \in Busy' \cup dropped
           /\ \A k \in Nodes : NodeJob(k) \in created' \ completed' => k \in tracked
           /\ \A k \in Nodes : NodeJob(k) \in FlowPlaces' => NodeJob(k) \notin completed'
           /\ \A k \in Accepted : NodeJob(k) \notin created' => Waits(k)'
    BY <1>3, <1>7, <1>12 DEF FirstLife
  <2>1. created' \subseteq completed' \cup dropped \cup FlowPlaces' /\ Letters \subseteq failed
    BY <1>3, <1>7 DEF FirstLife
  <2>2. ASSUME NEW g \in Chains, chainMap'[g] # 0 PROVE <<g, chainMap'[g]>> \in Busy' \cup dropped
    <3>1. CASE g = f
      BY <1>0, <1>7, <1>8, <3>1
    <3>2. CASE g # f
      <4>1. chainMap'[g] = chainMap[g] /\ <<g, chainMap[g]>> # j
        BY <1>4, <1>8, <3>2 DEF Again
      <4> QED  BY <1>7, <2>2, <4>1 DEF FirstLife
    <3> QED  BY <3>1, <3>2
  <2>3. \A k \in Nodes : NodeJob(k) \in created' \ completed' => k \in tracked
    BY <1>3, <1>5 DEF FirstLife
  <2>4. \A k \in Nodes : NodeJob(k) \in FlowPlaces' => NodeJob(k) \notin completed'
    BY <1>3, <1>4, <1>5, <1>7 DEF FirstLife
  <2>5. \A k \in Accepted : NodeJob(k) \notin created' => Waits(k)'
    BY <1>3, <1>12, AcceptedAre DEF FirstLife
  <2> QED  BY <2>1, <2>2, <2>3, <2>4, <2>5
<1>18. crashes <= 1 /\ ~Again(f) => n \notin created
  BY <1>0, <1>2, <1>15
<1> QED  BY <1>0, <1>2, <1>3, <1>4, <1>7, <1>9, <1>10, <1>12, <1>13, <1>14, <1>16, <1>17, <1>18 DEF FlowInv

\* A job fails for good: it is a dead letter, and its chain is over.
LEMMA FailKeeps ==
  ASSUME FlowInv, CopiesOK, NEW j \in Jobs, FailForGood(j)
  PROVE  FlowInv' /\ queue' = queue /\ created' = created
<1> USE InvHas
<1> DEFINE chained == Flow(j) \in Chains /\ chainMap[Flow(j)] # 0
<1>0. PICK add, end : /\ add = [op |-> "DLQ_ADD", id |-> j]
                      /\ end = [op |-> "CHAIN_COMPLETE", id |-> Flow(j)]
  OBVIOUS
<1>1. /\ CopyEnds(j) /\ failed' = failed \cup {j}
      /\ attempts' = [attempts EXCEPT ![j] = IF j \in revived THEN @ ELSE @ + 1]
      /\ j \in revived \/ attempts[j] + 1 >= MaxAttempts(j)
      /\ dlq' = SetAll(dlq, <<j>>)
      /\ chainMap' = [f \in Chains |-> IF f = Flow(j) THEN 0 ELSE chainMap[f]]
      /\ Log(<<add>> \o IF chained THEN <<end>> ELSE <<>>)
      /\ dagNodes' = Without(dagNodes, {})
      /\ doneDeps' = doneDeps /\ tracked' = tracked /\ rooting' = rooting /\ unlocking' = unlocking
      /\ queue' = queue /\ retrying' = retrying /\ started' = started /\ created' = created
      /\ completed' = completed /\ dropped' = dropped /\ entered' = entered
      /\ crashes' = crashes /\ flowBudget' = flowBudget
      /\ snap' = snap /\ cutting' = cutting /\ snaps' = snaps /\ revived' = revived
  BY <1>0, NothingDownstream DEF FailForGood, Attempted, life
<1>2. /\ j \in FlowPlaces /\ j \in Busy /\ j \in created
      /\ j \in running /\ running' \subseteq running /\ running \ {j} \subseteq running'
      /\ j \in running' => j \in revived
      /\ j \notin revived => j \notin queue /\ j \notin Letters /\ j \notin Held
      /\ crashes = 0 => revived = {} /\ running' = running \ {j}
  BY <1>1, CopyEndsIs, RunsAlone
<1>3. dagNodes' = dagNodes
  BY <1>1, WithoutIs DEF FlowTypeOK
<1>4. dlq' \in Seq(Jobs) /\ IsInjective(dlq') /\ Letters' = Letters \cup {j} /\ Held' = Held
  <2>1. dlq \in Seq(Jobs) /\ IsInjective(dlq)
    BY DEF FlowTypeOK, OnePlace
  <2>2. PICK o : o = <<j>>
    OBVIOUS
  <2>3. o \in Seq(Jobs) /\ ToSet(o) = {j} /\ IsInjective(o)
    BY <2>2, OneIs
  <2>4. PICK q : q = SetAll(dlq, o)
    OBVIOUS
  <2>5. q \in Seq(Jobs) /\ IsInjective(q) /\ ToSet(q) = ToSet(dlq) \cup {j}
    BY <2>1, <2>3, <2>4, SetAllIs
  <2>6. Held' = Held
    BY <1>1 DEF Held
  <2> QED  BY <1>1, <2>2, <2>4, <2>5, <2>6 DEF Letters
<1>5. /\ Busy' \subseteq Busy /\ Busy \ {j} \subseteq Busy' /\ FlowPlaces' = FlowPlaces
      /\ j \in Busy' => j \in revived
  BY <1>1, <1>2, <1>4 DEF Busy, FlowPlaces
<1>6. /\ chainMap \in [Chains -> 0 .. Steps] /\ chainMap' \in [Chains -> 0 .. Steps]
      /\ \A f \in Chains : /\ f = Flow(j) => chainMap'[f] = 0
                           /\ f # Flow(j) => chainMap'[f] = chainMap[f]
  <2>1. 0 \in 0 .. Steps
    BY JobsAre
  <2> QED  BY <1>1, <2>1 DEF FlowTypeOK
<1>7. /\ attempts \in [Jobs -> Nat] /\ attempts' \in [Jobs -> Nat] /\ MaxAttempts(j) \in Nat
      /\ \/ j \in revived /\ attempts'[j] = attempts[j]
         \/ attempts[j] < MaxAttempts(j) /\ attempts'[j] = attempts[j] + 1
      /\ \A k \in Jobs : k # j => attempts'[k] = attempts[k]
  <2>1. attempts \in [Jobs -> Nat] /\ MaxAttempts(j) \in Nat
    BY FlowsAssumption DEF FlowTypes, Jobs
  <2>2. attempts[j] < MaxAttempts(j) \/ j \in revived
    BY <1>2 DEF CreatedOK
  <2> QED  BY <1>1, <2>1, <2>2
<1>8. ASSUME crashes < flowBudget.crashes, NEW L, NEW R, NEW E, L = Replay(disk, stream),
             R = Restore(L, add), E = Restore(R, end)
      PROVE  /\ GoodFor(L, started', created', completed', failed', crashes, revived)
             /\ GoodFor(R, started', created', completed', failed', crashes, revived)
             /\ ToSet(R.dlq) \subseteq Letters' /\ \A f \in Chains : R.chain[f] \in {0, chainMap[f]}
             /\ chained => /\ GoodFor(E, started', created', completed', failed', crashes, revived)
                           /\ ToSet(E.dlq) \subseteq Letters'
                           /\ \A f \in Chains : E.chain[f] \in {0, chainMap'[f]}
  <2>1. /\ GoodFor(L, started, created, completed, failed, crashes, revived)
        /\ ToSet(L.dlq) \subseteq Letters /\ \A f \in Chains : L.chain[f] \in {0, chainMap[f]}
    BY <1>8, LogIs DEF LogOK
  <2>2. GoodFor(L, started', created', completed', failed', crashes, revived)
    BY <1>1, <2>1, GoodGrows
  <2>3. \A f \in Chains : L.chain[f] # 0 => Current(f, L.chain[f], {j}, revived)
    <3> SUFFICES ASSUME NEW f \in Chains, L.chain[f] # 0
                 PROVE  Current(f, L.chain[f], {j}, revived)
      OBVIOUS
    <3>1. L.chain[f] = chainMap[f] /\ chainMap[f] # 0
      BY <2>1
    <3>2. Current(f, chainMap[f], FlowPlaces, revived) /\ {j} \subseteq FlowPlaces
      BY <1>2, <3>1 DEF ChainsOK
    <3> QED  BY <3>1, <3>2, CurrentKept
  <2>4. j \in created' /\ j \in failed'
    BY <1>1, <1>2
  <2>5. R = Restore(L, [op |-> "DLQ_ADD", id |-> j])
    BY <1>0, <1>8
  <2>6. /\ GoodFor(R, started', created', completed', failed', crashes, revived)
        /\ R.chain = L.chain /\ ToSet(R.dlq) = ToSet(L.dlq) \cup {j}
    BY <2>2, <2>3, <2>4, <2>5, GoodAdded
  <2>7. ToSet(R.dlq) \subseteq Letters' /\ \A f \in Chains : R.chain[f] \in {0, chainMap[f]}
    BY <1>4, <2>1, <2>6
  <2>8. ASSUME chained
        PROVE  /\ GoodFor(E, started', created', completed', failed', crashes, revived)
               /\ ToSet(E.dlq) \subseteq Letters'
               /\ \A f \in Chains : E.chain[f] \in {0, chainMap'[f]}
    <3>1. PICK f \in Chains : f = Flow(j)
      BY <2>8
    <3>2. R \in SavedFlows /\ R.chain \in [Chains -> 0 .. Steps]
      BY <2>6, GoodHas
    <3>3. \A g \in Chains : Restore(R, [op |-> "CHAIN_COMPLETE", id |-> g])
              = [chain |-> [R.chain EXCEPT ![g] = 0], nodes |-> R.nodes, deps |-> R.deps, dlq |-> R.dlq]
      BY <3>2, RestoreIs
    <3>4. E = [chain |-> [R.chain EXCEPT ![f] = 0], nodes |-> R.nodes, deps |-> R.deps, dlq |-> R.dlq]
      BY <1>0, <1>8, <3>1, <3>3
    <3>5. 0 \in 0 .. Steps
      BY JobsAre
    <3>6. /\ GoodFor(E, started', created', completed', failed', crashes, revived)
          /\ E.chain = [R.chain EXCEPT ![f] = 0] /\ E.dlq = R.dlq
      BY <2>6, <3>4, <3>5, GoodChained
    <3>7. E.chain[f] = 0 /\ \A g \in Chains : g # f => E.chain[g] = R.chain[g]
      BY <3>2, <3>6
    <3> QED  BY <1>6, <2>7, <3>1, <3>6, <3>7
  <2> QED  BY <2>2, <2>6, <2>7, <2>8
<1>9. stream' \in Seq(FlowRecords) /\ disk' \in SavedFlows /\ LogOK'
  <2>1. CASE chained
    <3>1. PICK p : p = <<add>> \o <<end>>
      OBVIOUS
    <3>2. add \in FlowRecords /\ end \in FlowRecords
      BY <1>0, <2>1, RecordsAre
    <3>3. p \in Seq(FlowRecords) /\ Len(p) = 2 /\ p[1] = add /\ p[2] = end
      BY <3>1, <3>2
    <3>4. Log(p)
      BY <1>1, <2>1, <3>1
    <3>5. ASSUME crashes < flowBudget.crashes PROVE \E G : Suits(G, p)
      <4>1. PICK L, R, E : L = Replay(disk, stream) /\ R = Restore(L, add) /\ E = Restore(R, end)
        OBVIOUS
      <4>2. /\ GoodFor(L, started', created', completed', failed', crashes, revived)
            /\ GoodFor(R, started', created', completed', failed', crashes, revived)
            /\ GoodFor(E, started', created', completed', failed', crashes, revived)
            /\ ToSet(E.dlq) \subseteq Letters'
            /\ \A f \in Chains : E.chain[f] \in {0, chainMap'[f]}
        BY <1>8, <2>1, <3>5, <4>1
      <4>3. PICK G : G = [n \in 0 .. 2 |-> IF n = 0 THEN {L} ELSE IF n = 1 THEN {R} ELSE {E}]
        OBVIOUS
      <4>4. G[0] = {L} /\ G[1] = {R} /\ G[2] = {E}
        BY <4>3
      <4>5. (\A n \in 1 .. Len(p) : n = 1 \/ n = 2) /\ (\A n \in 0 .. Len(p) : n = 0 \/ n = 1 \/ n = 2)
        BY <3>3
      <4>6. \A n \in 1 .. Len(p) : \A S \in G[n - 1] : Restore(S, p[n]) \in G[n]
        BY <3>3, <4>1, <4>4, <4>5
      <4>7. \A n \in 0 .. Len(p) : \A S \in G[n] : S = L \/ S = R \/ S = E
        BY <4>4, <4>5
      <4>8. \A S \in G[Len(p)] : S = E
        BY <3>3, <4>4
      <4> QED  BY <4>1, <4>2, <4>4, <4>6, <4>7, <4>8 DEF Suits, SuitsFrom
    <3> QED  BY <1>1, <3>3, <3>4, <3>5, LogKeeps
  <2>2. CASE ~chained
    <3>1. add \in FlowRecords
      BY <1>0, RecordsAre
    <3>2. Log(<<add>>)
      <4>1. PICK p, q : p = <<add>> /\ q = <<>>
        OBVIOUS
      <4>2. p \in Seq(FlowRecords) /\ p \o <<>> = p
        BY <3>1, <4>1
      <4> QED  BY <1>1, <2>2, <4>1, <4>2
    <3>3. ASSUME crashes < flowBudget.crashes
          PROVE  /\ GoodFor(Restore(Replay(disk, stream), add), started', created', completed', failed', crashes, revived)
                 /\ ToSet(Restore(Replay(disk, stream), add).dlq) \subseteq Letters'
                 /\ \A f \in Chains : Restore(Replay(disk, stream), add).chain[f] \in {0, chainMap'[f]}
      <4>1. PICK L, R, E : L = Replay(disk, stream) /\ R = Restore(L, add) /\ E = Restore(R, end)
        OBVIOUS
      <4>2. /\ GoodFor(R, started', created', completed', failed', crashes, revived)
            /\ ToSet(R.dlq) \subseteq Letters' /\ \A f \in Chains : R.chain[f] \in {0, chainMap[f]}
        BY <1>8, <3>3, <4>1
      <4>3. \A f \in Chains : chainMap[f] = chainMap'[f]
        BY <1>6, <2>2
      <4> QED  BY <4>1, <4>2, <4>3
    <3> QED  BY <1>1, <3>1, <3>2, <3>3, LogOne
  <2> QED  BY <2>1, <2>2
<1> HIDE DEF chained
<1>10. FlowTypes'
  <2>1. \A k \in Jobs : attempts'[k] \in 0 .. MaxAttempts(k)
    <3>1. \A k \in Jobs : attempts[k] \in 0 .. MaxAttempts(k)
      BY DEF FlowTypeOK
    <3>2. attempts'[j] \in 0 .. MaxAttempts(j)
      BY <1>7, <3>1
    <3> QED  BY <1>7, <3>1, <3>2
  <2>2. FlowTypeOK'
    BY <1>1, <1>2, <1>3, <1>4, <1>6, <2>1 DEF FlowTypeOK
  <2> QED  BY <1>1, <1>2, <1>7, <1>9, <2>2 DEF FlowTypes
<1>11. OnePlace'
  BY <1>1, <1>2, <1>4 DEF OnePlace
<1>12. GraphsOK' /\ Accepted' = Accepted /\ \A n \in Nodes : Waits(n) => Waits(n)'
  BY <1>1, <1>3, GraphsKept
<1>13. CreatedOK'
  <2>1. \A k \in Jobs :
          attempts'[k] < MaxAttempts(k) \/ (k \in failed' /\ k \notin Busy') \/ k \in revived
    BY <1>1, <1>5, <1>7 DEF CreatedOK
  <2> QED  BY <1>1, <1>5, <1>12, <2>1 DEF CreatedOK
<1>14. ChainsOK'
  <2>1. \A g \in Chains : chainMap'[g] # 0 => chainMap'[g] = chainMap[g]
    BY <1>6
  <2>2. \A g \in Chains : chainMap[g] = 0 => chainMap'[g] = 0
    BY <1>6
  <2>3. \A g \in Chains : chainMap'[g] # 0 =>
          g \in started' /\ Current(g, chainMap'[g], FlowPlaces', revived)
    BY <1>1, <1>5, <2>1 DEF ChainsOK
  <2>4. \A k \in failed' : Flow(k) \in Chains => chainMap'[Flow(k)] = 0
    BY <1>1, <1>6, <2>2 DEF ChainsOK
  <2> QED  BY <1>1, <2>3, <2>4 DEF ChainsOK
<1>15. OrderOK'
  <2>1. ASSUME crashes <= 1, NEW f \in Chains, NEW s \in 1 .. Steps, NEW h \in 1 .. Steps,
               <<f, s>> \in FlowPlaces, h > s, ~Again(f)
        PROVE  <<f, h>> \notin created
    BY <2>1 DEF OrderOK
  <2>2. ASSUME crashes = 0, NEW f \in Chains, NEW s \in 1 .. Steps, NEW h \in 1 .. Steps,
               <<f, s>> \in failed', h > s
        PROVE  <<f, h>> \notin created
    <3>1. CASE <<f, s>> \in failed
      BY <2>2, <3>1 DEF OrderOK
    <3>2. CASE <<f, s>> = j
      <4>1. ~Again(f) /\ crashes <= 1
        BY <1>2, <2>2 DEF Again
      <4> QED  BY <1>2, <2>1, <2>2, <3>2, <4>1
    <3> QED  BY <1>1, <2>2, <3>1, <3>2
  <2> QED  BY <1>1, <1>5, <2>1, <2>2 DEF OrderOK, Again
<1>16. FirstLife'
  <2> SUFFICES ASSUME crashes = 0 PROVE
           /\ created \subseteq completed \cup dropped \cup FlowPlaces'
           /\ Letters' \subseteq failed'
           /\ \A g \in Chains : chainMap'[g] # 0 => <<g, chainMap'[g]>> \in Busy' \cup dropped
           /\ \A n \in Nodes : NodeJob(n) \in created \ completed => n \in tracked
           /\ \A n \in Nodes : NodeJob(n) \in FlowPlaces' => NodeJob(n) \notin completed
           /\ \A n \in Accepted : NodeJob(n) \notin created => Waits(n)'
    BY <1>1, <1>12 DEF FirstLife
  <2>1. created \subseteq completed \cup dropped \cup FlowPlaces' /\ Letters' \subseteq failed'
    BY <1>1, <1>4, <1>5 DEF FirstLife
  <2>2. ASSUME NEW g \in Chains, chainMap'[g] # 0 PROVE <<g, chainMap'[g]>> \in Busy' \cup dropped
    <3>1. g # Flow(j) /\ chainMap'[g] = chainMap[g]
      BY <1>6, <2>2
    <3>2. <<g, chainMap[g]>> # j
      BY <3>1 DEF Flow
    <3> QED  BY <1>5, <2>2, <3>1, <3>2 DEF FirstLife
  <2>3. \A n \in Nodes : NodeJob(n) \in created \ completed => n \in tracked
    BY DEF FirstLife
  <2>4. \A n \in Nodes : NodeJob(n) \in FlowPlaces' => NodeJob(n) \notin completed
    BY <1>5 DEF FirstLife
  <2>5. \A n \in Accepted : NodeJob(n) \notin created => Waits(n)'
    BY <1>12, AcceptedAre DEF FirstLife
  <2> QED  BY <2>1, <2>2, <2>3, <2>4, <2>5
<1> QED  BY <1>1, <1>9, <1>10, <1>11, <1>12, <1>13, <1>14, <1>15, <1>16 DEF FlowInv

\* The process dies and comes back with part of its log.
LEMMA CrashKeeps ==
  ASSUME FlowInv, CopiesOK, NEW n \in Nat, NEW back \in SUBSET snap, Crash(n, back)
  PROVE  FlowInv' /\ queue' = back /\ revived' = revived \cup back /\ created' = created
<1> USE InvHas
<1>0. PICK S : S = Replay(disk, SubSeq(stream, 1, n))
  OBVIOUS
<1>1. /\ crashes < flowBudget.crashes /\ n \in 0 .. Len(stream)
      /\ crashes' = crashes + 1
      /\ chainMap' = S.chain /\ dagNodes' = S.nodes /\ doneDeps' = S.deps /\ dlq' = S.dlq
      /\ disk' = (IF crashes' < flowBudget.crashes THEN S ELSE Nothing) /\ stream' = <<>>
      /\ tracked' = {} /\ rooting' = [d \in Dags |-> <<>>] /\ unlocking' = {}
      /\ queue' = back /\ entered' = back /\ revived' = revived \cup back
      /\ running' = {} /\ twins' = {} /\ cutting' = FALSE /\ snap' = snap /\ snaps' = snaps
      /\ retrying' = [r \in Retriers |-> IF retrying[r].called THEN Hands(<<>>, {}) ELSE Uncalled]
      /\ attempts' = [j \in Jobs |-> 0] /\ failed' = {} /\ dropped' = {}
      /\ flowBudget' = flowBudget /\ started' = started /\ created' = created /\ completed' = completed
  BY <1>0 DEF Crash
<1>2. GoodFor(S, started, created, completed, failed, crashes, revived)
  BY <1>0, <1>1 DEF LogOK
<1>3. /\ S \in SavedFlows
      /\ S.chain \in [Chains -> 0 .. Steps] /\ S.nodes \in Seq(Nodes)
      /\ S.deps \in [Nodes -> SUBSET Nodes] /\ S.dlq \in Seq(Jobs)
      /\ IsInjective(S.nodes) /\ ToSet(S.nodes) \subseteq AcceptedOf(started)
      /\ \A k \in Nodes : \A m \in S.deps[k] : NodeJob(m) \in completed
      /\ IsInjective(S.dlq) /\ ToSet(S.dlq) \subseteq created
      /\ \A f \in Chains : S.chain[f] # 0 =>
           f \in started /\ Current(f, S.chain[f], ToSet(S.dlq), revived)
      /\ crashes = 0 => ToSet(S.dlq) \subseteq failed
  BY <1>2, GoodHas
<1>4. crashes \in Nat /\ flowBudget.crashes \in Nat /\ crashes' # 0 /\ crashes' \in 0 .. flowBudget'.crashes
  BY <1>1, BoundsAre
<1>5. /\ retrying' \in [Retriers -> Calling] /\ \A r \in Retriers : retrying'[r].hold = {}
  <2>1. /\ Hands(<<>>, {}) \in Calling /\ Uncalled \in Calling
        /\ Hands(<<>>, {}).hold = {} /\ Uncalled.hold = {}
    BY DEF Hands, Uncalled, Calling
  <2> QED  BY <1>1, <2>1
<1>6. /\ Letters' = ToSet(S.dlq) /\ Held' = {} /\ Busy' = back /\ FlowPlaces' = back \cup ToSet(S.dlq)
      /\ Accepted' = Accepted /\ back \subseteq created /\ back \subseteq Jobs /\ back \subseteq revived'
      /\ revived' \subseteq created
  BY <1>1, <1>5 DEF Letters, Held, Busy, FlowPlaces, Accepted, CopiesOK
<1>7. GoodFor(S, started', created', completed', failed', crashes', revived')
  <2>1. /\ IsInjective(S.nodes) /\ ToSet(S.nodes) \subseteq AcceptedOf(started')
        /\ \A k \in Nodes : \A m \in S.deps[k] : NodeJob(m) \in completed'
        /\ IsInjective(S.dlq) /\ ToSet(S.dlq) \subseteq created'
    BY <1>1, <1>3
  <2>2. \A f \in Chains : S.chain[f] # 0 =>
          f \in started' /\ Current(f, S.chain[f], ToSet(S.dlq), revived')
    BY <1>1, <1>3, CurrentKept
  <2> QED  BY <1>3, <1>4, <2>1, <2>2 DEF GoodFor
<1>8. stream' \in Seq(FlowRecords) /\ disk' \in SavedFlows /\ LogOK'
  <2>1. PICK e : e = <<>>
    OBVIOUS
  <2>2. e \in Seq(FlowRecords) /\ Len(e) = 0 /\ SubSeq(e, 1, 0) = <<>>
    BY <2>1
  <2>3. Replay(S, <<>>) = S
    BY ReplayNone
  <2>4. \A k \in 0 .. Len(e) : Replay(S, SubSeq(e, 1, k)) = S
    <3>1. \A k \in 0 .. Len(e) : k = 0
      BY <2>2
    <3> QED  BY <2>2, <2>3, <3>1
  <2>5. LogOK'
    <3>1. CASE crashes' < flowBudget.crashes
      <4>1. disk' = S /\ stream' = e
        BY <1>1, <2>1, <3>1
      <4>2. \A k \in 0 .. Len(stream') :
              GoodFor(Replay(disk', SubSeq(stream', 1, k)), started', created', completed', failed', crashes', revived')
        BY <1>7, <2>4, <4>1
      <4>3. Replay(disk', stream') = S
        BY <2>1, <2>3, <4>1
      <4> QED  BY <1>1, <1>6, <4>2, <4>3 DEF LogOK
    <3>2. CASE ~(crashes' < flowBudget.crashes)
      BY <1>1, <3>2 DEF LogOK
    <3> QED  BY <3>1, <3>2
  <2>6. Nothing \in SavedFlows
    BY NothingIsGood DEF GoodFor
  <2> QED  BY <1>1, <1>3, <2>1, <2>2, <2>5, <2>6
<1>9. \A j \in Jobs : MaxAttempts(j) \in Nat \ {0}
  BY FlowsAssumption DEF Jobs
<1>10. \A j \in Jobs : attempts'[j] < MaxAttempts(j) /\ attempts'[j] \in 0 .. MaxAttempts(j)
  BY <1>1, <1>9
<1>11. rooting' \in [Dags -> Seq(Nodes)] /\ \A d \in Dags : rooting'[d] = <<>>
  <2>1. <<>> \in Seq(Nodes)
    OBVIOUS
  <2> QED  BY <1>1, <2>1
<1>12. FlowTypes'
  <2>1. FlowTypeOK'
    BY <1>1, <1>3, <1>4, <1>5, <1>10, <1>11 DEF FlowTypeOK
  <2>2. attempts' \in [Jobs -> Nat]
    BY <1>1
  <2> QED  BY <1>1, <1>5, <1>8, <2>1, <2>2 DEF FlowTypes
<1>13. OnePlace'
  BY <1>1, <1>3, <1>5, <1>6 DEF OnePlace
<1>14. CreatedOK'
  BY <1>1, <1>3, <1>6, <1>10 DEF CreatedOK
<1>15. ChainsOK'
  <2>1. ASSUME NEW f \in Chains, S.chain[f] # 0
        PROVE  f \in started /\ Current(f, S.chain[f], back \cup ToSet(S.dlq), revived')
    <3>1. f \in started /\ Current(f, S.chain[f], ToSet(S.dlq), revived')
      BY <1>1, <1>3, <2>1, CurrentKept
    <3> QED  BY <1>6, <3>1 DEF Current
  <2> QED  BY <1>1, <1>6, <2>1 DEF ChainsOK
<1>16. OrderOK'
  <2>1. ASSUME crashes' <= 1, NEW f \in Chains, NEW s \in 1 .. Steps, NEW h \in 1 .. Steps,
               <<f, s>> \in back \cup ToSet(S.dlq), h > s, \A j \in revived' : Flow(j) # f
        PROVE  <<f, h>> \notin created
    <3>1. crashes = 0
      BY <1>1, <1>4, <2>1
    <3>2. <<f, s>> \in ToSet(S.dlq)
      BY <1>6, <2>1, JobsAre
    <3> QED  BY <1>3, <2>1, <3>1, <3>2 DEF OrderOK
  <2> QED  BY <1>1, <1>4, <1>6, <2>1 DEF OrderOK, Again
<1>17. GraphsOK'
  <2>1. Accepted = AcceptedOf(started)
    BY AcceptedAre
  <2>2. \A d \in Dags : Dead(d)'
    BY <1>1, <1>11 DEF Dead
  <2>3. ToSet(<<>>) = {} /\ IsInjective(<<>>)
    BY DEF ToSet, IsInjective
  <2>4. \A d \in Dags :
           /\ IsInjective(rooting'[d])
           /\ \A m \in ToSet(rooting'[d]) : m \in ToSet(NodesOf(d)) /\ Deps(m) = {}
           /\ d \notin started' => rooting'[d] = <<>>
           /\ d \in started' => Sortable(d) /\ (Dead(d)' \/ Fresh(d)')
    BY <1>1, <1>11, <2>2, <2>3 DEF GraphsOK
  <2>5. /\ IsInjective(dagNodes') /\ ToSet(dagNodes') \subseteq Accepted' /\ tracked' \subseteq Accepted'
        /\ \A u \in unlocking' : u[1] \in Accepted' /\ NodeJob(u[1]) \in completed'
        /\ \A k \in Nodes : \A m \in doneDeps'[k] : NodeJob(m) \in completed'
    BY <1>1, <1>3, <1>6, <2>1
  <2> QED  BY <2>4, <2>5 DEF GraphsOK
<1>18. FirstLife'
  BY <1>4 DEF FirstLife
<1> QED  BY <1>1, <1>12, <1>13, <1>14, <1>15, <1>16, <1>17, <1>18, <1>8 DEF FlowInv

\* The invariant holds at the start.
LEMMA InvHolds ==
  ASSUME FlowInit
  PROVE  FlowInv /\ CopiesOK
<1>1. PICK e : e = <<>>
  OBVIOUS
<1>2. /\ e \in Seq(Nodes) /\ e \in Seq(Jobs) /\ e \in Seq(FlowRecords) /\ ToSet(e) = {} /\ IsInjective(e)
      /\ Len(e) = 0 /\ SubSeq(e, 1, 0) = <<>>
  BY <1>1 DEF ToSet, IsInjective
<1>3. /\ chainMap = [f \in Chains |-> 0] /\ dagNodes = e /\ doneDeps = [n \in Nodes |-> {}]
      /\ tracked = {} /\ rooting = [d \in Dags |-> e] /\ unlocking = {}
      /\ queue = {} /\ running = {} /\ twins = {} /\ entered = {} /\ snap = {} /\ cutting = FALSE
      /\ snaps = 0 /\ revived = {} /\ attempts = [j \in Jobs |-> 0]
      /\ dlq = e /\ retrying = [r \in Retriers |-> Uncalled]
      /\ disk = Nothing /\ stream = e /\ crashes = 0 /\ flowBudget \in FlowBudgets
      /\ started = {} /\ created = {} /\ completed = {} /\ failed = {} /\ dropped = {}
  BY <1>1 DEF FlowInit
<1>4. Uncalled \in Calling /\ Uncalled.hold = {}
  BY DEF Uncalled, Calling
<1>5. /\ retrying \in [Retriers -> Calling] /\ \A r \in Retriers : retrying[r].hold = {}
  BY <1>3, <1>4
<1>6. \A j \in Jobs : MaxAttempts(j) \in Nat \ {0}
  BY FlowsAssumption DEF Jobs
<1>7. /\ attempts \in [Jobs -> Nat]
      /\ \A j \in Jobs : attempts[j] < MaxAttempts(j) /\ attempts[j] \in 0 .. MaxAttempts(j)
  BY <1>3, <1>6
<1>8. Letters = {} /\ Held = {} /\ Busy = {} /\ FlowPlaces = {} /\ Accepted = {}
  BY <1>2, <1>3, <1>5 DEF Letters, Held, Busy, FlowPlaces, Accepted
<1>9. GoodFor(Nothing, started, created, completed, failed, crashes, revived)
  BY NothingIsGood
<1>10. FlowTypes
  <2>1. chainMap \in [Chains -> 0 .. Steps] /\ 0 \in 0 .. flowBudget.crashes /\ 0 \in 0 .. flowBudget.snaps
    BY <1>3, JobsAre, FlowsAssumption
  <2>2. FlowTypeOK
    BY <1>2, <1>3, <1>5, <1>7, <2>1 DEF FlowTypeOK
  <2> QED  BY <1>2, <1>3, <1>5, <1>7, <1>9, <2>2 DEF FlowTypes, GoodFor
<1>11. OnePlace
  BY <1>2, <1>3, <1>5, <1>8 DEF OnePlace
<1>12. CreatedOK /\ ChainsOK /\ OrderOK /\ CopiesOK
  BY <1>3, <1>7, <1>8 DEF CreatedOK, ChainsOK, OrderOK, CopiesOK
<1>13. GraphsOK
  BY <1>1, <1>2, <1>3, <1>8 DEF GraphsOK
<1>14. LogOK
  <2>1. Replay(Nothing, <<>>) = Nothing
    BY ReplayNone
  <2>2. \A k \in 0 .. Len(e) : Replay(Nothing, SubSeq(e, 1, k)) = Nothing
    <3>1. \A k \in 0 .. Len(e) : k = 0
      BY <1>2
    <3> QED  BY <1>2, <2>1, <3>1
  <2>3. ToSet(Nothing.dlq) = {} /\ \A f \in Chains : Nothing.chain[f] = 0
    BY DEF Nothing, ToSet
  <2> QED  BY <1>1, <1>3, <1>9, <2>1, <2>2, <2>3 DEF LogOK
<1>15. FirstLife
  BY <1>3, <1>8 DEF FirstLife
<1> QED  BY <1>10, <1>11, <1>12, <1>13, <1>14, <1>15 DEF FlowInv

-----------------------------------------------------------------------------
(* Steps of graphs.                                                        *)

\* A graph is accepted: its nodes are new, its roots wait for dag() itself.
LEMMA DagKeeps ==
  ASSUME FlowInv, NEW d \in Dags, Dag(d)
  PROVE  FlowInv' /\ queue' = queue /\ created' = created
<1> USE InvHas
<1> DEFINE ns == NodesOf(d)
<1>0. PICK e : e = [op |-> "DAG_REGISTER", id |-> d, nodes |-> SetAll(dagNodes, ns)]
  OBVIOUS
<1>1. /\ d \notin started /\ Sortable(d) /\ started' = started \cup {d}
      /\ dagNodes' = SetAll(dagNodes, ns)
      /\ doneDeps' = Cleared(doneDeps, ns)
      /\ Log(<<e>>)
      /\ rooting' = [rooting EXCEPT ![d] = Without(ns, {n \in Nodes : Deps(n) # {}})]
      /\ chainMap' = chainMap /\ tracked' = tracked /\ unlocking' = unlocking
      /\ queue' = queue /\ running' = running /\ attempts' = attempts
      /\ entered' = entered /\ snap' = snap /\ cutting' = cutting /\ snaps' = snaps /\ revived' = revived
      /\ dlq' = dlq /\ retrying' = retrying /\ crashes' = crashes /\ flowBudget' = flowBudget
      /\ created' = created /\ completed' = completed /\ failed' = failed /\ dropped' = dropped
  BY <1>0 DEF Dag, letters, life, workers
<1>2. /\ ns \in Seq(Nodes) /\ IsInjective(ns) /\ ToSet(ns) \subseteq Nodes
      /\ Accepted \subseteq Nodes /\ Accepted' = Accepted \cup ToSet(ns)
      /\ Accepted \cap ToSet(ns) = {} /\ AcceptedOf(started') = Accepted'
  <2>1. /\ ns \in Seq(Nodes) /\ IsInjective(ns) /\ ToSet(ns) \subseteq Nodes
        /\ Accepted \subseteq Nodes
        /\ \A n \in Nodes, a, b \in Dags : n \in ToSet(NodesOf(a)) /\ n \in ToSet(NodesOf(b)) => a = b
    BY AcceptedAre
  <2>2. Accepted' = Accepted \cup ToSet(ns)
    BY <1>1 DEF Accepted
  <2>3. Accepted \cap ToSet(ns) = {}
    BY <1>1, <2>1 DEF Accepted
  <2>4. AcceptedOf(started') = Accepted'
    BY DEF Accepted, AcceptedOf
  <2> QED  BY <2>1, <2>2, <2>3, <2>4
<1> HIDE DEF ns
<1>3. /\ dagNodes \in Seq(Nodes) /\ IsInjective(dagNodes) /\ ToSet(dagNodes) \subseteq Accepted
      /\ doneDeps \in [Nodes -> SUBSET Nodes] /\ rooting \in [Dags -> Seq(Nodes)]
  BY DEF FlowTypeOK, GraphsOK
<1>4. dagNodes' \in Seq(Nodes) /\ IsInjective(dagNodes') /\ ToSet(dagNodes') = ToSet(dagNodes) \cup ToSet(ns)
  <2>1. PICK m : m = SetAll(dagNodes, ns)
    OBVIOUS
  <2>2. m \in Seq(Nodes) /\ IsInjective(m) /\ ToSet(m) = ToSet(dagNodes) \cup ToSet(ns)
    BY <1>2, <1>3, <2>1, SetAllIs
  <2> QED  BY <1>1, <2>1, <2>2
<1>5. /\ doneDeps' \in [Nodes -> SUBSET Nodes]
      /\ \A n \in Nodes : /\ n \in ToSet(ns) => doneDeps'[n] = {}
                          /\ n \notin ToSet(ns) => doneDeps'[n] = doneDeps[n]
  BY <1>1, <1>3 DEF Cleared
<1>6. /\ rooting' \in [Dags -> Seq(Nodes)] /\ IsInjective(rooting'[d])
      /\ ToSet(rooting'[d]) = {n \in ToSet(ns) : Deps(n) = {}}
      /\ \A c \in Dags : c # d => rooting'[c] = rooting[c]
  <2>1. PICK w : w = Without(ns, {n \in Nodes : Deps(n) # {}})
    OBVIOUS
  <2>2. w \in Seq(Nodes) /\ IsInjective(w) /\ ToSet(w) = ToSet(ns) \ {n \in Nodes : Deps(n) # {}}
    BY <1>2, <2>1, WithoutIs
  <2>3. ToSet(w) = {n \in ToSet(ns) : Deps(n) = {}}
    BY <1>2, <2>2
  <2>4. rooting' = [rooting EXCEPT ![d] = w]
    BY <1>1, <2>1
  <2> QED  BY <1>3, <2>2, <2>3, <2>4
<1>7. \A n \in ToSet(ns) : NodeJob(n) \notin created /\ NodeJob(n) \notin completed
  BY <1>2, JobsAre DEF CreatedOK, FlowTypes
<1>8. e \in FlowRecords
  BY <1>0, <1>1, <1>4, RecordsAre
<1>9. Letters' = Letters /\ Held' = Held
  BY <1>1 DEF Letters, Held
<1>10. Busy' = Busy /\ FlowPlaces' = FlowPlaces
  BY <1>1, <1>9 DEF Busy, FlowPlaces
<1>11. stream' \in Seq(FlowRecords) /\ disk' \in SavedFlows /\ LogOK'
  <2>1. ASSUME crashes < flowBudget.crashes
        PROVE  /\ GoodFor(Restore(Replay(disk, stream), e), started', created', completed', failed', crashes, revived)
               /\ ToSet(Restore(Replay(disk, stream), e).dlq) \subseteq Letters'
               /\ \A g \in Chains : Restore(Replay(disk, stream), e).chain[g] \in {0, chainMap'[g]}
    <3>1. PICK L, R, all : L = Replay(disk, stream) /\ R = Restore(L, e) /\ all = dagNodes'
      OBVIOUS
    <3>2. /\ GoodFor(L, started, created, completed, failed, crashes, revived)
          /\ ToSet(L.dlq) \subseteq Letters /\ \A g \in Chains : L.chain[g] \in {0, chainMap[g]}
      BY <2>1, <3>1, LogIs DEF LogOK
    <3>3. GoodFor(L, started', created', completed', failed', crashes, revived)
      BY <1>1, <3>2, GoodGrows
    <3>4. all \in Seq(Nodes) /\ IsInjective(all) /\ ToSet(all) \subseteq AcceptedOf(started')
      BY <1>2, <1>3, <1>4, <3>1
    <3>5. R = Restore(L, [op |-> "DAG_REGISTER", id |-> d, nodes |-> all])
      BY <1>0, <1>1, <3>1
    <3>6. /\ GoodFor(R, started', created', completed', failed', crashes, revived)
          /\ R.chain = L.chain /\ R.dlq = L.dlq
      BY <3>3, <3>4, <3>5, GoodAccepted
    <3> QED  BY <1>1, <1>9, <3>1, <3>2, <3>6
  <2> QED  BY <1>1, <1>8, <2>1, LogOne
<1>12. FlowTypes'
  <2>1. FlowTypeOK'
    BY <1>1, <1>4, <1>5, <1>6 DEF FlowTypeOK
  <2> QED  BY <1>1, <1>11, <2>1 DEF FlowTypes
<1>13. OnePlace'
  BY <1>1, <1>9 DEF OnePlace
<1>14. CreatedOK'
  BY <1>1, <1>2, <1>10 DEF CreatedOK
<1>15. ChainsOK' /\ OrderOK'
  BY <1>1, <1>10, ChainsKept
<1>16. GraphsOK'
  <2>1. tracked' \subseteq Accepted' /\ \A u \in unlocking' : u[1] \in Accepted' /\ NodeJob(u[1]) \in completed'
    BY <1>1, <1>2 DEF GraphsOK
  <2>2. \A n \in Nodes : \A m \in doneDeps'[n] : NodeJob(m) \in completed'
    BY <1>1, <1>5 DEF GraphsOK
  <2>3. ASSUME NEW c \in Dags
        PROVE  /\ IsInjective(rooting'[c])
               /\ \A n \in ToSet(rooting'[c]) : n \in ToSet(NodesOf(c)) /\ Deps(n) = {}
               /\ c \notin started' => rooting'[c] = <<>>
               /\ c \in started' => Sortable(c) /\ (Dead(c)' \/ Fresh(c)')
    <3>1. CASE c = d
      <4>1. Fresh(d)'
        BY <1>1, <1>7 DEF Fresh, ns
      <4> QED  BY <1>1, <1>6, <3>1, <4>1 DEF ns
    <3>2. CASE c # d
      <4>1. Dead(c) => Dead(c)'
        BY <1>1, <1>6, <3>2 DEF Dead
      <4>2. \A n \in ToSet(NodesOf(c)) : n \notin ToSet(ns)
        BY <3>2, AcceptedAre DEF ns
      <4>3. Fresh(c) => Fresh(c)'
        BY <1>1, <1>4, <1>6, <3>2, <4>2 DEF Fresh
      <4> QED  BY <1>1, <1>6, <3>2, <4>1, <4>3 DEF GraphsOK
    <3> QED  BY <3>1, <3>2
  <2> QED  BY <1>2, <1>3, <1>4, <2>1, <2>2, <2>3 DEF GraphsOK
<1>17. FirstLife'
  <2> SUFFICES ASSUME crashes = 0, NEW n \in Accepted', NodeJob(n) \notin created PROVE Waits(n)'
    BY <1>1, <1>9, <1>10 DEF FirstLife
  <2>1. CASE n \in ToSet(ns)
    <3>1. Deps(n) \subseteq ToSet(ns)
      BY <1>1, <2>1 DEF Sortable, ns
    <3>2. Deps(n) = {} => n \in ToSet(rooting'[d])
      BY <1>6, <2>1
    <3>3. Deps(n) # {} => n \in ToSet(dagNodes') /\ doneDeps'[n] = {}
      BY <1>2, <1>4, <1>5, <2>1
    <3>4. \A m \in Deps(n) : NodeJob(m) \notin completed'
      BY <1>1, <1>7, <3>1
    <3> QED  BY <3>2, <3>3, <3>4 DEF Waits
  <2>2. CASE n \notin ToSet(ns)
    <3>1. n \in Accepted /\ n \in Nodes /\ Waits(n)
      BY <1>2, <2>2 DEF FirstLife
    <3>2. \A c \in Dags : n \in ToSet(rooting[c]) => n \in ToSet(rooting'[c])
      <4>1. rooting[d] = <<>>
        BY <1>1 DEF GraphsOK
      <4>2. n \notin ToSet(rooting[d])
        BY <4>1 DEF ToSet
      <4> QED  BY <1>6, <4>2
    <3> QED  BY <1>1, <1>4, <1>5, <2>2, <3>1, <3>2 DEF Waits
  <2> QED  BY <2>1, <2>2
<1> QED  BY <1>1, <1>11, <1>12, <1>13, <1>14, <1>15, <1>16, <1>17 DEF FlowInv

\* A node that is pushed is new, and the jobs of its graph are told apart from others.
LEMMA GraphOf ==
  ASSUME FlowInv, NEW n \in Accepted
  PROVE  \E d \in Dags \cap started : n \in ToSet(NodesOf(d)) /\ Sortable(d)
  BY InvHas DEF Accepted, GraphsOK

\* The head and the tail of a list.
LEMMA TailIs ==
  ASSUME NEW T, NEW q \in Seq(T), q # <<>>
  PROVE  /\ Head(q) \in T /\ Tail(q) \in Seq(T) /\ ToSet(q) = {Head(q)} \cup ToSet(Tail(q))
         /\ IsInjective(q) => IsInjective(Tail(q)) /\ Head(q) \notin ToSet(Tail(q))
<1>1. PICK t : t = Tail(q)
  OBVIOUS
<1>2. /\ t \in Seq(T) /\ Len(t) = Len(q) - 1 /\ Len(q) \in Nat /\ Len(q) >= 1 /\ Head(q) = q[1]
      /\ \A i \in 1 .. Len(q) - 1 : t[i] = q[i + 1]
      /\ DOMAIN t = 1 .. Len(q) - 1 /\ DOMAIN q = 1 .. Len(q) /\ Head(q) \in T
  BY <1>1
<1>3. /\ \A i \in 1 .. Len(q) - 1 : i + 1 \in 1 .. Len(q) /\ i + 1 # 1
      /\ \A i \in 1 .. Len(q) : i = 1 \/ (i - 1 \in 1 .. Len(q) - 1 /\ (i - 1) + 1 = i)
      /\ 1 \in 1 .. Len(q)
  BY <1>2
<1>4. ASSUME NEW x \in ToSet(q) PROVE x \in {Head(q)} \cup ToSet(t)
  <2>1. PICK i \in 1 .. Len(q) : x = q[i]
    BY <1>2 DEF ToSet
  <2>2. i = 1 \/ (i - 1 \in 1 .. Len(q) - 1 /\ t[i - 1] = x)
    BY <1>2, <1>3, <2>1
  <2> QED  BY <1>2, <2>1, <2>2 DEF ToSet
<1>5. \A x \in {Head(q)} \cup ToSet(t) : x \in ToSet(q)
  BY <1>2, <1>3 DEF ToSet
<1>6. ASSUME IsInjective(q) PROVE IsInjective(t) /\ Head(q) \notin ToSet(t)
  <2>1. \A h, k \in 1 .. Len(q) : q[h] = q[k] => h = k
    BY <1>2, <1>6 DEF IsInjective
  <2>2. ASSUME NEW h \in 1 .. Len(q) - 1, NEW k \in 1 .. Len(q) - 1, t[h] = t[k] PROVE h = k
    <3>1. h + 1 = k + 1
      BY <1>2, <1>3, <2>1, <2>2
    <3> QED  BY <1>2, <3>1
  <2>3. \A i \in 1 .. Len(q) - 1 : t[i] # q[1]
    BY <1>2, <1>3, <2>1
  <2> QED  BY <1>2, <2>2, <2>3 DEF IsInjective, ToSet
<1> QED  BY <1>1, <1>2, <1>4, <1>5, <1>6

\* dag() pushes a root, which nobody pushed before.
LEMMA DagPushKeeps ==
  ASSUME FlowInv, NEW d \in Dags, DagPush(d)
  PROVE  \E n \in Nodes : /\ FlowInv' /\ Deps(n) = {} /\ NodeJob(n) \notin created
                          /\ queue' = queue \cup {NodeJob(n)} /\ created' = created \cup {NodeJob(n)}
                          /\ completed' = completed
<1> USE InvHas
<1>0. PICK n, t, j : n = Head(rooting[d]) /\ t = Tail(rooting[d]) /\ j = NodeJob(n)
  OBVIOUS
<1>1. /\ rooting[d] # <<>> /\ rooting' = [rooting EXCEPT ![d] = t] /\ tracked' = tracked \cup {n}
      /\ queue' = queue \cup {j} /\ created' = created \cup {j} /\ entered' = entered \cup {j}
      /\ snap' = snap /\ cutting' = cutting /\ snaps' = snaps /\ revived' = revived
      /\ chainMap' = chainMap /\ dagNodes' = dagNodes /\ doneDeps' = doneDeps /\ unlocking' = unlocking
      /\ running' = running /\ attempts' = attempts /\ dlq' = dlq /\ retrying' = retrying
      /\ disk' = disk /\ stream' = stream /\ crashes' = crashes /\ flowBudget' = flowBudget
      /\ started' = started /\ completed' = completed /\ failed' = failed /\ dropped' = dropped
  BY <1>0 DEF DagPush, Create, letters, life, workers
<1>2. rooting \in [Dags -> Seq(Nodes)] /\ IsInjective(rooting[d])
  BY DEF FlowTypeOK, GraphsOK
<1>3. /\ n \in Nodes /\ t \in Seq(Nodes) /\ ToSet(rooting[d]) = {n} \cup ToSet(t)
      /\ IsInjective(t) /\ n \notin ToSet(t)
  <2>1. PICK q : q = rooting[d]
    OBVIOUS
  <2>2. q \in Seq(Nodes) /\ q # <<>> /\ IsInjective(q)
    BY <1>1, <1>2, <2>1
  <2> QED  BY <1>0, <2>1, <2>2, TailIs
<1>4. /\ rooting' \in [Dags -> Seq(Nodes)] /\ rooting'[d] = t
      /\ \A c \in Dags : c # d => rooting'[c] = rooting[c]
  BY <1>1, <1>2, <1>3
<1>5. d \in started /\ n \in ToSet(NodesOf(d)) /\ Deps(n) = {} /\ ~Dead(d) /\ Fresh(d) /\ Sortable(d)
  <2>1. d \in started /\ n \in ToSet(NodesOf(d)) /\ Deps(n) = {} /\ ~Dead(d) /\ Sortable(d)
    BY <1>1, <1>3 DEF GraphsOK, Dead
  <2> QED  BY <2>1 DEF GraphsOK
<1>6. /\ j \notin created /\ j \in Jobs /\ Flow(j) = n /\ n \in Accepted /\ n \notin Chains
      /\ \A k \in Nodes : NodeJob(k) = j => k = n
      /\ j \notin FlowPlaces /\ j \notin failed /\ j \notin completed
  <2>1. j \notin created
    BY <1>0, <1>3, <1>5 DEF Fresh
  <2>2. n \in Accepted
    BY <1>5 DEF Accepted
  <2>3. j \in Jobs /\ Flow(j) = n /\ n \notin Chains /\ \A k \in Nodes : NodeJob(k) = j => k = n
    BY <1>0, <1>3, JobsAre
  <2> QED  BY <2>1, <2>2, <2>3 DEF FlowTypes
<1>7. Letters' = Letters /\ Held' = Held
  BY <1>1 DEF Letters, Held
<1>8. Busy' = Busy \cup {j} /\ FlowPlaces' = FlowPlaces \cup {j}
  BY <1>1, <1>7 DEF Busy, FlowPlaces
<1>9. stream' \in Seq(FlowRecords) /\ disk' \in SavedFlows /\ LogOK'
  BY <1>1, <1>7, LogUnchanged
<1>10. FlowTypes'
  <2>1. FlowTypeOK'
    BY <1>1, <1>3, <1>4, <1>6 DEF FlowTypeOK
  <2> QED  BY <1>1, <1>6, <1>9, <2>1 DEF FlowTypes
<1>11. OnePlace'
  BY <1>1, <1>6, <1>7 DEF OnePlace, FlowPlaces, Busy
<1>12. Accepted' = Accepted
  BY <1>1 DEF Accepted
<1>13. CreatedOK'
  <2>1. \A k \in Jobs :
          attempts'[k] < MaxAttempts(k) \/ (k \in failed' /\ k \notin Busy') \/ k \in revived
    BY <1>1, <1>6, <1>8 DEF CreatedOK
  <2>2. \A k \in created' : (Flow(k) \in Chains => Flow(k) \in started') /\ (Flow(k) \in Nodes => Flow(k) \in Accepted')
    BY <1>1, <1>6, <1>12 DEF CreatedOK
  <2> QED  BY <1>1, <1>8, <2>1, <2>2 DEF CreatedOK
<1>14. ChainsOK' /\ OrderOK'
  BY <1>1, <1>6, <1>8, ChainsKept
<1>15. GraphsOK'
  <2>1. ASSUME NEW c \in Dags
        PROVE  /\ IsInjective(rooting'[c])
               /\ \A k \in ToSet(rooting'[c]) : k \in ToSet(NodesOf(c)) /\ Deps(k) = {}
               /\ c \notin started' => rooting'[c] = <<>>
               /\ c \in started' => Sortable(c) /\ (Dead(c)' \/ Fresh(c)')
    <3>1. CASE c = d
      <4>1. ASSUME NEW k \in ToSet(NodesOf(d)),
                   (k \in ToSet(dagNodes) /\ Deps(k) # {}) \/ k \in ToSet(t)
            PROVE  NodeJob(k) \notin created'
        <5>1. k # n /\ k \in Nodes
          BY <1>3, <1>5, <4>1, AcceptedAre
        <5>2. NodeJob(k) \notin created
          BY <1>3, <1>5, <4>1 DEF Fresh
        <5> QED  BY <1>1, <1>6, <5>1, <5>2
      <4>2. Fresh(d)'
        BY <1>1, <1>4, <4>1 DEF Fresh
      <4> QED  BY <1>1, <1>3, <1>4, <1>5, <3>1, <4>2 DEF GraphsOK
    <3>2. CASE c # d
      <4>1. \A k \in ToSet(NodesOf(c)) : k # n /\ k \in Nodes
        BY <1>3, <1>5, <3>2, AcceptedAre
      <4>2. Dead(c) => Dead(c)'
        BY <1>1, <1>4, <3>2, <4>1 DEF Dead
      <4>3. Fresh(c) => Fresh(c)'
        BY <1>1, <1>4, <1>6, <3>2, <4>1 DEF Fresh
      <4> QED  BY <1>1, <1>4, <3>2, <4>2, <4>3 DEF GraphsOK
    <3> QED  BY <3>1, <3>2
  <2> QED  BY <1>1, <1>6, <1>12, <2>1 DEF GraphsOK
<1>16. FirstLife'
  <2> SUFFICES ASSUME crashes = 0 PROVE
           /\ created' \subseteq completed \cup dropped \cup FlowPlaces'
           /\ Letters \subseteq failed
           /\ \A g \in Chains : chainMap[g] # 0 => <<g, chainMap[g]>> \in Busy' \cup dropped
           /\ \A k \in Nodes : NodeJob(k) \in created' \ completed => k \in tracked'
           /\ \A k \in Nodes : NodeJob(k) \in FlowPlaces' => NodeJob(k) \notin completed
           /\ \A k \in Accepted : NodeJob(k) \notin created' => Waits(k)'
    BY <1>1, <1>7, <1>12 DEF FirstLife
  <2>1. created' \subseteq completed \cup dropped \cup FlowPlaces' /\ Letters \subseteq failed
    BY <1>1, <1>8 DEF FirstLife
  <2>2. \A g \in Chains : chainMap[g] # 0 => <<g, chainMap[g]>> \in Busy' \cup dropped
    BY <1>8 DEF FirstLife
  <2>3. \A k \in Nodes : NodeJob(k) \in created' \ completed => k \in tracked'
    BY <1>1, <1>6 DEF FirstLife
  <2>4. \A k \in Nodes : NodeJob(k) \in FlowPlaces' => NodeJob(k) \notin completed
    BY <1>6, <1>8 DEF FirstLife
  <2>5. ASSUME NEW k \in Accepted, NodeJob(k) \notin created' PROVE Waits(k)'
    <3>1. k # n /\ NodeJob(k) \notin created
      BY <1>0, <1>1, <2>5
    <3>2. Waits(k)
      BY <3>1 DEF FirstLife
    <3>3. \A c \in Dags : k \in ToSet(rooting[c]) => k \in ToSet(rooting'[c])
      BY <1>3, <1>4, <3>1
    <3> QED  BY <1>1, <3>2, <3>3 DEF Waits
  <2> QED  BY <2>1, <2>2, <2>3, <2>4, <2>5
<1> QED  BY <1>0, <1>1, <1>3, <1>5, <1>6, <1>9, <1>10, <1>11, <1>13, <1>14, <1>15, <1>16 DEF FlowInv

\* What the loop of unlockDAGDependents does up to its next await: it unlocks U, at
\* most one node, marks M, and has then visited V.  Records of pre come first.
Unlocks(c, v, pre, U, M, V, records) ==
  /\ doneDeps' = [n \in Nodes |-> IF n \in M THEN doneDeps[n] \cup {c} ELSE doneDeps[n]]
  /\ dagNodes' = Without(dagNodes, U)
  /\ tracked' = (tracked \ {c}) \cup U
  /\ queue' = queue \cup {NodeJob(n) : n \in U} /\ created' = created \cup {NodeJob(n) : n \in U}
  /\ entered' = entered \cup {NodeJob(n) : n \in U}
  /\ unlocking' = (unlocking \ {<<c, v>>}) \cup (IF U = {} THEN {} ELSE {<<c, v \cup V>>})
  /\ Log(pre \o records)
  /\ \A k \in 1 .. Len(records) :
       \E n \in Nodes : records[k] = [op |-> "DAG_COMPLETE_DEP", id |-> n, dep |-> c]
  /\ \A n \in U : n \in ToSet(dagNodes) /\ c \in Deps(n) /\ doneDeps[n] \cup {c} = Deps(n)
  /\ \A n \in M : n \in ToSet(dagNodes) /\ c \in Deps(n) /\ (n \in U \/ doneDeps[n] \cup {c} # Deps(n))
  /\ U = {} => \A n \in ToSet(dagNodes) \ v : c \in Deps(n) => n \in M
  /\ \A n \in V : c \in Deps(n) => n \in M

\* UnlockFrom does what Unlocks says.
LEMMA UnlockIs ==
  ASSUME FlowTypes, NEW c \in Nodes, NEW v \in SUBSET Nodes, NEW pre, UnlockFrom(c, v, pre)
  PROVE  \E U, M, V \in SUBSET Nodes, records \in Seq(FlowRecords) :
           Unlocks(c, v, pre, U, M, V, records)
<1> DEFINE ns    == Without(dagNodes, v)
           hits(s) == Without(s, {n \in Nodes : c \notin Deps(n)})
           ready == {k \in 1 .. Len(ns) : c \in Deps(ns[k]) /\ Ready(ns[k], c)}
           last  == IF ready = {} THEN Len(ns) ELSE CHOOSE k \in ready : \A q \in ready : k <= q
           seen  == SubSeq(ns, 1, last)
           U     == IF ready = {} THEN {} ELSE {ns[last]}
           M     == ToSet(hits(seen))
           h     == hits(seen)
           marks == [k \in 1 .. Len(h) |-> [op |-> "DAG_COMPLETE_DEP", id |-> h[k], dep |-> c]]
           V     == ToSet(seen)
<1>1. /\ doneDeps' = [n \in Nodes |-> IF n \in M THEN doneDeps[n] \cup {c} ELSE doneDeps[n]]
      /\ Log(pre \o marks)
      /\ dagNodes' = Without(dagNodes, U)
      /\ tracked' = (tracked \ {c}) \cup U
      /\ queue' = queue \cup {NodeJob(n) : n \in U} /\ created' = created \cup {NodeJob(n) : n \in U}
      /\ entered' = entered \cup {NodeJob(n) : n \in U}
      /\ unlocking' = (unlocking \ {<<c, v>>}) \cup (IF ready = {} THEN {} ELSE {<<c, v \cup V>>})
  BY DEF UnlockFrom, Create
<1>2. dagNodes \in Seq(Nodes)
  BY DEF FlowTypes, FlowTypeOK
<1>3. ns \in Seq(Nodes) /\ ToSet(ns) = ToSet(dagNodes) \ v /\ Len(ns) \in Nat
  BY <1>2, WithoutIs
<1>4. ready \subseteq 1 .. Len(ns) /\ \A k \in 1 .. Len(ns) : k \in ready <=> (c \in Deps(ns[k]) /\ Ready(ns[k], c))
  OBVIOUS
<1> HIDE DEF ns, ready
<1>5. last \in 0 .. Len(ns) /\ (ready = {} => last = Len(ns))
      /\ (ready # {} => last \in ready /\ \A q \in ready : last <= q)
  <2>1. CASE ready = {}
    BY <1>3, <2>1
  <2>2. CASE ready # {}
    <3>1. ready \in SUBSET Nat
      BY <1>3, <1>4
    <3>2. \E k \in ready : \A q \in ready : k <= q
      BY <2>2, <3>1, LeastOf
    <3>3. last \in ready /\ \A q \in ready : last <= q
      BY <2>2, <3>2
    <3> HIDE DEF last
    <3>4. last \in 1 .. Len(ns)
      BY <1>4, <3>3
    <3> QED  BY <1>3, <2>2, <3>3, <3>4
  <2> QED  BY <2>1, <2>2
<1>6. U = IF ready = {} THEN {} ELSE {ns[last]}
  OBVIOUS
<1> HIDE DEF last
<1>7. seen \in Seq(Nodes) /\ V = {ns[k] : k \in 1 .. last}
  <2>1. /\ seen \in Seq(Nodes) /\ Len(seen) = last /\ DOMAIN seen = 1 .. last
        /\ \A k \in 1 .. last : seen[k] = ns[k]
    BY <1>3, <1>5
  <2> QED  BY <2>1 DEF ToSet
<1> HIDE DEF seen
<1>8. h \in Seq(Nodes) /\ M = V \ {n \in Nodes : c \notin Deps(n)} /\ M = ToSet(h) /\ Len(h) \in Nat
  BY <1>7, WithoutIs
<1> HIDE DEF h, hits
<1>9. \A k \in 1 .. last : k \in 1 .. Len(ns) /\ ns[k] \in Nodes /\ ns[k] \in ToSet(dagNodes)
  <2>1. \A k \in 1 .. last : k \in 1 .. Len(ns)
    BY <1>3, <1>5
  <2>2. \A k \in 1 .. Len(ns) : ns[k] \in Nodes /\ ns[k] \in ToSet(ns)
    BY <1>3 DEF ToSet
  <2> QED  BY <1>3, <2>1, <2>2
<1>10. V \in SUBSET Nodes /\ M \in SUBSET Nodes
  BY <1>7, <1>8, <1>9
<1>11. ready # {} => last \in 1 .. last /\ c \in Deps(ns[last]) /\ Ready(ns[last], c)
  BY <1>3, <1>4, <1>5
<1>12. U \in SUBSET Nodes /\ \A n \in U : n \in ToSet(dagNodes) /\ c \in Deps(n) /\ doneDeps[n] \cup {c} = Deps(n)
  BY <1>6, <1>9, <1>11 DEF Ready
<1>13. \A n \in M : n \in ToSet(dagNodes) /\ c \in Deps(n) /\ (n \in U \/ doneDeps[n] \cup {c} # Deps(n))
  <2> SUFFICES ASSUME NEW n \in M
               PROVE  n \in ToSet(dagNodes) /\ c \in Deps(n) /\ (n \in U \/ doneDeps[n] \cup {c} # Deps(n))
    OBVIOUS
  <2>1. PICK k \in 1 .. last : n = ns[k]
    BY <1>7, <1>8
  <2>2. n \in ToSet(dagNodes) /\ c \in Deps(n) /\ n \in Nodes /\ k \in 1 .. Len(ns)
    BY <1>8, <1>9, <2>1
  <2>3. ASSUME doneDeps[n] \cup {c} = Deps(n) PROVE n \in U
    <3>1. k \in ready
      BY <1>4, <2>1, <2>2, <2>3 DEF Ready
    <3>2. last <= k /\ k <= last /\ k \in Nat /\ last \in Nat
      BY <1>3, <1>5, <3>1
    <3>3. k = last
      BY <3>2
    <3> QED  BY <1>6, <2>1, <3>1, <3>3
  <2> QED  BY <2>2, <2>3
<1>14. \A n \in V : c \in Deps(n) => n \in M
  BY <1>8, <1>10
<1>15. U = {} => \A n \in ToSet(dagNodes) \ v : c \in Deps(n) => n \in M
  <2> SUFFICES ASSUME U = {}, NEW n \in ToSet(dagNodes) \ v, c \in Deps(n) PROVE n \in M
    OBVIOUS
  <2>1. last = Len(ns)
    BY <1>5, <1>6
  <2>2. n \in ToSet(ns)
    BY <1>3
  <2>3. PICK k \in 1 .. Len(ns) : n = ns[k]
    BY <1>3, <2>2 DEF ToSet
  <2> QED  BY <1>7, <1>14, <2>1, <2>3
<1>16. PICK records : records = marks
  OBVIOUS
<1>17. /\ records \in Seq(FlowRecords)
       /\ \A k \in 1 .. Len(records) :
            \E n \in Nodes : records[k] = [op |-> "DAG_COMPLETE_DEP", id |-> n, dep |-> c]
  <2>1. \A k \in 1 .. Len(h) : h[k] \in Nodes
    BY <1>8
  <2>2. \A k \in 1 .. Len(h) : [op |-> "DAG_COMPLETE_DEP", id |-> h[k], dep |-> c] \in FlowRecords
    BY <2>1, RecordsAre
  <2>3. records \in [1 .. Len(h) -> FlowRecords]
    BY <1>16, <2>2
  <2>4. records \in Seq(FlowRecords) /\ Len(records) = Len(h)
    BY <1>8, <2>3
  <2>5. \A k \in 1 .. Len(h) : records[k] = [op |-> "DAG_COMPLETE_DEP", id |-> h[k], dep |-> c]
    BY <1>16
  <2> QED  BY <2>1, <2>4, <2>5
<1>18. unlocking' = (unlocking \ {<<c, v>>}) \cup (IF U = {} THEN {} ELSE {<<c, v \cup V>>})
  BY <1>1, <1>6
<1>19. Log(pre \o records)
  BY <1>1, <1>16
<1> HIDE DEF U, M, V, marks
<1>20. Unlocks(c, v, pre, U, M, V, records)
  BY <1>1, <1>12, <1>13, <1>14, <1>15, <1>17, <1>18, <1>19 DEF Unlocks
<1> QED  BY <1>10, <1>12, <1>17, <1>20

\* The records of completed dependencies suit what was true before them.
LEMMA MarksSuit ==
  ASSUME NEW c \in Nodes, NEW records \in Seq(FlowRecords),
         \A k \in 1 .. Len(records) :
           \E n \in Nodes : records[k] = [op |-> "DAG_COMPLETE_DEP", id |-> n, dep |-> c],
         NodeJob(c) \in completed', NEW L,
         GoodFor(L, started', created', completed', failed', crashes, revived),
         ToSet(L.dlq) \subseteq Letters', \A g \in Chains : L.chain[g] \in {0, chainMap'[g]}
  PROVE  \E G : SuitsFrom(L, G, records)
<1>0. Len(records) \in Nat
  OBVIOUS
<1> DEFINE Up == {S \in SavedFlows :
             /\ GoodFor(S, started', created', completed', failed', crashes, revived)
             /\ S.chain = L.chain /\ S.dlq = L.dlq}
<1>1. PICK G : G = [k \in 0 .. Len(records) |-> Up]
  OBVIOUS
<1>2. (\A k \in 0 .. Len(records) : G[k] = Up) /\ (\A k \in 1 .. Len(records) : G[k - 1] = Up /\ G[k] = Up)
      /\ G[0] = Up /\ G[Len(records)] = Up
  <2> HIDE DEF Up
  <2>1. \A k \in 1 .. Len(records) : k - 1 \in 0 .. Len(records) /\ k \in 0 .. Len(records)
    BY <1>0
  <2>2. 0 \in 0 .. Len(records) /\ Len(records) \in 0 .. Len(records)
    BY <1>0
  <2> QED  BY <1>1, <2>1, <2>2
<1>3. L \in Up
  BY DEF GoodFor
<1>4. ASSUME NEW k \in 1 .. Len(records), NEW S \in Up PROVE Restore(S, records[k]) \in Up
  <2>1. PICK n \in Nodes : records[k] = [op |-> "DAG_COMPLETE_DEP", id |-> n, dep |-> c]
    BY <1>4
  <2>2. PICK R : R = Restore(S, [op |-> "DAG_COMPLETE_DEP", id |-> n, dep |-> c])
    OBVIOUS
  <2>3. /\ GoodFor(R, started', created', completed', failed', crashes, revived)
        /\ R.chain = S.chain /\ R.dlq = S.dlq
    BY <2>2, GoodMarked
  <2> QED  BY <2>1, <2>2, <2>3 DEF GoodFor
<1>5. \A S \in Up : /\ GoodFor(S, started', created', completed', failed', crashes, revived)
                    /\ ToSet(S.dlq) \subseteq Letters' /\ \A g \in Chains : S.chain[g] \in {0, chainMap'[g]}
  OBVIOUS
<1> HIDE DEF Up
<1> QED  BY <1>2, <1>3, <1>4, <1>5 DEF SuitsFrom

\* The loop goes on, called when c completes or at an await it was left at.
LEMMA UnlockKeeps ==
  ASSUME FlowInv, NEW c \in Accepted, NEW v \in SUBSET Nodes, NEW pre, UnlockFrom(c, v, pre),
         c \in tracked \/ \E u \in unlocking : u[1] = c,
         completed' = completed \cup {NodeJob(c)}, NodeJob(c) \in created,
         running' \subseteq running, running \subseteq running' \cup {NodeJob(c)},
         \/ pre = <<>> /\ Letters' = Letters
         \/ pre = Removed(NodeJob(c)) /\ Letters' = Letters \ {NodeJob(c)},
         dlq' \in Seq(Jobs), IsInjective(dlq'),
         crashes = 0 => NodeJob(c) \notin queue \cup running' \cup Letters' \cup Held,
         v = {} \/ NodeJob(c) \in completed,
         chainMap' = chainMap, rooting' = rooting, attempts' = attempts,
         retrying' = retrying, crashes' = crashes, flowBudget' = flowBudget,
         snap' = snap, cutting' = cutting, snaps' = snaps, revived' = revived,
         started' = started, failed' = failed, dropped' = dropped
  PROVE  \E U \in SUBSET Nodes :
           /\ FlowInv' /\ queue' = queue \cup {NodeJob(n) : n \in U}
           /\ created' = created \cup {NodeJob(n) : n \in U}
           /\ \A n \in U : NodeJob(n) \notin created /\ \A m \in Deps(n) : NodeJob(m) \in completed'
<1> USE InvHas
<1>0. c \in Nodes /\ Accepted \subseteq Nodes
  BY AcceptedAre
<1>1. PICK U \in SUBSET Nodes, M \in SUBSET Nodes, V \in SUBSET Nodes, records \in Seq(FlowRecords) :
           Unlocks(c, v, pre, U, M, V, records)
  BY <1>0, UnlockIs
<1> DEFINE X == {NodeJob(n) : n \in U}
<1>2. /\ doneDeps' = [n \in Nodes |-> IF n \in M THEN doneDeps[n] \cup {c} ELSE doneDeps[n]]
      /\ dagNodes' = Without(dagNodes, U)
      /\ tracked' = (tracked \ {c}) \cup U
      /\ queue' = queue \cup X /\ created' = created \cup X /\ entered' = entered \cup X
      /\ unlocking' = (unlocking \ {<<c, v>>}) \cup (IF U = {} THEN {} ELSE {<<c, v \cup V>>})
      /\ Log(pre \o records)
  BY <1>1 DEF Unlocks
<1>3. /\ \A n \in U : n \in ToSet(dagNodes) /\ c \in Deps(n) /\ doneDeps[n] \cup {c} = Deps(n)
      /\ \A n \in M : n \in ToSet(dagNodes) /\ c \in Deps(n) /\ (n \in U \/ doneDeps[n] \cup {c} # Deps(n))
      /\ U = {} => \A n \in ToSet(dagNodes) \ v : c \in Deps(n) => n \in M
      /\ \A n \in V : c \in Deps(n) => n \in M
  BY <1>1 DEF Unlocks
<1>4. /\ dagNodes \in Seq(Nodes) /\ IsInjective(dagNodes) /\ ToSet(dagNodes) \subseteq Accepted
      /\ doneDeps \in [Nodes -> SUBSET Nodes]
  BY DEF FlowTypeOK, GraphsOK
<1>5. dagNodes' \in Seq(Nodes) /\ IsInjective(dagNodes') /\ ToSet(dagNodes') = ToSet(dagNodes) \ U
  <2>1. PICK w : w = Without(dagNodes, U)
    OBVIOUS
  <2>2. w \in Seq(Nodes) /\ IsInjective(w) /\ ToSet(w) = ToSet(dagNodes) \ U
    BY <1>4, <2>1, WithoutIs
  <2> QED  BY <1>2, <2>1, <2>2
<1>6. /\ doneDeps' \in [Nodes -> SUBSET Nodes]
      /\ \A n \in Nodes : /\ n \in M => doneDeps'[n] = doneDeps[n] \cup {c}
                          /\ n \notin M => doneDeps'[n] = doneDeps[n]
  BY <1>0, <1>2, <1>4
<1>7. PICK d \in Dags \cap started : c \in ToSet(NodesOf(d)) /\ Sortable(d)
  BY GraphOf
<1>8. Fresh(d)
  BY <1>7 DEF GraphsOK, Dead
<1>9. \A n \in U : n \in ToSet(NodesOf(d)) /\ NodeJob(n) \notin created /\ n \in Accepted /\ Deps(n) # {}
  <2> SUFFICES ASSUME NEW n \in U
               PROVE  n \in ToSet(NodesOf(d)) /\ NodeJob(n) \notin created /\ n \in Accepted /\ Deps(n) # {}
    OBVIOUS
  <2>1. n \in ToSet(dagNodes) /\ c \in Deps(n) /\ n \in Accepted
    BY <1>3, <1>4
  <2>2. PICK e \in Dags \cap started : n \in ToSet(NodesOf(e)) /\ Sortable(e)
    BY <2>1, GraphOf
  <2>3. c \in ToSet(NodesOf(e))
    BY <2>1, <2>2 DEF Sortable
  <2>4. e = d
    BY <1>0, <1>7, <2>2, <2>3, AcceptedAre
  <2> QED  BY <1>8, <2>1, <2>2, <2>4 DEF Fresh
<1>10. /\ X \subseteq Jobs /\ X \cap created = {}
       /\ \A k \in X : Flow(k) \in U /\ Flow(k) \notin Chains /\ k = NodeJob(Flow(k))
       /\ \A n \in Nodes : NodeJob(n) \in X <=> n \in U
       /\ \A f \in Chains, s \in 1 .. Steps : <<f, s>> \notin X
  <2>1. \A n \in Nodes : NodeJob(n) \in Jobs /\ Flow(NodeJob(n)) = n /\ n \notin Chains
    BY JobsAre
  <2>2. X \subseteq Jobs /\ X \cap created = {} /\ \A k \in X : Flow(k) \in U /\ Flow(k) \notin Chains /\ k = NodeJob(Flow(k))
    BY <1>9, <2>1
  <2>3. \A n \in Nodes : NodeJob(n) \in X <=> n \in U
    BY <2>1
  <2>4. \A f \in Chains, s \in 1 .. Steps : Flow(<<f, s>>) = f
    BY JobsAre
  <2> HIDE DEF X
  <2> QED  BY <2>2, <2>3, <2>4
<1> HIDE DEF X
<1>11. Letters' \subseteq Letters /\ Letters \subseteq Letters' \cup {NodeJob(c)} /\ Held' = Held
  BY DEF Held
<1>12. /\ FlowPlaces' \subseteq FlowPlaces \cup X /\ FlowPlaces \subseteq FlowPlaces' \cup {NodeJob(c)}
       /\ X \subseteq FlowPlaces' /\ Busy' \subseteq Busy \cup X /\ Busy \subseteq Busy' \cup {NodeJob(c)}
  BY <1>2, <1>11 DEF Busy, FlowPlaces
<1>13. stream' \in Seq(FlowRecords) /\ disk' \in SavedFlows /\ LogOK'
  <2>1. \A k \in 1 .. Len(records) :
           \E n \in Nodes : records[k] = [op |-> "DAG_COMPLETE_DEP", id |-> n, dep |-> c]
    BY <1>1 DEF Unlocks
  <2>2. /\ started \subseteq started' /\ created \subseteq created'
        /\ completed \subseteq completed' /\ failed \subseteq failed'
        /\ NodeJob(c) \in completed'
    BY <1>2
  <2>3. CASE pre = <<>> /\ Letters' = Letters
    <3>1. <<>> \o records = records
      OBVIOUS
    <3>2. Log(records)
      BY <1>2, <2>3, <3>1
    <3>3. ASSUME crashes < flowBudget.crashes PROVE \E G : Suits(G, records)
      <4>1. PICK L : L = Replay(disk, stream)
        OBVIOUS
      <4>2. /\ GoodFor(L, started, created, completed, failed, crashes, revived)
            /\ ToSet(L.dlq) \subseteq Letters' /\ \A g \in Chains : L.chain[g] \in {0, chainMap'[g]}
        BY <2>3, <3>3, <4>1, LogIs DEF LogOK
      <4>3. GoodFor(L, started', created', completed', failed', crashes, revived)
        BY <2>2, <4>2, GoodGrows
      <4>4. \E G : SuitsFrom(L, G, records)
        BY <1>0, <2>1, <2>2, <4>2, <4>3, MarksSuit
      <4> QED  BY <4>1, <4>4 DEF Suits
    <3> QED  BY <2>2, <3>2, <3>3, LogKeeps
  <2>4. CASE pre = Removed(NodeJob(c)) /\ Letters' = Letters \ {NodeJob(c)}
    <3>1. PICK j \in Jobs : j = NodeJob(c)
      BY <1>0, JobsAre
    <3>2. Log(Removed(j) \o records)
      BY <1>2, <2>4, <3>1
    <3>3. ASSUME NEW L, AfterRemoval(L, j) PROVE \E G : SuitsFrom(L, G, records)
      <4>1. /\ GoodFor(L, started', created', completed', failed', crashes, revived)
            /\ ToSet(L.dlq) \subseteq Letters' /\ \A g \in Chains : L.chain[g] \in {0, chainMap'[g]}
        BY <2>4, <3>1, <3>3 DEF AfterRemoval
      <4> QED  BY <1>0, <2>1, <2>2, <4>1, MarksSuit
    <3> QED  BY <2>2, <3>2, <3>3, LogAfterRemoval
  <2> QED  BY <2>3, <2>4
<1>14. FlowTypes'
  <2>1. v \cup V \in SUBSET Nodes
    OBVIOUS
  <2>2. unlocking' \subseteq Nodes \X SUBSET Nodes
    BY <1>0, <1>2, <2>1 DEF FlowTypes
  <2>3. queue' \subseteq Jobs /\ running' \subseteq Jobs /\ entered' \subseteq Jobs /\ tracked' \subseteq Nodes
    BY <1>2, <1>10 DEF FlowTypeOK
  <2>4. FlowTypeOK'
    BY <1>5, <1>6, <2>3 DEF FlowTypeOK
  <2>5. created' \subseteq Jobs /\ completed' \subseteq created' /\ failed' \subseteq created'
    BY <1>2, <1>10 DEF FlowTypes
  <2> QED  BY <1>13, <2>2, <2>4, <2>5 DEF FlowTypes
<1>15. OnePlace'
  <2>1. X \cap running = {} /\ X \cap Letters = {} /\ X \cap Held = {}
    BY <1>10
  <2>2. /\ queue' \cap running' \subseteq revived /\ Letters' \cap Held' \subseteq revived
        /\ (queue' \cup running') \cap (Letters' \cup Held') \subseteq revived
    BY <1>2, <1>11, <2>1 DEF OnePlace
  <2> QED  BY <1>11, <2>2 DEF OnePlace
<1>16. Accepted' = Accepted
  BY DEF Accepted
<1>17. CreatedOK'
  <2>1. FlowPlaces' \subseteq created'
    BY <1>2, <1>12
  <2>2. \A k \in Jobs :
          attempts'[k] < MaxAttempts(k) \/ (k \in failed' /\ k \notin Busy') \/ k \in revived
    <3>1. \A k \in failed : k \notin X
      BY <1>10 DEF FlowTypes
    <3> QED  BY <1>12, <3>1 DEF CreatedOK
  <2>3. \A k \in created' : (Flow(k) \in Chains => Flow(k) \in started') /\ (Flow(k) \in Nodes => Flow(k) \in Accepted')
    BY <1>2, <1>9, <1>10, <1>16 DEF CreatedOK
  <2> QED  BY <2>1, <2>2, <2>3 DEF CreatedOK
<1>18. ChainsOK' /\ OrderOK'
  <2>1. \A k \in FlowPlaces' : Flow(k) \in Chains => k \in FlowPlaces
    BY <1>10, <1>12
  <2>2. \A k \in created' : Flow(k) \in Chains => k \in created
    BY <1>2, <1>10
  <2> QED  BY <2>1, <2>2, ChainsKept
<1>19. GraphsOK'
  <2>1. tracked' \subseteq Accepted'
    BY <1>2, <1>9, <1>16 DEF GraphsOK
  <2>2. \A u \in unlocking' : u[1] \in Accepted' /\ NodeJob(u[1]) \in completed'
    BY <1>2, <1>16 DEF GraphsOK
  <2>3. \A n \in Nodes : \A m \in doneDeps'[n] : NodeJob(m) \in completed'
    BY <1>6 DEF GraphsOK
  <2>4. ASSUME NEW e \in Dags
        PROVE  /\ IsInjective(rooting'[e])
               /\ \A k \in ToSet(rooting'[e]) : k \in ToSet(NodesOf(e)) /\ Deps(k) = {}
               /\ e \notin started' => rooting'[e] = <<>>
               /\ e \in started' => Sortable(e) /\ (Dead(e)' \/ Fresh(e)')
    <3>1. CASE e = d
      <4>1. ASSUME NEW k \in ToSet(NodesOf(d)),
                   (k \in ToSet(dagNodes') /\ Deps(k) # {}) \/ k \in ToSet(rooting[d])
            PROVE  NodeJob(k) \notin created'
        <5>1. k \in Nodes /\ NodeJob(k) \notin created
          BY <1>5, <1>8, <4>1, AcceptedAre DEF Fresh
        <5>2. k \notin U
          <6>1. k \in ToSet(rooting[d]) => Deps(k) = {}
            BY DEF GraphsOK
          <6> QED  BY <1>5, <1>9, <4>1, <6>1
        <5> QED  BY <1>2, <1>10, <5>1, <5>2
      <4>2. Fresh(d)'
        BY <4>1 DEF Fresh
      <4> QED  BY <3>1, <4>2 DEF GraphsOK
    <3>2. CASE e # d
      <4>1. \A k \in ToSet(NodesOf(e)) : k # c /\ k \notin U /\ k \in Nodes
        BY <1>0, <1>7, <1>9, <3>2, AcceptedAre
      <4>2. Dead(e) => Dead(e)'
        BY <1>2, <4>1 DEF Dead
      <4>3. Fresh(e) => Fresh(e)'
        BY <1>2, <1>5, <1>10, <4>1 DEF Fresh
      <4> QED  BY <4>2, <4>3 DEF GraphsOK
    <3> QED  BY <3>1, <3>2
  <2> QED  BY <1>4, <1>5, <1>16, <2>1, <2>2, <2>3, <2>4 DEF GraphsOK
<1>20. FirstLife'
  <2> SUFFICES ASSUME crashes = 0 PROVE
           /\ created' \subseteq completed' \cup dropped \cup FlowPlaces'
           /\ Letters' \subseteq failed
           /\ \A g \in Chains : chainMap[g] # 0 => <<g, chainMap[g]>> \in Busy' \cup dropped
           /\ \A n \in Nodes : NodeJob(n) \in created' \ completed' => n \in tracked'
           /\ \A n \in Nodes : NodeJob(n) \in FlowPlaces' => NodeJob(n) \notin completed'
           /\ \A n \in Accepted : NodeJob(n) \notin created' => Waits(n)'
    BY <1>11, <1>16 DEF FirstLife
  <2>1. created' \subseteq completed' \cup dropped \cup FlowPlaces' /\ Letters' \subseteq failed
    BY <1>2, <1>11, <1>12 DEF FirstLife
  <2>2. \A g \in Chains : chainMap[g] # 0 => <<g, chainMap[g]>> \in Busy' \cup dropped
    <3>1. \A g \in Chains : <<g, chainMap[g]>> = NodeJob(c) => g = c
      BY DEF NodeJob
    <3>2. c \notin Chains
      BY <1>0, JobsAre
    <3> QED  BY <1>12, <3>1, <3>2 DEF FirstLife
  <2>3. ASSUME NEW n \in Nodes, NodeJob(n) \in created' \ completed' PROVE n \in tracked'
    <3>1. n # c /\ NodeJob(n) \notin completed
      BY <2>3
    <3>2. CASE NodeJob(n) \in created
      BY <1>2, <3>1, <3>2 DEF FirstLife
    <3>3. CASE NodeJob(n) \in X
      BY <1>2, <1>10, <3>3
    <3> QED  BY <1>2, <2>3, <3>2, <3>3
  <2>4. ASSUME NEW n \in Nodes, NodeJob(n) \in FlowPlaces' PROVE NodeJob(n) \notin completed'
    <3>1. NodeJob(c) \notin X
      BY <1>10
    <3>2. NodeJob(c) \notin FlowPlaces'
      BY <1>2, <1>11, <3>1 DEF FlowPlaces, Busy
    <3>3. NodeJob(n) \in FlowPlaces \/ NodeJob(n) \in X
      BY <1>12, <2>4
    <3>4. NodeJob(n) \notin completed
      BY <1>10, <3>3 DEF FirstLife, FlowTypes
    <3> QED  BY <2>4, <3>2, <3>4
  <2>5. ASSUME NEW n \in Accepted, NodeJob(n) \notin created' PROVE Waits(n)'
    <3>1. n \in Nodes /\ n \notin U /\ NodeJob(n) \notin created
      BY <1>0, <1>2, <1>10, <2>5
    <3>2. Waits(n)
      BY <3>1 DEF FirstLife
    <3>3. ASSUME Deps(n) # {}
          PROVE  n \in ToSet(dagNodes') /\ doneDeps'[n] \subseteq Deps(n) /\ doneDeps'[n] # Deps(n)
      <4>1. n \in ToSet(dagNodes) /\ doneDeps[n] \subseteq Deps(n) /\ doneDeps[n] # Deps(n)
        BY <3>2, <3>3 DEF Waits
      <4>2. CASE n \in M
        BY <1>3, <1>5, <1>6, <3>1, <4>1, <4>2
      <4>3. CASE n \notin M
        BY <1>5, <1>6, <3>1, <4>1, <4>3
      <4> QED  BY <4>2, <4>3
    <3>4. ASSUME NEW m \in Deps(n), NodeJob(m) \in completed'
          PROVE  m \in doneDeps'[n] \/ \E u \in unlocking' : u[1] = m /\ n \notin u[2]
      <4>0. m \in Nodes
        BY <3>1, <3>4, FlowsAssumption
      <4>1. ASSUME m \in doneDeps[n] \/ \E u \in unlocking : u # <<c, v>> /\ u[1] = m /\ n \notin u[2]
            PROVE  m \in doneDeps'[n] \/ \E u \in unlocking' : u[1] = m /\ n \notin u[2]
        BY <1>2, <1>6, <3>1, <4>1
      <4>2. CASE m # c
        <5>1. NodeJob(m) \in completed
          BY <1>0, <3>4, <4>0, <4>2, JobsAre
        <5>2. m \in doneDeps[n] \/ \E u \in unlocking : u[1] = m /\ n \notin u[2]
          BY <3>2, <3>4, <5>1 DEF Waits
        <5>3. \A u \in unlocking : u[1] = m => u # <<c, v>>
          BY <4>2
        <5> QED  BY <4>1, <5>2, <5>3
      <4>3. CASE m = c /\ n \in v
        <5>1. NodeJob(c) \in completed
          BY <4>3
        <5>2. m \in doneDeps[n] \/ \E u \in unlocking : u[1] = m /\ n \notin u[2]
          BY <3>2, <3>4, <4>3, <5>1 DEF Waits
        <5>3. \A u \in unlocking : n \notin u[2] => u # <<c, v>>
          BY <4>3
        <5> QED  BY <4>1, <5>2, <5>3
      <4>4. CASE m = c /\ n \notin v
        <5>1. n \in ToSet(dagNodes)
          BY <3>2, <3>4 DEF Waits
        <5>2. CASE n \in M
          BY <1>6, <3>1, <4>4, <5>2
        <5>3. CASE n \notin M
          <6>1. U # {} /\ n \notin V
            BY <1>3, <3>4, <4>4, <5>1, <5>3
          <6>2. <<c, v \cup V>> \in unlocking'
            BY <1>2, <6>1
          <6> QED  BY <4>4, <6>1, <6>2
        <5> QED  BY <5>2, <5>3
      <4> QED  BY <4>2, <4>3, <4>4
    <3> QED  BY <3>2, <3>3, <3>4 DEF Waits
  <2> QED  BY <2>1, <2>2, <2>3, <2>4, <2>5
<1>21. ASSUME NEW n \in U PROVE NodeJob(n) \notin created /\ \A m \in Deps(n) : NodeJob(m) \in completed'
  <2>1. \A m \in doneDeps[n] : NodeJob(m) \in completed
    BY <1>21 DEF GraphsOK
  <2> QED  BY <1>3, <1>9, <2>1
<1>22. FlowInv'
  BY <1>13, <1>14, <1>15, <1>17, <1>18, <1>19, <1>20 DEF FlowInv
<1> QED  BY <1>2, <1>21, <1>22 DEF X

\* The loop goes on after its await.
LEMMA UnlockNextKeeps ==
  ASSUME FlowInv, NEW u \in unlocking, UnlockNext(u[1], u[2])
  PROVE  \E U \in SUBSET Nodes :
           /\ FlowInv' /\ queue' = queue \cup {NodeJob(n) : n \in U}
           /\ created' = created \cup {NodeJob(n) : n \in U}
           /\ \A n \in U : NodeJob(n) \notin created /\ \A m \in Deps(n) : NodeJob(m) \in completed'
<1>1. PICK c, v : c = u[1] /\ v = u[2]
  OBVIOUS
<1>2. /\ UnlockFrom(c, v, <<>>)
      /\ UNCHANGED <<chainMap, rooting, workers, attempts, letters, life, started,
                     completed, failed, dropped>>
  BY <1>1 DEF UnlockNext
<1>3. /\ c \in Accepted /\ NodeJob(c) \in completed /\ v \in SUBSET Nodes /\ NodeJob(c) \in created
      /\ c \in Nodes
  BY <1>1, InvHas, AcceptedAre DEF GraphsOK, FlowTypes
<1>a. /\ running' = running /\ attempts' = attempts /\ dlq' = dlq /\ retrying' = retrying
      /\ chainMap' = chainMap /\ rooting' = rooting /\ crashes' = crashes /\ flowBudget' = flowBudget
      /\ snap' = snap /\ cutting' = cutting /\ snaps' = snaps /\ revived' = revived
      /\ started' = started /\ completed' = completed /\ failed' = failed /\ dropped' = dropped
  BY <1>2 DEF workers, letters, life
<1>b. Letters' = Letters /\ dlq' \in Seq(Jobs) /\ IsInjective(dlq')
  BY <1>a, InvHas DEF Letters, FlowTypeOK, OnePlace
<1>4. ASSUME crashes = 0 PROVE NodeJob(c) \notin queue \cup running' \cup Letters' \cup Held
  <2>1. NodeJob(c) \notin FlowPlaces
    BY <1>3, <1>4, InvHas DEF FirstLife
  <2> QED  BY <1>a, <1>b, <2>1, InvHas
<1>5. completed' = completed \cup {NodeJob(c)}
  BY <1>a, <1>3
<1>6. PICK pre : pre = <<>>
  OBVIOUS
<1> QED  BY <1>1, <1>2, <1>a, <1>b, <1>3, <1>4, <1>5, <1>6, UnlockKeeps

\* A node completes and its loop begins.
LEMMA NodeCompleteKeeps ==
  ASSUME FlowInv, CopiesOK, NEW j \in Jobs, Complete(j), Flow(j) \in tracked
  PROVE  \E U \in SUBSET Nodes :
           /\ FlowInv' /\ queue' = queue \cup {NodeJob(n) : n \in U}
           /\ created' = created \cup {NodeJob(n) : n \in U}
           /\ \A n \in U : NodeJob(n) \notin created /\ \A m \in Deps(n) : NodeJob(m) \in completed'
<1>1. PICK c : c = Flow(j)
  OBVIOUS
<1>2. c \in Nodes /\ c \notin Chains /\ c \in Accepted /\ j = NodeJob(c) /\ c \in tracked
  BY <1>1, InvHas, JobsAre, AcceptedAre DEF GraphsOK
<1>3. /\ CopyEnds(j) /\ completed' = completed \cup {j} /\ dlq' = Without(dlq, {j})
      /\ UnlockFrom(c, {}, Removed(j))
      /\ chainMap' = chainMap /\ rooting' = rooting /\ attempts' = attempts /\ retrying' = retrying
      /\ crashes' = crashes /\ flowBudget' = flowBudget
      /\ snap' = snap /\ cutting' = cutting /\ snaps' = snaps /\ revived' = revived
      /\ started' = started /\ failed' = failed /\ dropped' = dropped
  BY <1>1, <1>2 DEF Complete, Removed, life
<1>4. /\ j \in running /\ running' \subseteq running /\ running \ {j} \subseteq running' /\ j \in created
      /\ crashes = 0 => revived = {} /\ running' = running \ {j}
      /\ j \notin revived => j \notin queue /\ j \notin Letters /\ j \notin Held
  BY <1>3, CopyEndsIs, RunsAlone
<1>5. dlq' \in Seq(Jobs) /\ IsInjective(dlq') /\ Letters' = Letters \ {j}
  <2>1. PICK w : w = Without(dlq, {j})
    OBVIOUS
  <2>2. dlq \in Seq(Jobs) /\ IsInjective(dlq)
    BY InvHas DEF FlowTypeOK, OnePlace
  <2>3. w \in Seq(Jobs) /\ IsInjective(w) /\ ToSet(w) = ToSet(dlq) \ {j}
    BY <2>1, <2>2, WithoutIs
  <2> QED  BY <1>3, <2>1, <2>3 DEF Letters
<1>6. crashes = 0 => NodeJob(c) \notin queue \cup running' \cup Letters' \cup Held
  BY <1>2, <1>4, <1>5
<1>7. PICK pre : pre = Removed(j)
  OBVIOUS
<1>8. PICK v \in SUBSET Nodes : v = {}
  OBVIOUS
<1> QED  BY <1>2, <1>3, <1>4, <1>5, <1>6, <1>7, <1>8, UnlockKeeps

-----------------------------------------------------------------------------
(***************************************************************************)
(* Every step.                                                             *)
(***************************************************************************)

\* What FlowOrder says of one step.
Ordered ==
  /\ \A j \in created' \ created : ~Again(Flow(j)) => Before(j) \subseteq completed'
  /\ \A j \in queue' \ queue :
       j \in created /\ (crashes <= 1 \/ Flow(j) \in Nodes) /\ ~Again(Flow(j))' =>
         attempts'[j] > attempts[j] \/ \E r \in Retriers : j \in retrying[r].hold

\* A step that creates and pushes nothing.
LEMMA QuietOrder ==
  ASSUME queue' \subseteq queue, created' = created
  PROVE  Ordered
  BY DEF Ordered

\* Jobs that are created now, after what they wait for.
LEMMA NewOrder ==
  ASSUME NEW W, queue' = queue \cup W, created' = created \cup W,
         \A j \in W : j \notin created \/ ~(crashes <= 1 \/ Flow(j) \in Nodes) \/ Again(Flow(j))',
         \A j \in W : ~Again(Flow(j)) => Before(j) \subseteq completed'
  PROVE  Ordered
  BY DEF Ordered

\* Nodes that are created now, after their dependencies completed.
LEMMA NodesOrder ==
  ASSUME NEW U \in SUBSET Nodes, queue' = queue \cup {NodeJob(n) : n \in U},
         created' = created \cup {NodeJob(n) : n \in U},
         \A n \in U : NodeJob(n) \notin created /\ \A m \in Deps(n) : NodeJob(m) \in completed'
  PROVE  Ordered
<1>1. ASSUME NEW n \in U PROVE Before(NodeJob(n)) \subseteq completed'
  <2>1. Flow(NodeJob(n)) = n /\ n \notin Chains
    BY JobsAre
  <2>2. Before(NodeJob(n)) = {NodeJob(m) : m \in Deps(n)}
    BY <2>1 DEF Before
  <2> QED  BY <2>2
<1>2. PICK W : W = {NodeJob(n) : n \in U}
  OBVIOUS
<1>3. \A j \in W : \E n \in U : j = NodeJob(n)
  BY <1>2
<1>4. \A j \in W : j \notin created
  BY <1>3
<1>5. \A j \in W : Before(j) \subseteq completed'
  BY <1>1, <1>3
<1>6. queue' = queue \cup W /\ created' = created \cup W
  BY <1>2
<1> QED  BY <1>4, <1>5, <1>6, NewOrder

\* The steps that create or push: a chain starts.
LEMMA ChainStep ==
  ASSUME FlowInv, NEW f \in Chains, Chain(f)
  PROVE  FlowInv' /\ Ordered
<1>1. FlowInv' /\ <<f, 1>> \notin created
  BY ChainKeeps
<1>2. queue' = queue \cup {<<f, 1>>} /\ created' = created \cup {<<f, 1>>}
  BY DEF Chain, Create
<1>3. Before(<<f, 1>>) = {}
  <2>1. \A s \in {<<f, 1>>[2] - 1} \cap (1 .. Steps) : FALSE
    BY JobsAre
  <2> QED  BY <2>1 DEF Before, Flow
<1>4. PICK W : W = {<<f, 1>>}
  OBVIOUS
<1>5. \A j \in W : j \notin created /\ Before(j) \subseteq completed'
  BY <1>1, <1>3, <1>4
<1>6. queue' = queue \cup W /\ created' = created \cup W
  BY <1>2, <1>4
<1>7. Ordered
  BY <1>5, <1>6, NewOrder
<1> QED  BY <1>1, <1>7

\* A chain advances.
LEMMA AdvanceStep ==
  ASSUME FlowInv, CopiesOK, NEW j \in Jobs, Complete(j), NEW f \in Chains, Flow(j) = f,
         chainMap[f] # 0, chainMap[f] # Steps
  PROVE  FlowInv' /\ Ordered
<1>1. PICK c : c = chainMap[f]
  OBVIOUS
<1>2. /\ FlowInv' /\ c + 1 \in 2 .. Steps /\ (~Again(f) => j = <<f, c>>)
      /\ queue' = queue \cup {<<f, c + 1>>} /\ created' = created \cup {<<f, c + 1>>}
      /\ j \in completed' /\ (crashes <= 1 /\ ~Again(f) => <<f, c + 1>> \notin created)
  BY <1>1, AdvanceKeeps
<1>3. c \in 1 .. Steps
  <2>1. c \in 0 .. Steps
    BY <1>1, InvHas DEF FlowTypeOK
  <2> QED  BY <1>1, <2>1, JobsAre
<1>4. Flow(<<f, c + 1>>) = f /\ f \notin Nodes
  BY <1>2, JobsAre DEF Flow
<1>5. ~Again(f) => Before(<<f, c + 1>>) \subseteq completed'
  <2>1. Before(<<f, c + 1>>) = {<<f, s>> : s \in {(c + 1) - 1} \cap (1 .. Steps)}
    BY <1>4 DEF Before
  <2>2. (c + 1) - 1 = c
    BY <1>3
  <2> QED  BY <1>2, <2>1, <2>2
<1>6. PICK W : W = {<<f, c + 1>>}
  OBVIOUS
<1>7. Again(f)' <=> Again(f)
  BY DEF Complete, life, Again
<1>8. ASSUME NEW i \in W
      PROVE  /\ i \notin created \/ ~(crashes <= 1 \/ Flow(i) \in Nodes) \/ Again(Flow(i))'
             /\ ~Again(Flow(i)) => Before(i) \subseteq completed'
  <2>1. i = <<f, c + 1>> /\ Flow(i) = f
    BY <1>4, <1>6
  <2>2. i \notin created \/ ~(crashes <= 1 \/ Flow(i) \in Nodes) \/ Again(f)'
    BY <1>2, <1>4, <1>7, <2>1
  <2> QED  BY <1>5, <2>1, <2>2 DEF Again
<1>9. queue' = queue \cup W /\ created' = created \cup W
  BY <1>2, <1>6
<1>10. Ordered
  BY <1>8, <1>9, NewOrder
<1> QED  BY <1>2, <1>10

\* A job completes, of a chain, of a graph or of neither.
LEMMA CompleteStep ==
  ASSUME FlowInv, CopiesOK, NEW j \in Jobs, Complete(j)
  PROVE  FlowInv' /\ Ordered
<1>1. CASE Flow(j) \in Chains /\ chainMap[Flow(j)] # 0 /\ chainMap[Flow(j)] # Steps
  BY <1>1, AdvanceStep
<1>2. CASE Flow(j) \in Chains /\ chainMap[Flow(j)] # 0 /\ chainMap[Flow(j)] = Steps
  BY <1>2, EndKeeps, QuietOrder
<1>3. CASE Flow(j) \in tracked
  <2>1. PICK U \in SUBSET Nodes :
           /\ FlowInv' /\ queue' = queue \cup {NodeJob(n) : n \in U}
           /\ created' = created \cup {NodeJob(n) : n \in U}
           /\ \A n \in U : NodeJob(n) \notin created /\ \A m \in Deps(n) : NodeJob(m) \in completed'
    BY <1>3, NodeCompleteKeeps
  <2> QED  BY <2>1, NodesOrder
<1>4. CASE ~(Flow(j) \in Chains /\ chainMap[Flow(j)] # 0) /\ Flow(j) \notin tracked
  BY <1>4, OtherCompleteKeeps, QuietOrder
<1> QED  BY <1>1, <1>2, <1>3, <1>4

\* A failed attempt is pushed with its count raised.
LEMMA RetryStep ==
  ASSUME FlowInv, CopiesOK, NEW j \in Jobs, Retry(j)
  PROVE  FlowInv' /\ Ordered
<1>1. attempts \in [Jobs -> Nat]
  BY InvHas DEF FlowTypes
<1>2. /\ queue' = queue \cup {j} /\ created' = created /\ revived' = revived
      /\ attempts' = [attempts EXCEPT ![j] = IF j \in revived THEN @ ELSE @ + 1]
  BY DEF Retry, Attempted, past, life
<1>3. CASE j \in revived
  <2>1. Again(Flow(j))'
    BY <1>2, <1>3 DEF Again
  <2> QED  BY <1>2, <2>1, RetryKeeps DEF Ordered
<1>4. CASE j \notin revived
  <2>1. attempts'[j] = attempts[j] + 1 /\ attempts[j] \in Nat
    BY <1>1, <1>2, <1>4
  <2>2. attempts'[j] > attempts[j]
    BY <2>1
  <2> QED  BY <1>2, <2>2, RetryKeeps DEF Ordered
<1> QED  BY <1>3, <1>4

\* A dead letter is pushed from the hands of a call.
LEMMA RetryPushStep ==
  ASSUME FlowInv, NEW r \in Retriers, RetryPush(r)
  PROVE  FlowInv' /\ Ordered
<1>1. queue' = queue \cup retrying[r].hold /\ created' = created
  BY DEF RetryPush, past
<1>2. Ordered
  BY <1>1 DEF Ordered
<1> QED  BY <1>2, RetryPushKeeps

\* The steps of one call at a time that create and push nothing.
LEMMA QuietSteps ==
  ASSUME FlowInv, CopiesOK
  PROVE  /\ \A d \in Dags : Dag(d) => FlowInv' /\ Ordered
         /\ \A j \in Jobs : Pop(j) => FlowInv' /\ Ordered
         /\ \A j \in Jobs : FailForGood(j) => FlowInv' /\ Ordered
         /\ \A j \in Jobs : Drop(j) => FlowInv' /\ Ordered
         /\ \A r \in Retriers, ids \in Seq(Jobs) : RetryCall(r, ids) => FlowInv' /\ Ordered
         /\ \A r \in Retriers : RetryNext(r) => FlowInv' /\ Ordered
         /\ \A n \in Nat : Purge(n) => FlowInv' /\ Ordered
         /\ \A n \in Nat, back \in SUBSET snap : Crash(n, back) => FlowInv' /\ Ordered
         /\ Snapshot => FlowInv' /\ Ordered
         /\ Truncate => FlowInv' /\ Ordered
<1>1. ASSUME NEW d \in Dags, Dag(d) PROVE FlowInv' /\ Ordered
  BY <1>1, DagKeeps, QuietOrder
<1>2. ASSUME NEW j \in Jobs, Pop(j) PROVE FlowInv' /\ Ordered
  <2>1. queue' \subseteq queue /\ created' = created
    BY <1>2 DEF Pop, past
  <2> QED  BY <1>2, <2>1, PopKeeps, QuietOrder
<1>3. ASSUME NEW j \in Jobs, FailForGood(j) PROVE FlowInv' /\ Ordered
  BY <1>3, FailKeeps, QuietOrder
<1>4. ASSUME NEW j \in Jobs, Drop(j) PROVE FlowInv' /\ Ordered
  <2>1. queue' \subseteq queue /\ created' = created
    BY <1>4 DEF Drop
  <2> QED  BY <1>4, <2>1, DropKeeps, QuietOrder
<1>5. ASSUME NEW r \in Retriers, NEW ids \in Seq(Jobs), RetryCall(r, ids) PROVE FlowInv' /\ Ordered
  <2>1. queue' \subseteq queue /\ created' = created
    BY <1>5 DEF RetryCall, past
  <2> QED  BY <1>5, <2>1, RetryCallKeeps, QuietOrder
<1>6. ASSUME NEW r \in Retriers, RetryNext(r) PROVE FlowInv' /\ Ordered
  <2>1. queue' \subseteq queue /\ created' = created
    BY <1>6 DEF RetryNext, past
  <2> QED  BY <1>6, <2>1, RetryNextKeeps, QuietOrder
<1>7. ASSUME NEW n \in Nat, Purge(n) PROVE FlowInv' /\ Ordered
  <2>1. queue' \subseteq queue /\ created' = created
    BY <1>7 DEF Purge
  <2> QED  BY <1>7, <2>1, PurgeKeeps, QuietOrder
<1>8. ASSUME NEW n \in Nat, NEW back \in SUBSET snap, Crash(n, back) PROVE FlowInv' /\ Ordered
  <2>1. FlowInv' /\ queue' = back /\ revived' = revived \cup back /\ created' = created
    BY <1>8, CrashKeeps
  <2>2. \A j \in back : Again(Flow(j))'
    BY <2>1 DEF Again
  <2> QED  BY <2>1, <2>2 DEF Ordered
<1>9. ASSUME Truncate PROVE FlowInv' /\ Ordered
  <2>1. queue' \subseteq queue /\ created' = created
    BY <1>9 DEF Truncate, past
  <2> QED  BY <1>9, <2>1, TruncateKeeps, QuietOrder
<1>10. ASSUME Snapshot PROVE FlowInv' /\ Ordered
  <2>1. queue' \subseteq queue /\ created' = created
    BY <1>10 DEF Snapshot, past
  <2> QED  BY <1>10, <2>1, SnapshotKeeps, QuietOrder
<1> QED  BY <1>1, <1>2, <1>3, <1>4, <1>5, <1>6, <1>7, <1>8, <1>9, <1>10

\* What completes a job puts into the adapter only what it creates.
LEMMA CompleteEnters ==
  ASSUME NEW j \in Jobs, Complete(j)
  PROVE  \E X : entered' = entered \cup X /\ created' = created \cup X
<1>1. CASE Flow(j) \in Chains /\ chainMap[Flow(j)] # 0
  <2>1. AdvanceChain(Flow(j), Removed(j))
    BY <1>1 DEF Complete, Removed
  <2> QED  BY <2>1 DEF AdvanceChain, Create
<1>2. CASE ~(Flow(j) \in Chains /\ chainMap[Flow(j)] # 0) /\ Flow(j) \in tracked
  <2>1. UnlockFrom(Flow(j), {}, Removed(j))
    BY <1>2 DEF Complete, Removed
  <2> QED  BY <2>1 DEF UnlockFrom, Create
<1>3. CASE ~(Flow(j) \in Chains /\ chainMap[Flow(j)] # 0) /\ Flow(j) \notin tracked
  BY <1>3 DEF Complete, Create
<1> QED  BY <1>1, <1>2, <1>3

\* What entered, or what a snapshot holds, was created; what runs twice came back.
LEMMA CopiesKept ==
  ASSUME CopiesOK, twins' \subseteq twins, snap' = snap, revived' = revived, crashes' = crashes,
         NEW X, entered' = entered \cup X, created' = created \cup X
  PROVE  CopiesOK'
  BY DEF CopiesOK

LEMMA CopiesKeep ==
  ASSUME FlowInv, CopiesOK, [FlowNext]_flowVars
  PROVE  CopiesOK'
<1> USE InvHas
<1>1. ASSUME NEW f \in Chains, Chain(f) PROVE CopiesOK'
  BY <1>1, CopiesKept DEF Chain, Create, workers, life
<1>2. ASSUME NEW d \in Dags, Dag(d) PROVE CopiesOK'
  BY <1>2 DEF Dag, workers, life, CopiesOK
<1>3. ASSUME NEW d \in Dags, DagPush(d) PROVE CopiesOK'
  BY <1>3, CopiesKept DEF DagPush, Create, workers, life
<1>4. ASSUME NEW u \in unlocking, UnlockNext(u[1], u[2]) PROVE CopiesOK'
  <2>1. \E X : entered' = entered \cup X /\ created' = created \cup X
    BY <1>4 DEF UnlockNext, UnlockFrom, Create
  <2> QED  BY <1>4, <2>1, CopiesKept DEF UnlockNext, workers, life
<1>5. ASSUME NEW j \in Jobs, Pop(j) PROVE CopiesOK'
  <2>1. {j} \cap running \subseteq revived
    BY <1>5 DEF Pop, OnePlace
  <2> QED  BY <1>5, <2>1 DEF Pop, life, past, CopiesOK
<1>6. ASSUME NEW j \in Jobs, Complete(j) PROVE CopiesOK'
  <2>1. twins' \subseteq twins /\ snap' = snap /\ revived' = revived /\ crashes' = crashes
    BY <1>6 DEF Complete, CopyEnds, life
  <2> QED  BY <1>6, <2>1, CompleteEnters, CopiesKept
<1>7. ASSUME NEW j \in Jobs, Retry(j) PROVE CopiesOK'
  BY <1>7 DEF Retry, CopyEnds, life, past, CopiesOK
<1>8. ASSUME NEW j \in Jobs, FailForGood(j) PROVE CopiesOK'
  <2>1. /\ twins' \subseteq twins /\ entered' = entered /\ snap' = snap /\ revived' = revived
        /\ crashes' = crashes /\ created' = created
    BY <1>8 DEF FailForGood, CopyEnds, life
  <2> QED  BY <2>1 DEF CopiesOK
<1>9. ASSUME NEW j \in Jobs, Drop(j) PROVE CopiesOK'
  BY <1>9 DEF Drop, workers, life, CopiesOK
<1>10. ASSUME NEW r \in Retriers, NEW ids, RetryCall(r, ids) PROVE CopiesOK'
  BY <1>10 DEF RetryCall, workers, life, past, CopiesOK
<1>11. ASSUME NEW r \in Retriers, RetryPush(r) PROVE CopiesOK'
  <2>1. retrying[r].hold \subseteq created
    BY DEF Held
  <2> QED  BY <1>11, <2>1 DEF RetryPush, workers, life, past, CopiesOK
<1>12. ASSUME NEW r \in Retriers, RetryNext(r) PROVE CopiesOK'
  BY <1>12 DEF RetryNext, workers, life, past, CopiesOK
<1>13. ASSUME NEW n, Purge(n) PROVE CopiesOK'
  BY <1>13 DEF Purge, workers, life, CopiesOK
<1>14. ASSUME Snapshot PROVE CopiesOK'
  BY <1>14 DEF Snapshot, workers, past, CopiesOK
<1>15. ASSUME Truncate PROVE CopiesOK'
  BY <1>15 DEF Truncate, workers, past, CopiesOK
<1>16. ASSUME NEW n, NEW back \in SUBSET snap, Crash(n, back) PROVE CopiesOK'
  <2>1. crashes' # 0
    BY <1>16, BoundsAre DEF Crash
  <2> QED  BY <1>16, <2>1 DEF Crash, CopiesOK
<1>17. ASSUME UNCHANGED flowVars PROVE CopiesOK'
  BY <1>17 DEF flowVars, CopiesOK
<1> QED
  BY <1>1, <1>2, <1>3, <1>4, <1>5, <1>6, <1>7, <1>8, <1>9, <1>10, <1>11, <1>12, <1>13, <1>14, <1>15,
     <1>16, <1>17
  DEF FlowNext

\* Every step keeps the invariant, and creates nothing early or twice.
LEMMA FlowStepKeeps ==
  ASSUME FlowInv, CopiesOK, FlowNext
  PROVE  FlowInv' /\ Ordered
<1>0. dlq \in Seq(Jobs)
  BY InvHas DEF FlowTypeOK
<1>1. ASSUME NEW f \in Chains, Chain(f) PROVE FlowInv' /\ Ordered
  BY <1>1, ChainStep
<1>2. ASSUME NEW d \in Dags, DagPush(d) PROVE FlowInv' /\ Ordered
  <2>1. PICK n \in Nodes : /\ FlowInv' /\ Deps(n) = {} /\ NodeJob(n) \notin created
                           /\ queue' = queue \cup {NodeJob(n)} /\ created' = created \cup {NodeJob(n)}
                           /\ completed' = completed
    BY <1>2, DagPushKeeps
  <2>2. PICK U \in SUBSET Nodes : U = {n} /\ {NodeJob(m) : m \in U} = {NodeJob(n)}
    <3>1. {n} \in SUBSET Nodes /\ {NodeJob(m) : m \in {n}} = {NodeJob(n)}
      OBVIOUS
    <3> QED  BY <3>1, Zenon
  <2>3. /\ queue' = queue \cup {NodeJob(m) : m \in U}
        /\ created' = created \cup {NodeJob(m) : m \in U}
        /\ \A m \in U : NodeJob(m) \notin created /\ \A k \in Deps(m) : NodeJob(k) \in completed'
    BY <2>1, <2>2
  <2>4. Ordered
    BY <2>3, NodesOrder
  <2> QED  BY <2>1, <2>4
<1>3. ASSUME NEW u \in unlocking, UnlockNext(u[1], u[2]) PROVE FlowInv' /\ Ordered
  <2>1. PICK U \in SUBSET Nodes :
           /\ FlowInv' /\ queue' = queue \cup {NodeJob(n) : n \in U}
           /\ created' = created \cup {NodeJob(n) : n \in U}
           /\ \A n \in U : NodeJob(n) \notin created /\ \A m \in Deps(n) : NodeJob(m) \in completed'
    BY <1>3, UnlockNextKeeps
  <2> QED  BY <2>1, NodesOrder
<1>4. ASSUME NEW r \in Retriers, NEW j \in Jobs, RetryCall(r, <<j>>) PROVE FlowInv' /\ Ordered
  <2>1. <<j>> \in Seq(Jobs)
    BY OneIs
  <2> QED  BY <1>4, <2>1, QuietSteps
<1>5. ASSUME NEW n \in 1 .. Cardinality(Jobs), Purge(n) PROVE FlowInv' /\ Ordered
  <2>1. n \in Nat
    BY <1>0, <1>5 DEF Purge
  <2> QED  BY <1>5, <2>1, QuietSteps
<1>6. ASSUME NEW n \in 0 .. MaxUnwritten, NEW back \in SUBSET snap, Crash(n, back) PROVE FlowInv' /\ Ordered
  <2>1. n \in Nat
    BY <1>6, FlowsAssumption
  <2> QED  BY <1>6, <2>1, QuietSteps
<1> QED
  BY <1>0, <1>1, <1>2, <1>3, <1>4, <1>5, <1>6, QuietSteps, CompleteStep, RetryStep, RetryPushStep
  DEF FlowNext

\* A step that changes nothing.
LEMMA FlowStutterKeeps ==
  ASSUME FlowInv, UNCHANGED flowVars
  PROVE  FlowInv'
<1>1. /\ UNCHANGED <<flows, life, started, created, completed, failed, dropped>>
      /\ UNCHANGED <<queue, running, twins, entered, attempts, dlq, retrying, disk, stream>>
      /\ crashes' = crashes /\ flowBudget' = flowBudget /\ revived' = revived
  BY DEF flowVars, flows, life
<1>2. Busy' = Busy /\ Letters' = Letters /\ Held' = Held /\ FlowPlaces' = FlowPlaces
  BY <1>1 DEF Busy, Letters, Held, FlowPlaces
<1>3. LogOK' /\ OnePlace' /\ FlowTypeOK'
  BY <1>1, <1>2, InvHas DEF LogOK, OnePlace, FlowTypeOK, flows, life
<1>4. CreatedOK /\ FlowTypes
  BY InvHas
<1>5. \A j \in Jobs : attempts'[j] < MaxAttempts(j) \/ (j \in failed /\ j \notin Busy') \/ j \in revived
  BY <1>1, <1>2, <1>4 DEF CreatedOK
<1>6. /\ attempts' \in [Jobs -> Nat] /\ retrying' \in [Retriers -> Calling]
      /\ \A r \in Retriers : ~retrying'[r].called => retrying'[r].hold = {}
      /\ stream' \in Seq(FlowRecords) /\ disk' \in SavedFlows
      /\ dropped \subseteq dropped' /\ dropped' \subseteq Jobs
  BY <1>1, <1>4 DEF FlowTypes
<1> QED  BY <1>1, <1>2, <1>3, <1>5, <1>6, QuietKeeps

-----------------------------------------------------------------------------
(***************************************************************************)
(* What the invariant says of a queue at rest.                             *)
(***************************************************************************)

\* A node is downstream of what it depends on and of what that is downstream of.
LEMMA DownstreamIs ==
  ASSUME NEW n \in Nodes, NEW m \in Deps(n)
  PROVE  n \in Downstream(m) /\ \A q : m \in Downstream(q) => n \in Downstream(q)
<1>1. ASSUME NEW S \in SUBSET Nodes,
             \A k \in Nodes : m \in Deps(k) \/ Deps(k) \cap S # {} => k \in S
      PROVE  n \in S
  BY <1>1
<1>2. n \in Downstream(m)
  BY <1>1 DEF Downstream
<1>3. ASSUME NEW q, m \in Downstream(q) PROVE n \in Downstream(q)
  <2>1. ASSUME NEW S \in SUBSET Nodes,
               \A k \in Nodes : q \in Deps(k) \/ Deps(k) \cap S # {} => k \in S
        PROVE  n \in S
    <3>1. m \in S
      BY <1>3, <2>1 DEF Downstream
    <3>2. Deps(n) \cap S # {}
      BY <3>1
    <3> QED  BY <2>1, <3>2
  <2> QED  BY <2>1 DEF Downstream
<1> QED  BY <1>2, <1>3

\* At rest in the first life a node without a job misses a dependency that has not
\* completed.
LEMMA WaitsAtRest ==
  ASSUME FlowInv, AtRest, crashes = 0, NEW n \in Accepted, NodeJob(n) \notin created
  PROVE  \E m \in Deps(n) : NodeJob(m) \notin completed
<1>1. Waits(n) /\ n \in Nodes
  BY InvHas, AcceptedAre DEF FirstLife
<1>2. Deps(n) # {}
  <2>1. \A d \in Dags : rooting[d] = <<>>
    BY DEF AtRest
  <2>2. ToSet(<<>>) = {}
    BY DEF ToSet
  <2> QED  BY <1>1, <2>1, <2>2 DEF Waits
<1>3. unlocking = {}
  BY DEF AtRest
<1> QED  BY <1>1, <1>2, <1>3 DEF Waits

\* Of the nodes without a job, one waits for none of the others: what it waits for ended.
LEMMA AllNodesRun ==
  ASSUME FlowInv
  PROVE  NodesRunAtRest
<1> SUFFICES ASSUME AtRest, crashes = 0, NEW n \in Accepted, NodeJob(n) \notin created
             PROVE  \E m \in Nodes : n \in Downstream(m) /\ NodeJob(m) \in failed \cup dropped
  BY Zenon DEF NodesRunAtRest
<1>1. PICK d \in Dags \cap started : n \in ToSet(NodesOf(d)) /\ Sortable(d)
  BY GraphOf
<1>2. \A k \in ToSet(NodesOf(d)) : k \in Accepted /\ k \in Nodes
  BY AcceptedAre DEF Accepted
<1> DEFINE Hit(k) == \E m \in Nodes : k \in Downstream(m) /\ NodeJob(m) \in failed \cup dropped
           S      == {k \in ToSet(NodesOf(d)) : NodeJob(k) \notin created /\ ~Hit(k)}
<1>3. SUFFICES ASSUME ~Hit(n) PROVE FALSE
  OBVIOUS
<1>4. S \in SUBSET ToSet(NodesOf(d)) /\ S # {}
  BY <1>1, <1>3
<1>5. PICK k \in S : Deps(k) \cap S = {}
  <2> HIDE DEF S
  <2> QED  BY <1>1, <1>4 DEF Sortable
<1>6. k \in Accepted /\ k \in Nodes /\ NodeJob(k) \notin created /\ ~Hit(k) /\ k \in ToSet(NodesOf(d))
  BY <1>2, <1>5
<1>7. PICK m \in Deps(k) : NodeJob(m) \notin completed
  BY <1>6, WaitsAtRest
<1>8. m \in ToSet(NodesOf(d)) /\ m \in Nodes
  BY <1>1, <1>2, <1>6, <1>7 DEF Sortable
<1>9. k \in Downstream(m) /\ \A q : m \in Downstream(q) => k \in Downstream(q)
  BY <1>6, <1>7, DownstreamIs
<1>10. NodeJob(m) \notin failed \cup dropped
  BY <1>6, <1>8, <1>9
<1>11. ~Hit(m)
  BY <1>6, <1>9
<1>12. NodeJob(m) \notin created
  <2>1. created \subseteq completed \cup dropped \cup FlowPlaces /\ Letters \subseteq failed
    BY InvHas DEF FirstLife
  <2>2. FlowPlaces = Letters
    BY InvHas DEF AtRest
  <2> QED  BY <1>7, <1>10, <2>1, <2>2
<1>13. m \in S
  BY <1>8, <1>11, <1>12
<1> QED  BY <1>5, <1>7, <1>13

\* The invariant implies all the properties of a state.
LEMMA InvIsSound ==
  ASSUME FlowInv
  PROVE  FlowsSound
<1>1. FlowTypeOK /\ OnePlace
  BY InvHas
<1>2. NoJobLost
  BY InvHas DEF NoJobLost, FirstLife
<1>3. FailedChainStaysOver
  BY InvHas DEF FailedChainStaysOver, ChainsOK
<1>4. ChainsEndAtRest
  <2>1. ASSUME AtRest, crashes = 0, NEW f \in Chains, chainMap[f] # 0
        PROVE  \E s \in 1 .. Steps : <<f, s>> \in dropped
    <3>1. <<f, chainMap[f]>> \in Busy \cup dropped
      BY <2>1, InvHas DEF FirstLife
    <3>2. Busy = {}
      BY <2>1, InvHas DEF AtRest
    <3>3. chainMap[f] \in 1 .. Steps
      <4>1. chainMap[f] \in 0 .. Steps
        BY <1>1 DEF FlowTypeOK
      <4> QED  BY <2>1, <4>1, JobsAre
    <3> QED  BY <3>1, <3>2, <3>3
  <2> QED  BY <2>1 DEF ChainsEndAtRest
<1>5. NodesRunAtRest
  BY AllNodesRun
<1>6. ReadyNodesRunAtRest
  <2>1. ASSUME AtRest, crashes = 0, NEW n \in Accepted,
               {NodeJob(m) : m \in Deps(n)} \subseteq completed, NodeJob(n) \notin created
        PROVE  FALSE
    <3>1. \A m \in Deps(n) : NodeJob(m) \in completed
      BY <2>1
    <3> QED  BY <2>1, <3>1, WaitsAtRest
  <2> QED  BY <2>1 DEF ReadyNodesRunAtRest
<1> QED  BY <1>1, <1>2, <1>3, <1>4, <1>5, <1>6 DEF FlowsSound

-----------------------------------------------------------------------------
\* FlowController and DeadLetterQueue, whatever calls, failures, purges, snapshots and
\* restarts overlap: a job is in one place unless a snapshot brought it back, and until
\* the first restart none is lost, a failed chain stays over, and a queue at rest has
\* ended every chain and run every node.
THEOREM FlowsAreSound == FlowSpec => []FlowsSound
<1>1. FlowInit => FlowInv /\ CopiesOK
  BY InvHolds
<1>2. FlowInv /\ CopiesOK /\ [FlowNext]_flowVars => FlowInv' /\ CopiesOK'
  BY FlowStepKeeps, FlowStutterKeeps, CopiesKeep
<1>3. FlowInv => FlowsSound
  BY InvIsSound
<1> QED  BY <1>1, <1>2, <1>3, PTL DEF FlowSpec

\* A step or node is created only after what it waits for completed, and, but for a
\* chain's step after a second restart, once; if no snapshot brought a job of its flow
\* back.
THEOREM FlowsAreOrdered == FlowSpec => FlowOrder
<1>1. FlowInit => FlowInv /\ CopiesOK
  BY InvHolds
<1>2. FlowInv /\ CopiesOK /\ [FlowNext]_flowVars => FlowInv' /\ CopiesOK'
  BY FlowStepKeeps, FlowStutterKeeps, CopiesKeep
<1>3. FlowInv /\ CopiesOK /\ [FlowNext]_flowVars =>
        [\A j \in created' \ created :
           ~Again(Flow(j)) => Before(j) \subseteq completed']_flowVars
  BY FlowStepKeeps DEF Ordered
<1>4. FlowInv /\ CopiesOK /\ [FlowNext]_flowVars =>
        [\A j \in queue' \ queue :
           j \in created /\ (crashes <= 1 \/ Flow(j) \in Nodes) /\ ~Again(Flow(j))' =>
             attempts'[j] > attempts[j] \/ \E r \in Retriers : j \in retrying[r].hold]_flowVars
  BY FlowStepKeeps DEF Ordered
<1>5. FlowSpec => NothingBeforeItsTime
  BY <1>1, <1>2, <1>3, PTL DEF FlowSpec, NothingBeforeItsTime
<1>6. FlowSpec => NothingCreatedTwice
  BY <1>1, <1>2, <1>4, PTL DEF FlowSpec, NothingCreatedTwice
<1> QED  BY <1>5, <1>6 DEF FlowOrder

-----------------------------------------------------------------------------
(***************************************************************************)
(* Ipc.                                                                    *)
(***************************************************************************)

-----------------------------------------------------------------------------
(* The inductive invariant                                                 *)

Waiting(c) == {i \in Ids : entryOf[i] = c /\ at[i] = "waiting"}

\* q lists every element of W, once.
Lists(q, W) ==
  /\ \A m, n \in 1 .. Len(q) : q[m] = q[n] => m = n
  /\ {q[n] : n \in 1 .. Len(q)} = W
  /\ Len(q) = Cardinality(W)

\* The slots of an entry that nothing has reset are the calls that hold one.
Counted(c) ==
  /\ Cardinality(Holders(c)) = inflight[c]
  /\ inflight[c] <= MaxConcurrentPerShard
  /\ waitQueue[c] # <<>> => inflight[c] = MaxConcurrentPerShard

NoLeak(c) ==
  /\ inflight[c] <= Cardinality(Holders(c))
  /\ waitQueue[c] # <<>> => Holders(c) # {}

\* Of an entry that no key leads to any more, though none replaced it: it was reset,
\* and nobody waits for what its last answers give back.
Gone(c) == c \in reset /\ inflight[c] <= 0 /\ waitQueue[c] = <<>>

Entry(c) ==
  /\ Lists(waitQueue[c], Waiting(c))
  /\ c \in Registered \ (reset \cup replaced) => Counted(c)
  /\ c \in Registered \ replaced => NoLeak(c)
  /\ c \in Registered \ replaced /\ shards[keyOf[c]] # c => Gone(c)
  /\ c \notin Registered => inflight[c] = 0 /\ waitQueue[c] = <<>>

EntriesOK == \A c \in Children : Entry(c)

\* A key leads to a child registered under it.
KeysOK ==
  /\ \A k \in Keys : shards[k] # NoChild => keyOf[shards[k]] = k
  /\ connected \subseteq Registered
  /\ replaced \subseteq Registered /\ reset \subseteq Registered

\* A call that is under way looked up an entry.  A send that failed is still pending,
\* or was rejected by what also reset its entry.
CallsOK ==
  /\ \A i \in Ids : IF at[i] = "idle" THEN entryOf[i] = NoChild
                    ELSE entryOf[i] \in Registered
  /\ \A i \in sendErrors :
       \/ at[i] = "pending"
       \/ at[i] = "rejected" /\ entryOf[i] \in reset \cup replaced

\* An answer that a job was taken comes from the queue that took it.
RepliesOK ==
  \A c \in Children, i \in Calls : <<c, i, TRUE>> \in replies => i \in accepted

IInv ==
  TypeOK /\ KeysOK /\ CallsOK /\ EntriesOK /\ RepliesOK /\ AnswersSound

-----------------------------------------------------------------------------
(* Queues and finite sets                                                  *)

LEMMA Joins ==
  ASSUME NEW T, NEW q \in Seq(T), NEW W, IsFiniteSet(W), Lists(q, W),
         NEW x \in T, x \notin W
  PROVE  Append(q, x) \in Seq(T) /\ Lists(Append(q, x), W \cup {x})
<1> DEFINE r == Append(q, x)
<1>1. /\ r \in Seq(T) /\ Len(q) \in Nat /\ Len(r) = Len(q) + 1
      /\ \A n \in 1 .. Len(q) : r[n] = q[n] /\ r[n] \in W
      /\ r[Len(q) + 1] = x
  BY LenProperties, AppendProperties DEF Lists
<1> HIDE DEF r
<1>2. \A m, n \in 1 .. Len(r) : r[m] = r[n] => m = n
  <2> SUFFICES ASSUME NEW m \in 1 .. Len(r), NEW n \in 1 .. Len(r), r[m] = r[n]
               PROVE  m = n
    OBVIOUS
  <2>1. m \in 1 .. Len(q) \/ m = Len(q) + 1
    BY <1>1
  <2>2. n \in 1 .. Len(q) \/ n = Len(q) + 1
    BY <1>1
  <2> QED  BY <1>1, <2>1, <2>2 DEF Lists
<1>3. {r[n] : n \in 1 .. Len(r)} = W \cup {x}
  <2>1. ASSUME NEW y \in W \cup {x} PROVE \E n \in 1 .. Len(r) : r[n] = y
    <3>1. CASE y = x
      BY <1>1, <3>1
    <3>2. CASE y \in W
      <4>1. PICK n \in 1 .. Len(q) : q[n] = y
        BY <3>2 DEF Lists
      <4> QED  BY <1>1, <4>1
    <3> QED  BY <3>1, <3>2
  <2>2. ASSUME NEW n \in 1 .. Len(r) PROVE r[n] \in W \cup {x}
    <3>1. n \in 1 .. Len(q) \/ n = Len(q) + 1
      BY <1>1
    <3> QED  BY <1>1, <3>1
  <2> QED  BY <2>1, <2>2
<1>4. Cardinality(W \cup {x}) = Cardinality(W) + 1
  BY FS_AddElement
<1> QED  BY <1>1, <1>2, <1>3, <1>4 DEF Lists, r

LEMMA Leaves ==
  ASSUME NEW T, NEW q \in Seq(T), NEW W, IsFiniteSet(W), Lists(q, W), q # <<>>
  PROVE  Head(q) \in W /\ Tail(q) \in Seq(T) /\ Lists(Tail(q), W \ {Head(q)})
<1> DEFINE r == Tail(q)
           h == Head(q)
<1>1. /\ r \in Seq(T) /\ Len(q) \in Nat \ {0} /\ Len(r) = Len(q) - 1
      /\ \A n \in 1 .. Len(r) : r[n] = q[n + 1]
      /\ h = q[1]
  BY LenProperties, EmptySeq, HeadTailProperties
<1> HIDE DEF r, h
<1>2. h \in W
  BY <1>1 DEF Lists
<1>3. \A m, n \in 1 .. Len(r) : r[m] = r[n] => m = n
  BY <1>1 DEF Lists
<1>4. {r[n] : n \in 1 .. Len(r)} = W \ {h}
  <2>1. ASSUME NEW y \in W \ {h} PROVE \E n \in 1 .. Len(r) : r[n] = y
    <3>1. PICK n \in 1 .. Len(q) : q[n] = y
      BY DEF Lists
    <3>2. n # 1 /\ n - 1 \in 1 .. Len(r) /\ (n - 1) + 1 = n
      BY <1>1, <3>1
    <3>3. r[n - 1] = q[(n - 1) + 1]
      BY <1>1, <3>2
    <3> QED  BY <3>1, <3>2, <3>3
  <2>2. ASSUME NEW n \in 1 .. Len(r) PROVE r[n] \in W \ {h}
    <3>1. n + 1 \in 1 .. Len(q) /\ r[n] = q[n + 1] /\ n + 1 # 1 /\ 1 \in 1 .. Len(q)
      BY <1>1
    <3> QED  BY <1>1, <3>1 DEF Lists
  <2> QED  BY <2>1, <2>2
<1>5. Cardinality(W \ {h}) = Cardinality(W) - 1
  BY <1>2, FS_RemoveElement
<1> QED  BY <1>1, <1>2, <1>3, <1>4, <1>5 DEF Lists, r, h

LEMMA ListsNobody == Lists(<<>>, {})
<1>1. Len(<<>>) = 0 /\ Cardinality({}) = 0
  BY EmptySeq, FS_EmptySet
<1> QED  BY <1>1 DEF Lists

\* The calls of an entry are finitely many.
LEMMA Finite ==
  ASSUME TypeOK, NEW c
  PROVE  /\ IsFiniteSet(Waiting(c))
         /\ IsFiniteSet(Holders(c)) /\ Cardinality(Holders(c)) \in Nat
<1>1. IsFiniteSet(Ids)
  BY IpcAssumption, FS_Union DEF Ids
<1>2. Waiting(c) \subseteq Ids /\ Holders(c) \subseteq Ids
  BY DEF Waiting, Holders
<1> QED  BY <1>1, <1>2, FS_Subset, FS_CardinalityType

-----------------------------------------------------------------------------
(* What a step does to an entry                                            *)

\* An entry whose calls, counter and queue are left alone.
LEMMA EntryStays ==
  ASSUME NEW c \in Children, Entry(c), keyOf'[c] = keyOf[c],
         reset \subseteq reset', replaced \subseteq replaced',
         c \in Registered \ replaced' /\ shards'[keyOf[c]] # c =>
           shards[keyOf[c]] # c,
         inflight'[c] = inflight[c], waitQueue'[c] = waitQueue[c],
         {i \in Ids : entryOf'[i] = c /\ at'[i] \in {"granted", "pending"}} = Holders(c),
         {i \in Ids : entryOf'[i] = c /\ at'[i] = "waiting"} = Waiting(c)
  PROVE  Entry(c)'
<1>1. Holders(c)' = Holders(c) /\ Waiting(c)' = Waiting(c)
  BY DEF Holders, Waiting
<1>2. c \in Registered' <=> c \in Registered
  BY DEF Registered
<1> QED  BY <1>1, <1>2 DEF Entry, Counted, NoLeak, Gone

\* A call ends and its slot goes to the next waiter, or back to the counter.
LEMMA Releases ==
  ASSUME TypeOK, CallsOK, EntriesOK, NEW i \in Ids, NEW outcome \in Settled,
         ReleaseSlot(i, outcome),
         at[i] \in {"granted", "pending"} \/ i \in sendErrors,
         UNCHANGED <<shards, keyOf, entryOf, replaced, reset>>
  PROVE  /\ at' \in [Ids -> CallStates] /\ inflight' \in [Children -> Int]
         /\ waitQueue' \in [Children -> Seq(Ids)]
         /\ EntriesOK'
         /\ at'[i] = outcome
         /\ \A j \in Ids \ {i} :
              \/ at'[j] = at[j]
              \/ at[j] = "waiting" /\ at'[j] = "granted"
<1> DEFINE c == entryOf[i]
           ended == [at EXCEPT ![i] = outcome]
           h == Head(waitQueue[c])
<1>1. /\ c \in Registered /\ c \in Children /\ at[i] \notin {"waiting", "idle"}
      /\ \/ i \in Holders(c)
         \/ at[i] = "rejected" /\ c \in reset \cup replaced
  <2>1. at[i] \in {"granted", "pending", "rejected"}
    BY DEF CallsOK
  <2>2. c \in Registered
    BY <2>1 DEF CallsOK
  <2>3. CASE at[i] \in {"granted", "pending"}
    BY <2>2, <2>3 DEF Registered, Holders
  <2>4. CASE at[i] = "rejected"
    BY <2>2, <2>4 DEF CallsOK, Registered
  <2> QED  BY <2>1, <2>3, <2>4
<1>2. /\ outcome \in CallStates /\ outcome \notin {"waiting", "granted", "pending"}
      /\ ended \in [Ids -> CallStates] /\ ended[i] = outcome
      /\ \A j \in Ids \ {i} : ended[j] = at[j]
  BY DEF TypeOK, CallStates, Settled
<1>3. /\ at \in [Ids -> CallStates] /\ inflight \in [Children -> Int]
      /\ waitQueue \in [Children -> Seq(Ids)]
  BY DEF TypeOK
<1>4. /\ IsFiniteSet(Waiting(c)) /\ IsFiniteSet(Holders(c))
      /\ Cardinality(Holders(c)) \in Nat
  BY Finite
<1>5. Entry(c)
  BY <1>1 DEF EntriesOK
<1>6. CASE waitQueue[c] # <<>>
  <2>1. /\ at' = [ended EXCEPT ![h] = "granted"]
        /\ waitQueue' = [waitQueue EXCEPT ![c] = Tail(waitQueue[c])]
        /\ inflight' = inflight
    BY <1>6 DEF ReleaseSlot
  <2>2. /\ h \in Waiting(c) /\ Tail(waitQueue[c]) \in Seq(Ids)
        /\ Lists(Tail(waitQueue[c]), Waiting(c) \ {h})
    BY <1>1, <1>3, <1>4, <1>5, <1>6, Leaves DEF Entry
  <2> HIDE DEF ended, h
  <2>3. h \in Ids /\ h # i /\ entryOf[h] = c /\ at[h] = "waiting"
    BY <1>1, <2>2 DEF Waiting
  <2>4. /\ at' \in [Ids -> CallStates] /\ at'[i] = outcome /\ at'[h] = "granted"
        /\ \A j \in Ids \ {i, h} : at'[j] = at[j]
    BY <1>2, <2>1, <2>3 DEF CallStates
  <2>5. waitQueue' \in [Children -> Seq(Ids)] /\ waitQueue'[c] = Tail(waitQueue[c])
    BY <1>1, <1>3, <2>1, <2>2
  <2>6. Waiting(c)' = Waiting(c) \ {h} /\ Holders(c)' = (Holders(c) \ {i}) \cup {h}
    BY <1>1, <1>2, <2>3, <2>4 DEF Waiting, Holders
  <2>7. h \notin Holders(c)
    BY <2>3 DEF Holders
  <2>8. /\ i \in Holders(c) => Cardinality(Holders(c)') = Cardinality(Holders(c))
        /\ i \notin Holders(c) => Cardinality(Holders(c)') = Cardinality(Holders(c)) + 1
    <3>1. CASE i \in Holders(c)
      <4> DEFINE rest == Holders(c) \ {i}
      <4>1. IsFiniteSet(rest) /\ Cardinality(rest) = Cardinality(Holders(c)) - 1
        BY <1>4, <3>1, FS_RemoveElement
      <4>2. h \notin rest
        BY <2>7
      <4> HIDE DEF rest
      <4>3. Cardinality(rest \cup {h}) = Cardinality(rest) + 1
        BY <4>1, <4>2, FS_AddElement
      <4>4. Holders(c)' = rest \cup {h}
        BY <2>6 DEF rest
      <4>5. Cardinality(Holders(c)') = Cardinality(rest \cup {h})
        BY <4>4, Zenon
      <4> QED  BY <1>4, <3>1, <4>1, <4>3, <4>5
    <3>2. CASE i \notin Holders(c)
      <4>1. Holders(c)' = Holders(c) \cup {h}
        BY <2>6, <3>2
      <4>2. Cardinality(Holders(c) \cup {h}) = Cardinality(Holders(c)) + 1
        BY <1>4, <2>7, FS_AddElement
      <4>3. Cardinality(Holders(c)') = Cardinality(Holders(c) \cup {h})
        BY <4>1, Zenon
      <4> QED  BY <3>2, <4>2, <4>3
    <3> QED  BY <3>1, <3>2
  <2>9. Entry(c)'
    <3>1. Lists(waitQueue'[c], Waiting(c)')
      BY <2>2, <2>5, <2>6
    <3>2. Registered' = Registered /\ inflight'[c] = inflight[c]
      BY <2>1 DEF Registered
    <3>3. Holders(c)' # {}
      BY <2>6
    <3>4. c \in Registered \ (reset \cup replaced) => Counted(c)'
      BY <1>1, <1>5, <1>6, <2>8, <3>2 DEF Entry, Counted
    <3>5. c \in Registered \ replaced => NoLeak(c)'
      BY <1>3, <1>4, <1>1, <1>5, <2>8, <3>2, <3>3 DEF Entry, NoLeak
    <3>6. ~(c \in Registered \ replaced /\ shards[keyOf[c]] # c)
      BY <1>5, <1>6 DEF Entry, Gone
    <3> QED  BY <1>1, <3>1, <3>2, <3>4, <3>5, <3>6 DEF Entry
  <2>10. ASSUME NEW d \in Children, d # c PROVE Entry(d)'
    <3>1. Entry(d) /\ inflight'[d] = inflight[d] /\ waitQueue'[d] = waitQueue[d]
      BY <1>3, <2>1, <2>10 DEF EntriesOK
    <3>2. \A j \in Ids : entryOf[j] = d => at'[j] = at[j]
      BY <2>3, <2>4, <2>10
    <3> QED  BY <2>10, <3>1, <3>2, EntryStays DEF Holders, Waiting
  <2>11. EntriesOK'
    BY <2>9, <2>10 DEF EntriesOK
  <2> QED  BY <2>1, <1>3, <2>3, <2>4, <2>5, <2>11
<1>7. CASE waitQueue[c] = <<>>
  <2>1. /\ at' = ended /\ waitQueue' = waitQueue
        /\ inflight' = [inflight EXCEPT ![c] = @ - 1]
    BY <1>7 DEF ReleaseSlot
  <2> HIDE DEF ended
  <2>2. /\ inflight' \in [Children -> Int] /\ inflight'[c] = inflight[c] - 1
        /\ inflight[c] \in Int
    BY <1>1, <1>3, <2>1
  <2>3. Waiting(c)' = Waiting(c) /\ Holders(c)' = Holders(c) \ {i}
    BY <1>1, <1>2, <2>1 DEF Waiting, Holders
  <2>4. /\ i \in Holders(c) => Cardinality(Holders(c)') = Cardinality(Holders(c)) - 1
        /\ i \notin Holders(c) => Cardinality(Holders(c)') = Cardinality(Holders(c))
    <3>1. Cardinality(Holders(c)') = Cardinality(Holders(c) \ {i})
      BY <2>3, Zenon
    <3>2. CASE i \in Holders(c)
      <4>1. Cardinality(Holders(c) \ {i}) = Cardinality(Holders(c)) - 1
        BY <1>4, <3>2, FS_RemoveElement
      <4> QED  BY <3>1, <3>2, <4>1
    <3>3. CASE i \notin Holders(c)
      <4>1. Holders(c) \ {i} = Holders(c)
        BY <3>3
      <4> QED  BY <3>1, <3>3, <4>1
    <3> QED  BY <3>2, <3>3
  <2>5. Entry(c)'
    <3>1. Registered' = Registered
      BY DEF Registered
    <3>2. Lists(waitQueue'[c], Waiting(c)')
      BY <1>5, <2>1, <2>3 DEF Entry
    <3>3. c \in Registered \ (reset \cup replaced) => Counted(c)'
      BY <1>1, <1>4, <1>5, <1>7, <2>1, <2>2, <2>4, IpcAssumption DEF Entry, Counted
    <3>4. c \in Registered \ replaced => NoLeak(c)'
      BY <1>4, <1>5, <1>7, <2>1, <2>2, <2>4 DEF Entry, NoLeak
    <3>5. c \in Registered \ replaced /\ shards[keyOf[c]] # c => Gone(c)'
      BY <1>5, <2>1, <2>2 DEF Entry, Gone
    <3> QED  BY <1>1, <3>1, <3>2, <3>3, <3>4, <3>5 DEF Entry
  <2>6. ASSUME NEW d \in Children, d # c PROVE Entry(d)'
    <3>1. Entry(d) /\ inflight'[d] = inflight[d] /\ waitQueue'[d] = waitQueue[d]
      BY <1>3, <2>1, <2>6 DEF EntriesOK
    <3>2. \A j \in Ids : entryOf[j] = d => at'[j] = at[j]
      BY <1>2, <2>1, <2>6
    <3> QED  BY <2>6, <3>1, <3>2, EntryStays DEF Holders, Waiting
  <2>7. EntriesOK'
    BY <2>5, <2>6 DEF EntriesOK
  <2> QED  BY <1>2, <1>3, <2>1, <2>2, <2>7
<1> QED  BY <1>6, <1>7

\* Calls that were idle ask their entries, each its own, for a slot.
LEMMA Acquires ==
  ASSUME TypeOK, EntriesOK, NEW S \in SUBSET Ids, NEW entry,
         \A i \in S : /\ at[i] = "idle" /\ entry[i] \in Registered
                      /\ shards[keyOf[entry[i]]] = entry[i],
         \A i, j \in S : entry[i] = entry[j] => i = j,
         \A i \in Ids : at[i] = "idle" => entryOf[i] = NoChild,
         AcquireSlots(S, entry),
         UNCHANGED <<shards, keyOf, replaced, reset>>
  PROVE  /\ at' \in [Ids -> CallStates] /\ inflight' \in [Children -> Int]
         /\ waitQueue' \in [Children -> Seq(Ids)]
         /\ entryOf' \in [Ids -> Children \cup {NoChild}]
         /\ EntriesOK'
         /\ \A i \in S : at'[i] \in {"waiting", "granted"} /\ entryOf'[i] = entry[i]
         /\ \A i \in Ids \ S : at'[i] = at[i] /\ entryOf'[i] = entryOf[i]
<1> DEFINE full(c) == inflight[c] >= MaxConcurrentPerShard
           asked == {entry[i] : i \in S}
           of(c) == CHOOSE i \in S : entry[i] = c
<1>1. /\ at' = [i \in Ids |-> IF i \notin S THEN at[i]
                              ELSE IF full(entry[i]) THEN "waiting" ELSE "granted"]
      /\ entryOf' = [i \in Ids |-> IF i \in S THEN entry[i] ELSE entryOf[i]]
      /\ inflight' = [c \in Children |->
                        inflight[c] + (IF c \in asked /\ ~full(c) THEN 1 ELSE 0)]
      /\ waitQueue' = [c \in Children |->
                         IF c \in asked /\ full(c) THEN Append(waitQueue[c], of(c))
                         ELSE waitQueue[c]]
  BY DEF AcquireSlots
<1>2. /\ at \in [Ids -> CallStates] /\ inflight \in [Children -> Int]
      /\ waitQueue \in [Children -> Seq(Ids)]
      /\ entryOf \in [Ids -> Children \cup {NoChild}]
  BY DEF TypeOK
<1>3. \A i \in S : i \in Ids /\ entry[i] \in Children /\ of(entry[i]) = i
  BY DEF Registered
<1>4. asked \subseteq Registered /\ \A c \in asked : of(c) \in S /\ entry[of(c)] = c
  OBVIOUS
<1> HIDE DEF full, asked, of
<1>5. /\ at' \in [Ids -> CallStates] /\ inflight' \in [Children -> Int]
      /\ entryOf' \in [Ids -> Children \cup {NoChild}]
  BY <1>1, <1>2, <1>3 DEF CallStates
<1>6. waitQueue' \in [Children -> Seq(Ids)]
  <2>1. ASSUME NEW c \in Children, c \in asked
        PROVE  Append(waitQueue[c], of(c)) \in Seq(Ids)
    BY <1>2, <1>4, <2>1, AppendProperties
  <2> QED  BY <1>1, <1>2, <2>1
<1>7. /\ \A i \in S : at'[i] \in {"waiting", "granted"} /\ entryOf'[i] = entry[i]
      /\ \A i \in Ids \ S : at'[i] = at[i] /\ entryOf'[i] = entryOf[i]
  BY <1>1
<1>8. ASSUME NEW c \in Children, c \notin asked PROVE Entry(c)'
  <2>1. /\ Entry(c) /\ inflight'[c] = inflight[c] /\ waitQueue'[c] = waitQueue[c]
    BY <1>1, <1>2, <1>8 DEF EntriesOK
  <2>2. \A i \in S : entryOf'[i] # c /\ entryOf[i] # c
    BY <1>3, <1>7, <1>8, IpcAssumption DEF asked
  <2>3. /\ {i \in Ids : entryOf'[i] = c /\ at'[i] \in {"granted", "pending"}} = Holders(c)
        /\ {i \in Ids : entryOf'[i] = c /\ at'[i] = "waiting"} = Waiting(c)
    BY <1>7, <2>2 DEF Holders, Waiting
  <2> QED  BY <2>1, <2>3, EntryStays
<1>9. ASSUME NEW c \in Children, c \in asked PROVE Entry(c)'
  <2> DEFINE i == of(c)
  <2>1. /\ i \in S /\ i \in Ids /\ entry[i] = c /\ at[i] = "idle" /\ entryOf'[i] = c
        /\ \A j \in S : entry[j] = c => j = i
        /\ c \in Registered /\ shards[keyOf[c]] = c
    BY <1>3, <1>4, <1>7, <1>9
  <2>2. Registered' = Registered /\ Entry(c) /\ inflight[c] \in Int
    BY <1>2 DEF Registered, EntriesOK
  <2>3. /\ IsFiniteSet(Waiting(c)) /\ IsFiniteSet(Holders(c))
        /\ Cardinality(Holders(c)) \in Nat
    BY Finite
  <2>4. i \notin Waiting(c) /\ i \notin Holders(c)
    BY <2>1 DEF Waiting, Holders
  <2>5. \A j \in Ids \ {i} : entryOf'[j] = c => /\ entryOf[j] = c /\ at'[j] = at[j]
    BY <1>3, <1>7, <2>1
  <2>6. \A j \in Ids \ {i} : entryOf[j] = c => entryOf'[j] = c
    BY <1>3, <1>7, <2>1, IpcAssumption
  <2> HIDE DEF i
  <2>7. CASE full(c)
    <3>1. /\ at'[i] = "waiting" /\ inflight'[c] = inflight[c]
          /\ waitQueue'[c] = Append(waitQueue[c], i)
      BY <1>1, <1>9, <2>1, <2>2, <2>7 DEF i
    <3>2. Waiting(c)' = Waiting(c) \cup {i} /\ Holders(c)' = Holders(c)
      BY <2>1, <2>5, <2>6, <3>1 DEF Waiting, Holders
    <3>3. Lists(waitQueue'[c], Waiting(c)')
      BY <1>2, <2>1, <2>2, <2>3, <2>4, <3>1, <3>2, Joins DEF Entry
    <3>4. c \notin reset \cup replaced => Counted(c)'
      BY <2>1, <2>2, <2>7, <3>1, <3>2, IpcAssumption DEF Entry, Counted, full
    <3>5. c \notin replaced => NoLeak(c)'
      <4>1. Cardinality({}) = 0
        BY FS_EmptySet
      <4>2. c \notin replaced => Cardinality(Holders(c)) >= 1
        BY <2>1, <2>2, <2>3, <2>7, IpcAssumption DEF Entry, NoLeak, full
      <4>3. c \notin replaced => Holders(c) # {}
        BY <4>1, <4>2
      <4> QED  BY <2>1, <2>2, <3>1, <3>2, <4>3 DEF Entry, NoLeak
    <3> QED  BY <2>1, <2>2, <3>3, <3>4, <3>5 DEF Entry
  <2>8. CASE ~full(c)
    <3>1. /\ at'[i] = "granted" /\ inflight'[c] = inflight[c] + 1
          /\ waitQueue'[c] = waitQueue[c]
      BY <1>1, <1>9, <2>1, <2>2, <2>8 DEF i
    <3>2. Waiting(c)' = Waiting(c) /\ Holders(c)' = Holders(c) \cup {i}
      BY <2>1, <2>5, <2>6, <3>1 DEF Waiting, Holders
    <3>3. Cardinality(Holders(c) \cup {i}) = Cardinality(Holders(c)) + 1
      BY <2>3, <2>4, FS_AddElement
    <3>4. Cardinality(Holders(c)') = Cardinality(Holders(c)) + 1 /\ Holders(c)' # {}
      BY <3>2, <3>3
    <3>5. Lists(waitQueue'[c], Waiting(c)')
      BY <2>2, <3>1, <3>2 DEF Entry
    <3>6. c \notin reset \cup replaced => Counted(c)'
      BY <2>1, <2>2, <2>8, <3>1, <3>4, IpcAssumption DEF Entry, Counted, full
    <3>7. c \notin replaced => NoLeak(c)'
      BY <2>1, <2>2, <2>3, <3>1, <3>4 DEF Entry, NoLeak
    <3> QED  BY <2>1, <2>2, <3>5, <3>6, <3>7 DEF Entry
  <2> QED  BY <2>7, <2>8
<1>10. EntriesOK'
  BY <1>8, <1>9 DEF EntriesOK
<1> QED  BY <1>5, <1>6, <1>7, <1>10

\* _rejectShardPending: every entry ever registered under the key loses the requests
\* pending on it, only the one the key leads to now loses its counter and its queue.
LEMMA Rejects ==
  ASSUME TypeOK, KeysOK, CallsOK, EntriesOK, NEW k \in Keys, RejectShardPending(k),
         UNCHANGED <<keyOf, entryOf, replaced>>,
         shards' = shards \/ shards' = [shards EXCEPT ![k] = NoChild]
  PROVE  /\ at' \in [Ids -> CallStates] /\ inflight' \in [Children -> Int]
         /\ waitQueue' \in [Children -> Seq(Ids)]
         /\ reset \subseteq reset' /\ reset' \subseteq Registered
         /\ EntriesOK'
         /\ \A i \in Ids :
              \/ /\ at[i] = "pending" /\ keyOf[entryOf[i]] = k /\ at'[i] = "rejected"
                 /\ entryOf[i] \in reset' \cup replaced
              \/ at[i] = "pending" /\ keyOf[entryOf[i]] # k /\ at'[i] = "pending"
              \/ at[i] = "waiting" /\ at'[i] \in {"waiting", "granted"}
              \/ at[i] \notin {"pending", "waiting"} /\ at'[i] = at[i]
<1> DEFINE c == shards[k]
           woken == IF c = NoChild THEN {}
                    ELSE {waitQueue[c][n] : n \in 1 .. Len(waitQueue[c])}
<1>1. /\ at' = [i \in Ids |->
                  IF at[i] = "pending" /\ keyOf[entryOf[i]] = k THEN "rejected"
                  ELSE IF i \in woken THEN "granted" ELSE at[i]]
      /\ inflight' = [e \in Children |-> IF e = c THEN 0 ELSE inflight[e]]
      /\ waitQueue' = [e \in Children |-> IF e = c THEN <<>> ELSE waitQueue[e]]
      /\ reset' = reset \cup ({c} \ {NoChild})
  BY DEF RejectShardPending
<1>2. /\ at \in [Ids -> CallStates] /\ inflight \in [Children -> Int]
      /\ waitQueue \in [Children -> Seq(Ids)]
      /\ shards \in [Keys -> Children \cup {NoChild}]
      /\ entryOf \in [Ids -> Children \cup {NoChild}]
      /\ keyOf \in [Children -> Keys \cup {NoChild}]
  BY DEF TypeOK
<1>3. /\ c \in Children \cup {NoChild}
      /\ c # NoChild => c \in Registered /\ keyOf[c] = k
  BY <1>2 DEF KeysOK, Registered
<1>4. woken = IF c = NoChild THEN {} ELSE Waiting(c)
  BY <1>3 DEF EntriesOK, Entry, Lists, Registered
<1> HIDE DEF c, woken
<1>5. Registered' = Registered
  BY DEF Registered
<1>6. \A i \in woken : at[i] = "waiting" /\ entryOf[i] = c /\ c # NoChild
  BY <1>4 DEF Waiting
<1>7. /\ at' \in [Ids -> CallStates] /\ inflight' \in [Children -> Int]
      /\ waitQueue' \in [Children -> Seq(Ids)]
      /\ reset \subseteq reset' /\ reset' \subseteq Registered
  <2>1. <<>> \in Seq(Ids)
    BY EmptySeq
  <2>2. waitQueue' \in [Children -> Seq(Ids)]
    BY <1>1, <1>2, <2>1
  <2>3. at' \in [Ids -> CallStates] /\ inflight' \in [Children -> Int]
    BY <1>1, <1>2 DEF CallStates, Settled
  <2>4. reset \subseteq reset' /\ reset' \subseteq Registered
    BY <1>1, <1>3 DEF KeysOK
  <2> QED  BY <2>2, <2>3, <2>4
\* An entry under the key that the key does not lead to was replaced or is gone.
<1>8. \A d \in Registered : keyOf[d] = k /\ d # c => d \in replaced \/ Gone(d)
  BY DEF EntriesOK, Entry, Registered, c
<1>9. ASSUME NEW i \in Ids
      PROVE  \/ /\ at[i] = "pending" /\ keyOf[entryOf[i]] = k /\ at'[i] = "rejected"
                /\ entryOf[i] \in reset' \cup replaced
             \/ at[i] = "pending" /\ keyOf[entryOf[i]] # k /\ at'[i] = "pending"
             \/ at[i] = "waiting" /\ at'[i] \in {"waiting", "granted"}
             \/ at[i] \notin {"pending", "waiting"} /\ at'[i] = at[i]
  <2>1. CASE at[i] = "pending" /\ keyOf[entryOf[i]] = k
    <3>1. at'[i] = "rejected" /\ entryOf[i] \in Registered
      BY <1>1, <2>1 DEF CallsOK
    <3>2. entryOf[i] = c => c \in reset'
      BY <1>1, <3>1, IpcAssumption DEF Registered
    <3>3. entryOf[i] # c => entryOf[i] \in reset \cup replaced
      BY <1>8, <2>1, <3>1 DEF Gone
    <3> QED  BY <1>7, <2>1, <3>1, <3>2, <3>3
  <2>2. CASE at[i] = "pending" /\ keyOf[entryOf[i]] # k
    BY <1>1, <1>6, <2>2
  <2>3. CASE at[i] = "waiting"
    BY <1>1, <2>3
  <2>4. CASE at[i] \notin {"pending", "waiting"}
    BY <1>1, <1>6, <2>4
  <2> QED  BY <2>1, <2>2, <2>3, <2>4
<1>10. ASSUME NEW d \in Children PROVE Entry(d)'
  <2>1. Entry(d) /\ keyOf'[d] = keyOf[d]
    BY DEF EntriesOK
  <2>2. CASE d = c
    <3>1. inflight'[d] = 0 /\ waitQueue'[d] = <<>> /\ d \in reset' /\ d \in Registered
      BY <1>1, <1>3, <2>2, IpcAssumption
    <3>2. Waiting(d)' = {}
      <4>1. \A i \in Waiting(d) : at'[i] = "granted"
        BY <1>1, <1>4, <2>2, IpcAssumption DEF Waiting
      <4>2. \A i \in Ids : at'[i] = "waiting" => at[i] = "waiting"
        BY <1>9
      <4> QED  BY <4>1, <4>2 DEF Waiting
    <3>3. Cardinality(Holders(d)') \in Nat
      <4>1. IsFiniteSet(Ids)
        BY IpcAssumption, FS_Union DEF Ids
      <4>2. Holders(d)' \subseteq Ids
        BY DEF Holders
      <4> QED  BY <4>1, <4>2, FS_Subset, FS_CardinalityType
    <3>4. Lists(waitQueue'[d], Waiting(d)')
      BY <3>1, <3>2, ListsNobody
    <3> QED  BY <1>5, <3>1, <3>3, <3>4 DEF Entry, NoLeak, Gone
  <2>3. CASE d # c /\ keyOf[d] = k /\ d \in Registered
    <3>1. inflight'[d] = inflight[d] /\ waitQueue'[d] = waitQueue[d]
      BY <1>1, <1>2, <2>3
    <3>2. Waiting(d)' = Waiting(d)
      BY <1>1, <1>6, <2>3 DEF Waiting
    <3>3. Cardinality(Holders(d)') \in Nat
      <4>1. IsFiniteSet(Ids)
        BY IpcAssumption, FS_Union DEF Ids
      <4>2. Holders(d)' \subseteq Ids
        BY DEF Holders
      <4> QED  BY <4>1, <4>2, FS_Subset, FS_CardinalityType
    <3>4. d \in replaced \/ (Gone(d) /\ Gone(d)')
      BY <1>7, <1>8, <2>3, <3>1 DEF Gone
    <3>5. Lists(waitQueue'[d], Waiting(d)')
      BY <2>1, <3>1, <3>2 DEF Entry
    <3>6. Gone(d)' => d \in reset' /\ NoLeak(d)'
      BY <1>2, <3>1, <3>3 DEF Gone, NoLeak
    <3> QED  BY <1>5, <2>3, <3>4, <3>5, <3>6 DEF Entry
  <2>4. CASE d # c /\ (keyOf[d] # k \/ d \notin Registered)
    <3>1. inflight'[d] = inflight[d] /\ waitQueue'[d] = waitQueue[d]
      BY <1>1, <1>2, <2>4
    <3>2. keyOf[d] # k
      BY <2>4 DEF Registered
    <3>3. \A i \in Ids : entryOf[i] = d => at'[i] = at[i]
      BY <1>1, <1>6, <2>4, <3>2
    <3>4. shards'[keyOf[d]] # d /\ d \in Registered => shards[keyOf[d]] # d
      BY <1>2, <3>2 DEF Registered
    <3>5. /\ {i \in Ids : entryOf'[i] = d /\ at'[i] \in {"granted", "pending"}} = Holders(d)
          /\ {i \in Ids : entryOf'[i] = d /\ at'[i] = "waiting"} = Waiting(d)
      BY <3>3 DEF Holders, Waiting
    <3> QED  BY <1>7, <2>1, <3>1, <3>4, <3>5, EntryStays
  <2> QED  BY <2>2, <2>3, <2>4
<1>11. EntriesOK'
  BY <1>10 DEF EntriesOK
<1> QED  BY <1>7, <1>9, <1>11

-----------------------------------------------------------------------------
(* The invariant is inductive                                              *)

LEMMA InitKeeps == Init => IInv
<1> SUFFICES ASSUME Init PROVE IInv
  OBVIOUS
<1>1. TypeOK
  <2>1. <<>> \in Seq(Ids)
    BY EmptySeq
  <2>2. at \in [Ids -> CallStates] /\ waitQueue \in [Children -> Seq(Ids)]
    BY <2>1 DEF Init, CallStates
  <2>3. faults \in 0 .. MaxFaults
    BY IpcAssumption DEF Init
  <2>4. /\ shards \in [Keys -> Children \cup {NoChild}]
        /\ keyOf \in [Children -> Keys \cup {NoChild}]
        /\ inflight \in [Children -> Int]
        /\ entryOf \in [Ids -> Children \cup {NoChild}]
    BY DEF Init
  <2>5. /\ sendErrors \subseteq Ids
        /\ connected \subseteq Children /\ exited \subseteq Children
        /\ work \subseteq Children \X Ids
        /\ replies \subseteq Children \X Ids \X BOOLEAN
        /\ accepted \subseteq Calls /\ stopped \subseteq Children
        /\ replaced \subseteq Children /\ reset \subseteq Children
    BY DEF Init
  <2> QED  BY <2>2, <2>3, <2>4, <2>5 DEF TypeOK
<1>2. Registered = {}
  BY IpcAssumption DEF Init, Registered
<1>3. KeysOK /\ CallsOK /\ RepliesOK /\ AnswersSound
  BY DEF Init, KeysOK, CallsOK, RepliesOK, AnswersSound, ResolvedWasAccepted,
         NothingPendsOnClosed, Ids
<1>4. ASSUME NEW c \in Children PROVE Entry(c)
  <2>1. Waiting(c) = {} /\ waitQueue[c] = <<>> /\ inflight[c] = 0
    BY DEF Init, Waiting
  <2>2. Lists(waitQueue[c], Waiting(c))
    BY <2>1, ListsNobody
  <2> QED  BY <1>2, <2>1, <2>2 DEF Entry
<1> QED  BY <1>1, <1>3, <1>4 DEF IInv, EntriesOK

\* A step that ends a call, gives its slot back and does nothing else to the router.
LEMMA ReleaseKeeps ==
  ASSUME IInv, NEW i \in Ids, NEW outcome \in Settled, ReleaseSlot(i, outcome),
         at[i] \in {"granted", "pending"} \/ i \in sendErrors,
         outcome = "resolved" /\ i \in Calls => i \in accepted,
         sendErrors' \subseteq sendErrors, i \notin sendErrors',
         sendErrors \subseteq sendErrors' \cup {i},
         replies' \subseteq replies,
         UNCHANGED <<shards, keyOf, entryOf, connected, exited, work, accepted,
                     stopped, replaced, reset, faults>>
  PROVE  IInv'
<1> USE DEF IInv
<1>1. /\ at' \in [Ids -> CallStates] /\ inflight' \in [Children -> Int]
      /\ waitQueue' \in [Children -> Seq(Ids)]
      /\ EntriesOK'
      /\ at'[i] = outcome
      /\ \A j \in Ids \ {i} :
           \/ at'[j] = at[j]
           \/ at[j] = "waiting" /\ at'[j] = "granted"
  BY Releases
<1>2. TypeOK'
  BY <1>1 DEF TypeOK
<1>3. Registered' = Registered
  BY DEF Registered
<1>4. KeysOK' /\ RepliesOK'
  BY <1>3 DEF KeysOK, RepliesOK
<1>5. at[i] # "idle"
  BY DEF CallsOK
<1>6. CallsOK'
  <2>1. \A j \in Ids : at'[j] = "idle" <=> at[j] = "idle"
    BY <1>1, <1>5 DEF Settled
  <2>2. \A j \in sendErrors' : at'[j] = at[j]
    BY <1>1 DEF CallsOK, TypeOK
  <2> QED  BY <1>3, <2>1, <2>2 DEF CallsOK
<1>7. ResolvedWasAccepted'
  BY <1>1 DEF AnswersSound, ResolvedWasAccepted, Ids
<1>8. NothingPendsOnClosed'
  BY <1>1 DEF AnswersSound, NothingPendsOnClosed, Settled
<1> QED  BY <1>1, <1>2, <1>4, <1>6, <1>7, <1>8 DEF AnswersSound

\* A step that rejects what is pending under a key.
LEMMA RejectKeeps ==
  ASSUME IInv, NEW k \in Keys, RejectShardPending(k), Fault,
         shards' = shards \/ shards' = [shards EXCEPT ![k] = NoChild],
         connected' \subseteq connected,
         \A c \in connected \ connected' : keyOf[c] = k,
         exited' \subseteq Children, work' \subseteq work, replies' \subseteq replies,
         UNCHANGED <<keyOf, entryOf, sendErrors, accepted, stopped, replaced>>
  PROVE  IInv'
<1> USE DEF IInv
<1>1. /\ at' \in [Ids -> CallStates] /\ inflight' \in [Children -> Int]
      /\ waitQueue' \in [Children -> Seq(Ids)]
      /\ reset \subseteq reset' /\ reset' \subseteq Registered
      /\ EntriesOK'
      /\ \A i \in Ids :
           \/ /\ at[i] = "pending" /\ keyOf[entryOf[i]] = k /\ at'[i] = "rejected"
              /\ entryOf[i] \in reset' \cup replaced
           \/ at[i] = "pending" /\ keyOf[entryOf[i]] # k /\ at'[i] = "pending"
           \/ at[i] = "waiting" /\ at'[i] \in {"waiting", "granted"}
           \/ at[i] \notin {"pending", "waiting"} /\ at'[i] = at[i]
  BY Rejects
<1>2. Registered' = Registered /\ Registered \subseteq Children
  BY DEF Registered
<1>3. TypeOK'
  <2>1. faults' \in 0 .. MaxFaults
    BY IpcAssumption DEF Fault, TypeOK
  <2>2. shards' \in [Keys -> Children \cup {NoChild}]
    BY DEF TypeOK
  <2> QED  BY <1>1, <1>2, <2>1, <2>2 DEF TypeOK
<1>4. KeysOK'
  BY <1>1, <1>2 DEF KeysOK, TypeOK
<1>5. RepliesOK'
  BY DEF RepliesOK
<1>6. CallsOK'
  <2>1. \A i \in Ids : at'[i] = "idle" <=> at[i] = "idle"
    BY <1>1
  <2>2. \A i \in sendErrors : i \in Ids
    BY DEF TypeOK
  <2>3. ASSUME NEW i \in sendErrors
        PROVE  \/ at'[i] = "pending"
               \/ at'[i] = "rejected" /\ entryOf[i] \in reset' \cup replaced
    BY <1>1, <2>2 DEF CallsOK
  <2> QED  BY <1>2, <2>1, <2>3 DEF CallsOK
<1>7. ResolvedWasAccepted'
  BY <1>1 DEF AnswersSound, ResolvedWasAccepted, Ids
<1>8. NothingPendsOnClosed'
  <2>1. ASSUME NEW i \in Ids, at'[i] = "pending", i \notin sendErrors
        PROVE  entryOf[i] \in connected'
    BY <1>1, <2>1 DEF AnswersSound, NothingPendsOnClosed
  <2> QED  BY <2>1 DEF NothingPendsOnClosed
<1> QED  BY <1>1, <1>3, <1>4, <1>5, <1>6, <1>7, <1>8 DEF AnswersSound

\* A step that asks for slots.
LEMMA AcquireKeeps ==
  ASSUME IInv, NEW S \in SUBSET Ids, NEW entry, AcquireSlots(S, entry),
         \A i \in S : /\ at[i] = "idle" /\ entry[i] \in Children
                      /\ \E k \in Keys : shards[k] = entry[i],
         \A i, j \in S : entry[i] = entry[j] => i = j,
         UNCHANGED <<shards, keyOf, sendErrors, connected, exited, work, replies,
                     accepted, stopped, replaced, reset, faults>>
  PROVE  IInv'
<1> USE DEF IInv
<1>1. \A i \in S : entry[i] \in Registered /\ shards[keyOf[entry[i]]] = entry[i]
  BY IpcAssumption DEF KeysOK, Registered
<1>2. \A i \in Ids : at[i] = "idle" => entryOf[i] = NoChild
  BY DEF CallsOK
<1>3. /\ at' \in [Ids -> CallStates] /\ inflight' \in [Children -> Int]
      /\ waitQueue' \in [Children -> Seq(Ids)]
      /\ entryOf' \in [Ids -> Children \cup {NoChild}]
      /\ EntriesOK'
      /\ \A i \in S : at'[i] \in {"waiting", "granted"} /\ entryOf'[i] = entry[i]
      /\ \A i \in Ids \ S : at'[i] = at[i] /\ entryOf'[i] = entryOf[i]
  BY <1>1, <1>2, Acquires
<1>4. Registered' = Registered
  BY DEF Registered
<1>5. TypeOK'
  BY <1>3 DEF TypeOK
<1>6. KeysOK' /\ RepliesOK'
  BY <1>4 DEF KeysOK, RepliesOK
<1>7. CallsOK'
  <2>1. \A i \in sendErrors : i \in Ids \ S
    BY DEF CallsOK, TypeOK
  <2>2. ASSUME NEW i \in Ids
        PROVE  IF at'[i] = "idle" THEN entryOf'[i] = NoChild
               ELSE entryOf'[i] \in Registered
    <3>1. CASE i \in S
      BY <1>1, <1>3, <3>1
    <3>2. CASE i \notin S
      BY <1>3, <3>2 DEF CallsOK
    <3> QED  BY <3>1, <3>2
  <2>3. ASSUME NEW i \in sendErrors
        PROVE  \/ at'[i] = "pending"
               \/ at'[i] = "rejected" /\ entryOf'[i] \in reset \cup replaced
    BY <1>3, <2>1 DEF CallsOK
  <2> QED  BY <1>4, <2>2, <2>3 DEF CallsOK
<1>8. AnswersSound'
  BY <1>3 DEF AnswersSound, ResolvedWasAccepted, NothingPendsOnClosed, Ids
<1> QED  BY <1>3, <1>5, <1>6, <1>7, <1>8

LEMMA RegisterKeeps ==
  ASSUME IInv, NEW k \in Keys, NEW c \in Children, RegisterShard(k, c)
  PROVE  IInv'
<1> USE DEF IInv
<1>1. /\ c \notin Registered /\ shards' = [shards EXCEPT ![k] = c]
      /\ keyOf' = [keyOf EXCEPT ![c] = k] /\ connected' = connected \cup {c}
      /\ replaced' = replaced \cup ({shards[k]} \ {NoChild})
      /\ UNCHANGED <<inflight, waitQueue, at, entryOf, sendErrors, exited, work,
                     replies, accepted, stopped, reset, faults>>
  BY DEF RegisterShard, worker
<1>2. /\ shards \in [Keys -> Children \cup {NoChild}]
      /\ keyOf \in [Children -> Keys \cup {NoChild}]
  BY DEF TypeOK
<1>3. /\ keyOf'[c] = k /\ shards'[k] = c
      /\ \A d \in Children \ {c} : keyOf'[d] = keyOf[d]
      /\ \A l \in Keys \ {k} : shards'[l] = shards[l]
  BY <1>1, <1>2
<1>4. Registered' = Registered \cup {c}
  BY <1>1, <1>3 DEF Registered
<1>5. shards[k] # NoChild => shards[k] \in Registered
  BY <1>2 DEF KeysOK, Registered
<1>6. TypeOK'
  <2>1. replaced' \subseteq Children
    BY <1>1, <1>2 DEF TypeOK
  <2> QED  BY <1>1, <2>1 DEF TypeOK
<1>7. KeysOK'
  <2>1. ASSUME NEW l \in Keys, shards'[l] # NoChild PROVE keyOf'[shards'[l]] = l
    <3>1. CASE l = k
      BY <1>3, <3>1
    <3>2. CASE l # k
      <4>1. shards[l] \in Children /\ keyOf[shards[l]] = l /\ shards'[l] = shards[l]
        BY <1>2, <1>3, <2>1, <3>2 DEF KeysOK
      <4>2. shards[l] # c
        BY <1>1, <4>1 DEF Registered
      <4> QED  BY <1>3, <4>1, <4>2
    <3> QED  BY <3>1, <3>2
  <2> QED  BY <1>1, <1>4, <1>5, <2>1 DEF KeysOK
<1>8. CallsOK' /\ RepliesOK' /\ AnswersSound'
  BY <1>1, <1>4 DEF CallsOK, RepliesOK, AnswersSound, ResolvedWasAccepted,
                    NothingPendsOnClosed
<1>9. ASSUME NEW d \in Children, d # c PROVE Entry(d)'
  <2>1. d \in Registered \ replaced' /\ shards'[keyOf[d]] # d => shards[keyOf[d]] # d
    BY <1>1, <1>3, IpcAssumption DEF Registered
  <2> QED  BY <1>1, <1>3, <1>9, <2>1, EntryStays DEF EntriesOK, Holders, Waiting
<1>10. Entry(c)'
  <2>1. inflight'[c] = 0 /\ waitQueue'[c] = <<>>
    BY <1>1 DEF EntriesOK, Entry
  <2>2. Waiting(c)' = {} /\ Holders(c)' = {}
    <3>1. \A i \in Ids : entryOf[i] # c
      BY <1>1, IpcAssumption DEF CallsOK
    <3> QED  BY <1>1, <3>1 DEF Waiting, Holders
  <2>3. Lists(waitQueue'[c], Waiting(c)') /\ Cardinality(Holders(c)') = 0
    BY <2>1, <2>2, ListsNobody, FS_EmptySet
  <2>4. keyOf'[c] = k /\ shards'[k] = c /\ c \in Registered'
    BY <1>3, <1>4
  <2> QED  BY <2>1, <2>3, <2>4, IpcAssumption DEF Entry, Counted, NoLeak
<1> QED  BY <1>6, <1>7, <1>8, <1>9, <1>10 DEF EntriesOK

LEMMA SendKeeps == ASSUME IInv, NEW i \in Ids, SendRequest(i) PROVE IInv'
<1> USE DEF IInv
<1> DEFINE c == entryOf[i]
<1>1. at[i] = "granted" /\ i \notin sendErrors /\ c \in Registered
  BY DEF SendRequest, CallsOK
<1>2. CASE c \notin connected
  BY <1>1, <1>2, ReleaseKeeps DEF SendRequest, worker, Settled
<1>3. CASE c \in connected
  <2>1. /\ at' = [at EXCEPT ![i] = "pending"]
        /\ \/ /\ work' = work \cup {<<c, i>>} /\ sendErrors' = sendErrors
              /\ faults' = faults
           \/ sendErrors' = sendErrors \cup {i} /\ Fault /\ work' = work
        /\ UNCHANGED <<shards, keyOf, inflight, waitQueue, entryOf, connected, exited,
                       replies, accepted, stopped, replaced, reset>>
    BY <1>3 DEF SendRequest, worker
  <2>2. /\ at' \in [Ids -> CallStates] /\ at'[i] = "pending"
        /\ \A j \in Ids \ {i} : at'[j] = at[j]
    BY <2>1 DEF TypeOK, CallStates
  <2>3. TypeOK'
    <3>1. faults' \in 0 .. MaxFaults
      BY <2>1, IpcAssumption DEF Fault, TypeOK
    <3>2. work' \subseteq Children \X Ids /\ sendErrors' \subseteq Ids
      BY <1>1, <2>1 DEF TypeOK, Registered
    <3> QED  BY <2>1, <2>2, <3>1, <3>2 DEF TypeOK
  <2>4. Registered' = Registered
    BY <2>1 DEF Registered
  <2>5. KeysOK' /\ RepliesOK'
    BY <2>1, <2>4 DEF KeysOK, RepliesOK
  <2>6. CallsOK'
    BY <1>1, <2>1, <2>2, <2>4 DEF CallsOK, TypeOK
  <2>7. AnswersSound'
    BY <1>3, <2>1, <2>2 DEF AnswersSound, ResolvedWasAccepted, NothingPendsOnClosed, Ids
  <2>8. ASSUME NEW d \in Children PROVE Entry(d)'
    <3>1. /\ {j \in Ids : entryOf'[j] = d /\ at'[j] \in {"granted", "pending"}} = Holders(d)
          /\ {j \in Ids : entryOf'[j] = d /\ at'[j] = "waiting"} = Waiting(d)
      BY <1>1, <2>1, <2>2 DEF Holders, Waiting
    <3> QED  BY <2>1, <3>1, EntryStays DEF EntriesOK
  <2> QED  BY <2>3, <2>5, <2>6, <2>7, <2>8 DEF EntriesOK
<1> QED  BY <1>2, <1>3

LEMMA HandleKeeps ==
  ASSUME IInv, NEW c \in Children, NEW i \in Ids, HandleMessage(c, i)
  PROVE  IInv'
<1> USE DEF IInv
<1>1. /\ work' \subseteq work /\ UNCHANGED <<router, connected, exited>>
      /\ accepted \subseteq accepted' /\ accepted' \subseteq Calls
      /\ stopped' \subseteq Children
  BY DEF HandleMessage, TypeOK, Ids
<1>2. \E ok \in BOOLEAN : /\ replies' = replies \cup {<<c, i, ok>>}
                          /\ ok /\ i \in Calls => i \in accepted'
  BY IpcAssumption DEF HandleMessage
<1>3. TypeOK'
  BY <1>1, <1>2 DEF TypeOK, router
<1>4. RepliesOK'
  <2>1. PICK ok \in BOOLEAN : /\ replies' = replies \cup {<<c, i, ok>>}
                              /\ ok /\ i \in Calls => i \in accepted'
    BY <1>2
  <2> QED  BY <1>1, <2>1 DEF RepliesOK
<1>5. Registered' = Registered
  BY <1>1 DEF Registered, router
<1>6. KeysOK' /\ CallsOK' /\ AnswersSound'
  BY <1>1, <1>5 DEF router, KeysOK, CallsOK, AnswersSound, ResolvedWasAccepted,
                    NothingPendsOnClosed
<1>7. EntriesOK'
  <2>1. ASSUME NEW d \in Children PROVE Entry(d)'
    BY <1>1, EntryStays DEF router, EntriesOK, Holders, Waiting
  <2> QED  BY <2>1 DEF EntriesOK
<1> QED  BY <1>3, <1>4, <1>6, <1>7

LEMMA StepKeeps == ASSUME IInv, [Next]_vars PROVE IInv'
<1> USE DEF worker
<1>1. ASSUME NEW k \in Keys, DeregisterShard(k) PROVE IInv'
  BY <1>1, RejectKeeps DEF DeregisterShard, IInv, TypeOK
<1>2. ASSUME NEW i \in Calls, NEW k \in Keys, Enqueue(i, k) PROVE IInv'
  <2> DEFINE entry == [j \in {i} |-> shards[k]]
  <2>1. /\ AcquireSlots({i}, entry) /\ at[i] = "idle" /\ shards[k] # NoChild
        /\ UNCHANGED <<shards, keyOf, sendErrors, connected, exited, work, replies,
                       accepted, stopped, replaced, reset, faults>>
    BY <1>2 DEF Enqueue
  <2>2. entry[i] = shards[k] /\ shards[k] \in Children /\ {i} \in SUBSET Ids
    BY <2>1 DEF IInv, TypeOK, Ids
  <2> HIDE DEF entry
  <2> QED  BY <2>1, <2>2, AcquireKeeps
<1>3. CASE Shutdown
  <2> DEFINE S == {k \in Keys : shards[k] \in connected}
  <2>1. /\ AcquireSlots(S, shards) /\ \A k \in Keys : at[k] = "idle"
        /\ UNCHANGED <<shards, keyOf, sendErrors, connected, exited, work, replies,
                       accepted, stopped, replaced, reset, faults>>
    BY <1>3 DEF Shutdown
  <2>2. \A k \in S : k \in Keys /\ shards[k] \in Children /\ keyOf[shards[k]] = k
    BY IpcAssumption DEF IInv, TypeOK, KeysOK
  <2>3. S \in SUBSET Ids
    BY DEF Ids
  <2> HIDE DEF S
  <2> QED  BY <2>1, <2>2, <2>3, AcquireKeeps
<1>4. ASSUME NEW i \in Ids, SendFailed(i) PROVE IInv'
  BY <1>4, ReleaseKeeps DEF SendFailed, Settled
<1>5. ASSUME NEW i \in Ids, Timeout(i) PROVE IInv'
  BY <1>5, ReleaseKeeps DEF Timeout, Quiet, Settled
<1>6. ASSUME NEW c \in Children, NEW i \in Ids, NEW ok \in BOOLEAN, Answer(c, i, ok)
      PROVE  IInv'
  <2>1. /\ Quiet /\ <<c, i, ok>> \in replies /\ replies' = replies \ {<<c, i, ok>>}
        /\ IF at[i] = "pending"
           THEN ReleaseSlot(i, IF ok THEN "resolved" ELSE "rejected")
           ELSE UNCHANGED <<at, inflight, waitQueue>>
        /\ UNCHANGED <<shards, keyOf, entryOf, sendErrors, connected, exited, work,
                       accepted, stopped, replaced, reset, faults>>
    BY <1>6 DEF Answer
  <2>2. ok /\ i \in Calls => i \in accepted
    BY <2>1 DEF IInv, RepliesOK
  <2>3. CASE at[i] = "pending" /\ ok
    BY <2>1, <2>2, <2>3, ReleaseKeeps DEF Quiet, Settled
  <2>4. CASE at[i] = "pending" /\ ~ok
    BY <2>1, <2>4, ReleaseKeeps DEF Quiet, Settled
  <2>5. CASE at[i] # "pending"
    <3>1. UNCHANGED <<at, inflight, waitQueue>> /\ Registered' = Registered
      BY <2>1, <2>5 DEF Registered
    <3>2. TypeOK' /\ KeysOK' /\ CallsOK' /\ RepliesOK' /\ AnswersSound'
      BY <2>1, <3>1 DEF IInv, TypeOK, KeysOK, CallsOK, RepliesOK, AnswersSound,
                        ResolvedWasAccepted, NothingPendsOnClosed
    <3>3. ASSUME NEW d \in Children PROVE Entry(d)'
      BY <2>1, <3>1, EntryStays DEF IInv, EntriesOK, Holders, Waiting
    <3> QED  BY <3>2, <3>3 DEF IInv, EntriesOK
  <2> QED  BY <2>3, <2>4, <2>5
<1>7. ASSUME NEW c \in Children, Disconnect(c) PROVE IInv'
  <2>1. keyOf[c] \in Keys
    BY <1>7 DEF Disconnect, IInv, KeysOK, Registered
  <2> QED  BY <1>7, <2>1, RejectKeeps DEF Disconnect, IInv, TypeOK
<1>8. ASSUME NEW c \in Children, Exit(c) PROVE IInv'
  <2>1. keyOf[c] \in Keys
    BY <1>8 DEF Exit, Registered
  <2> QED  BY <1>8, <2>1, RejectKeeps DEF Exit, IInv, TypeOK
<1>9. CASE UNCHANGED vars
  <2>1. Registered' = Registered
    BY <1>9 DEF vars, Registered
  <2>2. TypeOK' /\ KeysOK' /\ CallsOK' /\ RepliesOK' /\ AnswersSound'
    BY <1>9, <2>1 DEF vars, IInv, TypeOK, KeysOK, CallsOK, RepliesOK, AnswersSound,
                      ResolvedWasAccepted, NothingPendsOnClosed
  <2>3. ASSUME NEW d \in Children PROVE Entry(d)'
    BY <1>9, EntryStays DEF vars, IInv, EntriesOK, Holders, Waiting
  <2> QED  BY <2>2, <2>3 DEF IInv, EntriesOK
<1> QED  BY <1>1, <1>2, <1>3, <1>4, <1>5, <1>6, <1>7, <1>8, <1>9, RegisterKeeps,
            SendKeeps, HandleKeeps DEF Next

-----------------------------------------------------------------------------
(* Theorems                                                                *)

LEMMA Inductive == Spec => []IInv
<1>1. IInv /\ [Next]_vars => IInv'
  BY StepKeeps
<1> QED  BY InitKeeps, <1>1, PTL DEF Spec

\* Slots and waiters are accounted for, whatever closes, exits or is replaced: no slot
\* leaks, no more requests run than a shard allows until something resets it, and a
\* caller waits in one queue, once.
THEOREM SlotsAccounted == Spec => []RouterSound
<1>1. IInv => RouterSound
  <2> SUFFICES ASSUME IInv PROVE RouterSound
    OBVIOUS
  <2>1. SlotsCounted /\ NoSlotLeaks
    BY DEF IInv, EntriesOK, Entry, Counted, NoLeak, SlotsCounted, NoSlotLeaks, Registered
  <2>2. WaitersQueuedOnce
    BY DEF IInv, EntriesOK, Entry, Lists, Waiting, WaitersQueuedOnce
  <2> QED  BY <2>1, <2>2 DEF RouterSound, IInv
<1> QED  BY Inductive, <1>1, PTL

\* An enqueue that resolves was taken by a child's queue, and after its channel closed
\* nothing is left pending on a child.
THEOREM AnswersTrue == Spec => []AnswersSound
<1>1. IInv => AnswersSound
  BY DEF IInv
<1> QED  BY Inductive, <1>1, PTL

\* A channel that closes rejects requests of its own key only.
THEOREM OtherKeysSpared == Spec => CloseSparesOtherKeys
<1>1. ASSUME IInv, [Next]_vars, NEW c \in connected \ connected', NEW i \in Ids,
             at[i] = "pending", at'[i] = "rejected"
      PROVE  keyOf[entryOf[i]] = keyOf[c]
  <2>1. c \in Children /\ Disconnect(c)
    <3>1. c \in Children
      BY <1>1 DEF IInv, TypeOK
    <3>2. PICK d \in Children : Disconnect(d)
      BY <1>1 DEF Next, vars, RegisterShard, DeregisterShard, Enqueue, Shutdown,
         SendRequest, SendFailed, Timeout, Answer, Exit, HandleMessage
    <3>3. connected' = connected \ {d}
      BY <3>2 DEF Disconnect
    <3> QED  BY <3>1, <3>2, <3>3
  <2>2. /\ RejectShardPending(keyOf[c]) /\ keyOf[c] \in Keys
        /\ UNCHANGED <<shards, keyOf, entryOf, replaced>>
    <3>1. keyOf[c] \in Keys
      BY <1>1 DEF IInv, KeysOK, Registered
    <3>2. RejectShardPending(keyOf[c])
      BY <2>1 DEF Disconnect
    <3>3. UNCHANGED <<shards, keyOf, entryOf, replaced>>
      BY <2>1 DEF Disconnect
    <3> QED  BY <3>1, <3>2, <3>3
  <2> QED  BY <1>1, <2>2, Rejects DEF IInv
<1>2. IInv /\ [Next]_vars =>
        [\A c \in connected \ connected', i \in Ids :
           at[i] = "pending" /\ at'[i] = "rejected" =>
             keyOf[entryOf[i]] = keyOf[c]]_vars
  BY <1>1
<1> QED  BY Inductive, <1>2, PTL DEF Spec, CloseSparesOtherKeys
=============================================================================
