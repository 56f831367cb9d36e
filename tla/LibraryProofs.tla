--------------------------- MODULE LibraryProofs ----------------------------
(***************************************************************************)
(* Theorems about smaller parts, each for every value of its constants: the *)
(* circuit breaker, stored versions, token buckets, the hybrid clock, the  *)
(* SDK's transactions and findOneAnd calls, the queue's heap, whose array  *)
(* with its two loops is the priority queue, the messages of PubSub and of *)
(* the buffer, the SDK's identifiers and its relations, the blob store over *)
(* the page cache.                                                         *)
(***************************************************************************)
EXTENDS Breaker, Versions, TokenBucket, HybridClock, Sdk, Heap, PubSub, Ids, Relations, Blobs,
        SequenceTheorems, FiniteSetTheorems, NaturalsInduction, WellFoundedInduction, TLAPS

-----------------------------------------------------------------------------
(* Breaker: any set of callers, any threshold and clock.                   *)

\* The circuit's state is one of the three and the counters are numbers: what
\* the induction needs beyond the property itself.
BreakerInv ==
  /\ state \in {"CLOSED", "OPEN", "HALF_OPEN"}
  /\ failureCount \in Nat /\ streak \in Nat
  /\ ClosedBelowThreshold

\* Every step of CircuitBreaker keeps the state and the count together.
LEMMA BreakerStep == BreakerInv /\ [BrNext]_brVars => BreakerInv'
<1> SUFFICES ASSUME BreakerInv, [BrNext]_brVars PROVE BreakerInv'
  OBVIOUS
<1> USE BreakerAssumption DEF BreakerInv, ClosedBelowThreshold
<1>1. ASSUME NEW c \in Callers, Execute(c) PROVE BreakerInv'
  BY <1>1 DEF Execute
<1>2. ASSUME NEW c \in Callers, OnSuccess(c) PROVE BreakerInv'
  BY <1>2 DEF OnSuccess
<1>3. ASSUME NEW c \in Callers, OnFailure(c) PROVE BreakerInv'
  <2>1. CASE failureCount + 1 >= FailureThreshold
    BY <1>3, <2>1 DEF OnFailure
  <2>2. CASE ~(failureCount + 1 >= FailureThreshold)
    BY <1>3, <2>2 DEF OnFailure
  <2> QED  BY <2>1, <2>2
<1>4. CASE Reset
  BY <1>4 DEF Reset
<1>5. CASE BrClock
  BY <1>5 DEF BrClock
<1>6. CASE UNCHANGED brVars
  BY <1>6 DEF brVars
<1> QED  BY <1>1, <1>2, <1>3, <1>4, <1>5, <1>6 DEF BrNext

\* CircuitBreaker: however many calls overlap and in whatever order they end,
\* the circuit is closed exactly below the threshold.
THEOREM StateFollowsTheCount == BrSpec => []ClosedBelowThreshold
<1>1. BrInit => BreakerInv
  BY BreakerAssumption DEF BrInit, BreakerInv, ClosedBelowThreshold
<1>2. BreakerInv => ClosedBelowThreshold
  BY DEF BreakerInv
<1> QED  BY <1>1, <1>2, BreakerStep, PTL DEF BrSpec

-----------------------------------------------------------------------------
(* Versions: applying the diff of two documents to the older gives the     *)
(* data of the newer, the reversed diff leads back, and a chain of such    *)
(* steps stays at the data of the version it stands at.                    *)

\* JSON equality with itself of the same value included is an equivalence on
\* values.
LEMMA SameIsTransitive ==
  ASSUME NEW a \in Values, NEW b \in Values, NEW c \in Values, Same(a, b), Same(b, c)
  PROVE  Same(a, c)
  BY VersionsAssumption DEF Same

LEMMA SameIsSymmetric ==
  ASSUME NEW a \in Values, NEW b \in Values, Same(a, b)
  PROVE  Same(b, a)
  BY VersionsAssumption DEF Same

\* What is in a document.
LEMMA DocumentFields ==
  ASSUME NEW d \in Documents
  PROVE  /\ DOMAIN d \subseteq Fields
         /\ \A k \in DOMAIN d : d[k] \in Values
  BY DEF Documents

\* The diff of two documents leads from one that agrees with the older to one
\* that agrees with the newer.
LEMMA ApplyLeadsForth ==
  ASSUME NEW older \in Documents, NEW newer \in Documents, NEW base \in Documents,
         Agree(base, older)
  PROVE  LET result == ApplyDiff(base, ComputeDiff(older, newer))
         IN result \in Documents /\ Agree(result, newer)
<1> DEFINE diff == ComputeDiff(older, newer)
<1> DEFINE result == ApplyDiff(base, diff)
<1> DEFINE changed == {k \in DataFields(newer) \cap DOMAIN older : ~DeepEqual(older[k], newer[k])}
<1> DEFINE domain == (DOMAIN base \ (DataFields(older) \ DOMAIN newer)) \cup changed
                       \cup (DataFields(newer) \ DOMAIN older)
<1> DEFINE field(k) == IF k \in DataFields(newer) \ DOMAIN older THEN newer[k]
                       ELSE IF k \in changed THEN newer[k] ELSE base[k]
<1>1. result = [k \in domain |-> field(k)]
  BY DEF ApplyDiff, ComputeDiff
<1>2. domain \subseteq Fields /\ \A k \in domain : field(k) \in Values
  BY DocumentFields DEF DataFields
<1>3. result \in Documents
  <2> HIDE DEF domain, field
  <2>1. [k \in domain |-> field(k)] \in [domain -> Values]
    BY <1>2
  <2> QED BY <1>1, <1>2, <2>1 DEF Documents
<1>4. DataFields(base) = DataFields(older)
  BY DEF Agree
<1>5. domain \ MetaFields = DataFields(newer)
  BY <1>4 DEF DataFields
<1>6. ASSUME NEW k \in DataFields(newer)
      PROVE  Same(field(k), newer[k])
  <2>1. CASE k \in DOMAIN older /\ k \notin changed
    <3>1. Same(base[k], older[k])
      BY <1>4, <2>1 DEF Agree, DataFields
    <3>2. Same(older[k], newer[k])
      BY <2>1, VersionsAssumption, DocumentFields DEF Same, DataFields
    <3>3. /\ base[k] \in Values /\ older[k] \in Values /\ newer[k] \in Values
      BY <1>4, <2>1, DocumentFields DEF DataFields
    <3> QED BY <2>1, <3>1, <3>2, <3>3, SameIsTransitive
  <2>2. CASE k \notin DOMAIN older \/ k \in changed
    BY <2>2 DEF Same
  <2> QED BY <2>1, <2>2
<1>7. DOMAIN result = domain /\ \A k \in domain : result[k] = field(k)
  BY <1>1
<1>8. Agree(result, newer)
  <2> HIDE DEF result, field, domain
  <2>1. DataFields(result) = DataFields(newer)
    BY <1>5, <1>7 DEF DataFields
  <2>2. DataFields(newer) \subseteq domain
    BY <1>5
  <2> QED BY <1>6, <1>7, <2>1, <2>2 DEF Agree
<1> QED BY <1>3, <1>8

\* A reversed diff is, as far as applying it goes, the diff in the other
\* direction.
LEMMA ReverseIsTheOtherDiff ==
  ASSUME NEW older \in Documents, NEW newer \in Documents
  PROVE  ReverseDiff(ComputeDiff(older, newer)) = ComputeDiff(newer, older)
<1> DEFINE forth == {k \in DataFields(newer) \cap DOMAIN older : ~DeepEqual(older[k], newer[k])}
<1> DEFINE back == {k \in DataFields(older) \cap DOMAIN newer : ~DeepEqual(newer[k], older[k])}
<1>1. forth = back
  <2>1. ASSUME NEW k \in DOMAIN older \cap DOMAIN newer
        PROVE  DeepEqual(older[k], newer[k]) <=> DeepEqual(newer[k], older[k])
    BY VersionsAssumption, DocumentFields
  <2> QED BY <2>1 DEF DataFields
<1> DEFINE there == [k \in forth |-> [old |-> older[k], new |-> newer[k]]]
<1>2. [k \in DOMAIN there |-> [old |-> there[k].new, new |-> there[k].old]]
        = [k \in back |-> [old |-> newer[k], new |-> older[k]]]
  <2> HIDE DEF forth, back
  <2> QED BY <1>1
<1> QED BY <1>2 DEF ReverseDiff, ComputeDiff

Diffs == {ComputeDiff(d, e) : d, e \in Documents}

\* The inductive invariant: every diff is that of its two versions.
VerInv ==
  /\ versions \in Seq(Documents) /\ shown \in Documents
  /\ diffs \in Seq(Diffs) /\ Len(diffs) = Len(versions) - 1
  /\ at \in 1 .. Len(versions)
  /\ \A i \in 1 .. Len(diffs) : diffs[i] = ComputeDiff(versions[i], versions[i + 1])
  /\ Agree(shown, versions[at])

LEMMA AgreeWithItself ==
  ASSUME NEW d \in Documents PROVE Agree(d, d)
  BY DEF Agree, Same

LEMMA VerInitInv == VerInit => VerInv
<1> SUFFICES ASSUME VerInit PROVE VerInv
  OBVIOUS
<1>1. versions \in Seq(Documents) /\ Len(versions) = 1 /\ versions[1] = shown /\ at = 1
  BY DEF VerInit
<1>2. diffs \in Seq(Diffs) /\ Len(diffs) = 0
  BY DEF VerInit
<1>3. shown \in Documents /\ Agree(shown, shown)
  BY AgreeWithItself DEF VerInit
<1> QED BY <1>1, <1>2, <1>3 DEF VerInv

LEMMA VerNextInv == VerInv /\ [VerNext]_verVars => VerInv'
<1> SUFFICES ASSUME VerInv, [VerNext]_verVars PROVE VerInv'
  OBVIOUS
<1> USE DEF VerInv
<1>1. ASSUME NEW d \in Documents, SaveVersion(d) PROVE VerInv'
  <2>1. /\ versions' \in Seq(Documents) /\ Len(versions') = Len(versions) + 1
        /\ versions'[at'] = d /\ \A i \in 1 .. Len(versions) : versions'[i] = versions[i]
    BY <1>1 DEF SaveVersion
  <2>2. versions[at] \in Documents
    BY <1>1
  <2>3. ComputeDiff(versions[at], d) \in Diffs
    BY <2>2 DEF Diffs
  <2>4. /\ diffs' \in Seq(Diffs) /\ Len(diffs') = Len(versions') - 1
        /\ \A i \in 1 .. Len(diffs) : diffs'[i] = diffs[i]
        /\ diffs'[at] = ComputeDiff(versions[at], d)
    BY <1>1, <2>1, <2>3 DEF SaveVersion
  <2>5. \A i \in 1 .. Len(diffs') : diffs'[i] = ComputeDiff(versions'[i], versions'[i + 1])
    BY <1>1, <2>1, <2>4 DEF SaveVersion
  <2>6. shown' \in Documents /\ at' \in 1 .. Len(versions') /\ Agree(shown', versions'[at'])
    BY <1>1, <2>1, AgreeWithItself DEF SaveVersion
  <2> QED BY <2>1, <2>4, <2>5, <2>6
<1>2. CASE Back
  <2>1. /\ at - 1 \in 1 .. Len(diffs) /\ at' = at - 1
        /\ versions[at - 1] \in Documents /\ versions[at] \in Documents
    BY <1>2 DEF Back
  <2>2. shown' = ApplyDiff(shown, ComputeDiff(versions[at], versions[at - 1]))
    BY <1>2, <2>1, ReverseIsTheOtherDiff DEF Back
  <2>3. shown' \in Documents /\ Agree(shown', versions[at - 1])
    BY <2>1, <2>2, ApplyLeadsForth
  <2> QED BY <1>2, <2>1, <2>3 DEF Back
<1>3. CASE Forth
  <2>1. /\ at \in 1 .. Len(diffs) /\ at' = at + 1
        /\ versions[at + 1] \in Documents /\ versions[at] \in Documents
    BY <1>3 DEF Forth
  <2>2. shown' = ApplyDiff(shown, ComputeDiff(versions[at], versions[at + 1]))
    BY <1>3, <2>1 DEF Forth
  <2>3. shown' \in Documents /\ Agree(shown', versions[at + 1])
    BY <2>1, <2>2, ApplyLeadsForth
  <2> QED BY <1>3, <2>1, <2>3 DEF Forth
<1>4. CASE UNCHANGED verVars
  BY <1>4 DEF verVars, Agree, DataFields
<1> QED BY <1>1, <1>2, <1>3, <1>4 DEF VerNext

\* The document that diffs and reversed diffs put together always has the data of
\* the version the caller stands at (computeDiff, applyDiff, reverseDiff).
THEOREM DiffsLoseNothing == VerSpec => []ShownIsTheVersion
<1>1. VerInv => ShownIsTheVersion
  BY DEF VerInv, ShownIsTheVersion
<1> QED BY VerInitInv, VerNextInv, <1>1, PTL DEF VerSpec

-----------------------------------------------------------------------------
(* TokenBucket: every rate, every clock and any number of operations.      *)

\* What the bucket holds now, the refill it has not made yet included, is covered
\* together with what was allowed.
BktInv ==
  /\ BktTypeOK
  /\ allowed * Cost + Refilled <= Capacity(rate) + rate * (clock - watchedFrom)

LEMMA CapacityIsNat == \A r \in Nat : Capacity(r) \in Nat
  BY DEF Capacity, Cost

LEMMA BktInitInv == BktInit => BktInv
<1> SUFFICES ASSUME BktInit PROVE BktInv
  OBVIOUS
<1>1. Capacity(rate) \in Nat /\ rate \in Nat
  BY BucketAssumption, CapacityIsNat DEF BktInit
<1>2. BktTypeOK
  <2>1. tokens \in 0 .. Capacity(rate)
    BY <1>1 DEF BktInit
  <2>2. exists \in BOOLEAN
    BY DEF BktInit
  <2> QED BY <2>1, <2>2 DEF BktInit, BktTypeOK
<1>3. rate * (clock - watchedFrom) = 0 /\ rate * (clock - lastRefill) = 0
  BY <1>1 DEF BktInit
<1>4. Refilled = 0
  BY <1>1, <1>3 DEF BktInit, Refilled, Least
<1> QED BY <1>1, <1>2, <1>3, <1>4 DEF BktInv, BktInit, Cost

LEMMA BktNextInv == BktInv /\ [BktNext]_bktVars => BktInv'
<1> SUFFICES ASSUME BktInv, [BktNext]_bktVars PROVE BktInv'
  OBVIOUS
<1>0. /\ rate \in Nat /\ defaultRate \in Nat /\ tokens \in Nat /\ allowed \in Nat
      /\ clock \in Nat /\ watchedFrom \in Nat /\ lastRefill \in Nat
      /\ Capacity(rate) \in Nat /\ Capacity(defaultRate) \in Nat
      /\ tokens <= Capacity(rate) /\ lastRefill <= clock /\ watchedFrom <= clock
  BY BucketAssumption, CapacityIsNat DEF BktInv, BktTypeOK
<1>a. /\ rate * (clock - lastRefill) \in Nat /\ rate * (clock - watchedFrom) \in Nat
  BY <1>0
<1>1. CASE Configure
  BY <1>1 DEF Configure, BktInv, BktTypeOK, Refilled
<1>2. CASE NewBucket
  <2>1. /\ rate' = defaultRate /\ tokens' = defaultRate * Cost /\ allowed' = 0
        /\ lastRefill' = clock /\ watchedFrom' = clock /\ clock' = clock
    BY <1>2 DEF NewBucket
  <2>2. rate' * (clock' - lastRefill') = 0 /\ rate' * (clock' - watchedFrom') = 0
    BY <1>0, <2>1
  <2>3. defaultRate * Cost \in 0 .. Capacity(defaultRate)
    BY <1>0 DEF Capacity, Cost
  <2>4. Refilled' = tokens'
    BY <1>0, <2>1, <2>2, <2>3 DEF Refilled, Least
  <2>5. BktTypeOK'
    BY <1>0, <1>2, <2>1, <2>3 DEF NewBucket, BktInv, BktTypeOK
  <2> QED BY <1>0, <2>1, <2>2, <2>3, <2>4, <2>5 DEF BktInv, Cost
<1>3. CASE Consume
  <2>1. Refilled \in 0 .. Capacity(rate)
    BY <1>0, <1>a DEF Refilled, Least
  <2>2. /\ rate' = rate /\ clock' = clock /\ watchedFrom' = watchedFrom /\ lastRefill' = clock
    BY <1>3 DEF Consume
  <2>3. rate' * (clock' - lastRefill') = 0 /\ rate' * (clock' - watchedFrom') = rate * (clock - watchedFrom)
    BY <1>0, <2>2
  <2>4. /\ tokens' \in 0 .. Capacity(rate) /\ allowed' \in Nat
        /\ allowed' * Cost + tokens' = allowed * Cost + Refilled
    BY <1>0, <1>3, <2>1 DEF Consume, Cost
  <2>5. Refilled' = tokens'
    <3>1. tokens' + rate' * (clock' - lastRefill') = tokens' /\ Capacity(rate)' = Capacity(rate)
      <4>1. rate' * (clock' - lastRefill') = 0 /\ tokens' \in Nat
        BY <1>0, <2>3, <2>4
      <4>2. tokens' + rate' * (clock' - lastRefill') = tokens'
        BY <4>1
      <4>3. Capacity(rate)' = Capacity(rate)
        BY <2>2 DEF Capacity, Cost
      <4> QED BY <4>2, <4>3
    <3>2. tokens' <= Capacity(rate)
      BY <1>0, <2>4
    <3>3. Least(Capacity(rate), tokens') = tokens'
      BY <1>0, <2>4, <3>2 DEF Least
    <3> QED BY <3>1, <3>3 DEF Refilled
  <2>6. BktTypeOK'
    BY <1>0, <1>3, <2>2, <2>4 DEF Consume, BktInv, BktTypeOK
  <2> QED BY <1>0, <2>2, <2>3, <2>4, <2>5, <2>6 DEF BktInv
<1>4. CASE ResetBucket
  BY <1>4 DEF ResetBucket, BktInv, BktTypeOK, Refilled
<1>5. CASE Pass
  <2>1. PICK t \in Nat : t > clock /\ clock' = t
    BY <1>5, BucketAssumption DEF Pass
  <2>2. /\ rate' = rate /\ tokens' = tokens /\ lastRefill' = lastRefill
        /\ watchedFrom' = watchedFrom /\ allowed' = allowed
    BY <1>5 DEF Pass
  <2>3. /\ rate * (t - clock) \in Nat
        /\ rate * (t - lastRefill) = rate * (clock - lastRefill) + rate * (t - clock)
        /\ rate * (t - watchedFrom) = rate * (clock - watchedFrom) + rate * (t - clock)
    BY <1>0, <2>1
  <2>4. Refilled' <= Refilled + rate * (t - clock)
    BY <1>0, <1>a, <2>1, <2>2, <2>3 DEF Refilled, Least
  <2>5. BktTypeOK'
    BY <1>0, <1>5, <2>1, <2>2 DEF Pass, BktInv, BktTypeOK
  <2>6. Refilled \in Nat /\ Refilled' \in Nat
    BY <1>0, <1>a, <2>1, <2>2, <2>3 DEF Refilled, Least
  <2> QED BY <1>0, <1>a, <2>1, <2>2, <2>3, <2>4, <2>5, <2>6 DEF BktInv, Cost
<1>6. CASE Watch
  <2>1. Refilled' = Refilled
    BY <1>6 DEF Watch, Refilled
  <2>2. rate' * (clock' - watchedFrom') = 0 /\ allowed' = 0 /\ rate' = rate
    BY <1>0, <1>6 DEF Watch
  <2>3. Refilled \in 0 .. Capacity(rate)
    BY <1>0, <1>a DEF Refilled, Least
  <2>4. BktTypeOK'
    BY <1>0, <1>6 DEF Watch, BktInv, BktTypeOK
  <2> QED BY <1>0, <2>1, <2>2, <2>3, <2>4 DEF BktInv, Cost
<1>7. CASE UNCHANGED bktVars
  BY <1>7 DEF bktVars, BktInv, BktTypeOK, Refilled
<1> QED BY <1>1, <1>2, <1>3, <1>4, <1>5, <1>6, <1>7 DEF BktNext

\* From any moment on, a bucket allows no more operations than its capacity and the
\* refill since then (TokenBucket.tryConsume).
THEOREM BurstsAreBounded == BktSpec => []BurstIsBounded
<1>1. BktInv => BurstIsBounded
  <2> SUFFICES ASSUME BktInv PROVE BurstIsBounded
    OBVIOUS
  <2>1. /\ rate \in Nat /\ tokens \in Nat /\ allowed \in Nat /\ clock - lastRefill \in Nat
        /\ Capacity(rate) \in Nat /\ clock - watchedFrom \in Nat
    BY BucketAssumption, CapacityIsNat DEF BktInv, BktTypeOK
  <2>2. rate * (clock - lastRefill) \in Nat /\ rate * (clock - watchedFrom) \in Nat
    BY <2>1
  <2>3. Refilled \in Nat
    BY <2>1, <2>2 DEF Refilled, Least
  <2> QED BY <2>1, <2>2, <2>3 DEF BktInv, BurstIsBounded, Cost
<1> QED BY BktInitInv, BktNextInv, <1>1, PTL DEF BktSpec

-----------------------------------------------------------------------------
(* HybridClock: any set of threads, width and clock.                       *)

GoesForward(c) == c.at = "swap" /\ c.kind = "advance" => Less(c.old, c.with)

\* No timestamp exceeds the word, and advance_to only goes forward from the word it
\* loaded; an exchange succeeds only on the word that was loaded.
ClockInv ==
  /\ ClockTypeOK /\ StampsIncrease
  /\ \A t \in Threads : GoesForward(atWork[t])
  /\ order = "kept" => \A i \in 1 .. Len(issued) : ~Less(word, issued[i].stamp)

\* The order of timestamps is total.
LEMMA LessTransitive ==
  ASSUME NEW s \in Stamps, NEW t \in Stamps, NEW u \in Stamps, ~Less(t, s)
  PROVE  /\ Less(t, u) => Less(s, u)
         /\ ~Less(u, t) => ~Less(u, s)
BY ClockAssumption DEF Less, Stamps

\* What now, and recv unless a logical part comes round, make of a word is a
\* timestamp above it; recv's is above the remote one too.
LEMMA NextStamps ==
  ASSUME NEW c \in ClockCalls
  PROVE  /\ AfterNow(c) \in Stamps /\ AfterRecv(c) \in Stamps
         /\ Less(c.old, AfterNow(c))
         /\ Merged(c) < Width => Less(c.old, AfterRecv(c)) /\ Less(c.with, AfterRecv(c))
<1> USE ClockAssumption DEF Stamps, ClockCalls, Less
<1>1. AfterNow(c) \in Stamps /\ Less(c.old, AfterNow(c))
  BY DEF AfterNow
<1>2. Merged(c) \in Nat
  BY DEF Merged, Later
<1>3. AfterRecv(c) \in Stamps
  BY <1>2 DEF AfterRecv, Later
<1>4. ASSUME Merged(c) < Width PROVE Less(c.old, AfterRecv(c)) /\ Less(c.with, AfterRecv(c))
  BY <1>4 DEF AfterRecv, Merged, Later
<1> QED  BY <1>1, <1>3, <1>4

\* Appending a timestamp above the word keeps the order, whatever it has to exceed.
LEMMA AppendStamp ==
  ASSUME ClockInv, NEW new \in Stamps, NEW over \in Stamps,
         word' = new, issued' = Append(issued, [stamp |-> new, over |-> over]),
         order' = "kept" => order = "kept" /\ Less(word, new) /\ Less(over, new)
  PROVE  /\ StampsIncrease'
         /\ order' = "kept" => \A i \in 1 .. Len(issued') : ~Less(word', issued'[i].stamp)
<1> SUFFICES ASSUME order' = "kept"
             PROVE  /\ \A i, j \in 1 .. Len(issued') : i < j => Less(issued'[i].stamp, issued'[j].stamp)
                    /\ \A i \in 1 .. Len(issued') : Less(issued'[i].over, issued'[i].stamp)
                    /\ \A i \in 1 .. Len(issued') : ~Less(word', issued'[i].stamp)
  BY DEF StampsIncrease
<1> DEFINE n == Len(issued)
<1>1. issued \in Seq(Issues) /\ word \in Stamps /\ n \in Nat
  BY DEF ClockInv, ClockTypeOK
<1> DEFINE e == [stamp |-> new, over |-> over]
<1>2. e \in Issues /\ issued' = Append(issued, e)
  BY DEF Issues
<1> HIDE DEF e
<1>3. /\ Len(issued') = n + 1 /\ issued'[n + 1] = e
      /\ \A i \in 1 .. n : issued'[i] = issued[i] /\ issued[i] \in Issues
  BY <1>1, <1>2, AppendProperties, ElementOfSeq
<1>e. issued'[n + 1].stamp = new /\ issued'[n + 1].over = over
  BY <1>3 DEF e
<1>4. \A i \in 1 .. n : ~Less(word, issued[i].stamp)
  BY DEF ClockInv
<1>5. ASSUME NEW i \in 1 .. n PROVE Less(issued[i].stamp, new)
  <2>1. issued[i].stamp \in Stamps /\ ~Less(word, issued[i].stamp)
    BY <1>3, <1>4 DEF Issues
  <2>2. Less(word, new)
    OBVIOUS
  <2> QED  BY <1>1, <2>1, <2>2, LessTransitive
<1>6. /\ \A i, j \in 1 .. n : i < j => Less(issued[i].stamp, issued[j].stamp)
      /\ \A i \in 1 .. n : Less(issued[i].over, issued[i].stamp)
  BY DEF ClockInv, StampsIncrease
<1>7. ~Less(new, new) /\ \A i \in 1 .. n : ~Less(new, issued[i].stamp)
  <2>1. ASSUME NEW s \in Stamps, Less(s, new) PROVE ~Less(new, s)
    BY <2>1, ClockAssumption DEF Less, Stamps
  <2>2. ~Less(new, new)
    BY ClockAssumption DEF Less, Stamps
  <2>3. \A i \in 1 .. n : issued[i].stamp \in Stamps
    BY <1>3 DEF Issues
  <2> QED  BY <1>5, <2>1, <2>2, <2>3
<1>8. ASSUME NEW i \in 1 .. n + 1 PROVE i \in 1 .. n \/ i = n + 1
  BY <1>1
<1>9. \A i, j \in 1 .. Len(issued') : i < j => Less(issued'[i].stamp, issued'[j].stamp)
  BY <1>1, <1>3, <1>e, <1>5, <1>6, <1>8
<1> QED  BY <1>1, <1>3, <1>e, <1>6, <1>7, <1>8, <1>9

\* A step of one thread that leaves the word alone.
LEMMA OneCall ==
  ASSUME ClockInv, NEW t \in Threads, NEW c \in ClockCalls, GoesForward(c),
         atWork' = [atWork EXCEPT ![t] = c], UNCHANGED <<wall, word, issued, order>>
  PROVE  ClockInv'
<1>1. atWork' \in [Threads -> ClockCalls] /\ \A u \in Threads : GoesForward(atWork'[u])
  BY DEF ClockInv, ClockTypeOK
<1> QED  BY <1>1 DEF ClockInv, ClockTypeOK, StampsIncrease

\* A step that does not lower the word and returns no timestamp.
LEMMA HigherWord ==
  ASSUME ClockInv, word' \in Stamps, ~Less(word', word), UNCHANGED <<wall, issued, order>>,
         atWork' \in [Threads -> ClockCalls], \A u \in Threads : GoesForward(atWork'[u])
  PROVE  ClockInv'
<1>1. ClockTypeOK' /\ StampsIncrease'
  BY DEF ClockInv, ClockTypeOK, StampsIncrease
<1>2. ASSUME order = "kept", NEW i \in 1 .. Len(issued) PROVE ~Less(word', issued[i].stamp)
  <2>1. ~Less(word, issued[i].stamp) /\ word \in Stamps
    BY <1>2 DEF ClockInv, ClockTypeOK
  <2>2. issued[i] \in Issues
    BY <1>2, ElementOfSeq DEF ClockInv, ClockTypeOK
  <2>3. issued[i].stamp \in Stamps
    BY <2>2 DEF Issues
  <2> QED  BY <2>1, <2>3, LessTransitive
<1> QED  BY <1>1, <1>2 DEF ClockInv

\* Every step of the loops, of a restart and of the wall clock keeps the invariant.
LEMMA ClockStep == ClockInv /\ [ClockNext]_clockVars => ClockInv'
<1> SUFFICES ASSUME ClockInv, [ClockNext]_clockVars PROVE ClockInv'
  OBVIOUS
<1>t. /\ ClockTypeOK /\ wall \in Nat /\ word \in Stamps /\ atWork \in [Threads -> ClockCalls]
      /\ \A t \in Threads : GoesForward(atWork[t])
  BY DEF ClockInv, ClockTypeOK
<1>z. ZeroStamp \in Stamps /\ AtRest \in ClockCalls /\ GoesForward(AtRest)
  BY ClockAssumption DEF ZeroStamp, AtRest, Stamps, ClockCalls, GoesForward
<1>1. ASSUME NEW t \in Threads, NEW kind \in {"now", "recv", "advance"}, NEW s \in Stamps, Enters(t, kind, s)
      PROVE  ClockInv'
  <2> DEFINE c == [at |-> "load", kind |-> kind, wall |-> wall, with |-> s, old |-> ZeroStamp]
  <2>1. c \in ClockCalls /\ GoesForward(c)
    BY <1>t, <1>z DEF ClockCalls, GoesForward
  <2>2. atWork' = [atWork EXCEPT ![t] = c] /\ UNCHANGED <<wall, word, issued, order>>
    BY <1>1 DEF Enters
  <2> QED  BY <1>t, <2>1, <2>2, OneCall
<1>2. ASSUME NEW t \in Threads, LoadsWord(t) PROVE ClockInv'
  <2> DEFINE c == atWork[t]
             d == IF c.kind = "recv" /\ c.with.physical > c.wall + MaxDrift
                  THEN [c EXCEPT !.kind = "now", !.wall = wall]
                  ELSE IF c.kind = "advance" /\ ~Less(word, c.with)
                  THEN AtRest
                  ELSE [c EXCEPT !.at = "swap", !.old = word]
  <2>0. c.at = "load" /\ c \in ClockCalls
    BY <1>2, <1>t DEF LoadsWord
  <2>1. d \in ClockCalls /\ GoesForward(d)
    BY <1>t, <1>z, <2>0 DEF ClockCalls, GoesForward
  <2>2. atWork' = [atWork EXCEPT ![t] = d] /\ UNCHANGED <<wall, word, issued, order>>
    BY <1>2 DEF LoadsWord
  <2> QED  BY <1>t, <2>1, <2>2, OneCall
<1>3. ASSUME NEW t \in Threads, Swaps(t) PROVE ClockInv'
  <2> DEFINE c == atWork[t]
  <2>1. c \in ClockCalls /\ word = c.old /\ c.at = "swap" /\ c.with \in Stamps /\ c.old \in Stamps
    BY <1>3, <1>t DEF Swaps, ClockCalls
  <2>2. /\ atWork' \in [Threads -> ClockCalls] /\ \A u \in Threads : GoesForward(atWork'[u])
        /\ wall' = wall
    BY <1>3, <1>t, <1>z DEF Swaps
  <2>3. CASE c.kind = "now"
    <3>1. word' = AfterNow(c) /\ issued' = Append(issued, [stamp |-> AfterNow(c), over |-> c.old]) /\ order' = order
      BY <1>3, <2>3 DEF Swaps
    <3>2. AfterNow(c) \in Stamps /\ Less(word, AfterNow(c)) /\ Less(c.old, AfterNow(c))
      BY <2>1, NextStamps
    <3>3. ClockTypeOK'
      BY <1>t, <2>1, <2>2, <3>1, <3>2, AppendProperties DEF ClockTypeOK, Issues
    <3>4. StampsIncrease' /\ (order' = "kept" => \A i \in 1 .. Len(issued') : ~Less(word', issued'[i].stamp))
      BY <2>1, <3>1, <3>2, AppendStamp
    <3> QED  BY <2>2, <3>3, <3>4 DEF ClockInv
  <2>4. CASE c.kind = "recv"
    <3>1. /\ word' = AfterRecv(c) /\ issued' = Append(issued, [stamp |-> AfterRecv(c), over |-> c.with])
          /\ order' = IF Merged(c) < Width THEN order ELSE "lost"
      BY <1>3, <2>4 DEF Swaps
    <3>2. /\ AfterRecv(c) \in Stamps
          /\ Merged(c) < Width => Less(word, AfterRecv(c)) /\ Less(c.with, AfterRecv(c))
      BY <2>1, NextStamps
    <3>3. Merged(c) \in Int /\ Width \in Int
      BY <2>1, ClockAssumption DEF Merged, Later, Stamps, ClockCalls
    <3>4. order' = "kept" => order = "kept" /\ Less(word, AfterRecv(c)) /\ Less(c.with, AfterRecv(c))
      BY <3>1, <3>2, <3>3
    <3>5. ClockTypeOK'
      BY <1>t, <2>1, <2>2, <3>1, <3>2, AppendProperties DEF ClockTypeOK, Issues
    <3>6. StampsIncrease' /\ (order' = "kept" => \A i \in 1 .. Len(issued') : ~Less(word', issued'[i].stamp))
      BY <2>1, <3>1, <3>2, <3>4, AppendStamp
    <3> QED  BY <2>2, <3>5, <3>6 DEF ClockInv
  <2>5. CASE c.kind = "advance"
    <3>1. word' = c.with /\ issued' = issued /\ order' = order
      BY <1>3, <2>5 DEF Swaps
    <3>2. Less(word, word')
      BY <1>t, <2>1, <2>5, <3>1 DEF GoesForward
    <3>3. ~Less(word', word)
      BY <2>1, <3>1, <3>2, ClockAssumption DEF Less, Stamps
    <3> QED  BY <2>1, <2>2, <3>1, <3>3, HigherWord
  <2> QED  BY <1>3, <2>3, <2>4, <2>5 DEF Swaps
<1>4. ASSUME NEW t \in Threads, SwapFails(t) PROVE ClockInv'
  <2> DEFINE d == [atWork[t] EXCEPT !.at = "load"]
  <2>1. d \in ClockCalls /\ GoesForward(d)
    BY <1>t DEF ClockCalls, GoesForward
  <2>2. atWork' = [atWork EXCEPT ![t] = d] /\ UNCHANGED <<wall, word, issued, order>>
    BY <1>4 DEF SwapFails
  <2> QED  BY <1>t, <2>1, <2>2, OneCall
<1>5. CASE FromPersisted
  <2>1. /\ atWork' \in [Threads -> ClockCalls] /\ \A u \in Threads : GoesForward(atWork'[u])
        /\ wall' = wall /\ issued' = issued /\ order' = IF Less(word', word) THEN "lost" ELSE order
    BY <1>5, <1>z DEF FromPersisted
  <2>2. word' \in Stamps
    BY <1>5, <1>t, ClockAssumption DEF FromPersisted, Stamps
  <2>3. CASE Less(word', word)
    BY <1>t, <2>1, <2>2, <2>3 DEF ClockInv, ClockTypeOK, StampsIncrease
  <2>4. CASE ~Less(word', word)
    BY <1>t, <2>1, <2>2, <2>4, HigherWord
  <2> QED  BY <2>3, <2>4
<1>6. CASE SetWall
  BY <1>6, <1>t DEF SetWall, ClockInv, ClockTypeOK, StampsIncrease
<1>7. CASE UNCHANGED clockVars
  BY <1>7, <1>t DEF clockVars, ClockInv, ClockTypeOK, StampsIncrease
<1> QED  BY <1>1, <1>2, <1>3, <1>4, <1>5, <1>6, <1>7, <1>z, ClockAssumption DEF ClockNext

\* HlcClock: the timestamps of a clock increase, and exceed what they merge, for any
\* number of threads, width of the logical part and behaviour of the wall clock,
\* until a logical part comes round in recv or a restart goes back.
THEOREM TimestampsIncrease == ClockSpec => []StampsIncrease
<1>1. ClockInit => ClockInv
  <2> SUFFICES ASSUME ClockInit PROVE ClockInv
    OBVIOUS
  <2>1. AtRest \in ClockCalls /\ AtRest.at = "idle" /\ wall \in Nat
    BY ClockAssumption DEF AtRest, ZeroStamp, ClockCalls, Stamps, ClockInit
  <2>2. word \in Stamps /\ issued \in Seq(Issues) /\ Len(issued) = 0
    BY <2>1, ClockAssumption DEF ClockInit, Stamps, Issues
  <2> QED  BY <2>1, <2>2 DEF ClockInit, ClockInv, ClockTypeOK, StampsIncrease, GoesForward
<1>2. ClockInv => StampsIncrease
  BY DEF ClockInv
<1> QED  BY <1>1, <1>2, ClockStep, PTL DEF ClockSpec

-----------------------------------------------------------------------------
(* Sdk: any number of handles, savepoints, documents and calls.            *)

\* The engine's names s are among the handle's p, once each and in the handle's order.
InStep(s, p) ==
  /\ \A i \in DOMAIN s : \E k \in DOMAIN p : s[i] = p[k]
  /\ \A i, j \in DOMAIN s, k, l \in DOMAIN p : s[i] = p[k] /\ s[j] = p[l] /\ i < j => k < l

\* The same over the places 1 .. n.
LEMMA AgreeHas ==
  ASSUME NEW s \in Seq(Names), NEW p \in Seq(Names), InStep(s, p)
  PROVE  /\ \A i \in 1 .. Len(s) : \E k \in 1 .. Len(p) : s[i] = p[k]
         /\ \A i, j \in 1 .. Len(s), k, l \in 1 .. Len(p) :
              s[i] = p[k] /\ s[j] = p[l] /\ i < j => k < l
<1>1. DOMAIN s = 1 .. Len(s) /\ DOMAIN p = 1 .. Len(p)
  OBVIOUS
<1> QED  BY <1>1 DEF InStep

\* The place of a name that is there.
LEMMA PlaceIs ==
  ASSUME NEW s \in Seq(Names), NEW n, Contains(s, n)
  PROVE  Place(s, n) \in 1 .. Len(s) /\ s[Place(s, n)] = n
<1>1. \E i \in DOMAIN s : s[i] = n
  BY DEF Contains
<1>2. Place(s, n) \in DOMAIN s /\ s[Place(s, n)] = n
  BY <1>1 DEF Place
<1> QED  BY <1>2

\* InStep is what LayersAgree says of a handle.
LEMMA AgreeIs ==
  ASSUME NEW s \in Seq(Names), NEW p \in Seq(Names), IsInjective(p), InStep(s, p)
  PROVE  /\ ToSet(s) \subseteq ToSet(p)
         /\ \A i, j \in DOMAIN s : i < j => Place(p, s[i]) < Place(p, s[j])
<1>1. ToSet(s) \subseteq ToSet(p)
  BY DEF InStep, ToSet
<1>2. ASSUME NEW i \in DOMAIN s PROVE Place(p, s[i]) \in DOMAIN p /\ p[Place(p, s[i])] = s[i]
  <2>1. Contains(p, s[i])
    BY DEF InStep, Contains
  <2> QED  BY <2>1, PlaceIs
<1>3. ASSUME NEW i \in DOMAIN s, NEW j \in DOMAIN s, i < j PROVE Place(p, s[i]) < Place(p, s[j])
  BY <1>2, <1>3 DEF InStep
<1> QED  BY <1>1, <1>3

\* A savepoint is put on both.
LEMMA AgreeAdded ==
  ASSUME NEW s \in Seq(Names), NEW p \in Seq(Names), NEW n \in Names,
         IsInjective(p), InStep(s, p), ~Contains(p, n)
  PROVE  /\ Append(s, n) \in Seq(Names) /\ Len(Append(s, n)) = Len(s) + 1
         /\ Append(p, n) \in Seq(Names) /\ IsInjective(Append(p, n))
         /\ InStep(Append(s, n), Append(p, n))
<1>1. PICK a, b : a = Append(s, n) /\ b = Append(p, n)
  OBVIOUS
<1>2. /\ a \in Seq(Names) /\ Len(s) \in Nat /\ Len(a) = Len(s) + 1 /\ DOMAIN a = 1 .. Len(s) + 1
      /\ a[Len(s) + 1] = n /\ \A i \in 1 .. Len(s) : a[i] = s[i]
  BY <1>1
<1>3. /\ b \in Seq(Names) /\ Len(p) \in Nat /\ DOMAIN b = 1 .. Len(p) + 1
      /\ b[Len(p) + 1] = n /\ \A i \in 1 .. Len(p) : b[i] = p[i]
  BY <1>1
<1>4. \A i \in 1 .. Len(p) : p[i] # n
  BY DEF Contains
<1>5. DOMAIN s = 1 .. Len(s) /\ DOMAIN p = 1 .. Len(p)
  OBVIOUS
<1>6. \A i \in 1 .. Len(s) : s[i] # n
  BY <1>4, <1>5 DEF InStep
<1>7. IsInjective(b)
  BY <1>3, <1>4, <1>5 DEF IsInjective
<1>8. \A i \in DOMAIN a : \E k \in DOMAIN b : a[i] = b[k]
  <2>1. ASSUME NEW i \in 1 .. Len(s) PROVE \E k \in DOMAIN b : a[i] = b[k]
    <3>1. PICK k \in 1 .. Len(p) : s[i] = p[k]
      BY <1>5 DEF InStep
    <3> QED  BY <1>2, <1>3, <3>1
  <2>2. \A i \in 1 .. Len(s) + 1 : i \in 1 .. Len(s) \/ i = Len(s) + 1
    BY <1>2
  <2>3. Len(p) + 1 \in 1 .. Len(p) + 1
    BY <1>3
  <2> QED  BY <1>2, <1>3, <2>1, <2>2, <2>3
<1>9. ASSUME NEW i \in DOMAIN a, NEW j \in DOMAIN a, NEW k \in DOMAIN b, NEW l \in DOMAIN b,
             a[i] = b[k], a[j] = b[l], i < j
      PROVE  k < l
  <2>1. i \in 1 .. Len(s)
    BY <1>2, <1>9
  <2>2. k \in 1 .. Len(p)
    BY <1>2, <1>3, <1>6, <1>9, <2>1
  <2>3. CASE j \in 1 .. Len(s)
    <3>1. l \in 1 .. Len(p)
      BY <1>2, <1>3, <1>6, <1>9, <2>3
    <3> QED  BY <1>2, <1>3, <1>5, <1>9, <2>1, <2>2, <2>3, <3>1 DEF InStep
  <2>4. CASE j = Len(s) + 1
    <3>1. b[l] = n /\ l \in 1 .. Len(p) + 1 /\ Len(p) \in Nat
      BY <1>2, <1>3, <1>9, <2>4
    <3>2. ~(l \in 1 .. Len(p))
      BY <1>3, <1>4, <3>1
    <3>3. l = Len(p) + 1
      BY <3>1, <3>2
    <3> QED  BY <1>3, <2>2, <3>3
  <2> QED  BY <1>2, <2>3, <2>4
<1>10. InStep(a, b)
  BY <1>8, <1>9 DEF InStep
<1> QED  BY <1>1, <1>2, <1>3, <1>7, <1>10

\* A rollback to a savepoint: the engine keeps what came before it, the handle also
\* the savepoint.
LEMMA AgreeCut ==
  ASSUME NEW s \in Seq(Names), NEW p \in Seq(Names), NEW n,
         IsInjective(p), InStep(s, p), Contains(s, n), Contains(p, n)
  PROVE  /\ SubSeq(s, 1, Place(s, n) - 1) \in Seq(Names)
         /\ Len(SubSeq(s, 1, Place(s, n) - 1)) <= Len(s)
         /\ SubSeq(p, 1, Place(p, n)) \in Seq(Names) /\ IsInjective(SubSeq(p, 1, Place(p, n)))
         /\ InStep(SubSeq(s, 1, Place(s, n) - 1), SubSeq(p, 1, Place(p, n)))
<1>1. PICK x : x = Place(s, n)
  OBVIOUS
<1>2. PICK y : y = Place(p, n)
  OBVIOUS
<1>3. x \in 1 .. Len(s) /\ s[x] = n /\ y \in 1 .. Len(p) /\ p[y] = n
  BY <1>1, <1>2, PlaceIs
<1>4. Len(s) \in Nat /\ Len(p) \in Nat /\ DOMAIN s = 1 .. Len(s) /\ DOMAIN p = 1 .. Len(p)
  OBVIOUS
<1>5. PICK a, b : a = SubSeq(s, 1, x - 1) /\ b = SubSeq(p, 1, y)
  OBVIOUS
<1>6. /\ a \in Seq(Names) /\ Len(a) = x - 1 /\ DOMAIN a = 1 .. x - 1
      /\ \A i \in 1 .. x - 1 : a[i] = s[i] /\ i \in DOMAIN s /\ i < x
  BY <1>3, <1>4, <1>5
<1>7. /\ b \in Seq(Names) /\ DOMAIN b = 1 .. y
      /\ \A k \in 1 .. y : b[k] = p[k] /\ k \in DOMAIN p
  BY <1>3, <1>4, <1>5
<1>8. IsInjective(b)
  BY <1>7 DEF IsInjective
<1>9. ASSUME NEW i \in 1 .. x - 1 PROVE \E k \in 1 .. y : a[i] = b[k]
  <2>1. i \in 1 .. Len(s) /\ i < x
    BY <1>3, <1>4
  <2>2. PICK k \in 1 .. Len(p) : s[i] = p[k]
    BY <2>1, AgreeHas
  <2>3. k < y
    BY <1>3, <2>1, <2>2, AgreeHas
  <2>4. k \in 1 .. y
    BY <1>3, <1>4, <2>3
  <2> QED  BY <1>6, <1>7, <2>2, <2>4
<1>10. InStep(a, b)
  BY <1>6, <1>7, <1>9 DEF InStep
<1>11. Len(a) <= Len(s)
  BY <1>3, <1>4, <1>6
<1> QED  BY <1>1, <1>2, <1>5, <1>6, <1>7, <1>8, <1>10, <1>11

\* A sequence without its element x.
LEMMA RemovedIs ==
  ASSUME NEW s \in Seq(Names), NEW x \in 1 .. Len(s)
  PROVE  /\ RemoveAt(s, x) \in Seq(Names) /\ Len(RemoveAt(s, x)) = Len(s) - 1
         /\ \A i \in 1 .. Len(s) - 1 :
              RemoveAt(s, x)[i] = s[IF i < x THEN i ELSE i + 1]
<1>1. PICK u, v : u = SubSeq(s, 1, x - 1) /\ v = SubSeq(s, x + 1, Len(s))
  OBVIOUS
<1>2. u \in Seq(Names) /\ Len(u) = x - 1 /\ \A i \in 1 .. x - 1 : u[i] = s[i]
  BY <1>1
<1>3. v \in Seq(Names) /\ Len(v) = Len(s) - x /\ \A i \in 1 .. Len(s) - x : v[i] = s[x + i]
  BY <1>1
<1>4. PICK w : w = u \o v
  OBVIOUS
<1>5. /\ w \in Seq(Names) /\ Len(w) = (x - 1) + (Len(s) - x)
      /\ \A i \in 1 .. x - 1 : w[i] = u[i]
      /\ \A i \in 1 .. Len(s) - x : w[(x - 1) + i] = v[i]
  <2>1. u \in Seq(Names) /\ v \in Seq(Names)
    BY <1>2, <1>3
  <2>2. /\ w \in Seq(Names) /\ Len(w) = Len(u) + Len(v)
        /\ \A i \in 1 .. Len(u) : w[i] = u[i]
        /\ \A i \in 1 .. Len(v) : w[Len(u) + i] = v[i]
    BY <1>4, <2>1
  <2> QED  BY <1>2, <1>3, <2>2
<1>6. Len(w) = Len(s) - 1
  BY <1>5
<1>7. ASSUME NEW i \in 1 .. Len(s) - 1 PROVE w[i] = s[IF i < x THEN i ELSE i + 1]
  <2>1. CASE i < x
    BY <1>2, <1>5, <2>1
  <2>2. CASE ~(i < x)
    <3>1. PICK m : m = i - x + 1
      OBVIOUS
    <3>2. m \in 1 .. Len(s) - x /\ (x - 1) + m = i /\ x + m = i + 1
      BY <2>2, <3>1
    <3>3. w[(x - 1) + m] = v[m] /\ v[m] = s[x + m]
      BY <1>3, <1>5, <3>2
    <3> QED  BY <2>2, <3>2, <3>3
  <2> QED  BY <2>1, <2>2
<1>8. w = RemoveAt(s, x)
  BY <1>1, <1>4 DEF RemoveAt
<1> QED  BY <1>5, <1>6, <1>7, <1>8

\* A savepoint is released on both.
LEMMA AgreeReleased ==
  ASSUME NEW s \in Seq(Names), NEW p \in Seq(Names), NEW n,
         IsInjective(p), InStep(s, p), Contains(s, n), Contains(p, n)
  PROVE  /\ RemoveAt(s, Place(s, n)) \in Seq(Names)
         /\ Len(RemoveAt(s, Place(s, n))) <= Len(s)
         /\ RemoveAt(p, Place(p, n)) \in Seq(Names) /\ IsInjective(RemoveAt(p, Place(p, n)))
         /\ InStep(RemoveAt(s, Place(s, n)), RemoveAt(p, Place(p, n)))
<1>1. PICK x : x = Place(s, n)
  OBVIOUS
<1>2. PICK y : y = Place(p, n)
  OBVIOUS
<1>3. x \in 1 .. Len(s) /\ s[x] = n /\ y \in 1 .. Len(p) /\ p[y] = n
  BY <1>1, <1>2, PlaceIs
<1>4. Len(s) \in Nat /\ Len(p) \in Nat /\ DOMAIN s = 1 .. Len(s) /\ DOMAIN p = 1 .. Len(p)
  OBVIOUS
<1>20. /\ \A i \in 1 .. Len(s) : \E k \in 1 .. Len(p) : s[i] = p[k]
       /\ \A i, j \in 1 .. Len(s), k, l \in 1 .. Len(p) :
            s[i] = p[k] /\ s[j] = p[l] /\ i < j => k < l
  BY AgreeHas
<1>5. PICK a, b : a = RemoveAt(s, x) /\ b = RemoveAt(p, y)
  OBVIOUS
<1> DEFINE f(i) == IF i < x THEN i ELSE i + 1
           g(k) == IF k < y THEN k ELSE k + 1
<1>6. /\ a \in Seq(Names) /\ Len(a) = Len(s) - 1 /\ \A i \in 1 .. Len(s) - 1 : a[i] = s[f(i)]
      /\ b \in Seq(Names) /\ Len(b) = Len(p) - 1 /\ \A k \in 1 .. Len(p) - 1 : b[k] = p[g(k)]
  BY <1>3, <1>5, RemovedIs
<1>7. DOMAIN a = 1 .. Len(s) - 1 /\ DOMAIN b = 1 .. Len(p) - 1
  BY <1>6
<1>8. /\ \A i \in 1 .. Len(s) - 1 : f(i) \in 1 .. Len(s) /\ f(i) # x
      /\ \A i, j \in 1 .. Len(s) - 1 : i < j => f(i) < f(j)
  BY <1>3, <1>4
<1>9. /\ \A k \in 1 .. Len(p) - 1 : g(k) \in 1 .. Len(p) /\ g(k) # y
      /\ \A k, l \in 1 .. Len(p) - 1 : (g(k) < g(l) => k < l) /\ (g(k) = g(l) => k = l)
      /\ \A h \in 1 .. Len(p) : h # y => \E k \in 1 .. Len(p) - 1 : h = g(k)
  <2>1. \A k \in 1 .. Len(p) - 1 : g(k) \in 1 .. Len(p) /\ g(k) # y
    BY <1>3, <1>4
  <2>2. \A k, l \in 1 .. Len(p) - 1 : (g(k) < g(l) => k < l) /\ (g(k) = g(l) => k = l)
    BY <1>3, <1>4
  <2>3. ASSUME NEW h \in 1 .. Len(p), h # y PROVE \E k \in 1 .. Len(p) - 1 : h = g(k)
    <3>1. CASE h < y
      <4>1. h \in 1 .. Len(p) - 1 /\ h = g(h)
        BY <1>3, <1>4, <3>1
      <4> QED  BY <4>1
    <3>2. CASE ~(h < y)
      <4>1. h - 1 \in 1 .. Len(p) - 1 /\ h = g(h - 1)
        BY <1>3, <1>4, <2>3, <3>2
      <4> QED  BY <4>1
    <3> QED  BY <3>1, <3>2
  <2> QED  BY <2>1, <2>2, <2>3
<1> HIDE DEF f, g
<1>10. IsInjective(b)
  <2>1. ASSUME NEW k \in 1 .. Len(p) - 1, NEW l \in 1 .. Len(p) - 1, b[k] = b[l] PROVE k = l
    <3>1. p[g(k)] = p[g(l)] /\ g(k) \in DOMAIN p /\ g(l) \in DOMAIN p
      BY <1>4, <1>6, <1>9, <2>1
    <3>2. g(k) = g(l)
      BY <3>1 DEF IsInjective
    <3> QED  BY <1>9, <2>1, <3>2
  <2> QED  BY <1>7, <2>1 DEF IsInjective
<1>11. ASSUME NEW i \in 1 .. Len(s) - 1 PROVE \E k \in 1 .. Len(p) - 1 : a[i] = b[k]
  <2>1. PICK h \in 1 .. Len(p) : s[f(i)] = p[h]
    BY <1>8, <1>20
  <2>2. s[f(i)] # n
    <3>1. f(i) \in 1 .. Len(s) /\ f(i) # x
      BY <1>8
    <3>2. f(i) < x \/ x < f(i)
      BY <1>3, <1>4, <3>1
    <3>3. ASSUME s[f(i)] = p[y], s[x] = p[y] PROVE FALSE
      <4>1. y < y
        BY <1>3, <3>1, <3>2, <3>3, AgreeHas
      <4> QED  BY <1>3, <1>4, <4>1
    <3> QED  BY <1>3, <3>3
  <2>3. h # y
    BY <1>3, <2>1, <2>2
  <2>4. PICK k \in 1 .. Len(p) - 1 : h = g(k)
    BY <1>4, <1>9, <2>3
  <2> QED  BY <1>6, <2>1, <2>4
<1>12. ASSUME NEW i \in 1 .. Len(s) - 1, NEW j \in 1 .. Len(s) - 1,
              NEW k \in 1 .. Len(p) - 1, NEW l \in 1 .. Len(p) - 1,
              a[i] = b[k], a[j] = b[l], i < j
       PROVE  k < l
  <2>1. s[f(i)] = p[g(k)] /\ s[f(j)] = p[g(l)] /\ f(i) < f(j)
    BY <1>6, <1>8, <1>12
  <2>2. g(k) < g(l)
    <3>1. f(i) \in 1 .. Len(s) /\ f(j) \in 1 .. Len(s) /\ g(k) \in 1 .. Len(p) /\ g(l) \in 1 .. Len(p)
      BY <1>8, <1>9
    <3> QED  BY <2>1, <3>1, <1>20
  <2> QED  BY <1>9, <2>2
<1>13. InStep(a, b)
  BY <1>7, <1>11, <1>12 DEF InStep
<1>14. Len(a) <= Len(s)
  BY <1>4, <1>6
<1> QED  BY <1>1, <1>2, <1>5, <1>6, <1>10, <1>13, <1>14

\* The handles: what LayersAgree needs to be kept by every step.
HandlesOK ==
  /\ txnState \in [Txns -> {"none", "active", "committed", "aborted"}]
  /\ savepoints \in [Txns -> Seq(Names)] /\ stack \in [Txns -> Seq(Names)]
  /\ tracked \subseteq Txns
  /\ \A t \in Txns :
       /\ IsInjective(savepoints[t]) /\ Len(stack[t]) <= MaxSavepoints
       /\ InStep(stack[t], savepoints[t])
       /\ ~Active(t) => savepoints[t] = <<>> /\ stack[t] = <<>> /\ t \notin tracked

\* Every attempt has a handle that began, and one that is over no open handle.
RunnersOK ==
  /\ runner \in [Runners -> [at : {"idle", "fn", "backoff", "done"},
                              attempt : 0 .. MaxRetries, txn : Txns \cup {0}]]
  /\ \A r \in Runners : runner[r].at # "idle" =>
       /\ runner[r].txn \in Txns /\ txnState[runner[r].txn] # "none"
       /\ runner[r].at # "fn" => ~Active(runner[r].txn)

Taken    == {d \in Docs : docs[d] = "taken"}
Answered == {c \in Takers : taker[c].doc # 0 /\ taker[c].at = "done"}

\* A call that goes on to write has found a document.
TakersOK ==
  /\ docs \in [Docs -> {"none", "open", "taken", "deleted"}]
  /\ taker \in [Takers -> [at : {"idle", "found", "done"}, doc : Docs \cup {0}]]
  /\ \A c \in Takers : taker[c].at = "found" => taker[c].doc # 0
  /\ Cardinality(Taken) <= Cardinality(Answered)

SdkInv ==
  /\ HandlesOK /\ RunnersOK /\ TakersOK
  /\ author \in [Docs -> Txns \cup {0}] /\ closed \in BOOLEAN

\* A handle that began has begun for good, and one that ended has ended.
Onwards ==
  \A t \in Txns : txnState[t] # "none" =>
    txnState'[t] # "none" /\ (~Active(t) => txnState'[t] # "active")

\* A handle starts with no savepoint.
LEMMA EmptyIs == <<>> \in Seq(Names) /\ Len(<<>>) = 0 /\ IsInjective(<<>>) /\ InStep(<<>>, <<>>)
<1>1. PICK e : e = <<>>
  OBVIOUS
<1>2. e \in Seq(Names) /\ Len(e) = 0 /\ DOMAIN e = {}
  BY <1>1
<1>3. IsInjective(e) /\ InStep(e, e)
  BY <1>2 DEF IsInjective, InStep
<1> QED  BY <1>1, <1>2, <1>3

\* Whatever the handle has, an engine that forgot it agrees.
LEMMA EmptyAgrees ==
  ASSUME NEW p
  PROVE  InStep(<<>>, p)
<1>1. PICK e : e = <<>>
  OBVIOUS
<1>2. DOMAIN e = {}
  BY <1>1
<1> QED  BY <1>1, <1>2 DEF InStep

\* beginTransaction: a new handle, with no savepoint on either side.
LEMMA BeginKeeps ==
  ASSUME HandlesOK, NEW t \in Txns, Begins(t)
  PROVE  HandlesOK' /\ Onwards /\ Active(t)'
<1>1. /\ txnState[t] = "none" /\ txnState' = [txnState EXCEPT ![t] = "active"]
      /\ tracked' = tracked \cup {t} /\ savepoints' = savepoints /\ stack' = stack
  BY DEF Begins
<1>2. txnState'[t] = "active" /\ \A u \in Txns : u # t => txnState'[u] = txnState[u]
  BY <1>1 DEF HandlesOK
<1>3. \A u \in Txns : ~Active(u)' => ~Active(u) /\ u # t
  BY <1>2 DEF Active
<1>4. \A u \in Txns : ~Active(u)' => savepoints'[u] = <<>> /\ stack'[u] = <<>> /\ u \notin tracked'
  BY <1>1, <1>3 DEF HandlesOK
<1>5. HandlesOK'
  BY <1>1, <1>4 DEF HandlesOK
<1> QED  BY <1>1, <1>2, <1>5 DEF Onwards, Active

\* commit and abort: both sides forget the handle's savepoints.
LEMMA EndKeeps ==
  ASSUME HandlesOK, NEW t \in Txns, Active(t), NEW s \in {"committed", "aborted"}, Ends(t, s),
         tracked' = tracked \ {t}, stack' = [stack EXCEPT ![t] = <<>>]
  PROVE  HandlesOK' /\ Onwards /\ ~Active(t)'
<1>1. txnState' = [txnState EXCEPT ![t] = s] /\ savepoints' = [savepoints EXCEPT ![t] = <<>>]
  BY DEF Ends
<1>2. /\ txnState'[t] = s /\ savepoints'[t] = <<>> /\ stack'[t] = <<>>
      /\ \A u \in Txns : u # t =>
           txnState'[u] = txnState[u] /\ savepoints'[u] = savepoints[u] /\ stack'[u] = stack[u]
  BY <1>1 DEF HandlesOK
<1>3. /\ txnState' \in [Txns -> {"none", "active", "committed", "aborted"}]
      /\ savepoints' \in [Txns -> Seq(Names)] /\ stack' \in [Txns -> Seq(Names)]
      /\ tracked' \subseteq Txns
  BY <1>1, EmptyIs DEF HandlesOK
<1>4. ASSUME NEW u \in Txns
      PROVE  /\ IsInjective(savepoints'[u]) /\ Len(stack'[u]) <= MaxSavepoints
             /\ InStep(stack'[u], savepoints'[u])
             /\ ~Active(u)' => savepoints'[u] = <<>> /\ stack'[u] = <<>> /\ u \notin tracked'
  <2>1. CASE u = t
    <3>1. 0 <= MaxSavepoints
      BY SdkAssumption
    <3> QED  BY <1>2, <2>1, <3>1, EmptyIs
  <2>2. CASE u # t
    BY <1>2, <2>2 DEF HandlesOK, Active
  <2> QED  BY <2>1, <2>2
<1>5. HandlesOK'
  BY <1>3, <1>4 DEF HandlesOK
<1> QED  BY <1>2, <1>5 DEF Onwards, Active

\* A savepoint call that leaves handle t the names p and the engine s.
LEMMA SavepointCall ==
  ASSUME HandlesOK, NEW t \in Txns, Active(t), NEW s \in Seq(Names), NEW p \in Seq(Names),
         stack' = [stack EXCEPT ![t] = s], savepoints' = [savepoints EXCEPT ![t] = p],
         txnState' = txnState, tracked' \in {tracked, tracked \cup {t}},
         IsInjective(p), Len(s) <= MaxSavepoints, InStep(s, p)
  PROVE  HandlesOK' /\ Onwards
<1>1. /\ savepoints'[t] = p /\ stack'[t] = s
      /\ \A u \in Txns : u # t => savepoints'[u] = savepoints[u] /\ stack'[u] = stack[u]
  BY DEF HandlesOK
<1>2. ASSUME NEW u \in Txns
      PROVE  /\ IsInjective(savepoints'[u]) /\ Len(stack'[u]) <= MaxSavepoints
             /\ InStep(stack'[u], savepoints'[u])
             /\ ~Active(u)' => savepoints'[u] = <<>> /\ stack'[u] = <<>> /\ u \notin tracked'
  <2>1. CASE u = t
    BY <1>1, <2>1 DEF Active
  <2>2. CASE u # t
    BY <1>1, <2>2 DEF HandlesOK, Active
  <2> QED  BY <2>1, <2>2
<1>3. HandlesOK'
  BY <1>2 DEF HandlesOK
<1> QED  BY <1>3 DEF Onwards, Active

\* The three calls on savepoints keep both sides in step.
LEMMA SavepointsKeep ==
  ASSUME HandlesOK, NEW t \in Txns, NEW n \in Names,
         Savepoint(t, n) \/ RollbackToSavepoint(t, n) \/ ReleaseSavepoint(t, n)
  PROVE  HandlesOK' /\ Onwards
<1>1. PICK s : s = stack[t]
  OBVIOUS
<1>2. PICK p : p = savepoints[t]
  OBVIOUS
<1>3. /\ s \in Seq(Names) /\ p \in Seq(Names) /\ IsInjective(p) /\ InStep(s, p)
      /\ Len(s) <= MaxSavepoints /\ Len(s) \in Nat /\ MaxSavepoints \in Nat
  <2>1. s \in Seq(Names) /\ p \in Seq(Names) /\ IsInjective(p) /\ InStep(s, p) /\ Len(s) <= MaxSavepoints
    BY <1>1, <1>2 DEF HandlesOK
  <2> QED  BY <2>1, SdkAssumption
<1>4. ASSUME Savepoint(t, n) PROVE HandlesOK' /\ Onwards
  <2>1. /\ Active(t) /\ ~Contains(p, n) /\ Len(s) < MaxSavepoints
        /\ tracked' = tracked \cup {t} /\ txnState' = txnState
        /\ stack' = [stack EXCEPT ![t] = Append(s, n)]
        /\ savepoints' = [savepoints EXCEPT ![t] = Append(p, n)]
    BY <1>1, <1>2, <1>4 DEF Savepoint
  <2>2. /\ Append(s, n) \in Seq(Names) /\ Len(Append(s, n)) = Len(s) + 1
        /\ Append(p, n) \in Seq(Names) /\ IsInjective(Append(p, n))
        /\ InStep(Append(s, n), Append(p, n))
    BY <1>3, <2>1, AgreeAdded
  <2>3. Len(Append(s, n)) <= MaxSavepoints
    BY <1>3, <2>1, <2>2
  <2>4. PICK a, b : a = Append(s, n) /\ b = Append(p, n)
    OBVIOUS
  <2>5. /\ a \in Seq(Names) /\ b \in Seq(Names) /\ IsInjective(b) /\ InStep(a, b)
        /\ Len(a) <= MaxSavepoints
        /\ stack' = [stack EXCEPT ![t] = a] /\ savepoints' = [savepoints EXCEPT ![t] = b]
    BY <2>1, <2>2, <2>3, <2>4
  <2> QED  BY <2>1, <2>5, SavepointCall
<1>5. ASSUME RollbackToSavepoint(t, n) PROVE HandlesOK' /\ Onwards
  <2>1. /\ Active(t) /\ Contains(p, n) /\ Contains(s, n)
        /\ tracked' = tracked /\ txnState' = txnState
        /\ stack' = [stack EXCEPT ![t] = SubSeq(s, 1, Place(s, n) - 1)]
        /\ savepoints' = [savepoints EXCEPT ![t] = SubSeq(p, 1, Place(p, n))]
    BY <1>1, <1>2, <1>5 DEF RollbackToSavepoint
  <2>2. PICK a, b : a = SubSeq(s, 1, Place(s, n) - 1) /\ b = SubSeq(p, 1, Place(p, n))
    OBVIOUS
  <2>3. /\ a \in Seq(Names) /\ b \in Seq(Names) /\ IsInjective(b) /\ InStep(a, b) /\ Len(a) <= Len(s)
    BY <1>3, <2>1, <2>2, AgreeCut
  <2>4. Len(a) <= MaxSavepoints
    BY <1>3, <2>3
  <2>5. stack' = [stack EXCEPT ![t] = a] /\ savepoints' = [savepoints EXCEPT ![t] = b]
    BY <2>1, <2>2
  <2> QED  BY <2>1, <2>3, <2>4, <2>5, SavepointCall
<1>6. ASSUME ReleaseSavepoint(t, n) PROVE HandlesOK' /\ Onwards
  <2>1. /\ Active(t) /\ Contains(p, n) /\ Contains(s, n)
        /\ tracked' = tracked /\ txnState' = txnState
        /\ stack' = [stack EXCEPT ![t] = RemoveAt(s, Place(s, n))]
        /\ savepoints' = [savepoints EXCEPT ![t] = RemoveAt(p, Place(p, n))]
    BY <1>1, <1>2, <1>6 DEF ReleaseSavepoint
  <2>2. PICK a, b : a = RemoveAt(s, Place(s, n)) /\ b = RemoveAt(p, Place(p, n))
    OBVIOUS
  <2>3. /\ a \in Seq(Names) /\ b \in Seq(Names) /\ IsInjective(b) /\ InStep(a, b) /\ Len(a) <= Len(s)
    BY <1>3, <2>1, <2>2, AgreeReleased
  <2>4. Len(a) <= MaxSavepoints
    BY <1>3, <2>3
  <2>5. stack' = [stack EXCEPT ![t] = a] /\ savepoints' = [savepoints EXCEPT ![t] = b]
    BY <2>1, <2>2
  <2> QED  BY <2>1, <2>3, <2>4, <2>5, SavepointCall
<1> QED  BY <1>4, <1>5, <1>6

\* Runners that do nothing while the handles go on.
LEMMA RunnersStay ==
  ASSUME RunnersOK, Onwards, runner' = runner
  PROVE  RunnersOK'
<1>1. ASSUME NEW r \in Runners, runner[r].at # "idle"
      PROVE  /\ runner[r].txn \in Txns /\ txnState'[runner[r].txn] # "none"
             /\ runner[r].at # "fn" => txnState'[runner[r].txn] # "active"
  BY <1>1 DEF RunnersOK, Onwards
<1> QED  BY <1>1 DEF RunnersOK, Active

\* Runner r goes to a place where its handle t may be as it is.
LEMMA RunnerGoes ==
  ASSUME RunnersOK, Onwards, NEW r \in Runners, NEW place \in {"fn", "backoff", "done"},
         NEW k \in 0 .. MaxRetries, NEW t \in Txns, Goes(r, place, k, t),
         txnState'[t] # "none", place # "fn" => txnState'[t] # "active"
  PROVE  RunnersOK'
<1>1. /\ runner'[r] = [at |-> place, attempt |-> k, txn |-> t]
      /\ \A q \in Runners : q # r => runner'[q] = runner[q]
      /\ runner' \in [Runners -> [at : {"idle", "fn", "backoff", "done"},
                                   attempt : 0 .. MaxRetries, txn : Txns \cup {0}]]
  BY DEF Goes, RunnersOK
<1>2. ASSUME NEW q \in Runners, runner'[q].at # "idle"
      PROVE  /\ runner'[q].txn \in Txns /\ txnState'[runner'[q].txn] # "none"
             /\ runner'[q].at # "fn" => txnState'[runner'[q].txn] # "active"
  <2>1. CASE q = r
    BY <1>1, <2>1
  <2>2. CASE q # r
    <3>1. runner'[q] = runner[q] /\ runner[q].at # "idle"
      BY <1>1, <1>2, <2>2
    <3> QED  BY <3>1 DEF RunnersOK, Onwards
  <2> QED  BY <2>1, <2>2
<1> QED  BY <1>1, <1>2 DEF RunnersOK, Active

\* An attempt's handle, committed, rolled back or left, is not open.
LEMMA FnKeeps ==
  ASSUME HandlesOK, RunnersOK, NEW r \in Runners,
         FnReturns(r) \/ \E conflict \in BOOLEAN : FnThrows(r, conflict)
  PROVE  HandlesOK' /\ RunnersOK'
<1>1. PICK t : t = runner[r].txn
  OBVIOUS
<1>2. PICK k : k = runner[r].attempt
  OBVIOUS
<1>3. runner[r].at = "fn"
  BY DEF FnReturns, FnThrows
<1>4. t \in Txns /\ txnState[t] # "none" /\ k \in 0 .. MaxRetries
  BY <1>1, <1>2, <1>3 DEF RunnersOK
<1>5. Commits(t) \/ Rollbacks(t) \/ (~Active(t) /\ UNCHANGED Handles)
  BY <1>1 DEF FnReturns, FnThrows
<1>6. HandlesOK' /\ Onwards /\ ~Active(t)'
  <2>1. CASE Commits(t)
    BY <1>4, <2>1, EndKeeps DEF Commits
  <2>2. CASE Rollbacks(t)
    BY <1>4, <2>2, EndKeeps DEF Rollbacks
  <2>3. CASE ~Active(t) /\ UNCHANGED Handles
    BY <2>3 DEF Handles, HandlesOK, Onwards, Active
  <2> QED  BY <1>5, <2>1, <2>2, <2>3
<1>7. \E place \in {"backoff", "done"}, i \in 0 .. MaxRetries : Goes(r, place, i, t)
  <2>1. k + 1 \in 0 .. MaxRetries \/ ~(k < MaxRetries)
    BY <1>4, SdkAssumption
  <2>2. Goes(r, "done", k, t) \/ (k < MaxRetries /\ Goes(r, "backoff", k + 1, t))
    BY <1>1, <1>2 DEF FnReturns, FnThrows
  <2> QED  BY <1>4, <2>1, <2>2
<1>8. PICK place \in {"backoff", "done"}, i \in 0 .. MaxRetries : Goes(r, place, i, t)
  BY <1>7
<1>9. txnState'[t] # "none" /\ txnState'[t] # "active"
  BY <1>4, <1>6 DEF Onwards, Active
<1>10. RunnersOK'
  BY <1>4, <1>6, <1>8, <1>9, RunnerGoes
<1> QED  BY <1>6, <1>10

\* A set of naturals has a least element.
LEMMA LeastOf ==
  ASSUME NEW ns \in SUBSET Nat, ns # {}
  PROVE  \E m \in ns : \A n \in ns : m <= n
<1> DEFINE less == OpToRel(<, Nat)
<1>1. IsWellFoundedOn(less, Nat)
  BY NatLessThanWellFounded
<1>2. \A m, n \in Nat : m < n => <<m, n>> \in less
  BY DEF OpToRel
<1> HIDE DEF less
<1>3. PICK m \in ns : \A n \in ns : ~ (<<n, m>> \in less)
  BY <1>1, WFMin
<1>4. ASSUME NEW n \in ns PROVE m <= n
  <2>1. m \in Nat /\ n \in Nat /\ ~(n < m)
    BY <1>2, <1>3
  <2> QED  BY <2>1
<1> QED  BY <1>3, <1>4

\* The scan finds an open document if there is one.
LEMMA FirstIs ==
  /\ \A d \in Docs : d \in Nat \ {0}
  /\ Open # {} => First \in Docs /\ docs[First] = "open"
<1>1. \A d \in Docs : d \in Nat \ {0}
  <2>1. Cardinality(Docs) \in Nat
    BY SdkAssumption, FS_CardinalityType
  <2> QED  BY <2>1, SdkAssumption
<1>2. ASSUME Open # {} PROVE First \in Open
  <2>1. Open \in SUBSET Nat
    BY <1>1 DEF Open
  <2>2. \E d \in Open : \A e \in Open : d <= e
    BY <1>2, <2>1, LeastOf
  <2> QED  BY <2>2 DEF First
<1> QED  BY <1>1, <1>2 DEF Open

\* Documents that change but for the taken ones, and calls that stay.
LEMMA TakenStays ==
  ASSUME TakersOK, NEW d \in Docs, NEW v \in {"open", "deleted"}, docs[d] # "taken",
         docs' = [docs EXCEPT ![d] = v], taker' = taker
  PROVE  TakersOK'
<1>1. docs'[d] = v /\ \A e \in Docs : e # d => docs'[e] = docs[e]
  BY DEF TakersOK
<1>2. Taken' = Taken
  BY <1>1 DEF Taken
<1>3. Answered' = Answered
  BY DEF Answered
<1> QED  BY <1>2, <1>3 DEF TakersOK

\* Steps of handles and attempts take no document.
LEMMA NothingTaken ==
  ASSUME TakersOK, docs' = docs, taker' = taker
  PROVE  TakersOK'
<1>1. Taken' = Taken /\ Answered' = Answered
  BY DEF Taken, Answered
<1> QED  BY <1>1 DEF TakersOK

\* The read of a findOneAnd call takes nothing yet.
LEMMA FindKeeps ==
  ASSUME TakersOK, NEW c \in Takers, TakerFinds(c)
  PROVE  TakersOK'
<1>1. docs' = docs /\ taker[c].at = "idle"
  BY DEF TakerFinds
<1>2. PICK to \in [at : {"idle", "found", "done"}, doc : Docs \cup {0}] :
        /\ taker' = [taker EXCEPT ![c] = to]
        /\ to = [at |-> "done", doc |-> 0] \/ (to.at = "found" /\ to.doc # 0)
  <2>1. CASE Open = {}
    BY <2>1 DEF TakerFinds
  <2>2. CASE Open # {}
    <3>1. First \in Docs /\ First # 0
      BY <2>2, FirstIs
    <3>2. taker' = [taker EXCEPT ![c] = [at |-> "found", doc |-> First]]
      BY <2>2 DEF TakerFinds
    <3>3. [at |-> "found", doc |-> First] \in [at : {"idle", "found", "done"}, doc : Docs \cup {0}]
      BY <3>1
    <3> QED  BY <3>1, <3>2, <3>3
  <2> QED  BY <2>1, <2>2
<1>3. /\ taker'[c] = to /\ \A e \in Takers : e # c => taker'[e] = taker[e]
      /\ taker' \in [Takers -> [at : {"idle", "found", "done"}, doc : Docs \cup {0}]]
  BY <1>2 DEF TakersOK
<1>4. ~(to.doc # 0 /\ to.at = "done")
  BY <1>2
<1>5. Answered' = Answered
  BY <1>1, <1>3, <1>4 DEF Answered
<1>6. Taken' = Taken
  BY <1>1 DEF Taken
<1>7. \A e \in Takers : taker'[e].at = "found" => taker'[e].doc # 0
  BY <1>2, <1>3 DEF TakersOK
<1> QED  BY <1>1, <1>3, <1>5, <1>6, <1>7 DEF TakersOK

\* Its write answers with at most the one document it read.
LEMMA WriteKeeps ==
  ASSUME TakersOK, NEW c \in Takers, TakerWrites(c)
  PROVE  TakersOK'
<1>1. taker[c].at = "found" /\ taker' = [taker EXCEPT ![c].at = "done"]
  BY DEF TakerWrites
<1>2. /\ taker'[c].at = "done" /\ taker'[c].doc = taker[c].doc /\ taker[c].doc # 0
      /\ \A e \in Takers : e # c => taker'[e] = taker[e]
      /\ taker' \in [Takers -> [at : {"idle", "found", "done"}, doc : Docs \cup {0}]]
  BY <1>1 DEF TakersOK
<1>3. Answered' = Answered \cup {c} /\ c \notin Answered
  BY <1>1, <1>2 DEF Answered
<1>4. IsFiniteSet(Answered) /\ IsFiniteSet(Taken)
  BY SdkAssumption, FS_Subset DEF Answered, Taken
<1>5. Cardinality(Answered') = Cardinality(Answered) + 1
  BY <1>3, <1>4, FS_AddElement
<1>6. Cardinality(Answered) \in Nat /\ Cardinality(Taken) \in Nat
  BY <1>4, FS_CardinalityType
<1>7. /\ Cardinality(Taken') \in {Cardinality(Taken), Cardinality(Taken) + 1}
      /\ docs' \in [Docs -> {"none", "open", "taken", "deleted"}]
  <2>1. CASE docs' = docs
    BY <2>1 DEF TakersOK, Taken
  <2>2. CASE docs' # docs
    <3>1. Open # {} /\ docs' = [docs EXCEPT ![First] = "taken"]
      BY <2>2 DEF TakerWrites
    <3>2. First \in Docs /\ docs[First] = "open"
      BY <3>1, FirstIs
    <3>3. Taken' = Taken \cup {First} /\ First \notin Taken
      BY <3>1, <3>2 DEF Taken, TakersOK
    <3>4. Cardinality(Taken') = Cardinality(Taken) + 1
      BY <1>4, <3>3, FS_AddElement
    <3>5. docs' \in [Docs -> {"none", "open", "taken", "deleted"}]
      BY <3>1 DEF TakersOK
    <3> QED  BY <3>4, <3>5
  <2> QED  BY <2>1, <2>2
<1>8. Cardinality(Taken) <= Cardinality(Answered)
  BY DEF TakersOK
<1>9. Cardinality(Taken') <= Cardinality(Answered')
  BY <1>5, <1>6, <1>7, <1>8
<1>10. \A e \in Takers : taker'[e].at = "found" => taker'[e].doc # 0
  BY <1>2 DEF TakersOK
<1> QED  BY <1>2, <1>7, <1>9, <1>10 DEF TakersOK

\* Every step keeps the three parts, which share no variable but the handles.
LEMMA SdkStep ==
  ASSUME SdkInv, SdkNext
  PROVE  SdkInv'
<1>0. /\ HandlesOK /\ RunnersOK /\ TakersOK /\ author \in [Docs -> Txns \cup {0}]
      /\ closed \in BOOLEAN
  BY DEF SdkInv
<1>1. ASSUME NEW t \in Txns, BeginTransaction(t) PROVE SdkInv'
  <2>1. Begins(t) /\ UNCHANGED <<docs, author, closed, taker, runner>>
    BY <1>1 DEF BeginTransaction
  <2> QED  BY <1>0, <2>1, BeginKeeps, RunnersStay, NothingTaken DEF SdkInv
<1>2. ASSUME NEW t \in Txns, Commit(t) \/ Rollback(t) PROVE SdkInv'
  <2>1. UNCHANGED <<docs, author, closed, taker, runner>>
    BY <1>2 DEF Commit, Rollback
  <2>2. HandlesOK' /\ Onwards
    <3>1. CASE Commits(t)
      BY <1>0, <3>1, EndKeeps DEF Commits
    <3>2. CASE Rollbacks(t)
      BY <1>0, <3>2, EndKeeps DEF Rollbacks
    <3> QED  BY <1>2, <3>1, <3>2 DEF Commit, Rollback
  <2> QED  BY <1>0, <2>1, <2>2, RunnersStay, NothingTaken DEF SdkInv
<1>3. ASSUME UNCHANGED Handles PROVE HandlesOK' /\ Onwards
  BY <1>0, <1>3 DEF Handles, HandlesOK, Onwards, Active
<1>4. ASSUME NEW t \in Txns, DeleteDoc(t) PROVE SdkInv'
  <2>1. /\ Open # {} /\ docs' = [docs EXCEPT ![First] = "deleted"]
        /\ UNCHANGED Handles /\ UNCHANGED <<author, closed, taker, runner>>
    BY <1>4 DEF DeleteDoc
  <2>2. First \in Docs /\ docs[First] = "open"
    BY <2>1, FirstIs
  <2>3. TakersOK'
    BY <1>0, <2>1, <2>2, TakenStays
  <2> QED  BY <1>0, <1>3, <2>1, <2>3, RunnersStay DEF SdkInv
<1>5. ASSUME NEW t \in Txns, NEW d \in Docs, Insert(t, d) PROVE SdkInv'
  <2>1. /\ docs[d] = "none" /\ docs' = [docs EXCEPT ![d] = "open"]
        /\ author' = [author EXCEPT ![d] = t]
        /\ UNCHANGED Handles /\ UNCHANGED <<closed, taker, runner>>
    BY <1>5 DEF Insert
  <2>2. TakersOK'
    BY <1>0, <2>1, TakenStays
  <2>3. author' \in [Docs -> Txns \cup {0}]
    BY <1>0, <2>1
  <2> QED  BY <1>0, <1>3, <2>1, <2>2, <2>3, RunnersStay DEF SdkInv
<1>6. ASSUME NEW t \in Txns, NEW n \in Names,
             Savepoint(t, n) \/ RollbackToSavepoint(t, n) \/ ReleaseSavepoint(t, n)
      PROVE  SdkInv'
  <2>1. UNCHANGED <<docs, author, closed, taker, runner>>
    BY <1>6 DEF Savepoint, RollbackToSavepoint, ReleaseSavepoint
  <2> QED  BY <1>0, <1>6, <2>1, SavepointsKeep, RunnersStay, NothingTaken DEF SdkInv
<1>7. ASSUME NEW r \in Runners, NEW t \in Txns, AttemptBegins(r, t) PROVE SdkInv'
  <2>1. /\ Begins(t) /\ Goes(r, "fn", runner[r].attempt, t)
        /\ UNCHANGED <<docs, author, closed, taker>>
    BY <1>7 DEF AttemptBegins
  <2>2. runner[r].attempt \in 0 .. MaxRetries
    BY <1>0 DEF RunnersOK
  <2>3. HandlesOK' /\ Onwards /\ Active(t)'
    BY <1>0, <2>1, BeginKeeps
  <2>4. txnState'[t] # "none"
    BY <2>3 DEF Active
  <2>5. RunnersOK'
    BY <1>0, <2>1, <2>2, <2>3, <2>4, RunnerGoes
  <2> QED  BY <1>0, <2>1, <2>3, <2>5, NothingTaken DEF SdkInv
<1>8. ASSUME NEW r \in Runners, FnReturns(r) \/ \E conflict \in BOOLEAN : FnThrows(r, conflict)
      PROVE  SdkInv'
  <2>1. UNCHANGED <<docs, author, closed, taker>>
    BY <1>8 DEF FnReturns, FnThrows
  <2>2. HandlesOK' /\ RunnersOK'
    BY <1>0, <1>8, FnKeeps
  <2> QED  BY <1>0, <2>1, <2>2, NothingTaken DEF SdkInv
<1>9. ASSUME NEW c \in Takers, TakerFinds(c) \/ TakerWrites(c) PROVE SdkInv'
  <2>1. UNCHANGED Handles /\ UNCHANGED <<author, closed, runner>>
    BY <1>9 DEF TakerFinds, TakerWrites
  <2>2. TakersOK'
    BY <1>0, <1>9, FindKeeps, WriteKeeps
  <2> QED  BY <1>0, <1>3, <2>1, <2>2, RunnersStay DEF SdkInv
<1>10. ASSUME Close PROVE SdkInv'
  <2>1. /\ closed' = TRUE /\ tracked' = {} /\ stack' = [t \in Txns |-> <<>>]
        /\ UNCHANGED <<docs, author, txnState, savepoints, taker, runner>>
    BY <1>10 DEF Close
  <2>2. ASSUME NEW t \in Txns
        PROVE  /\ IsInjective(savepoints'[t]) /\ Len(stack'[t]) <= MaxSavepoints
               /\ InStep(stack'[t], savepoints'[t])
               /\ ~Active(t)' => savepoints'[t] = <<>> /\ stack'[t] = <<>> /\ t \notin tracked'
    <3>1. stack'[t] = <<>> /\ 0 <= MaxSavepoints
      BY <2>1, SdkAssumption
    <3>2. InStep(<<>>, savepoints[t])
      BY EmptyAgrees
    <3>3. IsInjective(savepoints[t]) /\ (~Active(t) => savepoints[t] = <<>>)
      BY <1>0 DEF HandlesOK
    <3> QED  BY <2>1, <3>1, <3>2, <3>3, EmptyIs DEF Active
  <2>3. stack' \in [Txns -> Seq(Names)]
    BY <2>1, EmptyIs
  <2>4. HandlesOK' /\ Onwards
    BY <1>0, <2>1, <2>2, <2>3 DEF HandlesOK, Onwards, Active
  <2> QED  BY <1>0, <2>1, <2>4, RunnersStay, NothingTaken DEF SdkInv
<1> QED
  BY <1>1, <1>2, <1>4, <1>5, <1>6, <1>7, <1>8, <1>9, <1>10 DEF SdkNext

\* Nothing has begun.
LEMMA SdkInitInv == SdkInit => SdkInv
<1> SUFFICES ASSUME SdkInit PROVE SdkInv
  OBVIOUS
<1>1. \A t \in Txns : savepoints[t] = <<>> /\ stack[t] = <<>> /\ ~Active(t) /\ t \notin tracked
  BY DEF SdkInit, Active
<1>2. savepoints \in [Txns -> Seq(Names)] /\ stack \in [Txns -> Seq(Names)]
  BY EmptyIs DEF SdkInit
<1>3. 0 <= MaxSavepoints /\ 0 \in 0 .. MaxRetries
  BY SdkAssumption
<1>4. HandlesOK
  BY <1>1, <1>2, <1>3, EmptyIs DEF SdkInit, HandlesOK
<1>5. RunnersOK
  BY <1>3 DEF SdkInit, RunnersOK
<1>6. Taken = {} /\ Answered = {}
  BY DEF SdkInit, Taken, Answered
<1>7. TakersOK
  BY <1>6, FS_EmptySet DEF SdkInit, TakersOK
<1> QED  BY <1>4, <1>5, <1>7 DEF SdkInit, SdkInv

\* A step of the rest of the system changes none of it.
LEMMA SdkStutter == SdkInv /\ UNCHANGED sdkVars => SdkInv'
<1> SUFFICES ASSUME SdkInv, UNCHANGED sdkVars PROVE SdkInv'
  OBVIOUS
<1>1. UNCHANGED <<docs, author, closed, taker, runner>> /\ UNCHANGED Handles
  BY DEF sdkVars, Handles
<1>2. HandlesOK' /\ Onwards
  BY <1>1 DEF SdkInv, Handles, HandlesOK, Onwards, Active
<1> QED  BY <1>1, <1>2, RunnersStay, NothingTaken DEF SdkInv

\* The invariant says all that SdkSound says.
LEMMA SdkInvIsSound == SdkInv => SdkSound
<1> SUFFICES ASSUME SdkInv PROVE SdkSound
  OBVIOUS
<1>1. SdkTypeOK
  BY DEF SdkInv, HandlesOK, RunnersOK, TakersOK, SdkTypeOK
<1>2. LayersAgree
  <2>1. ASSUME NEW t \in Txns
        PROVE  /\ ToSet(stack[t]) \subseteq ToSet(savepoints[t])
               /\ \A i, j \in DOMAIN stack[t] : i < j =>
                    Place(savepoints[t], stack[t][i]) < Place(savepoints[t], stack[t][j])
    <3>1. stack[t] \in Seq(Names) /\ savepoints[t] \in Seq(Names)
          /\ IsInjective(savepoints[t]) /\ InStep(stack[t], savepoints[t])
      BY DEF SdkInv, HandlesOK
    <3> QED  BY <3>1, AgreeIs
  <2> QED  BY <2>1 DEF LayersAgree, SdkInv, HandlesOK
<1>3. AttemptsEndTheirHandle
  BY DEF AttemptsEndTheirHandle, SdkInv, RunnersOK
<1>4. TakesAreAnswered
  BY DEF TakesAreAnswered, SdkInv, TakersOK, Taken, Answered
<1> QED  BY <1>1, <1>2, <1>3, <1>4 DEF SdkSound

\* Handles, savepoints, withTransaction and findOneAnd calls in any number and order:
\* the handle and the engine agree, no attempt leaves its handle open, and no more
\* documents are taken than calls were answered with one.
THEOREM HandlesKeepTheirWord == SdkSpec => []SdkSound
<1>1. SdkInv /\ [SdkNext]_sdkVars => SdkInv'
  BY SdkStep, SdkStutter
<1> QED  BY SdkInitInv, <1>1, SdkInvIsSound, PTL DEF SdkSpec

-----------------------------------------------------------------------------
(***************************************************************************)
(* Heap: arrays and their order.                                           *)
(***************************************************************************)

HeapEntries == [id : HeapIds, priority : Nat, runAt : Nat, insertedAt : Nat]

\* An array of n entries that differ in their ids and their numbers.
Arrays(n) ==
  {h \in Seq(HeapEntries) : Len(h) = n /\ \A i, j \in 1 .. n : i # j =>
     h[i].id # h[j].id /\ h[i].insertedAt # h[j].insertedAt}

\* Everywhere but around i a parent comes before its children, and i's children come
\* after i's parent.
Near(h, n, i) ==
  /\ \A j \in 2 .. n : j # i /\ j \div 2 # i => Compare(h[j \div 2], h[j])
  /\ i > 1 => \A j \in 2 .. n : j \div 2 = i => Compare(h[i \div 2], h[j])

\* Entry i comes after its parent, and before its children.
Fits(h, i)  == i > 1 => Compare(h[i \div 2], h[i])
Over(h, n, i) == \A j \in 2 .. n : j \div 2 = i => Compare(h[i], h[j])

IsHeap(h, n) == \A j \in 2 .. n : Compare(h[j \div 2], h[j])

LEMMA HalfIs ==
  /\ \A j \in Nat : j >= 2 =>
       /\ j \div 2 \in Nat /\ 1 <= j \div 2 /\ j \div 2 < j
       /\ (j = 2 * (j \div 2) \/ j = 2 * (j \div 2) + 1)
  /\ \A m \in Nat : (2 * m) \div 2 = m /\ (2 * m + 1) \div 2 = m
  OBVIOUS

\* The parent of a place of an array is one.
LEMMA ParentIs ==
  ASSUME NEW n \in Nat, NEW j \in 2 .. n
  PROVE  /\ j \div 2 \in 1 .. n /\ j \div 2 < j /\ j \div 2 # j /\ j > 1 /\ j \in 1 .. n
         /\ j \in {2 * (j \div 2), 2 * (j \div 2) + 1}
  BY HalfIs

\* Compare is a strict order, and total on entries with different numbers.
LEMMA CompareIs ==
  /\ \A a, b, c \in HeapEntries : Compare(a, b) /\ Compare(b, c) => Compare(a, c)
  /\ \A a, b \in HeapEntries : ~(Compare(a, b) /\ Compare(b, a))
  /\ \A a, b \in HeapEntries : a.insertedAt # b.insertedAt => Compare(a, b) \/ Compare(b, a)
  BY DEF Compare, HeapEntries

LEMMA ArrayHas ==
  ASSUME NEW n \in Nat, NEW h \in Arrays(n)
  PROVE  /\ h \in Seq(HeapEntries) /\ Len(h) = n /\ DOMAIN h = 1 .. n
         /\ \A i \in 1 .. n : h[i] \in HeapEntries
         /\ \A i, j \in 1 .. n : i # j => h[i].id # h[j].id /\ h[i].insertedAt # h[j].insertedAt
         /\ \A i, j \in 1 .. n : i # j => Compare(h[i], h[j]) \/ Compare(h[j], h[i])
<1>1. /\ h \in Seq(HeapEntries) /\ Len(h) = n
      /\ \A i, j \in 1 .. n : i # j => h[i].id # h[j].id /\ h[i].insertedAt # h[j].insertedAt
  BY DEF Arrays
<1>2. DOMAIN h = 1 .. n /\ \A i \in 1 .. n : h[i] \in HeapEntries
  BY <1>1
<1> QED  BY <1>1, <1>2, CompareIs

\* Two entries change places.
LEMMA SwapIs ==
  ASSUME NEW n \in Nat, NEW h \in Arrays(n), NEW i \in 1 .. n, NEW j \in 1 .. n
  PROVE  /\ Swap(h, i, j) \in Arrays(n) /\ ToSet(Swap(h, i, j)) = ToSet(h)
         /\ Swap(h, i, j)[i] = h[j] /\ Swap(h, i, j)[j] = h[i]
         /\ \A k \in 1 .. n : k # i /\ k # j => Swap(h, i, j)[k] = h[k]
<1>1. PICK g : g = Swap(h, i, j)
  OBVIOUS
<1>2. /\ h \in Seq(HeapEntries) /\ Len(h) = n /\ DOMAIN h = 1 .. n
      /\ \A k \in 1 .. n : h[k] \in HeapEntries
      /\ \A k, l \in 1 .. n : k # l => h[k].id # h[l].id /\ h[k].insertedAt # h[l].insertedAt
  BY ArrayHas
<1>3. /\ g[i] = h[j] /\ g[j] = h[i] /\ \A k \in 1 .. n : k # i /\ k # j => g[k] = h[k]
      /\ DOMAIN g = 1 .. n
  BY <1>1, <1>2 DEF Swap
<1>4. g \in Seq(HeapEntries) /\ Len(g) = n
  <2>1. \A k \in 1 .. n : g[k] \in HeapEntries
    BY <1>2, <1>3
  <2>2. g = [k \in 1 .. n |-> g[k]]
    BY <1>1, <1>2 DEF Swap
  <2> QED  BY <2>1, <2>2
<1>5. \A k, l \in 1 .. n : k # l => g[k].id # g[l].id /\ g[k].insertedAt # g[l].insertedAt
  <2> DEFINE p(k) == IF k = i THEN j ELSE IF k = j THEN i ELSE k
  <2>1. \A k \in 1 .. n : g[k] = h[p(k)] /\ p(k) \in 1 .. n
    BY <1>3
  <2>2. \A k, l \in 1 .. n : p(k) = p(l) => k = l
    BY SMT
  <2> HIDE DEF p
  <2>3. ASSUME NEW k \in 1 .. n, NEW l \in 1 .. n, k # l
        PROVE  g[k].id # g[l].id /\ g[k].insertedAt # g[l].insertedAt
    <3>1. p(k) # p(l) /\ p(k) \in 1 .. n /\ p(l) \in 1 .. n /\ g[k] = h[p(k)] /\ g[l] = h[p(l)]
      BY <2>1, <2>2, <2>3
    <3> QED  BY <1>2, <3>1
  <2> QED  BY <2>3
<1>6. ToSet(g) = ToSet(h)
  <2>1. \A k \in 1 .. n : \E l \in 1 .. n : g[k] = h[l]
    BY <1>3
  <2>2. ASSUME NEW k \in 1 .. n PROVE \E l \in 1 .. n : h[k] = g[l]
    <3>1. h[k] = g[IF k = i THEN j ELSE IF k = j THEN i ELSE k]
      BY <1>3
    <3> QED  BY <3>1
  <2>3. \A x : x \in ToSet(g) <=> \E k \in 1 .. n : x = g[k]
    BY <1>3 DEF ToSet
  <2>4. \A x : x \in ToSet(h) <=> \E k \in 1 .. n : x = h[k]
    BY <1>2 DEF ToSet
  <2>5. \A x : x \in ToSet(g) => x \in ToSet(h)
    BY <2>1, <2>3, <2>4
  <2>6. \A x : x \in ToSet(h) => x \in ToSet(g)
    BY <2>2, <2>3, <2>4
  <2> QED  BY <2>5, <2>6
<1> QED  BY <1>1, <1>3, <1>4, <1>5, <1>6 DEF Arrays

\* A heap is near one at every place, and nearly a heap that fits is one.
LEMMA HeapIsNear ==
  ASSUME NEW n \in Nat, NEW h \in Arrays(n), NEW i \in 1 .. n
  PROVE  IsHeap(h, n) <=> Near(h, n, i) /\ Fits(h, i) /\ Over(h, n, i)
<1>1. ASSUME IsHeap(h, n) PROVE Near(h, n, i) /\ Fits(h, i) /\ Over(h, n, i)
  <2>1. ASSUME NEW j \in 2 .. n, j \div 2 = i, i > 1 PROVE Compare(h[i \div 2], h[j])
    <3>1. i \in 2 .. n
      BY <2>1
    <3>2. Compare(h[i \div 2], h[i]) /\ Compare(h[i], h[j])
      BY <1>1, <2>1, <3>1 DEF IsHeap
    <3>3. i \div 2 \in 1 .. n /\ j \in 1 .. n
      BY <3>1, ParentIs
    <3> QED  BY <3>2, <3>3, ArrayHas, CompareIs
  <2>2. i > 1 => i \in 2 .. n
    OBVIOUS
  <2> QED  BY <1>1, <2>1, <2>2 DEF IsHeap, Near, Fits, Over
<1>2. ASSUME Near(h, n, i), Fits(h, i), Over(h, n, i) PROVE IsHeap(h, n)
  BY <1>2 DEF IsHeap, Near, Fits, Over
<1> QED  BY <1>1, <1>2

\* In a heap the first entry comes before all others.
LEMMA FirstIsLeast ==
  ASSUME NEW n \in Nat, NEW h \in Arrays(n), IsHeap(h, n)
  PROVE  \A k \in 2 .. n : Compare(h[1], h[k])
<1> DEFINE bad == {k \in 2 .. n : ~Compare(h[1], h[k])}
<1> SUFFICES ASSUME bad # {} PROVE FALSE
  OBVIOUS
<1>1. bad \in SUBSET Nat
  OBVIOUS
<1>2. PICK k \in bad : \A l \in bad : k <= l
  BY <1>1, LeastOf
<1>3. k \in 2 .. n /\ ~Compare(h[1], h[k])
  BY <1>2
<1>4. k \div 2 \in 1 .. n /\ k \div 2 < k /\ k \in 1 .. n /\ 1 \in 1 .. n
  BY <1>3, ParentIs
<1>5. Compare(h[k \div 2], h[k])
  BY <1>3 DEF IsHeap
<1>6. k \div 2 # 1
  BY <1>3, <1>5
<1>7. k \div 2 \in 2 .. n /\ k \div 2 \notin bad
  BY <1>2, <1>4, <1>6
<1>8. Compare(h[1], h[k \div 2])
  BY <1>7
<1> QED  BY <1>3, <1>4, <1>5, <1>8, ArrayHas, CompareIs

-----------------------------------------------------------------------------
(* Heap: the turns of the two loops.                                       *)

\* The parent before the entry that rises: it fits.  Else it changes places with its
\* parent, and comes before all its new children.
LEMMA RiseTurn ==
  ASSUME NEW n \in Nat, NEW h \in Arrays(n), NEW i \in 1 .. n, Near(h, n, i)
  PROVE  \E g \in Arrays(n), m \in 1 .. n :
           /\ Rises([heap |-> h, at |-> i]) = [heap |-> g, at |-> m]
           /\ Near(g, n, m) /\ ToSet(g) = ToSet(h)
           /\ (g = h /\ m = i /\ Fits(h, i)) \/ (m < i /\ Over(g, n, m) /\ ~Fits(h, i))
<1>1. CASE ~(i > 1 /\ Compare(h[i], h[i \div 2]))
  <2>1. ASSUME i > 1 PROVE Compare(h[i \div 2], h[i])
    <3>1. i \in 2 .. n
      BY <2>1
    <3>2. i \div 2 \in 1 .. n /\ i \div 2 # i
      BY <3>1, ParentIs
    <3> QED  BY <1>1, <2>1, <3>2, ArrayHas
  <2>2. Fits(h, i)
    BY <2>1 DEF Fits
  <2>3. Rises([heap |-> h, at |-> i]) = [heap |-> h, at |-> i]
    BY <1>1 DEF Rises
  <2> QED  BY <2>2, <2>3
<1>2. CASE i > 1 /\ Compare(h[i], h[i \div 2])
  <2>1. PICK p : p = i \div 2
    OBVIOUS
  <2>2. i \in 2 .. n /\ p \in 1 .. n /\ p < i /\ Compare(h[i], h[p])
    <3>1. i \in 2 .. n
      BY <1>2
    <3> QED  BY <1>2, <2>1, <3>1, ParentIs
  <2>3. PICK g : g = Swap(h, i, p)
    OBVIOUS
  <2>4. /\ g \in Arrays(n) /\ ToSet(g) = ToSet(h) /\ g[i] = h[p] /\ g[p] = h[i]
        /\ \A k \in 1 .. n : k # i /\ k # p => g[k] = h[k]
    BY <2>2, <2>3, SwapIs, SMTT(60)
  <2>5. Rises([heap |-> h, at |-> i]) = [heap |-> g, at |-> p]
    BY <1>2, <2>1, <2>3 DEF Rises
  <2>6. \A j \in 2 .. n : /\ j \div 2 \in 1 .. n /\ j \div 2 < j /\ j \in 1 .. n
    BY ParentIs
  <2>7. ASSUME NEW a \in 1 .. n, NEW b \in 1 .. n, NEW c \in 1 .. n,
               Compare(h[a], h[b]), Compare(h[b], h[c])
        PROVE  Compare(h[a], h[c])
    BY <2>7, ArrayHas, CompareIs
  \* The order of h away from i.
  <2>8. ASSUME NEW j \in 2 .. n, j # i, j \div 2 # i PROVE Compare(h[j \div 2], h[j])
    BY <2>8 DEF Near
  <2>9. ASSUME NEW j \in 2 .. n, j \div 2 = i PROVE Compare(h[p], h[j])
    BY <2>1, <2>2, <2>9 DEF Near
  <2>10. ASSUME NEW j \in 2 .. n, j \div 2 = p, j # i PROVE Compare(h[p], h[j]) /\ g[j] = h[j]
    BY <2>2, <2>4, <2>6, <2>8, <2>10
  <2>11. Over(g, n, p)
    <3>1. ASSUME NEW j \in 2 .. n, j \div 2 = p PROVE Compare(g[p], g[j])
      <4>1. CASE j = i
        BY <2>2, <2>4, <4>1
      <4>2. CASE j # i
        <5>1. Compare(h[i], h[j])
          BY <2>2, <2>6, <2>7, <2>10, <3>1, <4>2
        <5> QED  BY <2>4, <2>10, <3>1, <4>2, <5>1
      <4> QED  BY <4>1, <4>2
    <3> QED  BY <3>1 DEF Over
  <2>12. ASSUME NEW j \in 2 .. n, j # p, j \div 2 # p PROVE Compare(g[j \div 2], g[j])
    <3>1. j # i
      BY <2>1, <2>12
    <3>2. g[j] = h[j]
      BY <2>4, <2>6, <2>12, <3>1
    <3>3. CASE j \div 2 = i
      BY <2>4, <2>9, <3>2, <3>3
    <3>4. CASE j \div 2 # i
      BY <2>4, <2>6, <2>8, <2>12, <3>1, <3>2, <3>4
    <3> QED  BY <3>3, <3>4
  <2>13. ASSUME p > 1, NEW j \in 2 .. n, j \div 2 = p PROVE Compare(g[p \div 2], g[j])
    <3>1. p \in 2 .. n
      BY <2>2, <2>13
    <3>2. p \div 2 \in 1 .. n /\ p \div 2 < p
      BY <2>6, <3>1
    <3>3. p \div 2 # i /\ p \div 2 # p /\ p # i
      BY <2>2, <3>2
    <3>4. g[p \div 2] = h[p \div 2] /\ Compare(h[p \div 2], h[p])
      BY <2>4, <2>8, <3>1, <3>2, <3>3
    <3>5. CASE j = i
      BY <2>4, <3>4, <3>5
    <3>6. CASE j # i
      <4>1. Compare(h[p \div 2], h[j])
        BY <2>2, <2>6, <2>7, <2>10, <2>13, <3>2, <3>4, <3>6
      <4> QED  BY <2>10, <2>13, <3>4, <3>6, <4>1
    <3> QED  BY <3>5, <3>6
  <2>14. Near(g, n, p)
    BY <2>12, <2>13 DEF Near
  <2>15. ~Fits(h, i)
    BY <1>2, <2>1, <2>2, ArrayHas, CompareIs DEF Fits
  <2> QED  BY <2>2, <2>4, <2>5, <2>11, <2>14, <2>15
<1> QED  BY <1>1, <1>2

\* Of an entry and its children one comes before the others.
LEMMA LeastPlace ==
  ASSUME NEW n \in Nat, NEW h \in Arrays(n), NEW i \in 1 .. n
  PROVE  LET places == {c \in {i, 2 * i, 2 * i + 1} : c <= n}
         IN \E c \in places : \A d \in places \ {c} : Compare(h[c], h[d])
<1> DEFINE places == {c \in {i, 2 * i, 2 * i + 1} : c <= n}
<1>1. i \in places /\ places \subseteq 1 .. n
  OBVIOUS
<1>2. \A c, d \in places : c # d => Compare(h[c], h[d]) \/ Compare(h[d], h[c])
  BY <1>1, ArrayHas
<1>3. \A a, b, c \in places : Compare(h[a], h[b]) /\ Compare(h[b], h[c]) => Compare(h[a], h[c])
  BY <1>1, ArrayHas, CompareIs
<1>4. PICK b, c : b = 2 * i /\ c = 2 * i + 1
  OBVIOUS
<1>5. \A d \in places : d = i \/ d = b \/ d = c
  BY <1>4
<1> DEFINE Leads(d) == d \in places /\ \A e \in places \ {d} : Compare(h[d], h[e])
<1> HIDE DEF places
<1>6. ASSUME b \notin places /\ c \notin places PROVE Leads(i)
  BY <1>1, <1>5, <1>6
<1>7. ASSUME b \in places /\ c \notin places PROVE Leads(i) \/ Leads(b)
  BY <1>1, <1>2, <1>5, <1>7
<1>8. ASSUME b \notin places /\ c \in places PROVE Leads(i) \/ Leads(c)
  BY <1>1, <1>2, <1>5, <1>8
<1>9. ASSUME b \in places /\ c \in places PROVE Leads(i) \/ Leads(b) \/ Leads(c)
  BY <1>1, <1>2, <1>3, <1>5, <1>9
<1>10. \E d \in places : \A e \in places \ {d} : Compare(h[d], h[e])
  BY <1>6, <1>7, <1>8, <1>9
<1> QED  BY <1>10 DEF places

\* An entry that fits comes before its children, or changes places with the one that
\* comes before the other, and fits there.
LEMMA SinkTurn ==
  ASSUME NEW n \in Nat, NEW h \in Arrays(n), NEW i \in 1 .. n, Near(h, n, i), Fits(h, i)
  PROVE  \E g \in Arrays(n), m \in 1 .. n :
           /\ Sinks([heap |-> h, at |-> i]) = [heap |-> g, at |-> m]
           /\ Near(g, n, m) /\ Fits(g, m) /\ ToSet(g) = ToSet(h)
           /\ (g = h /\ m = i /\ Over(h, n, i)) \/ (m > i /\ ~Over(h, n, i))
<1> DEFINE places == {c \in {i, 2 * i, 2 * i + 1} : c <= Len(h)}
<1>0. Len(h) = n
  BY ArrayHas
<1>1. i \in places /\ places \subseteq 1 .. n /\ \A c \in places : c # i => c > i /\ c \div 2 = i
  <2>1. (2 * i) \div 2 = i /\ (2 * i + 1) \div 2 = i
    BY HalfIs
  <2> QED  BY <1>0, <2>1
<1>2. \A j \in 2 .. n : j \div 2 = i => j \in places
  <2>1. ASSUME NEW j \in 2 .. n, j \div 2 = i PROVE j \in places
    <3>1. j \in {2 * i, 2 * i + 1}
      BY <2>1, ParentIs
    <3> QED  BY <1>0, <3>1
  <2> QED  BY <2>1
<1>3. \E c \in places : \A d \in places \ {c} : Compare(h[c], h[d])
  BY <1>0, LeastPlace
<1>4. PICK c : c = CHOOSE d \in places : \A e \in places \ {d} : Compare(h[d], h[e])
  OBVIOUS
<1>6. Sinks([heap |-> h, at |-> i]) =
        IF c = i THEN [heap |-> h, at |-> i] ELSE [heap |-> Swap(h, i, c), at |-> c]
  BY <1>4 DEF Sinks
<1> HIDE DEF places
<1>7. c \in places /\ \A d \in places : d # c => Compare(h[c], h[d])
  BY <1>3, <1>4
<1>8. CASE c = i
  <2>1. \A j \in 2 .. n : j \div 2 = i => j # i
    BY ParentIs
  <2>2. Over(h, n, i)
    BY <1>2, <1>7, <1>8, <2>1 DEF Over
  <2> QED  BY <1>6, <1>8, <2>2
<1>9. CASE c # i
  <2>1. c \in 1 .. n /\ c > i /\ c \div 2 = i /\ c > 1
    BY <1>1, <1>7, <1>9
  <2>2. PICK g : g = Swap(h, i, c)
    OBVIOUS
  <2>3. /\ g \in Arrays(n) /\ ToSet(g) = ToSet(h) /\ g[i] = h[c] /\ g[c] = h[i]
        /\ \A k \in 1 .. n : k # i /\ k # c => g[k] = h[k]
    BY <2>1, <2>2, SwapIs, ZenonT(60)
  <2>4. \A j \in 2 .. n : j \div 2 \in 1 .. n /\ j \div 2 < j /\ j \in 1 .. n
    BY ParentIs
  <2>5. ASSUME NEW j \in 2 .. n, j # i, j \div 2 # i PROVE Compare(h[j \div 2], h[j])
    BY <2>5 DEF Near
  <2>6. Fits(g, c)
    BY <1>1, <1>7, <1>9, <2>1, <2>3 DEF Fits
  <2>7. ASSUME NEW j \in 2 .. n, j # c, j \div 2 # c PROVE Compare(g[j \div 2], g[j])
    <3>1. CASE j = i
      <4>1. j \div 2 # i /\ i > 1
        BY <2>4, <3>1
      <4>2. c \in 2 .. n
        BY <2>1
      <4>3. Compare(h[i \div 2], h[c])
        BY <2>1, <4>1, <4>2 DEF Near
      <4> QED  BY <2>3, <2>4, <2>7, <3>1, <4>1, <4>3
    <3>2. CASE j # i /\ j \div 2 = i
      <4>1. Compare(h[c], h[j])
        BY <1>2, <1>7, <2>7, <3>2
      <4>2. g[j] = h[j]
        BY <2>3, <2>4, <2>7, <3>2
      <4> QED  BY <2>3, <3>2, <4>1, <4>2
    <3>3. CASE j # i /\ j \div 2 # i
      BY <2>3, <2>4, <2>5, <2>7, <3>3
    <3> QED  BY <3>1, <3>2, <3>3
  <2>8. ASSUME NEW j \in 2 .. n, j \div 2 = c PROVE Compare(g[c \div 2], g[j])
    <3>1. j # i /\ j # c /\ j \in 1 .. n
      BY <2>1, <2>4, <2>8
    <3>2. Compare(h[c], h[j])
      BY <1>9, <2>5, <2>8, <3>1
    <3> QED  BY <2>1, <2>3, <3>1, <3>2
  <2>9. Near(g, n, c)
    BY <2>7, <2>8 DEF Near
  <2>10. ~Over(h, n, i)
    <3>1. c \in 2 .. n /\ Compare(h[c], h[i]) /\ i \in 1 .. n
      BY <1>1, <1>7, <1>9, <2>1
    <3>2. ~Compare(h[i], h[c])
      BY <2>1, <3>1, ArrayHas, CompareIs
    <3> QED  BY <2>1, <3>1, <3>2 DEF Over
  <2> QED  BY <1>6, <1>9, <2>1, <2>2, <2>3, <2>6, <2>9, <2>10
<1> QED  BY <1>8, <1>9

-----------------------------------------------------------------------------
(* Heap: the two loops.                                                    *)

\* A turn of bubbleUp (up) or of sinkDown, and its loop as a recursive function.
Turn(up, s) == IF up THEN Rises(s) ELSE Sinks(s)
LoopStep(g, up, h, i, k) == IF k = 0 THEN [heap |-> h, at |-> i] ELSE Turn(up, g[k - 1])
IsLoop(g, up, h, i) == g = [k \in 0 .. Len(h) |-> LoopStep(g, up, h, i, k)]

\* The recursive function of a loop is there.
LEMMA LoopIsThere ==
  ASSUME NEW up, NEW T, NEW h \in Seq(T), NEW i
  PROVE  \E g : IsLoop(g, up, h, i)
<1> DEFINE At(g, k) == LoopStep(g, up, h, i, k)
           Is(g, n) == g = [k \in 0 .. n |-> At(g, k)]
           bad == {n \in 0 .. Len(h) : ~(\E g : Is(g, n))}
<1>0. Len(h) \in Nat
  OBVIOUS
<1>1. Is([k \in 0 .. 0 |-> [heap |-> h, at |-> i]], 0)
  BY DEF LoopStep
<1>2. ASSUME NEW m \in Nat \ {0}, NEW g, Is(g, m - 1)
      PROVE  \E f : Is(f, m)
  <2> DEFINE f == [k \in 0 .. m |-> IF k = m THEN At(g, m) ELSE g[k]]
  <2>1. \A k \in 0 .. m : At(f, k) = At(g, k)
    <3>1. \A k \in 0 .. m : k # 0 => k - 1 \in 0 .. m /\ k - 1 # m
      OBVIOUS
    <3> QED  BY <3>1 DEF LoopStep
  <2>2. \A k \in 0 .. m : k # m => g[k] = At(g, k)
    <3>1. \A k \in 0 .. m : k # m => k \in 0 .. m - 1
      OBVIOUS
    <3> HIDE DEF At
    <3> QED  BY <1>2, <3>1
  <2> HIDE DEF At
  <2>3. f = [k \in 0 .. m |-> At(f, k)]
    BY <2>1, <2>2
  <2> QED  BY <2>3
<1> HIDE DEF Is
<1>3. bad = {}
  <2> SUFFICES ASSUME bad # {} PROVE FALSE
    OBVIOUS
  <2>1. bad \in SUBSET Nat
    BY <1>0
  <2>2. PICK m \in bad : \A n \in bad : m <= n
    BY <2>1, LeastOf
  <2>3. m \in Nat /\ m \in 0 .. Len(h) /\ ~(\E g : Is(g, m))
    BY <1>0, <2>2
  <2>4. m # 0
    BY <1>1, <2>3
  <2>5. m - 1 \in 0 .. Len(h) /\ ~(m <= m - 1)
    BY <1>0, <2>3, <2>4
  <2>6. PICK g : Is(g, m - 1)
    BY <2>2, <2>5
  <2> QED  BY <1>2, <2>3, <2>4, <2>6
<1>4. \E g : Is(g, Len(h))
  BY <1>0, <1>3
<1> QED  BY <1>4 DEF Is, IsLoop

\* g[k] is the array and the place after k turns.
LoopOf(g, up, h, i) ==
  /\ g[0] = [heap |-> h, at |-> i]
  /\ \A k \in 1 .. Len(h) : g[k] = Turn(up, g[k - 1])

\* What the loop's function is.
LEMMA LoopIs ==
  ASSUME NEW up, NEW T, NEW h \in Seq(T), NEW i, NEW g, IsLoop(g, up, h, i)
  PROVE  LoopOf(g, up, h, i)
<1>0. Len(h) \in Nat
  OBVIOUS
<1>1. g = [k \in 0 .. Len(h) |-> LoopStep(g, up, h, i, k)]
  BY DEF IsLoop
<1>2. g[0] = LoopStep(g, up, h, i, 0)
  BY <1>0, <1>1
<1>3. \A k \in 1 .. Len(h) : g[k] = LoopStep(g, up, h, i, k) /\ k # 0
  BY <1>0, <1>1
<1> QED  BY <1>2, <1>3 DEF LoopOf, LoopStep

\* bubbleUp is the loop of rising turns.
LEMMA BubbleUpIs ==
  ASSUME NEW T, NEW h \in Seq(T), NEW i
  PROVE  \E g : LoopOf(g, TRUE, h, i) /\ BubbleUp(h, i) = g[Len(h)].heap
<1> DEFINE after[k \in 0 .. Len(h)] ==
             IF k = 0 THEN [heap |-> h, at |-> i] ELSE Rises(after[k - 1])
<1>1. BubbleUp(h, i) = after[Len(h)].heap
  BY DEF BubbleUp
<1>2. \E g : IsLoop(g, TRUE, h, i)
  BY LoopIsThere
<1>3. after = CHOOSE g : IsLoop(g, TRUE, h, i)
  BY DEF IsLoop, LoopStep, Turn
<1> HIDE DEF after
<1>4. IsLoop(after, TRUE, h, i)
  BY <1>2, <1>3
<1>5. LoopOf(after, TRUE, h, i)
  BY <1>4, LoopIs
<1> QED  BY <1>1, <1>5

\* sinkDown is the loop of sinking turns.
LEMMA SinkDownIs ==
  ASSUME NEW T, NEW h \in Seq(T), NEW i
  PROVE  \E g : LoopOf(g, FALSE, h, i) /\ SinkDown(h, i) = g[Len(h)].heap
<1> DEFINE after[k \in 0 .. Len(h)] ==
             IF k = 0 THEN [heap |-> h, at |-> i] ELSE Sinks(after[k - 1])
<1>1. SinkDown(h, i) = after[Len(h)].heap
  BY DEF SinkDown
<1>2. \E g : IsLoop(g, FALSE, h, i)
  BY LoopIsThere
<1>3. after = CHOOSE g : IsLoop(g, FALSE, h, i)
  BY DEF IsLoop, LoopStep, Turn
<1> HIDE DEF after
<1>4. IsLoop(after, FALSE, h, i)
  BY <1>2, <1>3
<1>5. LoopOf(after, FALSE, h, i)
  BY <1>4, LoopIs
<1> QED  BY <1>1, <1>5

\* An entry that is out of order with its parent only: after bubbleUp the array is a
\* heap, unless the entry stayed and only its children may come before it.
LEMMA BubbleUpSorts ==
  ASSUME NEW n \in Nat, NEW h \in Arrays(n), NEW i \in 1 .. n, Near(h, n, i)
  PROVE  /\ BubbleUp(h, i) \in Arrays(n) /\ ToSet(BubbleUp(h, i)) = ToSet(h)
         /\ IsHeap(BubbleUp(h, i), n) \/ (BubbleUp(h, i) = h /\ Fits(h, i))
<1>0. h \in Seq(HeapEntries) /\ Len(h) = n
  BY ArrayHas
<1>1. PICK g : LoopOf(g, TRUE, h, i) /\ BubbleUp(h, i) = g[n].heap
  BY <1>0, BubbleUpIs
<1> DEFINE Says(k, a, m) ==
             /\ g[k] = [heap |-> a, at |-> m] /\ Near(a, n, m) /\ ToSet(a) = ToSet(h)
             /\ Fits(a, m) \/ m <= n - k
             /\ (a = h /\ m = i) \/ Over(a, n, m)
           bad == {k \in 0 .. n : ~(\E a \in Arrays(n), m \in 1 .. n : Says(k, a, m))}
<1>2. Says(0, h, i)
  BY <1>1 DEF LoopOf
<1>3. ASSUME NEW k \in 1 .. n, NEW a \in Arrays(n), NEW m \in 1 .. n, Says(k - 1, a, m)
      PROVE  \E b \in Arrays(n), p \in 1 .. n : Says(k, b, p)
  <2>1. g[k] = Rises([heap |-> a, at |-> m])
    BY <1>0, <1>1, <1>3 DEF LoopOf, Turn
  <2>2. PICK b \in Arrays(n), p \in 1 .. n :
          /\ g[k] = [heap |-> b, at |-> p] /\ Near(b, n, p) /\ ToSet(b) = ToSet(a)
          /\ (b = a /\ p = m /\ Fits(a, m)) \/ (p < m /\ Over(b, n, p) /\ ~Fits(a, m))
    BY <1>3, <2>1, RiseTurn
  <2>3. Fits(b, p) \/ p <= n - k
    BY <1>3, <2>2
  <2> QED  BY <1>3, <2>2, <2>3
<1> HIDE DEF Says
<1>4. bad = {}
  <2> SUFFICES ASSUME bad # {} PROVE FALSE
    OBVIOUS
  <2>1. bad \in SUBSET Nat
    OBVIOUS
  <2>2. PICK k \in bad : \A l \in bad : k <= l
    BY <2>1, LeastOf
  <2>3. k \in 1 .. n
    BY <1>2, <2>2
  <2>4. k - 1 \in 0 .. n /\ ~(k <= k - 1)
    BY <2>3
  <2>5. PICK a \in Arrays(n), m \in 1 .. n : Says(k - 1, a, m)
    BY <2>2, <2>4
  <2> QED  BY <1>3, <2>2, <2>3, <2>5
<1>5. PICK a \in Arrays(n), m \in 1 .. n : Says(n, a, m)
  BY <1>4
<1>6. /\ BubbleUp(h, i) = a /\ Near(a, n, m) /\ ToSet(a) = ToSet(h) /\ Fits(a, m)
      /\ (a = h /\ m = i) \/ Over(a, n, m)
  BY <1>1, <1>5 DEF Says
<1> QED  BY <1>6, HeapIsNear

\* An entry that fits but may come after its children: after sinkDown the array is a heap.
LEMMA SinkDownSorts ==
  ASSUME NEW n \in Nat, NEW h \in Arrays(n), NEW i \in 1 .. n, Near(h, n, i), Fits(h, i)
  PROVE  /\ SinkDown(h, i) \in Arrays(n) /\ ToSet(SinkDown(h, i)) = ToSet(h)
         /\ IsHeap(SinkDown(h, i), n)
<1>0. h \in Seq(HeapEntries) /\ Len(h) = n
  BY ArrayHas
<1>1. PICK g : LoopOf(g, FALSE, h, i) /\ SinkDown(h, i) = g[n].heap
  BY <1>0, SinkDownIs
<1> DEFINE Says(k, a, m) ==
             /\ g[k] = [heap |-> a, at |-> m] /\ Near(a, n, m) /\ Fits(a, m)
             /\ ToSet(a) = ToSet(h)
             /\ Over(a, n, m) \/ m >= k + 1
           bad == {k \in 0 .. n : ~(\E a \in Arrays(n), m \in 1 .. n : Says(k, a, m))}
<1>2. Says(0, h, i)
  BY <1>1 DEF LoopOf
<1>3. ASSUME NEW k \in 1 .. n, NEW a \in Arrays(n), NEW m \in 1 .. n, Says(k - 1, a, m)
      PROVE  \E b \in Arrays(n), p \in 1 .. n : Says(k, b, p)
  <2>1. g[k] = Sinks([heap |-> a, at |-> m])
    BY <1>0, <1>1, <1>3 DEF LoopOf, Turn
  <2>2. PICK b \in Arrays(n), p \in 1 .. n :
          /\ g[k] = [heap |-> b, at |-> p] /\ Near(b, n, p) /\ Fits(b, p) /\ ToSet(b) = ToSet(a)
          /\ (b = a /\ p = m /\ Over(a, n, m)) \/ (p > m /\ ~Over(a, n, m))
    BY <1>3, <2>1, SinkTurn
  <2>3. Over(b, n, p) \/ p >= k + 1
    BY <1>3, <2>2
  <2> QED  BY <1>3, <2>2, <2>3
<1> HIDE DEF Says
<1>4. bad = {}
  <2> SUFFICES ASSUME bad # {} PROVE FALSE
    OBVIOUS
  <2>1. bad \in SUBSET Nat
    OBVIOUS
  <2>2. PICK k \in bad : \A l \in bad : k <= l
    BY <2>1, LeastOf
  <2>3. k \in 1 .. n
    BY <1>2, <2>2
  <2>4. k - 1 \in 0 .. n /\ ~(k <= k - 1)
    BY <2>3
  <2>5. PICK a \in Arrays(n), m \in 1 .. n : Says(k - 1, a, m)
    BY <2>2, <2>4
  <2> QED  BY <1>3, <2>2, <2>3, <2>5
<1>5. PICK a \in Arrays(n), m \in 1 .. n : Says(n, a, m)
  BY <1>4
<1>6. /\ SinkDown(h, i) = a /\ Near(a, n, m) /\ ToSet(a) = ToSet(h) /\ Fits(a, m)
      /\ Over(a, n, m)
  BY <1>1, <1>5 DEF Says
<1> QED  BY <1>6, HeapIsNear

-----------------------------------------------------------------------------
(* Heap: the calls.                                                        *)

\* No entry of h has e's id or number.
NewTo(h, n, e) == \A k \in 1 .. n : h[k].id # e.id /\ h[k].insertedAt # e.insertedAt

\* a is h with e at the end, place m, which only its parent may have to follow.
IsAppended(a, h, e, m) ==
  /\ a \in Arrays(m) /\ ToSet(a) = ToSet(h) \cup {e}
  /\ Near(a, m, m) /\ Over(a, m, m)

\* An entry at the end: only its parent may have to follow it.
LEMMA AppendedIs ==
  ASSUME NEW n \in Nat, NEW h \in Arrays(n), IsHeap(h, n), NEW e \in HeapEntries,
         NewTo(h, n, e),
         NEW a, a = Append(h, e), NEW m \in Nat, m = n + 1
  PROVE  IsAppended(a, h, e, m)
<1>0. h \in Seq(HeapEntries) /\ Len(h) = n /\ DOMAIN h = 1 .. n
  BY ArrayHas
<1>2. /\ a \in Seq(HeapEntries) /\ Len(a) = n + 1 /\ DOMAIN a = 1 .. n + 1
      /\ a[n + 1] = e /\ \A k \in 1 .. n : a[k] = h[k]
  BY <1>0
<1>3. \A k \in 1 .. n + 1 : k \in 1 .. n \/ k = n + 1
  OBVIOUS
<1>4. a \in Arrays(n + 1)
  <2>1. ASSUME NEW k \in 1 .. n + 1, NEW l \in 1 .. n + 1, k # l
        PROVE  a[k].id # a[l].id /\ a[k].insertedAt # a[l].insertedAt
    BY <1>2, <1>3, <2>1, ArrayHas DEF NewTo
  <2> QED  BY <1>2, <2>1 DEF Arrays
<1>5. ToSet(a) = ToSet(h) \cup {e}
  <2>1. \A x : x \in ToSet(a) <=> \E k \in 1 .. n + 1 : x = a[k]
    BY <1>2 DEF ToSet
  <2>2. \A x : x \in ToSet(h) <=> \E k \in 1 .. n : x = h[k]
    BY <1>0 DEF ToSet
  <2>3. n + 1 \in 1 .. n + 1 /\ \A k \in 1 .. n : k \in 1 .. n + 1
    OBVIOUS
  <2>4. \A x : x \in ToSet(a) => x \in ToSet(h) \/ x = e
    BY <1>2, <1>3, <2>1, <2>2
  <2>5. \A x : x \in ToSet(h) \/ x = e => x \in ToSet(a)
    BY <1>2, <2>1, <2>2, <2>3
  <2> QED  BY <2>4, <2>5
<1>6. \A j \in 2 .. n + 1 : j \div 2 # n + 1 /\ j \div 2 \in 1 .. n + 1 /\ j \div 2 < j
  BY ParentIs
<1>7. ASSUME NEW j \in 2 .. n + 1, j # n + 1 PROVE Compare(a[j \div 2], a[j])
  <2>1. j \in 2 .. n /\ j \in 1 .. n /\ j \div 2 \in 1 .. n
    BY <1>6, <1>7
  <2> QED  BY <1>2, <2>1 DEF IsHeap
<1>8. Near(a, n + 1, n + 1) /\ Over(a, n + 1, n + 1)
  BY <1>6, <1>7 DEF Near, Over
<1> QED  BY <1>4, <1>5, <1>8 DEF IsAppended

\* The last entry in the place of entry i: it may have to rise or to sink.
LEMMA CutIs ==
  ASSUME NEW n \in Nat, n # 0, NEW h \in Arrays(n), IsHeap(h, n), NEW i \in 1 .. n
  PROVE  LET rest == SubSeq(Swap(h, i, Len(h)), 1, Len(h) - 1) IN
         /\ rest \in Arrays(n - 1) /\ ToSet(rest) = ToSet(h) \ {h[i]}
         /\ i < n => Near(rest, n - 1, i)
         /\ i = n => IsHeap(rest, n - 1)
<1>0. Len(h) = n /\ DOMAIN h = 1 .. n /\ n \in 1 .. n /\ n \in Nat
  BY ArrayHas
<1>1. PICK g : g = Swap(h, i, n)
  OBVIOUS
<1>2. /\ g \in Arrays(n) /\ ToSet(g) = ToSet(h) /\ g[i] = h[n] /\ g[n] = h[i]
      /\ \A k \in 1 .. n : k # i /\ k # n => g[k] = h[k]
  <2>1. PICK j : j = n
    OBVIOUS
  <2>2. n \in Nat /\ h \in Arrays(n) /\ i \in 1 .. n /\ j \in 1 .. n /\ g = Swap(h, i, j)
    BY <1>0, <1>1, <2>1
  <2>3. /\ g \in Arrays(n) /\ ToSet(g) = ToSet(h) /\ g[i] = h[j] /\ g[j] = h[i]
        /\ \A k \in 1 .. n : k # i /\ k # j => g[k] = h[k]
    BY <2>2, SwapIs, ZenonT(60)
  <2> QED  BY <2>1, <2>3
<1>3. g \in Seq(HeapEntries) /\ Len(g) = n /\ DOMAIN g = 1 .. n
  BY <1>2, ArrayHas
<1>4. PICK rest : rest = SubSeq(g, 1, n - 1)
  OBVIOUS
<1>5. /\ rest \in Seq(HeapEntries) /\ Len(rest) = n - 1 /\ DOMAIN rest = 1 .. n - 1
      /\ \A k \in 1 .. n - 1 : rest[k] = g[k]
  BY <1>3, <1>4
<1>6. rest \in Arrays(n - 1)
  <2>1. \A k \in 1 .. n - 1 : k \in 1 .. n
    OBVIOUS
  <2>2. ASSUME NEW k \in 1 .. n - 1, NEW l \in 1 .. n - 1, k # l
        PROVE  rest[k].id # rest[l].id /\ rest[k].insertedAt # rest[l].insertedAt
    <3>1. g[k].id # g[l].id /\ g[k].insertedAt # g[l].insertedAt
      BY <1>2, <2>1, <2>2 DEF Arrays
    <3> QED  BY <1>5, <3>1
  <2> QED  BY <1>5, <2>2 DEF Arrays
<1>7. ToSet(rest) = ToSet(h) \ {h[i]}
  <2>1. \A x : x \in ToSet(rest) <=> \E k \in 1 .. n - 1 : x = rest[k]
    BY <1>5 DEF ToSet
  <2>2. \A x : x \in ToSet(g) <=> \E k \in 1 .. n : x = g[k]
    BY <1>3 DEF ToSet
  <2>3. ASSUME NEW k \in 1 .. n - 1 PROVE k \in 1 .. n /\ g[k] # g[n]
    <3>1. k \in 1 .. n /\ k # n
      OBVIOUS
    <3>2. g[k].id # g[n].id
      BY <1>0, <1>2, <3>1, ArrayHas
    <3> QED  BY <3>1, <3>2
  <2>4. \A k \in 1 .. n : k \in 1 .. n - 1 \/ k = n
    OBVIOUS
  <2>5. \A x : x \in ToSet(rest) => x \in ToSet(g) /\ x # g[n]
    BY <1>5, <2>1, <2>2, <2>3
  <2>6. \A x : x \in ToSet(g) /\ x # g[n] => x \in ToSet(rest)
    BY <1>5, <2>1, <2>2, <2>4
  <2>7. \A x : x \in ToSet(rest) <=> x \in ToSet(h) \ {h[i]}
    BY <1>2, <2>5, <2>6
  <2> QED  BY <2>7
<1>8. \A j \in 2 .. n - 1 : /\ j \in 2 .. n /\ j \in 1 .. n - 1 /\ j \in 1 .. n /\ j # n
                            /\ j \div 2 \in 1 .. n - 1 /\ j \div 2 \in 1 .. n /\ j \div 2 # n
                            /\ j \div 2 < j
  <2>1. ASSUME NEW j \in 2 .. n - 1 PROVE j \div 2 \in 1 .. n - 1 /\ j \div 2 < j
    BY ParentIs
  <2> QED  BY <2>1
<1>9. ASSUME i < n PROVE Near(rest, n - 1, i)
  <2>1. ASSUME NEW j \in 2 .. n - 1, j # i, j \div 2 # i PROVE Compare(rest[j \div 2], rest[j])
    <3>1. Compare(h[j \div 2], h[j])
      BY <1>8 DEF IsHeap
    <3> QED  BY <1>2, <1>5, <1>8, <2>1, <3>1
  <2>2. ASSUME i > 1, NEW j \in 2 .. n - 1, j \div 2 = i PROVE Compare(rest[i \div 2], rest[j])
    <3>1. i \in 2 .. n - 1
      BY <1>9, <2>2
    <3>2. Compare(h[i \div 2], h[i]) /\ Compare(h[i], h[j])
      BY <1>8, <2>2, <3>1 DEF IsHeap
    <3>3. Compare(h[i \div 2], h[j])
      BY <1>8, <3>1, <3>2, ArrayHas, CompareIs
    <3>4. rest[j] = h[j]
      BY <1>2, <1>5, <1>8, <2>2
    <3>5. rest[i \div 2] = h[i \div 2]
      BY <1>2, <1>5, <1>8, <3>1
    <3> QED  BY <3>3, <3>4, <3>5
  <2> QED  BY <2>1, <2>2 DEF Near
<1>10. ASSUME i = n PROVE IsHeap(rest, n - 1)
  <2>1. ASSUME NEW j \in 2 .. n - 1 PROVE Compare(rest[j \div 2], rest[j])
    <3>1. Compare(h[j \div 2], h[j])
      BY <1>8 DEF IsHeap
    <3> QED  BY <1>2, <1>5, <1>8, <1>10, <3>1
  <2> QED  BY <2>1 DEF IsHeap
<1> QED  BY <1>0, <1>1, <1>4, <1>6, <1>7, <1>9, <1>10

\* A heap without one of its entries is a heap of the others.
LEMMA WithoutEntryIs ==
  ASSUME NEW n \in Nat, n # 0, NEW h \in Arrays(n), IsHeap(h, n), NEW i \in 1 .. n
  PROVE  /\ WithoutEntry(h, i) \in Arrays(n - 1) /\ IsHeap(WithoutEntry(h, i), n - 1)
         /\ ToSet(WithoutEntry(h, i)) = ToSet(h) \ {h[i]}
<1>0. n - 1 \in Nat /\ Len(h) = n
  BY ArrayHas
<1>1. PICK rest : rest = SubSeq(Swap(h, i, Len(h)), 1, Len(h) - 1)
  OBVIOUS
<1>2. /\ rest \in Arrays(n - 1) /\ ToSet(rest) = ToSet(h) \ {h[i]}
      /\ i < n => Near(rest, n - 1, i)
      /\ i = n => IsHeap(rest, n - 1)
  BY <1>1, CutIs
<1>3. Len(rest) = n - 1
  BY <1>0, <1>2, ArrayHas
<1>4. CASE i < n
  <2>1. i \in 1 .. n - 1 /\ i <= Len(rest)
    BY <1>3, <1>4
  <2>2. PICK up : up = BubbleUp(rest, i)
    OBVIOUS
  <2>3. /\ up \in Arrays(n - 1) /\ ToSet(up) = ToSet(rest)
        /\ IsHeap(up, n - 1) \/ (up = rest /\ Fits(rest, i))
    BY <1>0, <1>2, <1>4, <2>1, <2>2, BubbleUpSorts
  <2>4. Near(up, n - 1, i) /\ Fits(up, i)
    BY <1>0, <1>2, <1>4, <2>1, <2>3, HeapIsNear
  <2>5. WithoutEntry(h, i) = SinkDown(up, i)
    BY <1>1, <2>1, <2>2 DEF WithoutEntry
  <2> QED  BY <1>0, <1>2, <2>1, <2>3, <2>4, <2>5, SinkDownSorts
<1>5. CASE i = n
  <2>1. ~(i <= Len(rest))
    BY <1>0, <1>3, <1>5
  <2>2. WithoutEntry(h, i) = rest
    BY <1>1, <2>1 DEF WithoutEntry
  <2> QED  BY <1>2, <1>5, <2>2
<1> QED  BY <1>4, <1>5

\* What is left when the first entry is taken.
LEMMA PoppedIs ==
  ASSUME NEW n \in Nat, n # 0, NEW h \in Arrays(n), IsHeap(h, n)
  PROVE  LET rest == SubSeq(Swap(h, 1, Len(h)), 1, Len(h) - 1)
             left == IF rest = <<>> THEN rest ELSE SinkDown(rest, 1)
         IN /\ left \in Arrays(n - 1) /\ IsHeap(left, n - 1)
            /\ ToSet(left) = ToSet(h) \ {h[1]}
<1>0. n - 1 \in Nat /\ Len(h) = n /\ 1 \in 1 .. n
  BY ArrayHas
<1>1. PICK rest : rest = SubSeq(Swap(h, 1, Len(h)), 1, Len(h) - 1)
  OBVIOUS
<1>2. /\ rest \in Arrays(n - 1) /\ ToSet(rest) = ToSet(h) \ {h[1]}
      /\ 1 < n => Near(rest, n - 1, 1)
      /\ 1 = n => IsHeap(rest, n - 1)
  BY <1>0, <1>1, CutIs, ZenonT(60)
<1>3. rest \in Seq(HeapEntries) /\ Len(rest) = n - 1
  BY <1>0, <1>2, ArrayHas
<1>4. CASE n = 1
  <2>1. rest = <<>>
    BY <1>3, <1>4
  <2> QED  BY <1>1, <1>2, <1>4, <2>1
<1>5. CASE n # 1
  <2>1. 1 < n /\ 1 \in 1 .. n - 1
    BY <1>5
  <2>2. rest # <<>>
    BY <1>3, <2>1
  <2>3. Near(rest, n - 1, 1) /\ Fits(rest, 1)
    BY <1>2, <2>1 DEF Fits
  <2>4. /\ SinkDown(rest, 1) \in Arrays(n - 1) /\ IsHeap(SinkDown(rest, 1), n - 1)
        /\ ToSet(SinkDown(rest, 1)) = ToSet(rest)
    BY <1>0, <1>2, <2>1, <2>3, SinkDownSorts
  <2> QED  BY <1>1, <1>2, <2>2, <2>4
<1> QED  BY <1>4, <1>5

-----------------------------------------------------------------------------
(* Heap: the adapter over it.                                              *)

IdsOf(S) == {e.id : e \in S}

\* The array is a heap of entries older than the next, and both indexes list its ids.
HeapInv ==
  /\ heap \in Arrays(Len(heap)) /\ Len(heap) \in Nat /\ IsHeap(heap, Len(heap))
  /\ \A e \in ToSet(heap) :
       <<e.priority, e.runAt>> \in Urgencies /\ e.insertedAt < insertCounter
  /\ jobs = IdsOf(ToSet(heap)) /\ pendingIndex = IdsOf(ToSet(heap))
  /\ insertCounter \in 0 .. MaxInserts
  /\ store \subseteq HeapIds /\ taken \in HeapIds \cup {Nobody}

\* A step of the promised queue, or none.
Promised == Promise!PqNext \/ UNCHANGED <<ToSet(heap), taken>>

\* The entries of an array: each has its place, and no two have one id.
LEMMA EntriesHave ==
  ASSUME NEW n \in Nat, NEW h \in Arrays(n)
  PROVE  /\ \A x : x \in ToSet(h) <=> \E k \in 1 .. n : x = h[k]
         /\ ToSet(h) \subseteq HeapEntries
         /\ \A e, f \in ToSet(h) : e # f => e.id # f.id
<1>1. \A x : x \in ToSet(h) <=> \E k \in 1 .. n : x = h[k]
  BY ArrayHas DEF ToSet
<1>2. ToSet(h) \subseteq HeapEntries
  BY <1>1, ArrayHas
<1>3. ASSUME NEW e \in ToSet(h), NEW f \in ToSet(h), e # f PROVE e.id # f.id
  <2>1. PICK k \in 1 .. n, l \in 1 .. n : e = h[k] /\ f = h[l]
    BY <1>1
  <2> QED  BY <1>3, <2>1, ArrayHas
<1> QED  BY <1>1, <1>2, <1>3

\* What is left of the invariant once the entries changed as they should.
LEMMA EntryGone ==
  ASSUME HeapInv, NEW k \in 1 .. Len(heap), Len(heap) # 0,
         heap' \in Arrays(Len(heap) - 1), IsHeap(heap', Len(heap) - 1),
         ToSet(heap)' = ToSet(heap) \ {heap[k]},
         jobs' = jobs \ {heap[k].id}, pendingIndex' = pendingIndex \ {heap[k].id},
         insertCounter' = insertCounter, store' \subseteq HeapIds,
         taken' \in {heap[k].id, Nobody}
  PROVE  HeapInv' /\ heap[k] \in ToSet(heap)
<1>1. PICK n : n = Len(heap)
  OBVIOUS
<1>2. n \in Nat /\ n # 0 /\ heap \in Arrays(n) /\ n - 1 \in Nat /\ k \in 1 .. n
  BY <1>1 DEF HeapInv
<1>3. PICK e : e = heap[k]
  OBVIOUS
<1>4. /\ e \in ToSet(heap) /\ e \in HeapEntries
      /\ \A f \in ToSet(heap) : f # e => f.id # e.id
  BY <1>2, <1>3, EntriesHave, ArrayHas
<1>5. IdsOf(ToSet(heap)') = IdsOf(ToSet(heap)) \ {e.id}
  BY <1>3, <1>4 DEF IdsOf
<1>6. Len(heap') = n - 1
  BY <1>1, <1>2, ArrayHas
<1>7. e.id \in HeapIds
  BY <1>4 DEF HeapEntries
<1> QED  BY <1>1, <1>2, <1>3, <1>4, <1>5, <1>6, <1>7 DEF HeapInv

\* push: the new entry rises to its place.
LEMMA PushKeeps ==
  ASSUME HeapInv, NEW i \in HeapIds, NEW u \in Urgencies, Push(i, u[1], u[2])
  PROVE  HeapInv' /\ Promised
<1> USE HeapAssumption
<1>1. PICK n : n = Len(heap)
  OBVIOUS
<1>2. n \in Nat /\ heap \in Arrays(n) /\ IsHeap(heap, n) /\ n + 1 \in Nat /\ n + 1 \in 1 .. n + 1
  BY <1>1 DEF HeapInv
<1>3. PICK e : e = [id |-> i, priority |-> u[1], runAt |-> u[2], insertedAt |-> insertCounter]
  OBVIOUS
<1>4. /\ i \notin pendingIndex /\ insertCounter < MaxInserts
      /\ heap' = BubbleUp(Append(heap, e), n + 1)
      /\ jobs' = jobs \cup {i} /\ pendingIndex' = pendingIndex \cup {i}
      /\ insertCounter' = insertCounter + 1 /\ taken' = Nobody /\ store' = store
  BY <1>1, <1>3 DEF Push
<1>5. /\ e \in HeapEntries /\ e.id = i /\ <<e.priority, e.runAt>> \in Urgencies
      /\ e.insertedAt = insertCounter /\ insertCounter \in Nat
  <2>1. u[1] \in Nat /\ u[2] \in Nat /\ u = <<u[1], u[2]>>
    OBVIOUS
  <2> QED  BY <1>3, <2>1 DEF HeapEntries, HeapInv
<1>6. \A f \in ToSet(heap) : f \in HeapEntries /\ f.id # i /\ f.insertedAt < insertCounter
  <2>1. \A f \in ToSet(heap) : f \in HeapEntries
    BY <1>2, EntriesHave
  <2> QED  BY <1>4, <2>1 DEF HeapInv, IdsOf
<1>7. \A k \in 1 .. n : heap[k].id # e.id /\ heap[k].insertedAt # e.insertedAt
  <2>1. \A k \in 1 .. n : heap[k] \in ToSet(heap)
    BY <1>2, EntriesHave
  <2>2. \A f \in HeapEntries : f.insertedAt \in Nat
    BY DEF HeapEntries
  <2> QED  BY <1>5, <1>6, <2>1, <2>2
<1>8. PICK a : a = Append(heap, e)
  OBVIOUS
<1>9. PICK m : m = n + 1
  OBVIOUS
<1>10. /\ a \in Arrays(m) /\ ToSet(a) = ToSet(heap) \cup {e}
       /\ Near(a, m, m) /\ Over(a, m, m)
  <2>1. PICK h : h = heap
    OBVIOUS
  <2>2. /\ n \in Nat /\ h \in Arrays(n) /\ IsHeap(h, n) /\ e \in HeapEntries /\ a = Append(h, e)
        /\ NewTo(h, n, e) /\ m \in Nat /\ m = n + 1
    BY <1>2, <1>5, <1>7, <1>8, <1>9, <2>1 DEF NewTo
  <2>3. IsAppended(a, h, e, m)
    BY <2>2, AppendedIs, ZenonT(30)
  <2> QED  BY <2>1, <2>3 DEF IsAppended
<1>11. PICK r : r = BubbleUp(a, m)
  OBVIOUS
<1>12. m \in Nat /\ m \in 1 .. m /\ a \in Arrays(m) /\ Near(a, m, m) /\ Over(a, m, m)
  BY <1>2, <1>9, <1>10
<1>13. /\ r \in Arrays(m) /\ ToSet(r) = ToSet(a)
       /\ IsHeap(r, m) \/ (r = a /\ Fits(a, m))
  BY <1>11, <1>12, BubbleUpSorts
<1>14. IsHeap(r, m)
  BY <1>12, <1>13, HeapIsNear
<1>15. Len(r) = m
  BY <1>12, <1>13, ArrayHas
<1>16. heap' = r
  BY <1>4, <1>8, <1>9, <1>11
<1>17. ToSet(heap)' = ToSet(heap) \cup {e} /\ e \notin ToSet(heap)
  BY <1>5, <1>6, <1>10, <1>13, <1>16
<1>18. IdsOf(ToSet(heap)') = IdsOf(ToSet(heap)) \cup {i}
  BY <1>5, <1>17 DEF IdsOf
<1>19. HeapInv'
  <2>1. \A f \in ToSet(heap)' : <<f.priority, f.runAt>> \in Urgencies /\ f.insertedAt < insertCounter'
    <3>1. ASSUME NEW f \in ToSet(heap) PROVE f.insertedAt < insertCounter + 1
      BY <1>5, <1>6 DEF HeapEntries
    <3>2. \A f \in ToSet(heap) : <<f.priority, f.runAt>> \in Urgencies
      BY DEF HeapInv
    <3>3. e.insertedAt < insertCounter + 1
      BY <1>5
    <3>4. \A f \in ToSet(heap) \cup {e} :
            <<f.priority, f.runAt>> \in Urgencies /\ f.insertedAt < insertCounter + 1
      BY <1>5, <3>1, <3>2, <3>3
    <3> QED  BY <1>4, <1>17, <3>4
  <2>2. insertCounter' \in 0 .. MaxInserts
    BY <1>4, <1>5 DEF HeapInv
  <2>3. heap' \in Arrays(Len(heap')) /\ Len(heap') \in Nat /\ IsHeap(heap', Len(heap'))
    BY <1>12, <1>13, <1>14, <1>15, <1>16
  <2> QED  BY <1>4, <1>18, <2>1, <2>2, <2>3 DEF HeapInv
<1>20. Promise!PqInsert
  BY <1>4, <1>5, <1>6, <1>17 DEF Promise!PqInsert
<1> QED  BY <1>19, <1>20 DEF Promised, Promise!PqNext

\* pop: the first entry, which comes before all others, is gone.
LEMMA PopMinKeeps ==
  ASSUME HeapInv, NEW now, PopMin(now)
  PROVE  HeapInv' /\ Promised
<1>1. PICK n : n = Len(heap)
  OBVIOUS
<1>2. n \in Nat /\ heap \in Arrays(n) /\ IsHeap(heap, n)
  BY <1>1 DEF HeapInv
<1>3. heap \in Seq(HeapEntries)
  BY <1>2, ArrayHas
<1>4. n # 0 /\ 1 \in 1 .. n
  <2>1. heap # <<>>
    BY DEF PopMin
  <2>2. n # 0
    BY <1>1, <1>3, <2>1
  <2> QED  BY <1>2, <2>2
<1>5. PICK top : top = heap[1]
  OBVIOUS
<1>6. /\ taken' = IF top.id \in jobs THEN top.id ELSE Nobody
      /\ jobs' = jobs \ {top.id} /\ pendingIndex' = pendingIndex \ {top.id}
      /\ insertCounter' = insertCounter /\ store' = store
  BY <1>5 DEF PopMin
<1>7. /\ heap' \in Arrays(n - 1) /\ IsHeap(heap', n - 1)
      /\ ToSet(heap') = ToSet(heap) \ {heap[1]}
  <2>1. heap' = LET rest == SubSeq(Swap(heap, 1, Len(heap)), 1, Len(heap) - 1)
                IN IF rest = <<>> THEN rest ELSE SinkDown(rest, 1)
    BY DEF PopMin
  <2> QED  BY <1>2, <1>4, <2>1, PoppedIs
<1>8. HeapInv' /\ top \in ToSet(heap)
  <2>1. store' \subseteq HeapIds
    BY <1>6 DEF HeapInv
  <2> QED  BY <1>1, <1>4, <1>5, <1>6, <1>7, <2>1, EntryGone
<1>9. taken' = top.id
  BY <1>6, <1>8 DEF HeapInv, IdsOf
<1>10. ASSUME NEW f \in ToSet(heap), f # top PROVE Promise!Precedes(top, f)
  <2>1. PICK k \in 1 .. n : f = heap[k]
    BY <1>2, EntriesHave
  <2>2. k \in 2 .. n
    BY <1>2, <1>5, <1>10, <2>1
  <2>3. Compare(top, f)
    BY <1>2, <1>5, <2>1, <2>2, FirstIsLeast
  <2> QED  BY <2>3 DEF Compare, Promise!Precedes
<1>11. Promise!PqExtract
  BY <1>5, <1>7, <1>8, <1>9, <1>10 DEF Promise!PqExtract
<1> QED  BY <1>8, <1>11 DEF Promised, Promise!PqNext

\* remove: the job's entry is gone, wherever it was.
LEMMA RemoveKeeps ==
  ASSUME HeapInv, NEW i \in HeapIds, RemoveJob(i)
  PROVE  HeapInv' /\ Promised
<1>1. PICK n : n = Len(heap)
  OBVIOUS
<1>2. n \in Nat /\ heap \in Arrays(n) /\ IsHeap(heap, n) /\ DOMAIN heap = 1 .. n
  <2>1. n \in Nat /\ heap \in Arrays(n) /\ IsHeap(heap, n)
    BY <1>1 DEF HeapInv
  <2> QED  BY <2>1, ArrayHas
<1>3. PICK places : places = {k \in DOMAIN heap : heap[k].id = i}
  OBVIOUS
<1>4. PICK k : k = CHOOSE m \in places : \A l \in places : m <= l
  OBVIOUS
<1>5. /\ heap' = IF places = {} THEN heap ELSE WithoutEntry(heap, k)
      /\ jobs' = IF places = {} THEN jobs ELSE jobs \ {i}
      /\ pendingIndex' = pendingIndex \ {i} /\ store' = store \ {i} /\ taken' = Nobody
      /\ insertCounter' = insertCounter
  BY <1>3, <1>4 DEF RemoveJob
<1>6. store' \subseteq HeapIds
  BY <1>5 DEF HeapInv
<1>7. CASE places = {}
  <2>1. \A l \in 1 .. n : heap[l].id # i
    BY <1>2, <1>3, <1>7
  <2>2. i \notin IdsOf(ToSet(heap))
    BY <1>2, <2>1, EntriesHave DEF IdsOf
  <2>3. heap' = heap /\ jobs' = jobs /\ pendingIndex' = pendingIndex
    BY <1>5, <1>7, <2>2 DEF HeapInv
  <2>4. HeapInv'
    BY <1>5, <1>6, <2>3 DEF HeapInv
  <2>5. Promise!PqOther
    BY <1>5, <2>3 DEF Promise!PqOther
  <2> QED  BY <2>4, <2>5 DEF Promised, Promise!PqNext
<1>8. CASE places # {}
  <2>1. places \subseteq 1 .. n /\ places \in SUBSET Nat
    BY <1>2, <1>3
  <2>2. \E m \in places : \A l \in places : m <= l
    BY <1>8, <2>1, LeastOf
  <2>3. k \in places
    BY <1>4, <2>2
  <2>4. k \in 1 .. n /\ heap[k].id = i /\ n # 0
    BY <1>2, <1>3, <2>1, <2>3
  <2>5. heap' = WithoutEntry(heap, k) /\ jobs' = jobs \ {i}
    BY <1>5, <1>8
  <2>6. /\ heap' \in Arrays(n - 1) /\ IsHeap(heap', n - 1)
        /\ ToSet(heap') = ToSet(heap) \ {heap[k]}
    BY <1>2, <2>4, <2>5, WithoutEntryIs
  <2>7. HeapInv' /\ heap[k] \in ToSet(heap)
    BY <1>1, <1>5, <1>6, <2>4, <2>5, <2>6, EntryGone
  <2>8. Promise!PqRemove
    BY <1>5, <2>6, <2>7 DEF Promise!PqRemove
  <2> QED  BY <2>7, <2>8 DEF Promised, Promise!PqNext
<1> QED  BY <1>7, <1>8

\* An empty array.
LEMMA EmptyArray ==
  /\ <<>> \in Arrays(0) /\ Len(<<>>) = 0 /\ IsHeap(<<>>, 0)
  /\ ToSet(<<>>) = {} /\ IdsOf({}) = {}
<1>1. PICK e : e = <<>>
  OBVIOUS
<1>2. e \in Seq(HeapEntries) /\ Len(e) = 0 /\ DOMAIN e = {}
  BY <1>1
<1>3. e \in Arrays(0) /\ IsHeap(e, 0)
  BY <1>2 DEF Arrays, IsHeap
<1>4. ToSet(e) = {} /\ IdsOf({}) = {}
  BY <1>2 DEF ToSet, IdsOf
<1> QED  BY <1>1, <1>2, <1>3, <1>4

\* clear, close and the calls on jobs that are not pending.
LEMMA ClearKeeps == HeapInv /\ ClearAll => HeapInv' /\ Promised
<1> SUFFICES ASSUME HeapInv, ClearAll PROVE HeapInv' /\ Promised
  OBVIOUS
<1>1. /\ heap' = <<>> /\ jobs' = {} /\ insertCounter' = 0
      /\ pendingIndex' = {} /\ store' = {} /\ taken' = Nobody
  BY DEF ClearAll
<1>2. ToSet(heap') = {} /\ Len(heap') = 0 /\ heap' \in Arrays(0) /\ IsHeap(heap', 0)
  BY <1>1, EmptyArray
<1>3. HeapInv'
  <2>1. heap' \in Arrays(Len(heap')) /\ Len(heap') \in Nat /\ IsHeap(heap', Len(heap'))
    BY <1>2
  <2>2. jobs' = IdsOf(ToSet(heap')) /\ pendingIndex' = IdsOf(ToSet(heap'))
    BY <1>1, <1>2, EmptyArray
  <2> QED  BY <1>1, <1>2, <2>1, <2>2, HeapAssumption DEF HeapInv
<1>4. Promise!PqClear
  BY <1>1, <1>2 DEF Promise!PqClear
<1> QED  BY <1>3, <1>4 DEF Promised, Promise!PqNext

\* Every step keeps the invariant and is one of the promised queue.
LEMMA HeapStep == HeapInv /\ [HeapNext]_heapVars => HeapInv' /\ Promised
<1> SUFFICES ASSUME HeapInv, [HeapNext]_heapVars PROVE HeapInv' /\ Promised
  OBVIOUS
<1>1. CASE \E i \in HeapIds, u \in Urgencies : Push(i, u[1], u[2])
  BY <1>1, PushKeeps
<1>2. CASE \E u \in Urgencies : PopMin(u[2])
  BY <1>2, PopMinKeeps
<1>3. CASE \E i \in HeapIds : Update(i)
  <2>1. PICK i \in HeapIds : Update(i)
    BY <1>3
  <2>2. HeapInv'
    BY <2>1 DEF Update, HeapInv
  <2>3. Promise!PqOther
    BY <2>1 DEF Update, Promise!PqOther
  <2> QED  BY <2>2, <2>3 DEF Promised, Promise!PqNext
<1>4. CASE \E i \in HeapIds : RemoveJob(i)
  BY <1>4, RemoveKeeps
<1>5. CASE ClearAll
  BY <1>5, ClearKeeps
<1>6. CASE UNCHANGED heapVars
  BY <1>6 DEF heapVars, HeapInv, Promised
<1> QED  BY <1>1, <1>2, <1>3, <1>4, <1>5, <1>6 DEF HeapNext

\* Nothing is stored at first.
LEMMA HeapInitInv == HeapInit => HeapInv
<1> SUFFICES ASSUME HeapInit PROVE HeapInv
  OBVIOUS
<1>1. /\ heap = <<>> /\ jobs = {} /\ insertCounter = 0
      /\ pendingIndex = {} /\ store = {} /\ taken = Nobody
  BY DEF HeapInit
<1>2. ToSet(heap) = {} /\ Len(heap) = 0 /\ heap \in Arrays(0) /\ IsHeap(heap, 0)
  BY <1>1, EmptyArray
<1>3. heap \in Arrays(Len(heap)) /\ Len(heap) \in Nat /\ IsHeap(heap, Len(heap))
  BY <1>2
<1>4. jobs = IdsOf(ToSet(heap)) /\ pendingIndex = IdsOf(ToSet(heap))
  BY <1>1, <1>2, EmptyArray
<1> QED  BY <1>1, <1>2, <1>3, <1>4, HeapAssumption DEF HeapInv

\* The invariant says that both indexes list the heap's jobs.
LEMMA HeapInvIsSound == HeapInv => HeapTypeOK /\ IndexIsHeap
<1> SUFFICES ASSUME HeapInv PROVE HeapTypeOK /\ IndexIsHeap
  OBVIOUS
<1>1. PICK n : n = Len(heap)
  OBVIOUS
<1>2. n \in Nat /\ heap \in Arrays(n)
  BY <1>1 DEF HeapInv
<1>3. /\ DOMAIN heap = 1 .. n /\ \A k \in 1 .. n : heap[k] \in HeapEntries /\ heap[k] \in ToSet(heap)
      /\ \A k, l \in 1 .. n : k # l => heap[k].id # heap[l].id
  BY <1>2, ArrayHas, EntriesHave
<1>4. PICK held : held = {heap[k].id : k \in DOMAIN heap}
  OBVIOUS
<1>5. held = IdsOf(ToSet(heap))
  BY <1>4 DEF IdsOf, ToSet
<1>6. held \subseteq HeapIds
  BY <1>3, <1>4 DEF HeapEntries
<1>7. Cardinality(held) = n
  <2> DEFINE b == [k \in 1 .. n |-> heap[k].id]
  <2>1. b \in [1 .. n -> held]
    BY <1>3, <1>4
  <2>2. \A k, l \in 1 .. n : b[k] = b[l] => k = l
    BY <1>3
  <2>3. \A x \in held : \E k \in 1 .. n : b[k] = x
    BY <1>3, <1>4
  <2> HIDE DEF b
  <2>4. b \in Bijection(1 .. n, held)
    BY <2>1, <2>2, <2>3 DEF Bijection, Injection, Surjection, IsInjective
  <2>5. ExistsBijection(1 .. n, held)
    BY <2>4 DEF ExistsBijection
  <2> QED  BY <1>2, <2>5, FS_CountingElements
<1>8. IndexIsHeap
  BY <1>1, <1>4, <1>5, <1>7 DEF IndexIsHeap, HeapInv
<1>9. ASSUME NEW k \in DOMAIN heap
      PROVE  /\ heap[k].id \in HeapIds /\ <<heap[k].priority, heap[k].runAt>> \in Urgencies
             /\ heap[k].insertedAt \in 0 .. insertCounter - 1
  <2>1. PICK e : e = heap[k]
    OBVIOUS
  <2>2. e \in HeapEntries /\ e \in ToSet(heap)
    BY <1>3, <2>1
  <2>3. <<e.priority, e.runAt>> \in Urgencies /\ e.insertedAt < insertCounter /\ insertCounter \in Nat
    BY <2>2 DEF HeapInv
  <2>4. e.id \in HeapIds /\ e.insertedAt \in Nat
    BY <2>2 DEF HeapEntries
  <2>5. e.insertedAt \in 0 .. insertCounter - 1
    BY <2>3, <2>4
  <2> QED  BY <2>1, <2>3, <2>4, <2>5
<1>10. HeapTypeOK
  BY <1>5, <1>6, <1>9 DEF HeapTypeOK, HeapInv
<1> QED  BY <1>8, <1>10

\* PriorityHeap and MemoryAdapter: the adapter finds the jobs that its heap holds, each
\* once, for any number of jobs, pushes, pops and removals.
THEOREM IndexListsTheHeap == HeapSpec => [](HeapTypeOK /\ IndexIsHeap)
<1>1. HeapInv /\ [HeapNext]_heapVars => HeapInv'
  BY HeapStep
<1> QED  BY HeapInitInv, <1>1, HeapInvIsSound, PTL DEF HeapSpec

\* The array with its two loops is a priority queue: each call does to the set of
\* entries what PriorityQueue says, for any number of jobs and urgencies.
THEOREM HeapImplementsQueue == HeapSpec => ImplementsQueue
<1>1. HeapInit => Promise!PqInit
  BY EmptyArray DEF HeapInit, Promise!PqInit
<1>2. HeapInv /\ [HeapNext]_heapVars => HeapInv'
  BY HeapStep
<1>3. HeapInv /\ [HeapNext]_heapVars => [Promise!PqNext]_<<ToSet(heap), taken>>
  BY HeapStep DEF Promised
<1> QED  BY HeapInitInv, <1>1, <1>2, <1>3, PTL DEF HeapSpec, ImplementsQueue, Promise!PqSpec

-----------------------------------------------------------------------------
(* MessageBufferPlugin: any number of targets, messages and timers.        *)

Held == [Targets -> Seq(Nat)]

BufInv ==
  /\ BufTypeOK /\ HeldUntilTimer /\ FlushedInOrder
  /\ buffers \in Held /\ flushed \in Held

\* The messages up to the n-th.
UpTo(n) == [i \in 1 .. n |-> i]

\* One more message at the end of the second of two sequences that hold all.
LEMMA OneMore ==
  ASSUME NEW f \in Seq(Nat), NEW b \in Seq(Nat), NEW n \in Nat, f \o b = UpTo(n)
  PROVE  f \o Append(b, n + 1) = UpTo(n + 1)
<1> DEFINE c == Append(b, n + 1)
<1>1. /\ c \in Seq(Nat) /\ Len(c) = Len(b) + 1 /\ Len(b) \in Nat /\ Len(f) \in Nat
      /\ c[Len(b) + 1] = n + 1 /\ \A i \in 1 .. Len(b) : c[i] = b[i]
  OBVIOUS
<1> HIDE DEF c
<1>2. /\ Len(f \o b) = Len(f) + Len(b)
      /\ \A i \in 1 .. Len(f) + Len(b) : (f \o b)[i] = IF i <= Len(f) THEN f[i] ELSE b[i - Len(f)]
  BY ConcatProperties
<1>3. /\ f \o c \in Seq(Nat) /\ Len(f \o c) = Len(f) + Len(c)
      /\ \A i \in 1 .. Len(f) + Len(c) : (f \o c)[i] = IF i <= Len(f) THEN f[i] ELSE c[i - Len(f)]
  BY <1>1, ConcatProperties
<1>4. \A m \in Nat : UpTo(m) \in Seq(Nat) /\ Len(UpTo(m)) = m /\ \A i \in 1 .. m : UpTo(m)[i] = i
  BY DEF UpTo
<1>5. Len(f) + Len(b) = n
  BY <1>2, <1>4
<1>6. ASSUME NEW i \in 1 .. n + 1 PROVE (f \o c)[i] = i
  <2>1. (f \o c)[i] = IF i <= Len(f) THEN f[i] ELSE c[i - Len(f)]
    BY <1>1, <1>3, <1>5
  <2>2. CASE i = n + 1
    BY <1>1, <1>5, <2>1, <2>2
  <2>3. CASE i # n + 1
    <3>1. i \in 1 .. n /\ (f \o b)[i] = i
      BY <1>4, <2>3
    <3>2. (f \o b)[i] = IF i <= Len(f) THEN f[i] ELSE b[i - Len(f)]
      BY <1>2, <1>5, <3>1
    <3>3. ~(i <= Len(f)) => c[i - Len(f)] = b[i - Len(f)]
      <4>1. Len(f) \in Nat /\ Len(b) \in Nat /\ i <= Len(f) + Len(b) /\ i \in Nat
        BY <1>1, <1>5, <3>1
      <4>2. ~(i <= Len(f)) => i - Len(f) \in 1 .. Len(b)
        BY <4>1
      <4> QED  BY <1>1, <4>2
    <3> QED  BY <2>1, <3>1, <3>2, <3>3
  <2> QED  BY <2>2, <2>3
<1>7. n + 1 \in Nat /\ Len(f \o c) = n + 1
  BY <1>1, <1>3, <1>5
<1>8. PICK x, y : x = f \o c /\ y = UpTo(n + 1)
  OBVIOUS
<1>9. x \in Seq(Nat) /\ y \in Seq(Nat) /\ Len(x) = Len(y) /\ \A i \in 1 .. Len(x) : x[i] = y[i]
  BY <1>3, <1>4, <1>6, <1>7, <1>8
<1>10. x = y
  BY <1>9, SeqEqual
<1> QED  BY <1>8, <1>10 DEF c

LEMMA BufParts ==
  ASSUME BufInv, NEW t \in Targets
  PROVE  /\ buffers[t] \in Seq(Nat) /\ flushed[t] \in Seq(Nat) /\ sent[t] \in Nat
         /\ flushed[t] \o buffers[t] = UpTo(sent[t]) /\ Len(buffers[t]) < MaxBuffer
         /\ flushed[t] \o <<>> = flushed[t]
         /\ (flushed[t] \o buffers[t]) \o <<>> = flushed[t] \o buffers[t]
         /\ flushed[t] \o buffers[t] \in Seq(Nat)
<1>1. buffers[t] \in Seq(Nat) /\ flushed[t] \in Seq(Nat) /\ sent[t] \in Nat
  BY BufferAssumption DEF BufInv, BufTypeOK, Held
<1>2. flushed[t] \o buffers[t] \in Seq(Nat)
  BY <1>1, ConcatProperties
<1> QED  BY <1>1, <1>2, ConcatEmptySeq DEF BufInv, BufTypeOK, FlushedInOrder, UpTo

LEMMA BufInitHolds == BufInit => BufInv
<1> SUFFICES ASSUME BufInit PROVE BufInv
  OBVIOUS
<1> USE BufferAssumption DEF BufInit
<1>1. BufTypeOK /\ HeldUntilTimer /\ buffers \in Held /\ flushed \in Held
  BY DEF BufTypeOK, HeldUntilTimer, Held
<1>2. <<>> \o <<>> = UpTo(0)
  BY DEF UpTo
<1> QED  BY <1>1, <1>2 DEF BufInv, FlushedInOrder, UpTo

LEMMA BufferStep ==
  ASSUME BufInv, NEW t \in Targets, BufferMessage(t) PROVE BufInv'
<1> USE BufferAssumption
<1> DEFINE n == sent[t]
           b == Append(buffers[t], n + 1)
<1>0. /\ buffers \in Held /\ flushed \in Held /\ sent \in [Targets -> 0 .. MaxMessages]
      /\ timers \subseteq Targets /\ armed \subseteq Targets /\ n < MaxMessages
      /\ sent' = [sent EXCEPT ![t] = n + 1]
  BY DEF BufInv, BufTypeOK, BufferMessage
<1>1. /\ buffers[t] \in Seq(Nat) /\ flushed[t] \in Seq(Nat) /\ n \in Nat
      /\ flushed[t] \o b = UpTo(n + 1) /\ b \in Seq(Nat) /\ b # <<>> /\ n + 1 \in 0 .. MaxMessages
  <2>1. n \in Nat /\ n + 1 \in Nat /\ n + 1 \in 0 .. MaxMessages
    BY <1>0, BufParts
  <2>2. PICK x, f, m : x = buffers[t] /\ f = flushed[t] /\ m = n
    OBVIOUS
  <2> HIDE DEF n
  <2>3. x \in Seq(Nat) /\ f \in Seq(Nat) /\ m \in Nat /\ m + 1 \in Nat /\ f \o x = UpTo(m)
    BY <2>1, <2>2, BufParts DEF n
  <2>4. f \o Append(x, m + 1) = UpTo(m + 1)
    BY <2>3, OneMore
  <2>5. Append(x, m + 1) \in Seq(Nat) /\ Append(x, m + 1) # <<>>
    <3>1. Append(x, m + 1) \in Seq(Nat) /\ Len(Append(x, m + 1)) = Len(x) + 1 /\ Len(x) \in Nat
      BY <2>3
    <3>2. Len(Append(x, m + 1)) # 0 /\ Len(<<>>) = 0
      BY <3>1
    <3> QED  BY <3>1, <3>2
  <2> QED  BY <2>1, <2>2, <2>3, <2>4, <2>5
<1> HIDE DEF b
<1>2. CASE Len(b) >= MaxBuffer
  <2>1. DoFlush(t, b) /\ armed' = armed \ {t}
    BY <1>2 DEF BufferMessage, b
  <2>2. /\ buffers' = [buffers EXCEPT ![t] = <<>>] /\ timers' = timers \ {t}
        /\ flushed' = [flushed EXCEPT ![t] = flushed[t] \o b]
    BY <2>1 DEF DoFlush
  <2>3. flushed[t] \o b \in Seq(Nat) /\ (flushed[t] \o b) \o <<>> = UpTo(n + 1) /\ Len(<<>>) = 0
    BY <1>1, ConcatProperties, ConcatEmptySeq
  <2>4. buffers' \in Held /\ flushed' \in Held /\ sent' \in [Targets -> 0 .. MaxMessages]
    BY <1>0, <1>1, <2>2, <2>3 DEF Held
  <2>5. ASSUME NEW u \in Targets
        PROVE  /\ flushed'[u] \o buffers'[u] = UpTo(sent'[u]) /\ Len(buffers'[u]) < MaxBuffer
               /\ buffers'[u] # <<>> => u \in armed' \cap timers'
    <3>1. CASE u = t
      BY <1>0, <2>2, <2>3, <3>1 DEF Held
    <3>2. CASE u # t
      <4>1. flushed'[u] = flushed[u] /\ buffers'[u] = buffers[u] /\ sent'[u] = sent[u]
        BY <1>0, <2>2, <3>2 DEF Held
      <4> QED  BY <2>1, <2>2, <3>2, <4>1, BufParts DEF BufInv, HeldUntilTimer
    <3> QED  BY <3>1, <3>2
  <2> QED
    BY <1>0, <2>1, <2>2, <2>4, <2>5 DEF BufInv, BufTypeOK, HeldUntilTimer, FlushedInOrder, UpTo
<1>3. CASE ~(Len(b) >= MaxBuffer)
  <2>1. /\ buffers' = [buffers EXCEPT ![t] = b] /\ timers' = timers \cup {t}
        /\ armed' = armed \cup {t} /\ flushed' = flushed
    BY <1>3 DEF BufferMessage, Buffer, b
  <2>2. buffers' \in Held /\ sent' \in [Targets -> 0 .. MaxMessages]
    BY <1>0, <1>1, <2>1 DEF Held
  <2>3. Len(b) < MaxBuffer
    BY <1>1, <1>3
  <2>5. ASSUME NEW u \in Targets
        PROVE  /\ flushed'[u] \o buffers'[u] = UpTo(sent'[u]) /\ Len(buffers'[u]) < MaxBuffer
               /\ buffers'[u] # <<>> => u \in armed' \cap timers'
    <3>1. CASE u = t
      BY <1>0, <1>1, <2>1, <2>3, <3>1 DEF Held
    <3>2. CASE u # t
      <4>1. flushed'[u] = flushed[u] /\ buffers'[u] = buffers[u] /\ sent'[u] = sent[u]
        BY <1>0, <2>1, <3>2 DEF Held
      <4> QED  BY <2>1, <3>2, <4>1, BufParts DEF BufInv, HeldUntilTimer
    <3> QED  BY <3>1, <3>2
  <2> QED
    BY <1>0, <2>1, <2>2, <2>5 DEF BufInv, BufTypeOK, HeldUntilTimer, FlushedInOrder, UpTo
<1> QED  BY <1>2, <1>3

\* The held messages of the targets in ts are given to onFlush, those of the others stay.
LEMMA FlushesStep ==
  ASSUME BufInv, NEW ts \in SUBSET Targets, UNCHANGED sent,
         armed' \subseteq Targets, timers' \subseteq Targets,
         buffers' = [t \in Targets |-> IF t \in ts THEN <<>> ELSE buffers[t]],
         flushed' = [t \in Targets |-> IF t \in ts THEN flushed[t] \o buffers[t] ELSE flushed[t]],
         \A t \in Targets \ ts : buffers[t] # <<>> => t \in armed' \cap timers'
  PROVE  BufInv'
<1> USE BufferAssumption
<1>1. ASSUME NEW t \in Targets
      PROVE  /\ flushed'[t] \o buffers'[t] = UpTo(sent'[t]) /\ Len(buffers'[t]) < MaxBuffer
             /\ buffers'[t] # <<>> => t \in armed' \cap timers'
             /\ buffers'[t] \in Seq(Nat) /\ flushed'[t] \in Seq(Nat)
  <2>1. Len(<<>>) = 0 /\ <<>> \in Seq(Nat)
    OBVIOUS
  <2>2. CASE t \in ts
    <3>1. buffers'[t] = <<>> /\ flushed'[t] = flushed[t] \o buffers[t] /\ sent'[t] = sent[t]
      BY <2>2
    <3>2. /\ flushed[t] \o buffers[t] \in Seq(Nat) /\ flushed[t] \o buffers[t] = UpTo(sent[t])
          /\ (flushed[t] \o buffers[t]) \o <<>> = flushed[t] \o buffers[t]
      BY BufParts
    <3>3. flushed'[t] \o buffers'[t] = UpTo(sent'[t])
      BY <3>1, <3>2
    <3>4. flushed'[t] \in Seq(Nat) /\ buffers'[t] \in Seq(Nat) /\ buffers'[t] = <<>>
      BY <2>1, <3>1, <3>2
    <3>5. Len(buffers'[t]) < MaxBuffer
      BY <2>1, <3>1
    <3> QED  BY <3>3, <3>4, <3>5
  <2>3. CASE t \notin ts
    BY <2>3, BufParts
  <2> QED  BY <2>2, <2>3
<1>2. buffers' \in Held /\ flushed' \in Held
  BY <1>1 DEF Held
<1> QED
  BY <1>1, <1>2 DEF BufInv, BufTypeOK, HeldUntilTimer, FlushedInOrder, UpTo

LEMMA BufStep == BufInv /\ [BufNext]_bufVars => BufInv'
<1> SUFFICES ASSUME BufInv, [BufNext]_bufVars PROVE BufInv'
  OBVIOUS
<1>0. /\ buffers \in Held /\ flushed \in Held /\ timers \subseteq Targets /\ armed \subseteq Targets
      /\ \A t \in Targets : buffers[t] # <<>> => t \in armed \cap timers
  BY DEF BufInv, BufTypeOK, HeldUntilTimer
<1>1. ASSUME NEW t \in Targets, FlushTimer(t) PROVE BufInv'
  <2>1. CASE buffers[t] = <<>>
    <3>1. UNCHANGED <<buffers, timers, flushed, sent>> /\ armed' = armed \ {t}
      BY <1>1, <2>1 DEF FlushTimer
    <3> QED
      BY <1>0, <2>1, <3>1 DEF BufInv, BufTypeOK, HeldUntilTimer, FlushedInOrder
  <2>2. CASE buffers[t] # <<>>
    <3>1. /\ buffers' = [buffers EXCEPT ![t] = <<>>] /\ timers' = timers \ {t}
          /\ flushed' = [flushed EXCEPT ![t] = @ \o buffers[t]] /\ armed' = armed \ {t} /\ sent' = sent
      BY <1>1, <2>2 DEF FlushTimer, DoFlush
    <3>2. /\ buffers' = [u \in Targets |-> IF u \in {t} THEN <<>> ELSE buffers[u]]
          /\ flushed' = [u \in Targets |-> IF u \in {t} THEN flushed[u] \o buffers[u] ELSE flushed[u]]
      BY <1>0, <3>1 DEF Held
    <3>3. PICK ts \in SUBSET Targets : ts = {t}
      OBVIOUS
    <3>4. /\ buffers' = [u \in Targets |-> IF u \in ts THEN <<>> ELSE buffers[u]]
          /\ flushed' = [u \in Targets |-> IF u \in ts THEN flushed[u] \o buffers[u] ELSE flushed[u]]
      BY <3>2, <3>3
    <3>5. /\ UNCHANGED sent /\ armed' \subseteq Targets /\ timers' \subseteq Targets
          /\ \A u \in Targets \ ts : buffers[u] # <<>> => u \in armed' \cap timers'
      BY <1>0, <3>1, <3>3
    <3> QED  BY <3>4, <3>5, FlushesStep
  <2> QED  BY <2>1, <2>2
<1>2. CASE BufferShutdown
  <2>1. /\ buffers' = [t \in Targets |-> <<>>] /\ timers' = {} /\ armed' = armed \ timers /\ sent' = sent
        /\ flushed' = [t \in Targets |-> IF t \in timers THEN flushed[t] \o buffers[t] ELSE flushed[t]]
    BY <1>2 DEF BufferShutdown
  <2>2. \A t \in Targets \ timers : buffers[t] = <<>>
    BY <1>0
  <2>3. buffers' = [t \in Targets |-> IF t \in timers THEN <<>> ELSE buffers[t]]
    BY <2>1, <2>2
  <2> QED  BY <1>0, <2>1, <2>2, <2>3, FlushesStep
<1>3. CASE UNCHANGED bufVars
  BY <1>0, <1>3 DEF bufVars, BufInv, BufTypeOK, HeldUntilTimer, FlushedInOrder
<1> QED  BY <1>1, <1>2, <1>3, BufferStep DEF BufNext

-----------------------------------------------------------------------------
(* PubSub: any number of handlers, Sets and nested calls of publish.       *)

PlaceTypes == Subscribers \cup {Gone}
FrameTypes == [set : Nat, place : Nat, visited : SUBSET Nat, owed : SUBSET Subscribers]

\* The types of the Sets, of any state.
SetsTyped(ss, tp) ==
  /\ ss \in Seq(Seq(PlaceTypes)) /\ Len(ss) <= MaxSets
  /\ tp \in [Topics -> 0 .. Len(ss)]

PsTyped ==
  /\ SetsTyped(sets, topic)
  /\ frames \in Seq(FrameTypes) /\ \A i \in 1 .. Len(frames) : frames[i].set \in 0 .. Len(sets)
  /\ waiting \in [Single -> {"new", "waiting", "heard", "timed out"}]
  /\ fired \in [Single -> Nat] /\ cut \subseteq Subscribers

\* h has a place of the Set s.
In(ss, s, h) == s # 0 /\ \E i \in 1 .. Len(ss[s]) : ss[s][i] = h

\* A publish that is at f will reach h.
Owes(ss, tp, f, h) ==
  \/ f.set # 0 /\ \E i \in 1 .. Len(ss[f.set]) : i > f.place /\ ss[f.set][i] = h
  \/ tp["pattern"] \notin f.visited \cup {0} /\ In(ss, tp["pattern"], h)

\* The channel and the pattern have Sets of their own.
Apart(tp) == tp["channel"] # 0 => tp["channel"] # tp["pattern"]

\* A handler that is called once is in the channel's Set while it waits, and in none
\* before or after.
Listens(ss, tp, w, h) ==
  /\ \A s \in 1 .. Len(ss) : In(ss, s, h) => s = tp["channel"] /\ w = "waiting"
  /\ w = "waiting" => In(ss, tp["channel"], h)

SinglesOK ==
  \A h \in Single \ cut :
    /\ Listens(sets, topic, waiting[h], h)
    /\ fired[h] <= 1 /\ (waiting[h] \in {"new", "waiting"} => fired[h] = 0)

FramesOK ==
  \A j \in 1 .. Len(frames) : \A h \in frames[j].owed : Owes(sets, topic, frames[j], h)

PsInv == PsTyped /\ Apart(topic) /\ SinglesOK /\ FramesOK

LEMMA TopicsAre ==
  ASSUME NEW ss, NEW tp, SetsTyped(ss, tp)
  PROVE  /\ tp["channel"] \in 0 .. Len(ss) /\ tp["pattern"] \in 0 .. Len(ss) /\ Len(ss) \in Nat
         /\ "channel" \in Topics /\ "pattern" \in Topics
         /\ \A s \in 1 .. Len(ss) : ss[s] \in Seq(PlaceTypes) /\ Len(ss[s]) \in Nat
<1> QED  BY DEF SetsTyped, Topics

\* The types of the Sets and of the publishes, and of the handlers.
LEMMA TypedHas ==
  ASSUME PsTyped
  PROVE  /\ SetsTyped(sets, topic) /\ sets \in Seq(Seq(PlaceTypes)) /\ Len(sets) \in Nat
         /\ Len(sets) <= MaxSets /\ topic \in [Topics -> 0 .. Len(sets)]
         /\ frames \in Seq(FrameTypes) /\ Len(frames) \in Nat
         /\ \A i \in 1 .. Len(frames) : frames[i] \in FrameTypes /\ frames[i].set \in 0 .. Len(sets)
         /\ waiting \in [Single -> {"new", "waiting", "heard", "timed out"}]
         /\ fired \in [Single -> Nat] /\ cut \subseteq Subscribers
<1>1. /\ SetsTyped(sets, topic) /\ frames \in Seq(FrameTypes)
      /\ \A i \in 1 .. Len(frames) : frames[i].set \in 0 .. Len(sets)
      /\ waiting \in [Single -> {"new", "waiting", "heard", "timed out"}]
      /\ fired \in [Single -> Nat] /\ cut \subseteq Subscribers
  BY DEF PsTyped
<1>2. sets \in Seq(Seq(PlaceTypes)) /\ Len(sets) <= MaxSets /\ topic \in [Topics -> 0 .. Len(sets)]
  BY <1>1 DEF SetsTyped
<1>3. Len(sets) \in Nat /\ Len(frames) \in Nat
  BY <1>1, <1>2, LenProperties
<1>4. \A i \in 1 .. Len(frames) : frames[i] \in FrameTypes
  BY <1>1, ElementOfSeq
<1> QED  BY <1>1, <1>2, <1>3, <1>4

\* Publishes are where they were when there are more Sets.
LEMMA LongerHas ==
  ASSUME PsTyped, NEW ss, NEW tp, SetsTyped(ss, tp), Len(sets) <= Len(ss)
  PROVE  \A i \in 1 .. Len(frames) : frames[i].set \in 0 .. Len(ss)
<1>1. Len(sets) \in Nat /\ Len(ss) \in Nat /\ \A i \in 1 .. Len(frames) : frames[i].set \in 0 .. Len(sets)
  BY TypedHas, TopicsAre
<1> QED  BY <1>1

\* The handlers of a Set are those with a place.
LEMMA MembersAre ==
  ASSUME PsTyped, NEW s \in 0 .. Len(sets), NEW h
  PROVE  h \in Members(s) <=> h # Gone /\ In(sets, s, h)
<1>1. s # 0 => sets[s] \in Seq(PlaceTypes)
  <2>1. Len(sets) \in Nat /\ \A x \in 1 .. Len(sets) : sets[x] \in Seq(PlaceTypes)
    BY TypedHas, TopicsAre
  <2>2. s # 0 => s \in 1 .. Len(sets)
    BY <2>1
  <2> QED  BY <2>1, <2>2
<1>2. s # 0 => DOMAIN sets[s] = 1 .. Len(sets[s])
  BY <1>1
<1> QED  BY <1>2 DEF Members, In, ToSet

\* What Set.add does: no place is lost, and h is the only one that gets one.
LEMMA AddDoes ==
  ASSUME PsTyped, Apart(topic), NEW t \in Topics, NEW h \in Subscribers, Add(t, h)
  PROVE  /\ SetsTyped(sets', topic') /\ Apart(topic') /\ Len(sets) <= Len(sets')
         /\ \A s \in 1 .. Len(sets) : \A i \in 1 .. Len(sets[s]) :
              i \in 1 .. Len(sets'[s]) /\ sets'[s][i] = sets[s][i]
         /\ \A s \in 1 .. Len(sets') : \A x : In(sets', s, x) =>
              (x = h /\ s = topic'[t]) \/ (s \in 1 .. Len(sets) /\ In(sets, s, x))
         /\ In(sets', topic'[t], h)
         /\ \A u \in Topics : topic[u] # 0 \/ u # t => topic'[u] = topic[u]
<1> USE PubSubAssumption
<1>0. /\ sets \in Seq(Seq(PlaceTypes)) /\ Len(sets) \in Nat /\ Len(sets) <= MaxSets
      /\ topic \in [Topics -> 0 .. Len(sets)] /\ topic[t] \in 0 .. Len(sets)
      /\ h \in PlaceTypes /\ h # Gone
      /\ \A s \in 1 .. Len(sets) : sets[s] \in Seq(PlaceTypes) /\ Len(sets[s]) \in Nat
  <2>1. h \in PlaceTypes /\ h # Gone
    BY DEF PlaceTypes
  <2>2. SetsTyped(sets, topic) /\ topic \in [Topics -> 0 .. Len(sets)]
    BY TypedHas
  <2> QED  BY <2>1, <2>2, TypedHas, TopicsAre
<1> DEFINE n == Len(sets)
<1>1. CASE topic[t] = 0
  <2>1. /\ n < MaxSets /\ sets' = Append(sets, <<h>>) /\ topic' = [topic EXCEPT ![t] = n + 1]
    BY <1>1 DEF Add
  <2>2. <<h>> \in Seq(PlaceTypes) /\ Len(<<h>>) = 1 /\ <<h>>[1] = h
    BY <1>0
  <2>3. /\ sets' \in Seq(Seq(PlaceTypes)) /\ Len(sets') = n + 1 /\ sets'[n + 1] = <<h>>
        /\ \A s \in 1 .. n : sets'[s] = sets[s]
    BY <1>0, <2>1, <2>2
  <2>4. topic'[t] = n + 1 /\ \A u \in Topics : u # t => topic'[u] = topic[u]
    BY <1>0, <2>1
  <2>5. SetsTyped(sets', topic')
    BY <1>0, <2>1, <2>3 DEF SetsTyped
  <2>6. Apart(topic')
    BY <1>0, <2>4 DEF Apart, Topics
  <2>7. In(sets', topic'[t], h)
    <3>1. 1 \in 1 .. Len(<<h>>) /\ n + 1 # 0
      BY <1>0, <2>2
    <3>2. sets'[topic'[t]] = <<h>> /\ topic'[t] # 0
      BY <2>3, <2>4, <3>1
    <3> QED  BY <2>2, <3>1, <3>2 DEF In
  <2>8. ASSUME NEW s \in 1 .. Len(sets'), NEW x, In(sets', s, x)
        PROVE  (x = h /\ s = topic'[t]) \/ (s \in 1 .. n /\ In(sets, s, x))
    <3>1. CASE s = n + 1
      BY <2>2, <2>3, <2>4, <2>8, <3>1 DEF In
    <3>2. CASE s \in 1 .. n
      BY <2>3, <2>8, <3>2 DEF In
    <3> QED  BY <1>0, <2>3, <3>1, <3>2
  <2>9. n <= Len(sets') /\ \A s \in 1 .. n : sets'[s] = sets[s]
    <3>1. n \in Nat /\ Len(sets') = n + 1
      BY <1>0, <2>3
    <3>2. n <= Len(sets')
      BY <3>1
    <3> QED  BY <2>3, <3>2
  <2> QED  BY <1>1, <2>4, <2>5, <2>6, <2>7, <2>8, <2>9
<1>2. CASE topic[t] # 0 /\ h \in Members(topic[t])
  <2>1. sets' = sets /\ topic' = topic
    BY <1>2 DEF Add
  <2>2. In(sets, topic[t], h)
    BY <1>0, <1>2, MembersAre
  <2>3. SetsTyped(sets, topic)
    BY TypedHas
  <2> QED  BY <1>0, <2>1, <2>2, <2>3
<1>3. CASE topic[t] # 0 /\ h \notin Members(topic[t])
  <2>1. sets' = [sets EXCEPT ![topic[t]] = Append(sets[topic[t]], h)] /\ topic' = topic
    BY <1>3 DEF Add
  <2>2. PICK p \in Seq(PlaceTypes) : p = sets[topic[t]]
    BY <1>0, <1>3
  <2>3. /\ Append(p, h) \in Seq(PlaceTypes) /\ Len(Append(p, h)) = Len(p) + 1 /\ Len(p) \in Nat
        /\ Append(p, h)[Len(p) + 1] = h /\ \A i \in 1 .. Len(p) : Append(p, h)[i] = p[i]
    BY <1>0, <2>2
  <2>4. /\ sets' \in Seq(Seq(PlaceTypes)) /\ Len(sets') = n /\ sets'[topic[t]] = Append(p, h)
        /\ \A s \in 1 .. n : s # topic[t] => sets'[s] = sets[s]
    BY <1>0, <1>3, <2>1, <2>2, <2>3
  <2>5. SetsTyped(sets', topic') /\ Apart(topic')
    BY <1>0, <2>1, <2>4 DEF SetsTyped
  <2>6. In(sets', topic'[t], h)
    BY <1>3, <2>1, <2>3, <2>4 DEF In
  <2>7. ASSUME NEW s \in 1 .. Len(sets'), NEW x, In(sets', s, x)
        PROVE  (x = h /\ s = topic'[t]) \/ (s \in 1 .. n /\ In(sets, s, x))
    <3>1. CASE s = topic[t]
      <4>1. PICK i \in 1 .. Len(p) + 1 : Append(p, h)[i] = x
        BY <2>3, <2>4, <2>7, <3>1 DEF In
      <4>2. CASE i = Len(p) + 1
        BY <2>1, <2>3, <3>1, <4>1, <4>2
      <4>3. CASE i \in 1 .. Len(p)
        BY <1>0, <1>3, <2>2, <2>3, <3>1, <4>1, <4>3 DEF In
      <4> QED  BY <2>3, <4>2, <4>3
    <3>2. CASE s # topic[t]
      BY <2>4, <2>7, <3>2 DEF In
    <3> QED  BY <3>1, <3>2
  <2>8. ASSUME NEW s \in 1 .. n, NEW i \in 1 .. Len(sets[s])
        PROVE  i \in 1 .. Len(sets'[s]) /\ sets'[s][i] = sets[s][i]
    <3>1. CASE s = topic[t]
      <4>1. sets[s] = p /\ sets'[s] = Append(p, h) /\ i \in 1 .. Len(p)
        BY <2>2, <2>4, <3>1
      <4>2. i \in 1 .. Len(p) + 1
        BY <2>3, <4>1
      <4> QED  BY <2>3, <4>1, <4>2
    <3>2. CASE s # topic[t]
      BY <2>4, <3>2
    <3> QED  BY <3>1, <3>2
  <2>9. Len(sets) <= Len(sets') /\ topic' = topic
    BY <1>0, <2>1, <2>4
  <2> QED  BY <2>5, <2>6, <2>7, <2>8, <2>9
<1> QED  BY <1>1, <1>2, <1>3

\* What Set.delete does: h has no place of the topic's Set any more, all others theirs.
LEMMA DropDoes ==
  ASSUME PsTyped, Apart(topic), NEW t \in Topics, NEW h, Drop(t, h)
  PROVE  /\ SetsTyped(sets', topic') /\ Apart(topic') /\ Len(sets') = Len(sets)
         /\ \A s \in 1 .. Len(sets) : Len(sets'[s]) = Len(sets[s])
         /\ \A s \in 1 .. Len(sets) : \A i \in 1 .. Len(sets[s]) :
              sets[s][i] # h => sets'[s][i] = sets[s][i]
         /\ \A s \in 1 .. Len(sets) : \A i \in 1 .. Len(sets[s]) :
              sets'[s][i] # Gone => sets'[s][i] = sets[s][i]
         /\ h # Gone => ~In(sets', topic[t], h)
         /\ \A u \in Topics : topic'[u] = topic[u] \/ (u = t /\ Members(topic[t]) \subseteq {h} /\ topic'[u] = 0)
<1> USE PubSubAssumption
<1>0. /\ sets \in Seq(Seq(PlaceTypes)) /\ Len(sets) \in Nat /\ Len(sets) <= MaxSets
      /\ topic \in [Topics -> 0 .. Len(sets)] /\ topic[t] \in 0 .. Len(sets) /\ Gone \in PlaceTypes
      /\ \A s \in 1 .. Len(sets) : sets[s] \in Seq(PlaceTypes) /\ Len(sets[s]) \in Nat
  <2>1. Gone \in PlaceTypes
    BY DEF PlaceTypes
  <2>2. SetsTyped(sets, topic) /\ topic \in [Topics -> 0 .. Len(sets)]
    BY TypedHas
  <2> QED  BY <2>1, <2>2, TypedHas, TopicsAre
<1>1. CASE topic[t] = 0
  <2>1. sets' = sets /\ topic' = topic
    BY <1>1 DEF Drop
  <2> QED  BY <1>0, <1>1, <2>1 DEF PsTyped, In
<1>2. CASE topic[t] # 0
  <2>2. PICK p \in Seq(PlaceTypes) : p = sets[topic[t]]
    BY <1>0, <1>2
  <2> DEFINE q == [i \in 1 .. Len(p) |-> IF p[i] = h THEN Gone ELSE p[i]]
  <2>1. /\ sets' = [sets EXCEPT ![topic[t]] = q]
        /\ topic' = IF Members(topic[t]) \subseteq {h} THEN [topic EXCEPT ![t] = 0] ELSE topic
    <3>1. DOMAIN p = 1 .. Len(p)
      OBVIOUS
    <3> QED  BY <1>2, <2>2, <3>1 DEF Drop
  <2>3. /\ q \in Seq(PlaceTypes) /\ Len(q) = Len(p) /\ Len(p) \in Nat
        /\ \A i \in 1 .. Len(p) : q[i] = IF p[i] = h THEN Gone ELSE p[i]
    BY <1>0
  <2> HIDE DEF q
  <2>4. /\ sets' \in Seq(Seq(PlaceTypes)) /\ Len(sets') = Len(sets) /\ sets'[topic[t]] = q
        /\ \A s \in 1 .. Len(sets) : s # topic[t] => sets'[s] = sets[s]
    BY <1>0, <1>2, <2>1, <2>3
  <2>5. /\ topic' \in [Topics -> 0 .. Len(sets')]
        /\ \A u \in Topics : topic'[u] = topic[u] \/ (u = t /\ Members(topic[t]) \subseteq {h} /\ topic'[u] = 0)
    BY <1>0, <2>1, <2>4
  <2>6. SetsTyped(sets', topic') /\ Apart(topic')
    BY <1>0, <2>4, <2>5 DEF SetsTyped, Apart, Topics
  <2>7. h # Gone => ~In(sets', topic[t], h)
    BY <2>3, <2>4 DEF In
  <2>8. ASSUME NEW s \in 1 .. Len(sets)
        PROVE  /\ Len(sets'[s]) = Len(sets[s])
               /\ \A i \in 1 .. Len(sets[s]) : sets[s][i] # h => sets'[s][i] = sets[s][i]
               /\ \A i \in 1 .. Len(sets[s]) : sets'[s][i] # Gone => sets'[s][i] = sets[s][i]
    <3>1. CASE s = topic[t]
      BY <2>2, <2>3, <2>4, <3>1
    <3>2. CASE s # topic[t]
      BY <2>4, <3>2
    <3> QED  BY <3>1, <3>2
  <2> QED  BY <2>4, <2>5, <2>6, <2>7, <2>8
<1> QED  BY <1>1, <1>2

\* Who is owed a message is still owed it when another handler comes,
LEMMA AddOwes ==
  ASSUME PsTyped, Apart(topic), NEW t \in Topics, NEW h \in Subscribers, Add(t, h),
         NEW f \in FrameTypes, f.set \in 0 .. Len(sets), NEW x, Owes(sets, topic, f, x)
  PROVE  Owes(sets', topic', f, x)
<1>0. /\ \A s \in 1 .. Len(sets) : \A i \in 1 .. Len(sets[s]) :
           i \in 1 .. Len(sets'[s]) /\ sets'[s][i] = sets[s][i]
      /\ \A u \in Topics : topic[u] # 0 \/ u # t => topic'[u] = topic[u]
  BY AddDoes
<1>1. topic["pattern"] \in 0 .. Len(sets) /\ "pattern" \in Topics
  BY TopicsAre DEF PsTyped
<1>2. CASE f.set # 0 /\ \E i \in 1 .. Len(sets[f.set]) : i > f.place /\ sets[f.set][i] = x
  BY <1>0, <1>2 DEF Owes
<1>3. CASE topic["pattern"] \notin f.visited \cup {0} /\ In(sets, topic["pattern"], x)
  <2>1. topic'["pattern"] = topic["pattern"] /\ topic["pattern"] \in 1 .. Len(sets)
    BY <1>0, <1>1, <1>3
  <2> QED  BY <1>0, <1>3, <2>1 DEF Owes, In
<1> QED  BY <1>2, <1>3 DEF Owes

\* and when another one goes.
LEMMA DropOwes ==
  ASSUME PsTyped, Apart(topic), NEW t \in Topics, NEW h, Drop(t, h),
         NEW f \in FrameTypes, f.set \in 0 .. Len(sets), NEW x, x # h, x # Gone,
         Owes(sets, topic, f, x)
  PROVE  Owes(sets', topic', f, x)
<1>0. /\ \A s \in 1 .. Len(sets) : Len(sets'[s]) = Len(sets[s])
      /\ \A s \in 1 .. Len(sets) : \A i \in 1 .. Len(sets[s]) :
           sets[s][i] # h => sets'[s][i] = sets[s][i]
      /\ \A u \in Topics : topic'[u] = topic[u] \/ (u = t /\ Members(topic[t]) \subseteq {h} /\ topic'[u] = 0)
  BY DropDoes
<1>1. topic["pattern"] \in 0 .. Len(sets) /\ "pattern" \in Topics
  BY TopicsAre DEF PsTyped
<1>2. CASE f.set # 0 /\ \E i \in 1 .. Len(sets[f.set]) : i > f.place /\ sets[f.set][i] = x
  BY <1>0, <1>2 DEF Owes
<1>3. CASE topic["pattern"] \notin f.visited \cup {0} /\ In(sets, topic["pattern"], x)
  <2>1. x \in Members(topic["pattern"]) /\ topic["pattern"] \in 1 .. Len(sets)
    BY <1>1, <1>3, MembersAre
  <2>2. topic'["pattern"] = topic["pattern"]
    BY <1>0, <1>1, <2>1
  <2> QED  BY <1>0, <1>3, <2>1, <2>2 DEF Owes, In
<1> QED  BY <1>2, <1>3 DEF Owes

\* A handler called once listens as before when another one comes,
LEMMA AddListens ==
  ASSUME PsTyped, Apart(topic), NEW t \in Topics, NEW h \in Subscribers, Add(t, h),
         NEW x, x # h, NEW w, Listens(sets, topic, w, x)
  PROVE  Listens(sets', topic', w, x)
<1>0. /\ \A s \in 1 .. Len(sets) : \A i \in 1 .. Len(sets[s]) :
           i \in 1 .. Len(sets'[s]) /\ sets'[s][i] = sets[s][i]
      /\ \A s \in 1 .. Len(sets') : \A y : In(sets', s, y) =>
           (y = h /\ s = topic'[t]) \/ (s \in 1 .. Len(sets) /\ In(sets, s, y))
      /\ \A u \in Topics : topic[u] # 0 \/ u # t => topic'[u] = topic[u]
  BY AddDoes
<1>1. topic["channel"] \in 0 .. Len(sets) /\ "channel" \in Topics
  BY TopicsAre DEF PsTyped
<1>2. ASSUME NEW s \in 1 .. Len(sets'), In(sets', s, x)
      PROVE  s = topic'["channel"] /\ w = "waiting"
  <2>1. s \in 1 .. Len(sets) /\ In(sets, s, x)
    BY <1>0, <1>2
  <2>2. s = topic["channel"] /\ w = "waiting"
    BY <2>1 DEF Listens
  <2> QED  BY <1>0, <1>1, <2>1, <2>2
<1>3. ASSUME w = "waiting" PROVE In(sets', topic'["channel"], x)
  <2>1. In(sets, topic["channel"], x) /\ topic["channel"] \in 1 .. Len(sets)
    BY <1>1, <1>3 DEF Listens, In
  <2>2. topic'["channel"] = topic["channel"]
    BY <1>0, <1>1, <2>1
  <2> QED  BY <1>0, <2>1, <2>2 DEF In
<1> QED  BY <1>2, <1>3 DEF Listens

\* and when another one goes.
LEMMA DropListens ==
  ASSUME PsTyped, Apart(topic), NEW t \in Topics, NEW h, Drop(t, h),
         NEW x, x # h, x # Gone, NEW w, Listens(sets, topic, w, x)
  PROVE  Listens(sets', topic', w, x)
<1>0. /\ Len(sets') = Len(sets) /\ \A s \in 1 .. Len(sets) : Len(sets'[s]) = Len(sets[s])
      /\ \A s \in 1 .. Len(sets) : \A i \in 1 .. Len(sets[s]) :
           sets[s][i] # h => sets'[s][i] = sets[s][i]
      /\ \A s \in 1 .. Len(sets) : \A i \in 1 .. Len(sets[s]) :
           sets'[s][i] # Gone => sets'[s][i] = sets[s][i]
      /\ \A u \in Topics : topic'[u] = topic[u] \/ (u = t /\ Members(topic[t]) \subseteq {h} /\ topic'[u] = 0)
  BY DropDoes
<1>1. topic["channel"] \in 0 .. Len(sets) /\ "channel" \in Topics
  BY TopicsAre DEF PsTyped
<1>4. ASSUME In(sets, topic["channel"], x)
      PROVE  topic'["channel"] = topic["channel"] /\ topic["channel"] \in 1 .. Len(sets)
  <2>1. x \in Members(topic["channel"]) /\ topic["channel"] \in 1 .. Len(sets)
    BY <1>1, <1>4, MembersAre DEF In
  <2> QED  BY <1>0, <1>1, <2>1
<1>2. ASSUME NEW s \in 1 .. Len(sets'), In(sets', s, x)
      PROVE  s = topic'["channel"] /\ w = "waiting"
  <2>1. s \in 1 .. Len(sets) /\ In(sets, s, x)
    BY <1>0, <1>2 DEF In
  <2>2. s = topic["channel"] /\ w = "waiting"
    BY <2>1 DEF Listens
  <2> QED  BY <1>4, <2>1, <2>2
<1>3. ASSUME w = "waiting" PROVE In(sets', topic'["channel"], x)
  <2>1. In(sets, topic["channel"], x)
    BY <1>3 DEF Listens
  <2> QED  BY <1>0, <1>4, <2>1 DEF In
<1> QED  BY <1>2, <1>3 DEF Listens

LEMMA PsInitHolds == PsInit => PsInv
<1> SUFFICES ASSUME PsInit PROVE PsInv
  OBVIOUS
<1> USE PubSubAssumption DEF PsInit
<1>1. PsTyped
  BY DEF PsTyped, SetsTyped, Topics
<1>2. Apart(topic)
  BY DEF Apart, Topics
<1>3. SinglesOK /\ FramesOK
  BY DEF SinglesOK, FramesOK, Listens
<1> QED  BY <1>1, <1>2, <1>3 DEF PsInv

\* The frames of an unsubscription.
LEMMA ExcusedIs ==
  ASSUME NEW fs \in Seq(FrameTypes), NEW hs
  PROVE  /\ Excused(fs, hs) \in Seq(FrameTypes) /\ Len(Excused(fs, hs)) = Len(fs)
         /\ \A j \in 1 .. Len(fs) :
              Excused(fs, hs)[j] = [set |-> fs[j].set, place |-> fs[j].place,
                                    visited |-> fs[j].visited, owed |-> fs[j].owed \ hs]
<1>1. DOMAIN fs = 1 .. Len(fs) /\ Len(fs) \in Nat /\ \A j \in 1 .. Len(fs) : fs[j] \in FrameTypes
  OBVIOUS
<1>2. ASSUME NEW j \in 1 .. Len(fs)
      PROVE  /\ Excused(fs, hs)[j] = [set |-> fs[j].set, place |-> fs[j].place,
                                      visited |-> fs[j].visited, owed |-> fs[j].owed \ hs]
             /\ Excused(fs, hs)[j] \in FrameTypes
  <2>1. PICK f \in FrameTypes : f = fs[j]
    BY <1>1
  <2>2. Excused(fs, hs)[j] = [f EXCEPT !.owed = f.owed \ hs]
    BY <1>1, <2>1 DEF Excused
  <2>3. PICK own : own = f.owed \ hs
    OBVIOUS
  <2>4. /\ f = [set |-> f.set, place |-> f.place, visited |-> f.visited, owed |-> f.owed]
        /\ f.set \in Nat /\ f.place \in Nat /\ f.visited \in SUBSET Nat /\ f.owed \in SUBSET Subscribers
    BY DEF FrameTypes
  <2>5. [f EXCEPT !.owed = own] = [set |-> f.set, place |-> f.place, visited |-> f.visited, owed |-> own]
    BY <2>4
  <2>6. own \in SUBSET Subscribers
    BY <2>3, <2>4
  <2>7. [set |-> f.set, place |-> f.place, visited |-> f.visited, owed |-> own] \in FrameTypes
    BY <2>4, <2>6 DEF FrameTypes
  <2> QED  BY <2>1, <2>2, <2>3, <2>5, <2>7
<1>3. \A j \in 1 .. Len(fs) : Excused(fs, hs)[j] \in FrameTypes
  BY <1>2
<1>4. DOMAIN Excused(fs, hs) = 1 .. Len(fs)
  BY <1>1 DEF Excused
<1>5. Excused(fs, hs) = [j \in 1 .. Len(fs) |-> Excused(fs, hs)[j]]
  BY <1>1 DEF Excused
<1> QED  BY <1>1, <1>2, <1>3, <1>4, <1>5

LEMMA ExcusedHas ==
  ASSUME NEW fs \in Seq(FrameTypes), NEW hs, NEW gs, gs = Excused(fs, hs)
  PROVE  /\ gs \in Seq(FrameTypes) /\ Len(gs) = Len(fs)
         /\ \A j \in 1 .. Len(fs) :
              /\ gs[j] \in FrameTypes /\ fs[j] \in FrameTypes /\ gs[j].set = fs[j].set
              /\ gs[j].place = fs[j].place /\ gs[j].visited = fs[j].visited
              /\ gs[j].owed = fs[j].owed \ hs
<1>1. gs \in Seq(FrameTypes) /\ Len(gs) = Len(fs)
  BY ExcusedIs
<1>2. ASSUME NEW j \in 1 .. Len(fs)
      PROVE  /\ gs[j] \in FrameTypes /\ fs[j] \in FrameTypes /\ gs[j].set = fs[j].set
             /\ gs[j].place = fs[j].place /\ gs[j].visited = fs[j].visited
             /\ gs[j].owed = fs[j].owed \ hs
  <2>1. PICK s, p, v, o : s = fs[j].set /\ p = fs[j].place /\ v = fs[j].visited /\ o = fs[j].owed \ hs
    OBVIOUS
  <2>2. gs[j] = [set |-> s, place |-> p, visited |-> v, owed |-> o]
    BY <2>1, ExcusedIs
  <2>3. gs[j] \in FrameTypes /\ fs[j] \in FrameTypes
    BY <1>1, ElementOfSeq
  <2> QED  BY <2>1, <2>2, <2>3
<1> QED  BY <1>1, <1>2

\* To owe is a matter of where a publish is, not of whom it owes.
LEMMA OwesByPlace ==
  ASSUME NEW ss, NEW tp, NEW x, NEW f \in FrameTypes, NEW g \in FrameTypes,
         g.set = f.set, g.place = f.place, g.visited = f.visited, Owes(ss, tp, f, x)
  PROVE  Owes(ss, tp, g, x)
BY DEF Owes

LEMMA FrameHas ==
  ASSUME PsInv, NEW j \in 1 .. Len(frames)
  PROVE  /\ frames[j] \in FrameTypes /\ frames[j].set \in 0 .. Len(sets)
         /\ frames[j].owed \subseteq Subscribers
         /\ \A x \in frames[j].owed : x # Gone /\ Owes(sets, topic, frames[j], x)
<1>1. PsTyped /\ FramesOK
  BY DEF PsInv
<1>2. frames[j] \in FrameTypes /\ frames[j].set \in 0 .. Len(sets)
  BY <1>1, TypedHas
<1>3. frames[j].owed \subseteq Subscribers
  BY <1>2 DEF FrameTypes
<1>4. \A x \in frames[j].owed : Owes(sets, topic, frames[j], x)
  BY <1>1 DEF FramesOK
<1> QED  BY <1>2, <1>3, <1>4, PubSubAssumption

LEMMA SingleHas ==
  ASSUME PsInv, NEW h \in Single
  PROVE  /\ h \in Subscribers /\ h # Gone /\ h \notin Plain /\ fired[h] \in Nat
         /\ waiting[h] \in {"new", "waiting", "heard", "timed out"}
         /\ h \notin cut => /\ Listens(sets, topic, waiting[h], h) /\ fired[h] <= 1
                            /\ waiting[h] \in {"new", "waiting"} => fired[h] = 0
BY PubSubAssumption DEF PsInv, PsTyped, SinglesOK, Single

\* h comes: to the topic t for good, or to the channel to be called once.
LEMMA SubscribeStep ==
  ASSUME PsInv, NEW t \in Topics, NEW h \in Plain, Subscribe(t, h) PROVE PsInv'
<1>0. PsTyped /\ Apart(topic) /\ Add(t, h) /\ h \in Subscribers
  BY DEF PsInv, Subscribe, Subscribers
<1>1. UNCHANGED <<frames, waiting, fired, cut>>
  BY DEF Subscribe
<1>2. SetsTyped(sets', topic') /\ Apart(topic') /\ Len(sets) <= Len(sets')
  BY <1>0, AddDoes
<1>3. PsTyped'
  <2>1. \A i \in 1 .. Len(frames) : frames[i].set \in 0 .. Len(sets')
    BY <1>0, <1>2, LongerHas
  <2> QED  BY <1>0, <1>1, <1>2, <2>1, TypedHas DEF PsTyped
<1>4. SinglesOK'
  BY <1>0, <1>1, SingleHas, AddListens DEF SinglesOK, Single
<1>5. FramesOK'
  BY <1>0, <1>1, FrameHas, AddOwes DEF FramesOK
<1> QED  BY <1>2, <1>3, <1>4, <1>5 DEF PsInv, Apart

LEMMA SubscribeOnceStep ==
  ASSUME PsInv, NEW h \in Single, SubscribeOnce(h) PROVE PsInv'
<1>0. PsTyped /\ Apart(topic) /\ Add("channel", h) /\ h \in Subscribers /\ "channel" \in Topics
  BY SingleHas DEF PsInv, SubscribeOnce, Topics
<1>1. /\ UNCHANGED <<frames, fired, cut>> /\ waiting[h] = "new"
      /\ waiting' = [waiting EXCEPT ![h] = "waiting"]
  BY DEF SubscribeOnce
<1>2. /\ SetsTyped(sets', topic') /\ Apart(topic') /\ Len(sets) <= Len(sets')
      /\ In(sets', topic'["channel"], h)
      /\ \A s \in 1 .. Len(sets') : \A x : In(sets', s, x) =>
           (x = h /\ s = topic'["channel"]) \/ (s \in 1 .. Len(sets) /\ In(sets, s, x))
  BY <1>0, AddDoes
<1>3. PsTyped'
  <2>1. \A i \in 1 .. Len(frames) : frames[i].set \in 0 .. Len(sets')
    BY <1>0, <1>2, LongerHas
  <2>2. waiting' \in [Single -> {"new", "waiting", "heard", "timed out"}]
    BY <1>0, <1>1, TypedHas
  <2> QED  BY <1>0, <1>1, <1>2, <2>1, <2>2, TypedHas DEF PsTyped
<1>4. ASSUME NEW x \in Single, x \notin cut
      PROVE  /\ Listens(sets', topic', waiting'[x], x)
             /\ fired[x] <= 1 /\ (waiting'[x] \in {"new", "waiting"} => fired[x] = 0)
  <2>1. CASE x = h
    <3>1. waiting'[x] = "waiting" /\ fired[x] = 0
      BY <1>0, <1>1, <1>4, <2>1, SingleHas DEF PsTyped
    <3>2. \A s \in 1 .. Len(sets) : ~In(sets, s, x)
      BY <1>1, <1>4, <2>1, SingleHas DEF Listens
    <3> QED  BY <1>2, <2>1, <3>1, <3>2 DEF Listens
  <2>2. CASE x # h
    <3>1. waiting'[x] = waiting[x]
      BY <1>0, <1>1, <2>2 DEF PsTyped
    <3> QED  BY <1>0, <1>4, <2>2, <3>1, SingleHas, AddListens
  <2> QED  BY <2>1, <2>2
<1>5. FramesOK'
  BY <1>0, <1>1, FrameHas, AddOwes DEF FramesOK
<1>6. SinglesOK'
  BY <1>1, <1>4 DEF SinglesOK
<1> QED  BY <1>2, <1>3, <1>5, <1>6 DEF PsInv, Apart

\* All that is left to show when h goes from a topic and is owed nothing.
LEMMA GoesStep ==
  ASSUME PsInv, NEW t \in Topics, NEW h \in Subscribers, Drop(t, h),
         PsTyped', SinglesOK', Len(frames') = Len(frames),
         \A j \in 1 .. Len(frames) :
           /\ frames'[j] \in FrameTypes /\ frames'[j].set = frames[j].set
           /\ frames'[j].owed \subseteq frames[j].owed \ {h}
           /\ \A x \in frames'[j].owed : Owes(sets, topic, frames'[j], x)
  PROVE  PsInv'
<1>0. PsTyped /\ Apart(topic) /\ Apart(topic') /\ Len(frames) \in Nat
  <2>1. PsTyped /\ Apart(topic)
    BY DEF PsInv
  <2> QED  BY <2>1, DropDoes, TypedHas
<1>1. ASSUME NEW j \in 1 .. Len(frames), NEW x \in frames'[j].owed
      PROVE  Owes(sets', topic', frames'[j], x)
  <2>1. /\ x # h /\ x # Gone /\ frames'[j] \in FrameTypes /\ frames'[j].set \in 0 .. Len(sets)
        /\ Owes(sets, topic, frames'[j], x)
    BY <1>1, FrameHas
  <2> QED  BY <1>0, <2>1, DropOwes
<1>2. FramesOK'
  BY <1>1 DEF FramesOK
<1> QED  BY <1>0, <1>2 DEF PsInv, Apart

LEMMA UnsubscribeStep ==
  ASSUME PsInv, NEW t \in Topics, NEW h \in Plain, Unsubscribe(t, h) PROVE PsInv'
<1>0. /\ PsTyped /\ Apart(topic) /\ Drop(t, h) /\ h \in Subscribers
      /\ frames \in Seq(FrameTypes) /\ frames' = Excused(frames, {h})
      /\ UNCHANGED <<waiting, fired, cut>>
  BY DEF PsInv, PsTyped, Unsubscribe, Subscribers
<1>1. /\ frames' \in Seq(FrameTypes) /\ Len(frames') = Len(frames)
      /\ \A j \in 1 .. Len(frames) :
           /\ frames'[j] \in FrameTypes /\ frames[j] \in FrameTypes /\ frames'[j].set = frames[j].set
           /\ frames'[j].place = frames[j].place /\ frames'[j].visited = frames[j].visited
           /\ frames'[j].owed = frames[j].owed \ {h}
  BY <1>0, ExcusedHas
<1>2. SetsTyped(sets', topic') /\ Len(sets') = Len(sets)
  BY <1>0, DropDoes
<1>3. PsTyped'
  <2>1. \A i \in 1 .. Len(frames) : frames'[i].set = frames[i].set
    BY <1>1
  <2>2. \A i \in 1 .. Len(frames') : frames'[i].set \in 0 .. Len(sets')
    BY <1>0, <1>1, <1>2, <2>1, TypedHas
  <2> QED  BY <1>0, <1>1, <1>2, <2>2, TypedHas DEF PsTyped
<1>4. SinglesOK'
  BY <1>0, SingleHas, DropListens DEF SinglesOK
<1>5. ASSUME NEW j \in 1 .. Len(frames)
      PROVE  /\ frames'[j] \in FrameTypes /\ frames'[j].set = frames[j].set
             /\ frames'[j].owed \subseteq frames[j].owed \ {h}
             /\ \A x \in frames'[j].owed : Owes(sets, topic, frames'[j], x)
  <2>1. /\ frames'[j] \in FrameTypes /\ frames[j] \in FrameTypes
        /\ frames'[j].set = frames[j].set /\ frames'[j].place = frames[j].place
        /\ frames'[j].visited = frames[j].visited /\ frames'[j].owed = frames[j].owed \ {h}
    BY <1>1
  <2> QED  BY <2>1, FrameHas, OwesByPlace
<1> QED  BY <1>0, <1>1, <1>3, <1>4, <1>5, GoesStep

LEMMA UnsubscribeAllStep ==
  ASSUME PsInv, NEW t \in Topics, UnsubscribeAll(t) PROVE PsInv'
<1>0. /\ PsTyped /\ Apart(topic) /\ frames \in Seq(FrameTypes)
      /\ frames' = Excused(frames, Members(topic[t])) /\ topic' = [topic EXCEPT ![t] = 0]
      /\ cut' = cut \cup Members(topic[t]) /\ UNCHANGED <<sets, waiting, fired>>
      /\ topic[t] \in 0 .. Len(sets) /\ topic \in [Topics -> 0 .. Len(sets)]
      /\ "channel" \in Topics /\ "pattern" \in Topics
  BY DEF PsInv, PsTyped, SetsTyped, UnsubscribeAll, Topics
<1>1. /\ frames' \in Seq(FrameTypes) /\ Len(frames') = Len(frames)
      /\ \A j \in 1 .. Len(frames) :
           /\ frames'[j] \in FrameTypes /\ frames[j] \in FrameTypes /\ frames'[j].set = frames[j].set
           /\ frames'[j].place = frames[j].place /\ frames'[j].visited = frames[j].visited
           /\ frames'[j].owed = frames[j].owed \ Members(topic[t])
  BY <1>0, ExcusedHas
<1>2. Members(topic[t]) \subseteq Subscribers
  <2>1. topic[t] # 0 => sets[topic[t]] \in Seq(PlaceTypes)
    <3>1. Len(sets) \in Nat /\ \A y \in 1 .. Len(sets) : sets[y] \in Seq(PlaceTypes)
      BY <1>0, TypedHas, TopicsAre
    <3>2. topic[t] # 0 => topic[t] \in 1 .. Len(sets)
      BY <1>0, <3>1
    <3> QED  BY <3>1, <3>2
  <2>2. \A x : In(sets, topic[t], x) => x \in PlaceTypes
    BY <2>1 DEF In
  <2> QED  BY <1>0, <2>2, MembersAre DEF PlaceTypes
<1>3. PsTyped' /\ Apart(topic')
  <2>1. topic' \in [Topics -> 0 .. Len(sets)] /\ SetsTyped(sets, topic)
    <3>1. Len(sets) \in Nat /\ SetsTyped(sets, topic)
      BY <1>0, TypedHas
    <3>2. 0 \in 0 .. Len(sets)
      BY <3>1
    <3> QED  BY <1>0, <3>1, <3>2
  <2>2. SetsTyped(sets', topic')
    BY <1>0, <2>1 DEF SetsTyped
  <2>3. cut' \subseteq Subscribers /\ \A i \in 1 .. Len(frames) : frames'[i].set \in 0 .. Len(sets')
    <3>1. \A i \in 1 .. Len(frames) : frames'[i].set = frames[i].set
      BY <1>1
    <3> QED  BY <1>0, <1>2, <3>1, TypedHas
  <2>4. Apart(topic')
    BY <1>0 DEF PsInv, Apart, Topics
  <2> QED  BY <1>0, <1>1, <2>2, <2>3, <2>4, TypedHas DEF PsTyped
<1>4. ASSUME NEW x \in Single, x \notin cut'
      PROVE  /\ Listens(sets, topic', waiting[x], x)
             /\ fired[x] <= 1 /\ (waiting[x] \in {"new", "waiting"} => fired[x] = 0)
  <2>1. x \notin cut /\ x # Gone /\ ~In(sets, topic[t], x)
    BY <1>0, <1>4, SingleHas, MembersAre
  <2>2. Listens(sets, topic, waiting[x], x)
    BY <2>1, SingleHas
  <2>3. Listens(sets, topic', waiting[x], x)
    <3>1. CASE t = "channel"
      <4>1. \A s \in 1 .. Len(sets) : ~In(sets, s, x)
        BY <2>1, <2>2, <3>1 DEF Listens
      <4>2. waiting[x] # "waiting"
        BY <2>1, <2>2, <3>1 DEF Listens
      <4> QED  BY <4>1, <4>2 DEF Listens
    <3>2. CASE t # "channel"
      BY <1>0, <2>2, <3>2 DEF Listens
    <3> QED  BY <3>1, <3>2
  <2> QED  BY <2>1, <2>3, SingleHas
<1>5. ASSUME NEW j \in 1 .. Len(frames), NEW x \in frames'[j].owed
      PROVE  Owes(sets, topic', frames'[j], x)
  <2>1. /\ frames'[j] \in FrameTypes /\ frames[j] \in FrameTypes
        /\ frames'[j].set = frames[j].set /\ frames'[j].place = frames[j].place
        /\ frames'[j].visited = frames[j].visited
        /\ x \in frames[j].owed /\ x \notin Members(topic[t])
    <3>1. frames'[j].owed = frames[j].owed \ Members(topic[t])
      BY <1>1
    <3>2. x \in frames[j].owed /\ x \notin Members(topic[t])
      BY <1>5, <3>1
    <3> QED  BY <1>1, <3>2
  <2>2. Owes(sets, topic, frames[j], x) /\ x # Gone /\ ~In(sets, topic[t], x)
    BY <1>0, <2>1, FrameHas, MembersAre
  <2> QED  BY <1>0, <2>1, <2>2 DEF Owes
<1>6. SinglesOK' /\ FramesOK'
  BY <1>0, <1>1, <1>4, <1>5 DEF SinglesOK, FramesOK
<1> QED  BY <1>3, <1>6 DEF PsInv, Apart

\* Only publishes go on.
LEMMA FramesStep ==
  ASSUME PsInv, UNCHANGED <<sets, topic, waiting, fired, cut>>,
         frames' \in Seq(FrameTypes),
         \A j \in 1 .. Len(frames') :
           /\ frames'[j].set \in 0 .. Len(sets)
           /\ \A x \in frames'[j].owed : Owes(sets, topic, frames'[j], x)
  PROVE  PsInv'
<1>1. PsTyped'
  BY DEF PsInv, PsTyped
<1>2. SinglesOK'
  BY DEF PsInv, SinglesOK
<1>3. FramesOK'
  BY DEF FramesOK
<1> QED  BY <1>1, <1>2, <1>3 DEF PsInv, Apart

LEMMA PublishStep ==
  ASSUME PsInv, Publish PROVE PsInv'
<1> DEFINE ms == Members(topic["channel"]) \cup Members(topic["pattern"])
           f == [set |-> topic["channel"], place |-> 0, visited |-> {}, owed |-> ms]
<1>0. /\ PsTyped /\ frames \in Seq(FrameTypes) /\ frames' = Append(frames, f) /\ Len(frames) \in Nat
      /\ UNCHANGED <<sets, topic, waiting, fired, cut>>
  BY TypedHas DEF PsInv, Publish
<1>1. /\ topic["channel"] \in 0 .. Len(sets) /\ topic["pattern"] \in 0 .. Len(sets)
      /\ \A s \in 1 .. Len(sets) : sets[s] \in Seq(PlaceTypes)
  BY <1>0, TopicsAre DEF PsTyped
<1>2. \A s \in 0 .. Len(sets) : Members(s) \subseteq Subscribers
  <2>1. \A s \in 1 .. Len(sets) : \A x : In(sets, s, x) => x \in PlaceTypes
    BY <1>1 DEF In
  <2> QED  BY <1>0, <2>1, MembersAre DEF PlaceTypes, In
<1>3. f \in FrameTypes
  BY <1>1, <1>2 DEF FrameTypes
<1>4. ASSUME NEW x \in ms PROVE Owes(sets, topic, f, x)
  <2>1. In(sets, topic["channel"], x) \/ In(sets, topic["pattern"], x)
    BY <1>0, <1>1, MembersAre
  <2>2. In(sets, topic["pattern"], x) => topic["pattern"] \notin {} \cup {0}
    BY DEF In
  <2> QED  BY <1>1, <2>1, <2>2 DEF Owes, In
<1>5. /\ frames' \in Seq(FrameTypes) /\ Len(frames') = Len(frames) + 1
      /\ frames'[Len(frames) + 1] = f /\ \A j \in 1 .. Len(frames) : frames'[j] = frames[j]
  BY <1>0, <1>3
<1>6. ASSUME NEW j \in 1 .. Len(frames')
      PROVE  /\ frames'[j].set \in 0 .. Len(sets)
             /\ \A x \in frames'[j].owed : Owes(sets, topic, frames'[j], x)
  <2>1. CASE j \in 1 .. Len(frames)
    BY <1>5, <2>1, FrameHas
  <2>2. CASE j = Len(frames) + 1
    BY <1>1, <1>4, <1>5, <2>2
  <2>3. j \in 1 .. Len(frames) \/ j = Len(frames) + 1
    BY <1>0, <1>5
  <2> QED  BY <2>1, <2>2, <2>3
<1> QED  BY <1>0, <1>5, <1>6, FramesStep

LEMMA TopHas ==
  ASSUME PsInv, frames # <<>>
  PROVE  /\ Len(frames) \in 1 .. Len(frames) /\ Len(frames) \in Nat
         /\ Top = frames[Len(frames)] /\ Top \in FrameTypes /\ Top.set \in 0 .. Len(sets)
<1>1. frames \in Seq(FrameTypes)
  BY DEF PsInv, PsTyped
<1>2. Len(frames) \in Nat /\ Len(frames) # 0
  BY <1>1
<1> QED  BY <1>2, FrameHas DEF Top

\* Nothing ahead: whoever is owed a message is in the pattern's Set.
LEMMA NothingAhead ==
  ASSUME PsInv, frames # <<>>, Ahead = {}, NEW x \in Top.owed
  PROVE  topic["pattern"] \notin Top.visited \cup {0} /\ In(sets, topic["pattern"], x)
<1>1. Owes(sets, topic, Top, x) /\ x # Gone /\ Top \in FrameTypes /\ Top.set \in 0 .. Len(sets)
  BY TopHas, FrameHas
<1>2. ASSUME Top.set # 0, NEW i \in 1 .. Len(sets[Top.set]), i > Top.place, sets[Top.set][i] = x
      PROVE  FALSE
  <2>1. Top.place \in Nat
    BY <1>1 DEF FrameTypes
  <2>2. i \in (Top.place + 1) .. Len(sets[Top.set])
    BY <1>2, <2>1
  <2> QED  BY <1>1, <1>2, <2>2 DEF Ahead
<1> QED  BY <1>1, <1>2 DEF Owes

LEMMA NextSetStep ==
  ASSUME PsInv, NextSet PROVE PsInv'
<1> DEFINE n == Len(frames)
<1>0. /\ frames # <<>> /\ Ahead = {} /\ topic["pattern"] \notin Top.visited \cup {0}
      /\ frames' = [frames EXCEPT ![n].set = topic["pattern"], ![n].place = 0,
                                  ![n].visited = @ \cup {topic["pattern"]}]
      /\ UNCHANGED <<sets, topic, waiting, fired, cut>>
      /\ frames \in Seq(FrameTypes)
  BY DEF NextSet, PsInv, PsTyped
<1>1. topic["pattern"] \in 0 .. Len(sets) /\ n \in 1 .. n /\ frames[n] \in FrameTypes /\ Top = frames[n]
      /\ Len(sets) \in Nat
  BY <1>0, TopicsAre, TopHas DEF PsInv, PsTyped
<1> DEFINE f == [set |-> topic["pattern"], place |-> 0,
                 visited |-> Top.visited \cup {topic["pattern"]}, owed |-> Top.owed]
<1>2. f \in FrameTypes
  BY <1>1 DEF FrameTypes
<1>3. /\ frames' \in Seq(FrameTypes) /\ Len(frames') = n /\ frames'[n] = f
      /\ \A j \in 1 .. n : j # n => frames'[j] = frames[j]
  BY <1>0, <1>1, <1>2 DEF FrameTypes
<1>4. ASSUME NEW x \in Top.owed PROVE Owes(sets, topic, f, x)
  <2>1. In(sets, topic["pattern"], x)
    BY <1>0, <1>4, NothingAhead
  <2> QED  BY <1>1, <2>1 DEF Owes, In
<1>6. ASSUME NEW j \in 1 .. Len(frames')
      PROVE  /\ frames'[j].set \in 0 .. Len(sets)
             /\ \A x \in frames'[j].owed : Owes(sets, topic, frames'[j], x)
  <2>1. CASE j # n
    BY <1>3, <2>1, FrameHas
  <2>2. CASE j = n
    <3>1. frames'[j] = f /\ f.owed = Top.owed /\ f.set = topic["pattern"]
      BY <1>3, <2>2
    <3> HIDE DEF f
    <3> QED  BY <1>1, <1>4, <3>1
  <2> QED  BY <2>1, <2>2
<1> QED  BY <1>0, <1>3, <1>6, FramesStep

LEMMA ReturnStep ==
  ASSUME PsInv, Return PROVE PsInv'
<1>0. /\ frames # <<>> /\ frames \in Seq(FrameTypes) /\ frames' = SubSeq(frames, 1, Len(frames) - 1)
      /\ UNCHANGED <<sets, topic, waiting, fired, cut>>
  BY DEF Return, Done, Front, PsInv, PsTyped
<1>1. /\ frames' \in Seq(FrameTypes) /\ Len(frames') = Len(frames) - 1
      /\ \A j \in 1 .. Len(frames') : j \in 1 .. Len(frames) /\ frames'[j] = frames[j]
  <2>1. PICK m \in Nat : m = Len(frames) - 1 /\ Len(frames) = m + 1
    <3>1. Len(frames) \in Nat /\ Len(frames) >= 1
      BY <1>0, TopHas
    <3> QED  BY <3>1
  <2>2. PICK fs \in Seq(FrameTypes) : fs = frames
    BY <1>0
  <2>3. /\ Len(SubSeq(fs, 1, m)) = m /\ \A j \in 1 .. m : SubSeq(fs, 1, m)[j] = fs[j]
        /\ SubSeq(fs, 1, m) \in Seq(FrameTypes)
    BY <2>1, <2>2, SubSeqProperties
  <2>4. \A j \in 1 .. m : j \in 1 .. m + 1
    OBVIOUS
  <2> QED  BY <1>0, <2>1, <2>2, <2>3, <2>4
<1> QED  BY <1>0, <1>1, FrameHas, FramesStep

\* The place the innermost publish comes to.
LEMMA LeastAhead ==
  ASSUME PsInv, Ahead # {}
  PROVE  LET i == CHOOSE k \in Ahead : \A l \in Ahead : k <= l
         IN /\ frames # <<>> /\ Top.set # 0 /\ i \in 1 .. Len(sets[Top.set]) /\ i > Top.place
            /\ sets[Top.set][i] \in Subscribers
            /\ \A k \in 1 .. Len(sets[Top.set]) :
                 k > Top.place /\ sets[Top.set][k] # Gone => i <= k
<1>1. frames # <<>> /\ Top.set # 0
  BY DEF Ahead
<1>2. /\ Top \in FrameTypes /\ Top.set \in 1 .. Len(sets) /\ Top.place \in Nat
      /\ sets[Top.set] \in Seq(PlaceTypes)
  <2>1. Top \in FrameTypes /\ Top.set \in 0 .. Len(sets) /\ PsTyped
    BY <1>1, TopHas DEF PsInv
  <2>2. Len(sets) \in Nat /\ \A s \in 1 .. Len(sets) : sets[s] \in Seq(PlaceTypes)
    BY <2>1, TypedHas, TopicsAre
  <2>3. Top.set \in 1 .. Len(sets) /\ Top.place \in Nat
    BY <1>1, <2>1, <2>2 DEF FrameTypes
  <2> QED  BY <2>1, <2>2, <2>3
<1>3. /\ Ahead = {i \in (Top.place + 1) .. Len(sets[Top.set]) : sets[Top.set][i] # Gone}
      /\ Ahead \in SUBSET Nat
  BY <1>1, <1>2 DEF Ahead
<1>4. \E k \in Ahead : \A l \in Ahead : k <= l
  BY <1>3, LeastOf
<1> DEFINE i == CHOOSE k \in Ahead : \A l \in Ahead : k <= l
<1>5. i \in Ahead /\ \A l \in Ahead : i <= l
  BY <1>4
<1> HIDE DEF i
<1>6. \A k \in 1 .. Len(sets[Top.set]) : k > Top.place /\ sets[Top.set][k] # Gone => k \in Ahead
  BY <1>2, <1>3
<1>7. i \in 1 .. Len(sets[Top.set]) /\ i > Top.place /\ sets[Top.set][i] \in Subscribers
  BY <1>2, <1>3, <1>5 DEF PlaceTypes
<1> QED  BY <1>1, <1>5, <1>6, <1>7 DEF i

LEMMA DeliverStep ==
  ASSUME PsInv, Deliver PROVE PsInv'
<1> DEFINE n == Len(frames)
           i == CHOOSE k \in Ahead : \A l \in Ahead : k <= l
           h == sets[Top.set][i]
           excused == IF h \in Single THEN Excused(frames, {h}) ELSE frames
<1>0. /\ Call(h) /\ frames' = [excused EXCEPT ![n].place = i, ![n].owed = @ \ {h}]
      /\ cut' = cut /\ frames \in Seq(FrameTypes) /\ PsTyped /\ Apart(topic)
      /\ "channel" \in Topics
  BY DEF Deliver, PsInv, PsTyped, Topics
<1>1. /\ frames # <<>> /\ Top.set # 0 /\ i \in 1 .. Len(sets[Top.set]) /\ i > Top.place
      /\ h \in Subscribers
      /\ \A k \in 1 .. Len(sets[Top.set]) :
           k > Top.place /\ sets[Top.set][k] # Gone => i <= k
  BY LeastAhead DEF Deliver
<1>2. /\ n \in 1 .. n /\ n \in Nat /\ Top = frames[n] /\ Top \in FrameTypes /\ Top.set \in 1 .. Len(sets)
  BY <1>1, TopHas
<1> HIDE DEF i
<1>3. h # Gone /\ In(sets, Top.set, h) /\ i \in Nat /\ Top.place \in Nat
  BY <1>1, <1>2, PubSubAssumption DEF In, FrameTypes
<1> HIDE DEF h
<1>4. /\ excused \in Seq(FrameTypes) /\ Len(excused) = n
      /\ \A j \in 1 .. n :
           /\ excused[j] \in FrameTypes /\ excused[j].set = frames[j].set
           /\ excused[j].place = frames[j].place /\ excused[j].visited = frames[j].visited
           /\ excused[j].owed = IF h \in Single THEN frames[j].owed \ {h} ELSE frames[j].owed
  <2>1. CASE h \in Single
    <3>1. excused = Excused(frames, {h})
      BY <2>1
    <3> HIDE DEF excused
    <3> QED  BY <1>0, <2>1, <3>1, ExcusedHas
  <2>2. CASE h \notin Single
    <3>1. excused = frames
      BY <2>2
    <3> HIDE DEF excused
    <3>2. \A j \in 1 .. n : frames[j] \in FrameTypes
      BY <1>0
    <3> QED  BY <1>0, <2>2, <3>1, <3>2
  <2> QED  BY <2>1, <2>2
<1> HIDE DEF excused
<1>5. /\ frames' \in Seq(FrameTypes) /\ Len(frames') = n
      /\ \A j \in 1 .. n : j # n => frames'[j] = excused[j]
      /\ frames'[n] = [set |-> excused[n].set, place |-> i, visited |-> excused[n].visited,
                       owed |-> excused[n].owed \ {h}]
  <2>1. excused[n] \in FrameTypes
    BY <1>2, <1>4
  <2>2. [set |-> excused[n].set, place |-> i, visited |-> excused[n].visited,
         owed |-> excused[n].owed \ {h}] \in FrameTypes
    BY <1>3, <2>1 DEF FrameTypes
  <2>3. PICK f \in FrameTypes : f = excused[n]
    BY <2>1
  <2>4. PICK own : own = f.owed \ {h}
    OBVIOUS
  <2>5. f = [set |-> f.set, place |-> f.place, visited |-> f.visited, owed |-> f.owed]
    BY DEF FrameTypes
  <2>6. [[f EXCEPT !.place = i] EXCEPT !.owed = own]
          = [set |-> f.set, place |-> i, visited |-> f.visited, owed |-> own]
    <3>1. PICK a, b, v, o : a = f.set /\ b = f.place /\ v = f.visited /\ o = f.owed
      OBVIOUS
    <3>2. f = [set |-> a, place |-> b, visited |-> v, owed |-> o]
      BY <2>5, <3>1
    <3>3. [[f EXCEPT !.place = i] EXCEPT !.owed = own] = [set |-> a, place |-> i, visited |-> v, owed |-> own]
      <4>1. PICK r : r = [f EXCEPT !.place = i]
        OBVIOUS
      <4>2. r = [set |-> a, place |-> i, visited |-> v, owed |-> o]
        BY <3>2, <4>1
      <4>3. [r EXCEPT !.owed = own] = [set |-> a, place |-> i, visited |-> v, owed |-> own]
        BY <4>2
      <4> QED  BY <4>1, <4>3
    <3> QED  BY <3>1, <3>3
  <2>7. DOMAIN excused = 1 .. n
    BY <1>4
  <2>8. frames' = [excused EXCEPT ![n] = [set |-> f.set, place |-> i, visited |-> f.visited, owed |-> own]]
    <3>1. frames' = [[excused EXCEPT ![n].place = i] EXCEPT ![n].owed = @ \ {h}]
      BY <1>0
    <3>2. [excused EXCEPT ![n].place = i] = [excused EXCEPT ![n] = [f EXCEPT !.place = i]]
      BY <2>3
    <3>3. frames' = [excused EXCEPT ![n] = [[f EXCEPT !.place = i] EXCEPT !.owed = own]]
      BY <1>2, <2>3, <2>4, <2>5, <2>7, <3>1, <3>2
    <3> QED  BY <2>6, <3>3
  <2>9. PICK g \in FrameTypes : g = [set |-> f.set, place |-> i, visited |-> f.visited, owed |-> own]
    BY <2>2, <2>3, <2>4
  <2>10. /\ frames' \in Seq(FrameTypes) /\ Len(frames') = n /\ frames'[n] = g
         /\ \A j \in 1 .. n : j # n => frames'[j] = excused[j]
    BY <1>2, <1>4, <2>7, <2>8, <2>9
  <2> QED  BY <2>3, <2>4, <2>9, <2>10
<1>6. ASSUME NEW j \in 1 .. n
      PROVE  /\ frames'[j] \in FrameTypes /\ frames'[j].set = frames[j].set
             /\ frames'[j].set \in 0 .. Len(sets)
             /\ frames'[j].owed \subseteq frames[j].owed
             /\ h \in Single => frames'[j].owed \subseteq frames[j].owed \ {h}
             /\ \A x \in frames'[j].owed : Owes(sets, topic, frames'[j], x)
  <2>1. CASE j # n
    <3>1. frames'[j] = excused[j]
      BY <1>5, <2>1
    <3>2. \A x \in excused[j].owed : Owes(sets, topic, frames[j], x) /\ frames[j] \in FrameTypes
      BY <1>4, FrameHas
    <3>3. \A x \in excused[j].owed : Owes(sets, topic, excused[j], x)
      BY <1>4, <3>2, OwesByPlace
    <3> QED  BY <1>4, <3>1, <3>3, FrameHas
  <2>2. CASE j = n
    <3>1. /\ frames'[j].set = Top.set /\ frames'[j].place = i /\ frames'[j].visited = Top.visited
          /\ frames'[j].owed = excused[n].owed \ {h} /\ frames'[j] \in FrameTypes
      <4>1. frames'[n] \in FrameTypes
        BY <1>2, <1>5
      <4>2. excused[n].set = Top.set /\ excused[n].visited = Top.visited
        BY <1>2, <1>4
      <4> QED  BY <1>5, <2>2, <4>1, <4>2
    <3>2. ASSUME NEW x \in frames'[j].owed PROVE Owes(sets, topic, frames'[j], x)
      <4>1. x \in Top.owed /\ x # h
        BY <1>2, <1>4, <3>1, <3>2
      <4>2. Owes(sets, topic, Top, x) /\ x # Gone
        BY <1>2, <4>1, FrameHas
      <4>3. ASSUME NEW k \in 1 .. Len(sets[Top.set]), k > Top.place, sets[Top.set][k] = x PROVE k > i
        <5>1. i <= k
          BY <1>1, <4>2, <4>3
        <5>2. k # i
          BY <4>1, <4>3 DEF h
        <5> QED  BY <1>3, <5>1, <5>2
      <4> QED  BY <3>1, <4>2, <4>3 DEF Owes
    <3> QED  BY <1>2, <1>4, <2>2, <3>1, <3>2, FrameHas
  <2> QED  BY <2>1, <2>2
<1>7. CASE h \in Single
  <2>0. /\ Drop("channel", h)
        /\ waiting' = [waiting EXCEPT ![h] = IF @ = "waiting" THEN "heard" ELSE @]
        /\ fired' = [fired EXCEPT ![h] = IF @ > 1 THEN @ ELSE @ + 1]
    BY <1>0, <1>7 DEF Call
  <2>1. SetsTyped(sets', topic') /\ Len(sets') = Len(sets)
    BY <1>0, <2>0, DropDoes
  <2>2. /\ waiting' \in [Single -> {"new", "waiting", "heard", "timed out"}]
        /\ fired' \in [Single -> Nat]
    <3>1. /\ waiting \in [Single -> {"new", "waiting", "heard", "timed out"}]
          /\ fired \in [Single -> Nat] /\ fired[h] \in Nat
          /\ waiting[h] \in {"new", "waiting", "heard", "timed out"}
      BY <1>0, <1>7, TypedHas
    <3>2. PICK x \in {"new", "waiting", "heard", "timed out"}, y \in Nat :
            /\ x = IF waiting[h] = "waiting" THEN "heard" ELSE waiting[h]
            /\ y = IF fired[h] > 1 THEN fired[h] ELSE fired[h] + 1
      <4>1. (IF waiting[h] = "waiting" THEN "heard" ELSE waiting[h]) \in {"new", "waiting", "heard", "timed out"}
        BY <3>1
      <4>2. (IF fired[h] > 1 THEN fired[h] ELSE fired[h] + 1) \in Nat
        <5>1. PICK z \in Nat : z = fired[h]
          BY <3>1
        <5>2. (IF z > 1 THEN z ELSE z + 1) \in Nat
          OBVIOUS
        <5> QED  BY <5>1, <5>2
      <4> QED  BY <4>1, <4>2
    <3>3. waiting' = [waiting EXCEPT ![h] = x] /\ fired' = [fired EXCEPT ![h] = y]
      BY <2>0, <3>2
    <3> QED  BY <3>1, <3>3
  <2>3. PsTyped'
    BY <1>0, <1>5, <1>6, <2>1, <2>2 DEF PsTyped
  <2>4. ASSUME NEW x \in Single, x \notin cut
        PROVE  /\ Listens(sets', topic', waiting'[x], x)
               /\ fired'[x] <= 1 /\ (waiting'[x] \in {"new", "waiting"} => fired'[x] = 0)
    <3>1. CASE x = h
      <4>1. Top.set = topic["channel"] /\ waiting[h] = "waiting" /\ fired[h] = 0
        BY <1>2, <1>3, <2>4, <3>1, SingleHas DEF Listens
      <4>2. waiting'[h] = "heard" /\ fired'[h] = 1
        <5>1. DOMAIN waiting = Single /\ DOMAIN fired = Single
          BY <1>0, TypedHas
        <5> QED  BY <1>7, <2>0, <4>1, <5>1
      <4>3. \A s \in 1 .. Len(sets') : ~In(sets', s, h)
        <5>1. /\ \A s \in 1 .. Len(sets) : Len(sets'[s]) = Len(sets[s])
              /\ \A s \in 1 .. Len(sets) : \A k \in 1 .. Len(sets[s]) :
                   sets'[s][k] # Gone => sets'[s][k] = sets[s][k]
              /\ ~In(sets', topic["channel"], h)
          BY <1>0, <1>3, <2>0, DropDoes
        <5>2. \A s \in 1 .. Len(sets) : In(sets', s, h) => In(sets, s, h)
          BY <1>3, <5>1 DEF In
        <5>3. \A s \in 1 .. Len(sets) : In(sets, s, h) => s = topic["channel"]
          BY <2>4, <3>1, SingleHas DEF Listens
        <5> QED  BY <2>1, <5>1, <5>2, <5>3
      <4> QED  BY <3>1, <4>2, <4>3 DEF Listens
    <3>2. CASE x # h
      <4>1. waiting'[x] = waiting[x] /\ fired'[x] = fired[x]
        BY <1>0, <2>0, <3>2 DEF PsTyped
      <4>2. Listens(sets', topic', waiting[x], x)
        BY <1>0, <2>0, <2>4, <3>2, SingleHas, DropListens
      <4> QED  BY <2>4, <4>1, <4>2, SingleHas
    <3> QED  BY <3>1, <3>2
  <2>5. SinglesOK'
    BY <1>0, <2>4 DEF SinglesOK
  <2> QED  BY <1>0, <1>1, <1>5, <1>6, <1>7, <2>0, <2>3, <2>5, GoesStep
<1>8. CASE h \notin Single
  <2>1. UNCHANGED <<sets, topic, waiting, fired>>
    BY <1>0, <1>8 DEF Call
  <2> QED  BY <1>0, <1>5, <1>6, <2>1, FramesStep
<1> QED  BY <1>7, <1>8

LEMMA TimeoutStep ==
  ASSUME PsInv, NEW w \in TimedWaiters, Timeout(w) PROVE PsInv'
<1>0. /\ PsTyped /\ Apart(topic) /\ w \in Single /\ "channel" \in Topics
      /\ w \in Subscribers /\ w # Gone
  BY PubSubAssumption DEF PsInv, Single, Subscribers, Topics
<1>1. /\ frames = <<>> /\ frames' = frames /\ Drop("channel", w) /\ waiting[w] = "waiting"
      /\ waiting' = [waiting EXCEPT ![w] = "timed out"] /\ fired' = fired /\ cut' = cut
  BY DEF Timeout
<1>2. /\ SetsTyped(sets', topic') /\ Len(sets') = Len(sets)
      /\ \A s \in 1 .. Len(sets) : Len(sets'[s]) = Len(sets[s])
      /\ \A s \in 1 .. Len(sets) : \A k \in 1 .. Len(sets[s]) :
           sets'[s][k] # Gone => sets'[s][k] = sets[s][k]
      /\ ~In(sets', topic["channel"], w)
  BY <1>0, <1>1, DropDoes
<1>3. PsTyped'
  BY <1>0, <1>1, <1>2 DEF PsTyped
<1>4. ASSUME NEW x \in Single, x \notin cut
      PROVE  /\ Listens(sets', topic', waiting'[x], x)
             /\ fired[x] <= 1 /\ (waiting'[x] \in {"new", "waiting"} => fired[x] = 0)
  <2>1. CASE x = w
    <3>1. waiting'[x] = "timed out"
      BY <1>0, <1>1, <2>1 DEF PsTyped
    <3>2. \A s \in 1 .. Len(sets) : In(sets', s, x) => In(sets, s, x)
      BY <1>0, <1>2, <2>1 DEF In
    <3>3. \A s \in 1 .. Len(sets) : In(sets, s, x) => s = topic["channel"]
      BY <1>4, SingleHas DEF Listens
    <3>4. \A s \in 1 .. Len(sets') : ~In(sets', s, x)
      BY <1>2, <2>1, <3>2, <3>3
    <3> QED  BY <1>4, <3>1, <3>4, SingleHas DEF Listens
  <2>2. CASE x # w
    <3>1. waiting'[x] = waiting[x]
      BY <1>0, <1>1, <2>2 DEF PsTyped
    <3> QED  BY <1>0, <1>1, <1>4, <2>2, <3>1, SingleHas, DropListens
  <2> QED  BY <2>1, <2>2
<1>5. SinglesOK'
  BY <1>1, <1>4 DEF SinglesOK
<1>6. Len(frames) = 0
  BY <1>1
<1>7. \A j \in 1 .. Len(frames) : FALSE
  BY <1>6
<1>8. Len(frames') = Len(frames)
  BY <1>1
<1> QED  BY <1>0, <1>1, <1>3, <1>5, <1>7, <1>8, GoesStep

LEMMA PsStep == PsInv /\ [PsNext]_psVars => PsInv'
<1> SUFFICES ASSUME PsInv, [PsNext]_psVars PROVE PsInv'
  OBVIOUS
<1>1. CASE UNCHANGED psVars
  <2>1. UNCHANGED <<sets, topic, frames, waiting, fired, cut>>
    BY <1>1 DEF psVars
  <2>2. frames \in Seq(FrameTypes)
    BY DEF PsInv, PsTyped
  <2> QED  BY <2>1, <2>2, FrameHas, FramesStep
<1> QED
  BY <1>1, SubscribeStep, SubscribeOnceStep, UnsubscribeStep, UnsubscribeAllStep, PublishStep,
     DeliverStep, NextSetStep, ReturnStep, TimeoutStep DEF PsNext

LEMMA PsInvEnough == PsInv => DeliverySound
<1> SUFFICES ASSUME PsInv PROVE DeliverySound
  OBVIOUS
<1>0. /\ PsTyped /\ topic["channel"] \in 0 .. Len(sets)
      /\ sets \in Seq(Seq(PlaceTypes)) /\ frames \in Seq(FrameTypes)
      /\ topic \in [Topics -> 0 .. Len(sets)]
  BY TopicsAre DEF PsInv, PsTyped, SetsTyped
<1>1. PsTypeOK
  <2>1. ASSUME NEW s \in DOMAIN sets PROVE ToSet(sets[s]) \subseteq Subscribers \cup {Gone}
    <3>1. sets[s] \in Seq(PlaceTypes)
      BY <1>0
    <3>2. DOMAIN sets[s] = 1 .. Len(sets[s]) /\ \A i \in 1 .. Len(sets[s]) : sets[s][i] \in PlaceTypes
      BY <3>1
    <3> QED  BY <3>2 DEF ToSet, PlaceTypes
  <2>2. \A i \in DOMAIN frames : /\ frames[i].set \in 0 .. Len(sets)
                                 /\ frames[i].owed \subseteq Subscribers
    BY <1>0, FrameHas
  <2> QED  BY <1>0, <2>1, <2>2 DEF PsTypeOK, PsTyped, SetsTyped
<1>2. NobodyMissed
  BY NothingAhead DEF NobodyMissed, Done
<1>3. OnceIsOnce
  BY SingleHas DEF OnceIsOnce
<1>4. ASSUME NEW w \in Single \ cut
      PROVE  waiting[w] = "waiting" <=> w \in Members(topic["channel"])
  <2>1. w # Gone /\ Listens(sets, topic, waiting[w], w)
    BY SingleHas
  <2>2. w \in Members(topic["channel"]) <=> In(sets, topic["channel"], w)
    BY <1>0, <2>1, MembersAre
  <2> QED  BY <1>0, <2>1, <2>2 DEF Listens, In
<1> QED  BY <1>1, <1>2, <1>3, <1>4 DEF DeliverySound, WaitersListen

\* Whatever handlers subscribe, unsubscribe and publish while a message is delivered, and
\* whenever timers fire, buffers fill or the plugin is shut down: a message reaches all
\* who listened, once those who asked for one, and what is held is flushed in order.
THEOREM MessagesArrive == PsSpec /\ BufSpec => []MessagesSound
<1>1. BufInv => BufTypeOK /\ HeldUntilTimer /\ FlushedInOrder
  BY DEF BufInv
<1>2. PsSpec => []DeliverySound
  BY PsInitHolds, PsStep, PsInvEnough, PTL DEF PsSpec
<1>3. BufSpec => [](BufTypeOK /\ HeldUntilTimer /\ FlushedInOrder)
  BY <1>1, BufInitHolds, BufStep, PTL DEF BufSpec
<1>4. DeliverySound /\ (BufTypeOK /\ HeldUntilTimer /\ FlushedInOrder) => MessagesSound
  BY DEF MessagesSound
<1> QED  BY <1>2, <1>3, <1>4, PTL

-----------------------------------------------------------------------------
(* Ids: any number of callers, collections and sequence numbers.           *)

FlakeTypes == (0 .. MaxMillis) \X Configs \X (0 .. MaxSequence)

\* The snowflakes up to the j-th that are of its millisecond.
SameMilli(s, j) == {k \in 1 .. j : s[k][1] = s[j][1]}
Drawn(s, j) == Cardinality(SameMilli(s, j))

\* Until a millisecond is used up, a snowflake's sequence number is its number in it.
FlakesNumbered ==
  /\ \A i, j \in 1 .. Len(flakes) : i < j => flakes[i][1] <= flakes[j][1]
  /\ \A j \in 1 .. Len(flakes) :
       Drawn(flakes, j) > MaxSequence + 1 \/ flakes[j][3] = Drawn(flakes, j) - 1

\* The variable of the module is of the snowflake returned last.
StateIsLast ==
  IF Len(flakes) = 0 THEN snowflake.last = -1
  ELSE snowflake.last = flakes[Len(flakes)][1] /\ snowflake.sequence = flakes[Len(flakes)][3]

IdInv ==
  /\ IdTypeOK /\ FlakesNumbered /\ StateIsLast /\ NumbersWithoutGaps
  /\ \A c \in Collections : counts[c] = Len(numbers[c])

LEMMA DrawnIs ==
  ASSUME NEW T, NEW s \in Seq(T), NEW j \in 1 .. Len(s)
  PROVE  IsFiniteSet(SameMilli(s, j)) /\ Drawn(s, j) \in Nat
<1>1. IsFiniteSet(1 .. j) /\ SameMilli(s, j) \subseteq 1 .. j
  BY FS_Interval DEF SameMilli
<1> QED  BY <1>1, FS_Subset, FS_CardinalityType DEF Drawn

\* Within a millisecond the number grows.
LEMMA DrawnGrows ==
  ASSUME NEW T, NEW s \in Seq(T), NEW i \in 1 .. Len(s), NEW j \in 1 .. Len(s),
         i < j, s[i][1] = s[j][1]
  PROVE  Drawn(s, i) < Drawn(s, j)
<1> DEFINE A == SameMilli(s, i)
           B == SameMilli(s, j)
<1>1. IsFiniteSet(A) /\ IsFiniteSet(B) /\ Drawn(s, i) \in Nat /\ Drawn(s, j) \in Nat
  BY DrawnIs
<1>2. A \cup {j} \subseteq B /\ j \notin A
  BY DEF SameMilli
<1>3. Cardinality(A \cup {j}) = Cardinality(A) + 1
  BY <1>1, <1>2, FS_AddElement
<1>4. Cardinality(A \cup {j}) <= Cardinality(B)
  BY <1>1, <1>2, FS_Subset
<1>5. Cardinality(A) = Drawn(s, i) /\ Cardinality(B) = Drawn(s, j)
  BY DEF Drawn
<1> HIDE DEF A, B
<1> QED  BY <1>1, <1>3, <1>4, <1>5

\* A snowflake that is added is one more of its millisecond, or the first of it, and
\* the ones before keep their numbers.
LEMMA DrawnNext ==
  ASSUME NEW T, NEW s \in Seq(T), NEW e \in T, NEW n \in Nat, n = Len(s)
  PROVE  /\ \A j \in 1 .. n : Drawn(Append(s, e), j) = Drawn(s, j)
         /\ n > 0 /\ e[1] = s[n][1] => Drawn(Append(s, e), n + 1) = Drawn(s, n) + 1
         /\ (\A k \in 1 .. n : s[k][1] # e[1]) => Drawn(Append(s, e), n + 1) = 1
<1> DEFINE r == Append(s, e)
<1>1. Len(r) = n + 1 /\ r[n + 1] = e /\ \A k \in 1 .. n : r[k] = s[k]
  OBVIOUS
<1> HIDE DEF r
<1>2. ASSUME NEW j \in 1 .. n PROVE Drawn(r, j) = Drawn(s, j)
  <2>1. SameMilli(r, j) = SameMilli(s, j)
    BY <1>1 DEF SameMilli
  <2> QED  BY <2>1 DEF Drawn
<1>3. ASSUME n > 0, e[1] = s[n][1] PROVE Drawn(r, n + 1) = Drawn(s, n) + 1
  <2>1. SameMilli(r, n + 1) = SameMilli(s, n) \cup {n + 1} /\ n + 1 \notin SameMilli(s, n)
    BY <1>1, <1>3 DEF SameMilli
  <2>2. IsFiniteSet(SameMilli(s, n))
    BY <1>3, DrawnIs
  <2> QED  BY <2>1, <2>2, FS_AddElement DEF Drawn
<1>4. ASSUME \A k \in 1 .. n : s[k][1] # e[1] PROVE Drawn(r, n + 1) = 1
  <2>1. SameMilli(r, n + 1) = {n + 1}
    BY <1>1, <1>4 DEF SameMilli
  <2> QED  BY <2>1, FS_Singleton DEF Drawn
<1> QED  BY <1>2, <1>3, <1>4 DEF r

LEMMA ComesRound ==
  ASSUME NEW m \in Nat, NEW x \in 0 .. m
  PROVE  /\ x < m => (x + 1) % (m + 1) = x + 1
         /\ x = m => (x + 1) % (m + 1) = 0
  OBVIOUS

LEMMA IdInitHolds == IdInit => IdInv
<1> SUFFICES ASSUME IdInit PROVE IdInv
  OBVIOUS
<1> USE IdAssumption DEF IdInit
<1>1. IdTypeOK
  BY DEF IdTypeOK
<1> QED  BY <1>1 DEF IdInv, FlakesNumbered, StateIsLast, NumbersWithoutGaps

LEMMA SnowflakeStep ==
  ASSUME IdInv, NEW g \in Configs, GenerateSnowflake(g) PROVE IdInv'
<1> USE IdAssumption
<1> DEFINE n == Len(flakes)
           s == NextSequence(millis)
           e == <<millis, g, s>>
<1>0. /\ flakes \in Seq(FlakeTypes) /\ n \in Nat /\ millis \in 0 .. MaxMillis
      /\ snowflake.last \in -1 .. MaxMillis /\ snowflake.sequence \in 0 .. MaxSequence
      /\ millis >= snowflake.last /\ FlakesNumbered /\ StateIsLast
  BY DEF IdInv, IdTypeOK, FlakeTypes, GenerateSnowflake
<1>1. /\ s \in 0 .. MaxSequence
      /\ millis # snowflake.last => s = 0
      /\ millis = snowflake.last /\ snowflake.sequence < MaxSequence => s = snowflake.sequence + 1
  <2>1. PICK x \in 0 .. MaxSequence : x = snowflake.sequence
    BY <1>0
  <2>2. /\ x < MaxSequence => (x + 1) % (MaxSequence + 1) = x + 1
        /\ x = MaxSequence => (x + 1) % (MaxSequence + 1) = 0
    BY ComesRound
  <2> QED  BY <2>1, <2>2 DEF NextSequence
<1>2. /\ flakes' = Append(flakes, e) /\ snowflake' = [last |-> millis, sequence |-> s]
      /\ millis' \in 0 .. MaxMillis
      /\ backs' = backs /\ counts' = counts /\ numbers' = numbers
  BY <1>0 DEF GenerateSnowflake
<1>3. e \in FlakeTypes /\ e[1] = millis /\ e[3] = s
  BY <1>0, <1>1 DEF FlakeTypes
<1>4. IdTypeOK'
  <2>1. flakes' \in Seq(FlakeTypes)
    BY <1>0, <1>2, <1>3
  <2>2. snowflake' \in [last : -1 .. MaxMillis, sequence : 0 .. MaxSequence]
    BY <1>0, <1>1, <1>2
  <2> QED  BY <1>2, <2>1, <2>2 DEF IdInv, IdTypeOK, FlakeTypes
<1> HIDE DEF s, e
<1>5. /\ Len(flakes') = n + 1 /\ flakes'[n + 1] = e /\ \A k \in 1 .. n : flakes'[k] = flakes[k]
      /\ \A k \in 1 .. n : flakes[k][1] \in 0 .. MaxMillis /\ flakes[k][1] <= snowflake.last
  <2>1. \A k \in 1 .. n : flakes[k] \in FlakeTypes /\ flakes[k][1] \in 0 .. MaxMillis
    BY <1>0 DEF FlakeTypes
  <2>2. \A k \in 1 .. n : flakes[k][1] <= snowflake.last
    BY <1>0, <2>1 DEF FlakesNumbered, StateIsLast
  <2> QED  BY <1>0, <1>2, <1>3, <2>1, <2>2
<1>6. StateIsLast'
  BY <1>0, <1>2, <1>3, <1>5 DEF StateIsLast
<1>7. /\ \A j \in 1 .. n : Drawn(flakes', j) = Drawn(flakes, j)
      /\ n > 0 /\ e[1] = flakes[n][1] => Drawn(flakes', n + 1) = Drawn(flakes, n) + 1
      /\ (\A k \in 1 .. n : flakes[k][1] # e[1]) => Drawn(flakes', n + 1) = 1
  <2>1. PICK f, m, x : f = flakes /\ m = n /\ x = e
    OBVIOUS
  <2> HIDE DEF n
  <2>2. f \in Seq(FlakeTypes) /\ x \in FlakeTypes /\ m \in Nat /\ m = Len(f)
    BY <1>0, <1>3, <2>1 DEF n
  <2>3. \A j \in 1 .. m : Drawn(Append(f, x), j) = Drawn(f, j)
    BY <2>2, DrawnNext
  <2>4. m > 0 /\ x[1] = f[m][1] => Drawn(Append(f, x), m + 1) = Drawn(f, m) + 1
    BY <2>2, DrawnNext
  <2>5. (\A k \in 1 .. m : f[k][1] # x[1]) => Drawn(Append(f, x), m + 1) = 1
    BY <2>2, DrawnNext
  <2>6. Append(f, x) = flakes'
    BY <1>2, <2>1
  <2> QED  BY <2>1, <2>3, <2>4, <2>5, <2>6
<1>8. Drawn(flakes', n + 1) > MaxSequence + 1 \/ s = Drawn(flakes', n + 1) - 1
  <2>1. CASE n > 0 /\ millis = snowflake.last
    <3>1. /\ flakes[n][1] = e[1] /\ flakes[n][3] = snowflake.sequence
          /\ Drawn(flakes, n) \in Nat
      BY <1>0, <1>3, <2>1, DrawnIs DEF StateIsLast
    <3>2. Drawn(flakes', n + 1) = Drawn(flakes, n) + 1
      BY <1>7, <2>1, <3>1
    <3>3. Drawn(flakes, n) > MaxSequence + 1 \/ snowflake.sequence = Drawn(flakes, n) - 1
      BY <1>0, <2>1, <3>1 DEF FlakesNumbered
    <3> QED  BY <1>0, <1>1, <2>1, <3>1, <3>2, <3>3
  <2>2. CASE ~(n > 0 /\ millis = snowflake.last)
    <3>1. s = 0
      BY <1>0, <1>1, <2>2 DEF StateIsLast
    <3>2. \A k \in 1 .. n : flakes[k][1] # e[1]
      BY <1>0, <1>3, <1>5, <2>2
    <3> QED  BY <1>7, <3>1, <3>2
  <2> QED  BY <2>1, <2>2
<1>9. FlakesNumbered'
  <2>1. ASSUME NEW i \in 1 .. n + 1, NEW j \in 1 .. n + 1, i < j PROVE flakes'[i][1] <= flakes'[j][1]
    <3>1. i \in 1 .. n
      BY <1>0, <2>1
    <3>2. CASE j \in 1 .. n
      BY <1>0, <1>5, <2>1, <3>1, <3>2 DEF FlakesNumbered
    <3>3. CASE j = n + 1
      BY <1>0, <1>3, <1>5, <3>1, <3>3
    <3> QED  BY <1>0, <3>2, <3>3
  <2>2. ASSUME NEW j \in 1 .. n + 1
        PROVE  Drawn(flakes', j) > MaxSequence + 1 \/ flakes'[j][3] = Drawn(flakes', j) - 1
    <3>2. CASE j \in 1 .. n
      BY <1>0, <1>5, <1>7, <3>2 DEF FlakesNumbered
    <3>3. CASE j = n + 1
      BY <1>3, <1>5, <1>8, <3>3
    <3> QED  BY <1>0, <3>2, <3>3
  <2> QED  BY <1>5, <2>1, <2>2 DEF FlakesNumbered
<1> QED  BY <1>2, <1>4, <1>6, <1>9 DEF IdInv, NumbersWithoutGaps

LEMMA IdStep == IdInv /\ [IdNext]_idVars => IdInv'
<1> SUFFICES ASSUME IdInv, [IdNext]_idVars PROVE IdInv'
  OBVIOUS
<1> USE IdAssumption
<1>0. /\ IdTypeOK /\ NumbersWithoutGaps /\ \A c \in Collections : counts[c] = Len(numbers[c])
      /\ counts \in [Collections -> Nat] /\ numbers \in [Collections -> Seq(Nat)]
  BY DEF IdInv, IdTypeOK
<1>1. ASSUME NEW c \in Collections, GenerateIncrement(c) PROVE IdInv'
  <2>1. /\ counts' = [counts EXCEPT ![c] = @ + 1]
        /\ numbers' = [numbers EXCEPT ![c] = Append(@, counts[c] + 1)]
    BY <1>0, <1>1 DEF GenerateIncrement
  <2>2. PICK s \in Seq(Nat) : s = numbers[c]
    BY <1>0
  <2>3. PICK n \in Nat : n = Len(s) /\ counts[c] = n
    BY <1>0, <2>2
  <2>4. numbers'[c] = Append(s, n + 1) /\ counts'[c] = n + 1
    BY <1>0, <2>1, <2>2, <2>3
  <2>5. /\ Append(s, n + 1) \in Seq(Nat) /\ Len(Append(s, n + 1)) = n + 1
        /\ \A k \in 1 .. n + 1 : Append(s, n + 1)[k] = k
    BY <1>0, <2>2, <2>3 DEF NumbersWithoutGaps
  <2>6. counts' \in [Collections -> Nat] /\ numbers' \in [Collections -> Seq(Nat)]
    BY <1>0, <2>1, <2>2, <2>3, <2>5
  <2>7. \A d \in Collections :
          /\ counts'[d] = Len(numbers'[d])
          /\ \A k \in 1 .. Len(numbers'[d]) : numbers'[d][k] = k
    BY <1>0, <2>1, <2>4, <2>5 DEF NumbersWithoutGaps
  <2>8. UNCHANGED <<millis, backs, snowflake, flakes>>
    BY <1>1 DEF GenerateIncrement
  <2>9. FlakesNumbered' /\ StateIsLast'
    BY <2>8 DEF IdInv, FlakesNumbered, StateIsLast
  <2> QED  BY <1>0, <2>6, <2>7, <2>8, <2>9 DEF IdInv, IdTypeOK, NumbersWithoutGaps
<1>2. ASSUME NEW cs \in SUBSET Collections, ResetIncrements(cs) PROVE IdInv'
  <2>1. counts' \in [Collections -> Nat] /\ numbers' \in [Collections -> Seq(Nat)]
    BY <1>0, <1>2 DEF ResetIncrements
  <2>2. \A d \in Collections :
          /\ counts'[d] = Len(numbers'[d])
          /\ \A k \in 1 .. Len(numbers'[d]) : numbers'[d][k] = k
    BY <1>0, <1>2 DEF ResetIncrements, NumbersWithoutGaps
  <2>3. UNCHANGED <<millis, backs, snowflake, flakes>>
    BY <1>2 DEF ResetIncrements
  <2>4. FlakesNumbered' /\ StateIsLast'
    BY <2>3 DEF IdInv, FlakesNumbered, StateIsLast
  <2> QED  BY <1>0, <2>1, <2>2, <2>3, <2>4 DEF IdInv, IdTypeOK, NumbersWithoutGaps
<1>3. ASSUME (Advances \/ SetBack) \/ UNCHANGED <<millis, backs>>,
             UNCHANGED <<snowflake, flakes, counts, numbers>>
      PROVE  IdInv'
  <2>1. millis' \in 0 .. MaxMillis /\ backs' \in 0 .. MaxBack
    BY <1>0, <1>3 DEF IdTypeOK, Advances, SetBack
  <2>2. FlakesNumbered' /\ StateIsLast'
    BY <1>3 DEF IdInv, FlakesNumbered, StateIsLast
  <2> QED  BY <1>0, <1>3, <2>1, <2>2 DEF IdInv, IdTypeOK, NumbersWithoutGaps
<1> QED  BY <1>1, <1>2, <1>3, SnowflakeStep DEF IdNext, idVars

\* Until its millisecond has used up its sequence numbers a snowflake is new and comes
\* after all before it, and a collection is given 1, 2, 3 and so on, whoever calls
\* generateSnowflake and generateIncrement and however the clock is set back.
THEOREM IdsAreNew == IdSpec => []IdsSound
<1>1. ASSUME IdInv PROVE IdsSound
  <2>0. flakes \in Seq(FlakeTypes) /\ Len(flakes) \in Nat /\ FlakesNumbered
    BY <1>1 DEF IdInv, IdTypeOK, FlakeTypes
  <2>1. \A j \in 1 .. Len(flakes) : Overdrawn(j) <=> Drawn(flakes, j) > MaxSequence + 1
    BY DEF Overdrawn, Drawn, SameMilli
  <2>2. ASSUME NEW i \in 1 .. Len(flakes), NEW j \in 1 .. Len(flakes), i < j,
               flakes[i][1] = flakes[j][1], ~Overdrawn(j)
        PROVE  flakes[i][3] < flakes[j][3]
    <3>1. Drawn(flakes, i) < Drawn(flakes, j) /\ Drawn(flakes, i) \in Nat /\ Drawn(flakes, j) \in Nat
      BY <2>0, <2>2, DrawnGrows, DrawnIs
    <3>2. ~(Drawn(flakes, j) > MaxSequence + 1)
      BY <2>1, <2>2
    <3> QED  BY <2>0, <3>1, <3>2, IdAssumption DEF FlakesNumbered
  <2>3. \A k \in 1 .. Len(flakes) : flakes[k][1] \in Int /\ flakes[k][3] \in Int
    BY <2>0, IdAssumption DEF FlakeTypes
  <2>4. FlakesInOrder
    BY <2>0, <2>2, <2>3 DEF FlakesInOrder, FlakesNumbered
  <2>5. FlakesRepeatOnlyOverdrawn
    BY <2>2, <2>3 DEF FlakesRepeatOnlyOverdrawn
  <2> QED  BY <1>1, <2>4, <2>5 DEF IdInv, IdsSound
<1> QED  BY <1>1, IdInitHolds, IdStep, PTL DEF IdSpec

-----------------------------------------------------------------------------
(* Relations: any number of users, orders, writers and changers.           *)

Joinings == [at : {"none", "reads", "done"}, piped : BOOLEAN, todo : SUBSET UserKeys,
             rows : SUBSET [key : UserKeys, with : SUBSET Orders]]

\* Whether an orphan is to be found at all.
Follows == rule.check # "off" /\ rule.follow \in {"cascade", "set-null"}

\* A key that was found valid is a user's, or was changed since.
ValidOnce(w) == writing[w] # NoWrite =>
  /\ writing[w].order \in Orders /\ writing[w].key \in UserKeys
  /\ Follows => writing[w].key \in users \/ writing[w].over

\* Every row is of the orders that name its user now, but for those written since.
RowsAreFresh ==
  ~joining.piped =>
    \A r \in joining.rows, o \in Orders \ touched :
      /\ o \in r.with => refs[o] = r.key
      /\ refs[o] = r.key => IF rule.single THEN r.with # {} ELSE o \in r.with

RelInv ==
  /\ RelTypeOK /\ joining \in Joinings
  /\ \A w \in Writers : ValidOnce(w)
  /\ \A c \in Changers : changing[c] # NoChange => changing[c].from \in UserKeys
  /\ OrphansOnlyByOverlap /\ RowsAreFresh

\* Who names a user that is not there is excused.
Pardoned(o) == refs[o] \in users \cup {Null, Nothing} \/ Changed(refs[o]) \/ o \in overlapped

LEMMA RelInitHolds == RelInit => RelInv
<1> SUFFICES ASSUME RelInit PROVE RelInv
  OBVIOUS
<1> USE RelationAssumption DEF RelInit, NoWrite, NoChange, NoJoin
<1>1. RelTypeOK /\ joining \in Joinings
  BY DEF RelTypeOK, Joinings
<1>2. OrphansOnlyByOverlap /\ RowsAreFresh
  BY DEF OrphansOnlyByOverlap, RowsAreFresh
<1> QED  BY <1>1, <1>2 DEF RelInv, ValidOnce

\* A cascade leaves an order as it is, or Null, or gone, or with the key it hands on.
LEMMA FollowedIs ==
  ASSUME RelInv, NEW c \in Changers, changing[c] # NoChange, NEW o \in Orders
  PROVE  LET fs == Followed(changing[c].from, changing[c].to)
         IN /\ fs \in [Orders -> UserKeys \cup {Null, Nothing}]
            /\ fs[o] = refs[o] \/ (refs[o] = changing[c].from /\ fs[o] \in {Null, Nothing, changing[c].to})
            /\ Follows /\ refs[o] = changing[c].from => fs[o] \in {Null, Nothing, changing[c].to}
<1> USE RelationAssumption
<1>1. /\ changing[c].from \in UserKeys /\ changing[c].to \in UserKeys \cup {Null}
      /\ refs \in [Orders -> UserKeys \cup {Null, Nothing}]
  BY DEF RelInv, RelTypeOK
<1> QED  BY <1>1 DEF Followed, Follows

\* The parts of RelInv, for its steps.
LEMMA RelParts ==
  RelInv <=>
    /\ RelTypeOK /\ joining \in Joinings /\ RowsAreFresh
    /\ \A w \in Writers : ValidOnce(w)
    /\ \A c \in Changers : changing[c] # NoChange => changing[c].from \in UserKeys
    /\ Follows => \A o \in Orders : Pardoned(o)
BY DEF RelInv, OrphansOnlyByOverlap, Follows, Pardoned

LEMMA AddUserStep ==
  ASSUME RelInv, NEW k \in UserKeys, AddUser(k) PROVE RelInv'
<1> USE RelationAssumption, RelParts DEF AddUser, StartsCall
<1>1. RelTypeOK' /\ (joining \in Joinings)'
  BY DEF RelTypeOK
<1>2. RowsAreFresh'
  BY DEF RowsAreFresh
<1>3. \A w \in Writers : ValidOnce(w)'
  BY DEF ValidOnce, Follows
<1>4. \A c \in Changers : (changing[c] # NoChange => changing[c].from \in UserKeys)'
  OBVIOUS
<1>5. (Follows => \A o \in Orders : Pardoned(o))'
  BY DEF Follows, Pardoned, Changed
<1> QED  BY <1>1, <1>2, <1>3, <1>4, <1>5 DEF RelInv, OrphansOnlyByOverlap, Follows, Pardoned

LEMMA ValidateStep ==
  ASSUME RelInv, NEW w \in Writers, NEW o \in Orders, NEW k \in UserKeys,
         ValidateForeignKey(w, o, k)
  PROVE  RelInv'
<1> USE RelationAssumption, RelParts DEF ValidateForeignKey, StartsCall
<1>0. writing \in [Writers -> [order : Orders \cup {Nothing}, key : UserKeys \cup {Null}, over : BOOLEAN]]
  BY DEF RelTypeOK
<1>1. RelTypeOK' /\ (joining \in Joinings)'
  <2>1. Changed(k) \in BOOLEAN
    BY DEF Changed
  <2> QED  BY <2>1 DEF RelTypeOK
<1>2. RowsAreFresh'
  BY DEF RowsAreFresh
<1>3. ASSUME NEW v \in Writers PROVE ValidOnce(v)'
  <2>1. CASE v = w
    <3>1. writing'[v] = [order |-> o, key |-> k, over |-> Changed(k)]
      BY <1>0, <2>1
    <3>2. Follows => k \in users
      BY DEF Follows, Valid
    <3>3. rule' = rule /\ users' = users
      OBVIOUS
    <3> QED  BY <3>1, <3>2, <3>3 DEF ValidOnce, Follows
  <2>2. CASE v # w
    BY <1>0, <2>2 DEF ValidOnce, Follows
  <2> QED  BY <2>1, <2>2
<1>4. \A c \in Changers : (changing[c] # NoChange => changing[c].from \in UserKeys)'
  OBVIOUS
<1>5. (Follows => \A p \in Orders : Pardoned(p))'
  BY DEF Follows, Pardoned, Changed
<1> QED  BY <1>1, <1>2, <1>3, <1>4, <1>5 DEF RelInv, OrphansOnlyByOverlap, Follows, Pardoned

LEMMA WriteStep ==
  ASSUME RelInv, NEW w \in Writers, WriteOrder(w) PROVE RelInv'
<1> USE RelationAssumption, RelParts DEF WriteOrder
<1> DEFINE o == writing[w].order
           k == writing[w].key
<1>0. /\ writing \in [Writers -> [order : Orders \cup {Nothing}, key : UserKeys \cup {Null}, over : BOOLEAN]]
      /\ refs \in [Orders -> UserKeys \cup {Null, Nothing}]
      /\ o \in Orders /\ k \in UserKeys /\ (Follows => k \in users \/ writing[w].over)
      /\ refs' = [refs EXCEPT ![o] = k]
  BY DEF RelTypeOK, ValidOnce
<1>1. RelTypeOK' /\ (joining \in Joinings)'
  <2>1. (overlapped \subseteq Orders)'
    BY <1>0 DEF RelTypeOK
  <2> QED  BY <1>0, <2>1 DEF RelTypeOK, NoWrite
<1>2. RowsAreFresh'
  BY <1>0 DEF RowsAreFresh
<1>3. \A v \in Writers : ValidOnce(v)'
  BY <1>0 DEF ValidOnce, Follows
<1>4. \A c \in Changers : (changing[c] # NoChange => changing[c].from \in UserKeys)'
  OBVIOUS
<1>5. ASSUME Follows', NEW p \in Orders PROVE Pardoned(p)'
  <2>1. Follows /\ Pardoned(p)
    BY <1>5 DEF Follows
  <2>2. CASE p # o
    BY <1>0, <2>1, <2>2 DEF Pardoned, Changed
  <2>3. CASE p = o
    <3>1. refs'[p] = k
      BY <1>0, <2>3
    <3>2. k \in users \/ p \in overlapped'
      BY <1>0, <2>1, <2>3
    <3> QED  BY <3>1, <3>2 DEF Pardoned
  <2> QED  BY <2>2, <2>3
<1> QED  BY <1>1, <1>2, <1>3, <1>4, <1>5 DEF RelInv, OrphansOnlyByOverlap, Follows, Pardoned

LEMMA ChangeStep ==
  ASSUME RelInv, NEW c \in Changers, NEW from \in UserKeys, NEW to \in UserKeys \cup {Null},
         ChangeUser(c, from, to)
  PROVE  RelInv'
<1> USE RelationAssumption, RelParts DEF ChangeUser, StartsCall
<1>0. /\ writing \in [Writers -> [order : Orders \cup {Nothing}, key : UserKeys \cup {Null}, over : BOOLEAN]]
      /\ changing \in [Changers -> [from : UserKeys \cup {Null}, to : UserKeys \cup {Null}]]
  BY DEF RelTypeOK
<1>6. \A v \in Writers :
        /\ writing'[v].order = writing[v].order /\ writing'[v].key = writing[v].key
        /\ writing'[v].over = (writing[v] # NoWrite /\ (writing[v].over \/ writing[v].key = from))
        /\ writing'[v] \in [order : Orders \cup {Nothing}, key : UserKeys \cup {Null}, over : BOOLEAN]
  BY <1>0
<1>1. RelTypeOK' /\ (joining \in Joinings)'
  <2>1. writing' \in [Writers -> [order : Orders \cup {Nothing}, key : UserKeys \cup {Null}, over : BOOLEAN]]
    BY <1>6
  <2>2. (users \subseteq UserKeys)' /\ begun' \in 0 .. MaxSteps
    BY DEF RelTypeOK
  <2>3. changing' \in [Changers -> [from : UserKeys \cup {Null}, to : UserKeys \cup {Null}]]
    BY <1>0
  <2> QED  BY <2>1, <2>2, <2>3 DEF RelTypeOK
<1>2. RowsAreFresh'
  BY DEF RowsAreFresh
<1>3. ASSUME NEW v \in Writers PROVE ValidOnce(v)'
  <2>1. ValidOnce(v) /\ (writing'[v] # NoWrite => writing[v] # NoWrite)
    <3> SUFFICES ASSUME writing[v] = NoWrite PROVE writing'[v] = NoWrite
      OBVIOUS
    <3>1. /\ writing'[v] \in [order : Orders \cup {Nothing}, key : UserKeys \cup {Null}, over : BOOLEAN]
          /\ writing'[v].order = Nothing /\ writing'[v].key = Null /\ ~writing'[v].over
      BY <1>6 DEF NoWrite
    <3>2. writing'[v].over = FALSE
      BY <3>1
    <3> QED  BY <3>1, <3>2 DEF NoWrite
  <2>2. \A k \in users : k # from => k \in users'
    OBVIOUS
  <2> QED  BY <1>6, <2>1, <2>2 DEF ValidOnce, Follows
<1>4. \A d \in Changers : (changing[d] # NoChange => changing[d].from \in UserKeys)'
  BY <1>0
<1>5. ASSUME Follows', NEW p \in Orders PROVE Pardoned(p)'
  <2>1. Follows /\ Pardoned(p) /\ refs' = refs /\ overlapped' = overlapped
    BY <1>5 DEF Follows
  <2>2. Changed(from)'
    BY <1>0 DEF Changed
  <2>3. \A k \in UserKeys : Changed(k) => Changed(k)'
    BY <1>0 DEF Changed, NoChange
  <2>4. refs[p] \in UserKeys \cup {Null, Nothing}
    BY DEF RelTypeOK
  <2> QED  BY <2>1, <2>2, <2>3, <2>4 DEF Pardoned
<1> QED  BY <1>1, <1>2, <1>3, <1>4, <1>5 DEF RelInv, OrphansOnlyByOverlap, Follows, Pardoned

LEMMA CascadeStep ==
  ASSUME RelInv, NEW c \in Changers, Cascade(c) PROVE RelInv'
<1> USE RelationAssumption, RelParts DEF Cascade
<1>0. /\ changing \in [Changers -> [from : UserKeys \cup {Null}, to : UserKeys \cup {Null}]]
      /\ changing[c].from \in UserKeys
  BY DEF RelTypeOK
<1>6. /\ refs' \in [Orders -> UserKeys \cup {Null, Nothing}]
      /\ \A o \in Orders :
           /\ refs'[o] = refs[o] \/ (refs[o] = changing[c].from /\ refs'[o] \in {Null, Nothing, changing[c].to})
           /\ Follows /\ refs[o] = changing[c].from => refs'[o] \in {Null, Nothing, changing[c].to}
  <2>1. ASSUME NEW o \in Orders
        PROVE  /\ refs' \in [Orders -> UserKeys \cup {Null, Nothing}]
               /\ refs'[o] = refs[o] \/ (refs[o] = changing[c].from /\ refs'[o] \in {Null, Nothing, changing[c].to})
               /\ Follows /\ refs[o] = changing[c].from => refs'[o] \in {Null, Nothing, changing[c].to}
    BY FollowedIs
  <2>2. CASE Orders = {}
    BY <2>2 DEF Followed
  <2> QED  BY <2>1, <2>2
<1>1. RelTypeOK' /\ (joining \in Joinings)'
  <2>1. (overlapped \subseteq Orders)'
    BY DEF RelTypeOK
  <2>2. changing' \in [Changers -> [from : UserKeys \cup {Null}, to : UserKeys \cup {Null}]]
    BY <1>0 DEF NoChange
  <2> QED  BY <1>6, <2>1, <2>2 DEF RelTypeOK
<1>2. RowsAreFresh'
  BY DEF RowsAreFresh
<1>3. \A v \in Writers : ValidOnce(v)'
  BY DEF ValidOnce, Follows
<1>4. \A d \in Changers : (changing[d] # NoChange => changing[d].from \in UserKeys)'
  BY <1>0
<1>5. ASSUME Follows', NEW p \in Orders PROVE Pardoned(p)'
  <2>1. Follows /\ Pardoned(p) /\ users' = users /\ overlapped \subseteq overlapped'
    BY <1>5 DEF Follows
  <2>2. CASE refs[p] = changing[c].from
    <3>1. refs'[p] \in {Null, Nothing, changing[c].to}
      BY <1>6, <2>1, <2>2
    <3>2. changing[c].to \in users \cup {Null} \/ p \in overlapped'
      BY <2>2
    <3> QED  BY <2>1, <3>1, <3>2 DEF Pardoned
  <2>3. CASE refs[p] # changing[c].from
    <3>1. refs'[p] = refs[p]
      BY <1>6, <2>3
    <3>2. Changed(refs[p]) => Changed(refs[p])'
      BY <1>0, <2>3, <3>1 DEF Changed
    <3> QED  BY <2>1, <3>1, <3>2 DEF Pardoned
  <2> QED  BY <2>2, <2>3
<1> QED  BY <1>1, <1>2, <1>3, <1>4, <1>5 DEF RelInv, OrphansOnlyByOverlap, Follows, Pardoned

\* What a lookup does concerns the rows only.
LEMMA LookupStep ==
  ASSUME RelInv, UNCHANGED <<rule, users, refs, writing, changing, overlapped>>,
         (joining \in Joinings)', RowsAreFresh', begun' \in 0 .. MaxSteps
  PROVE  RelInv'
<1> USE RelationAssumption, RelParts
<1>1. RelTypeOK'
  BY DEF RelTypeOK, Joinings
<1>2. \A v \in Writers : ValidOnce(v)'
  BY DEF ValidOnce, Follows
<1>3. \A d \in Changers : (changing[d] # NoChange => changing[d].from \in UserKeys)'
  OBVIOUS
<1>4. (Follows => \A p \in Orders : Pardoned(p))'
  BY DEF Follows, Pardoned, Changed
<1> QED  BY <1>1, <1>2, <1>3, <1>4 DEF RelInv, OrphansOnlyByOverlap, Follows, Pardoned

LEMMA RelStep == RelInv /\ [RelNext]_relVars => RelInv'
<1> SUFFICES ASSUME RelInv, [RelNext]_relVars PROVE RelInv'
  OBVIOUS
<1>0. joining \in Joinings /\ begun \in 0 .. MaxSteps /\ users \subseteq UserKeys /\ RowsAreFresh
  BY DEF RelInv, RelTypeOK
<1>1. ASSUME NEW piped \in BOOLEAN, LookupStarts(piped) PROVE RelInv'
  <2>1. (joining \in Joinings)'
    BY <1>0, <1>1 DEF LookupStarts, Joinings
  <2>2. RowsAreFresh' /\ begun' \in 0 .. MaxSteps
    BY <1>0, <1>1, RelationAssumption DEF LookupStarts, RowsAreFresh, StartsCall
  <2> QED  BY <1>1, <2>1, <2>2, LookupStep DEF LookupStarts
<1>2. ASSUME NEW k \in UserKeys, LookupRow(k) PROVE RelInv'
  <2>1. PICK with \in Kept(Joined(k)) :
          joining' = [joining EXCEPT !.todo = @ \ {k},
                                     !.rows = @ \cup {[key |-> k, with |-> with]},
                                     !.at = IF joining.todo = {k} THEN "done" ELSE "reads"]
    BY <1>2 DEF LookupRow
  <2>2. /\ with \subseteq Joined(k) /\ with \subseteq Orders
        /\ IF rule.single THEN Joined(k) # {} => with # {} ELSE with = Joined(k)
    BY DEF Joined, Kept
  <2>3. /\ (joining \in Joinings)' /\ joining'.piped = joining.piped
        /\ joining'.rows = joining.rows \cup {[key |-> k, with |-> with]}
    <3>1. PICK row, stage : /\ row = [key |-> k, with |-> with]
                            /\ stage = IF joining.todo = {k} THEN "done" ELSE "reads"
      OBVIOUS
    <3>2. row \in [key : UserKeys, with : SUBSET Orders] /\ stage \in {"reads", "done"}
      BY <2>2, <3>1
    <3>3. joining' = [joining EXCEPT !.todo = joining.todo \ {k}, !.rows = joining.rows \cup {row}, !.at = stage]
      BY <2>1, <3>1
    <3> QED  BY <1>0, <3>1, <3>2, <3>3 DEF Joinings
  <2>4. RowsAreFresh'
    <3>1. UNCHANGED <<rule, refs, touched>>
      BY <1>2 DEF LookupRow
    <3> SUFFICES ASSUME ~joining.piped, NEW r \in joining'.rows, NEW o \in Orders \ touched
                 PROVE  /\ o \in r.with => refs[o] = r.key
                        /\ refs[o] = r.key => IF rule.single THEN r.with # {} ELSE o \in r.with
      BY <2>3, <3>1 DEF RowsAreFresh
    <3>2. CASE r \in joining.rows
      BY <1>0, <3>2 DEF RowsAreFresh
    <3>3. CASE r.key = k /\ r.with = with
      <4>1. o \in Joined(k) <=> refs[o] = k
        BY RelationAssumption DEF Joined
      <4> QED  BY <2>2, <3>3, <4>1
    <3> QED  BY <2>3, <3>2, <3>3
  <2> QED  BY <1>0, <1>2, <2>3, <2>4, LookupStep DEF LookupRow
<1>3. CASE UNCHANGED relVars
  <2>1. RowsAreFresh' /\ (joining \in Joinings)'
    BY <1>0, <1>3 DEF RowsAreFresh, relVars
  <2> QED  BY <1>0, <1>3, <2>1, LookupStep DEF relVars
<1> QED
  BY <1>1, <1>2, <1>3, AddUserStep, ValidateStep, WriteStep, ChangeStep, CascadeStep DEF RelNext

\* An order names a user that is not there only while the cascade is on its way or if
\* somebody wrote it over the change, and a lookup joins what it says, however many
\* writers, changers and lookups of RelationManager are between two awaits.
THEOREM OrdersNameUsers == RelSpec => []RelationsSound
<1>1. RelInv => RelationsSound
  BY DEF RelInv, RelationsSound, LookupJoins, RowsAreFresh
<1> QED  BY <1>1, RelInitHolds, RelStep, PTL DEF RelSpec

-----------------------------------------------------------------------------
(* Blobs: what a page of the cache and of the file holds, and whose it is. *)

Ats == {"size", "extend", "cache", "put", "write", "clear", "list", "done"}
CachedPages == [content : Contents, dirty : BOOLEAN, protected : BOOLEAN, seq : Nat]

\* Pages a storer has listed, or works at in any way.
Lists(s, p) == \E i \in 1 .. Len(putting[s].list) : putting[s].list[i] = p
WorksAt(s, p) == putting[s].page = p \/ Lists(s, p)

\* A page a storer has extended the file by.
Has(s, p) ==
  \/ putting[s].at \in {"cache", "put", "write", "clear"} /\ putting[s].page = p
  \/ Lists(s, p)

CacheOK ==
  \A p \in DOMAIN cache :
    p \in 1 .. Len(pages) /\ cache[p] \in CachedPages /\ cache[p].seq <= seq

\* A storer's list is increasing, within the file and below the page it works at.
ListOK(s) ==
  /\ putting[s].at \in {"size", "list", "done"} <=> putting[s].page = NoPage
  /\ putting[s].page \in 0 .. Len(pages) + 1
  /\ putting[s].at # "extend" => putting[s].page <= Len(pages)
  /\ \A i \in 1 .. Len(putting[s].list) :
       /\ putting[s].list[i] \in 1 .. Len(pages)
       /\ putting[s].page # NoPage => putting[s].list[i] < putting[s].page
       /\ \A j \in 1 .. Len(putting[s].list) : i < j => putting[s].list[i] < putting[s].list[j]
  /\ IF putting[s].at \in {"list", "done"}
     THEN Len(putting[s].list) = ChunksOf[s]
     ELSE Len(putting[s].list) < ChunksOf[s]

\* No other storer works at a page of this one.
Alone(s) ==
  /\ putting[s].at = "extend" => putting[s].page = Len(pages) + 1
  /\ \A t \in Storers \ {s} : \A p \in Nat : Has(s, p) => ~WorksAt(t, p)

\* The page it works at has its chunk as far as it got, the pages it listed have
\* theirs in the file, and in the cache if they are there.
HasChunks(s) ==
  LET p == putting[s].page
      list == putting[s].list
  IN
  /\ putting[s].at = "write" => p \in DOMAIN cache /\ cache[p].dirty /\ cache[p].content = NextChunk(s)
  /\ putting[s].at = "clear" =>
       pages[p] = NextChunk(s) /\ (p \in DOMAIN cache => cache[p].content = NextChunk(s))
  /\ \A i \in 1 .. Len(list) :
       pages[list[i]] = ChunkOf(s, i) /\ (list[i] \in DOMAIN cache => cache[list[i]].content = ChunkOf(s, i))

\* A looker has the beginning of its blob and at "load" the chunk that follows.
HasRead(r) ==
  LET b == getting[r].blob
      got == getting[r].got
  IN
  /\ getting[r].at # "none" => b # NoPage
  /\ b # NoPage =>
       /\ b \in DOMAIN directory /\ Len(got) <= ChunksOf[b]
       /\ getting[r].at = "load" => Len(got) < ChunksOf[b]
       /\ b \notin damaged =>
            /\ \A k \in 1 .. Len(got) : got[k] = ChunkOf(b, k)
            /\ getting[r].at = "load" => getting[r].read = ChunkOf(b, Len(got) + 1)

BlobTypes ==
  /\ pages \in Seq(Contents) /\ seq \in Nat
  /\ putting \in [Storers -> [at : Ats, page : Nat, list : Seq(Nat)]]
  /\ getting \in [Lookers -> [at : {"none", "look", "load"}, blob : Storers \cup {NoPage},
                              got : Seq(Contents), read : Contents]]
  /\ DOMAIN directory \subseteq Storers
  /\ damaged \subseteq Storers

\* CacheBounded and BlobsReadBack with what a step needs: who has which page, what
\* the file and the cache hold of the blobs that are not damaged.
BlobInv ==
  /\ BlobTypes /\ CacheOK /\ CacheBounded
  /\ \A s \in Storers : ListOK(s)
  /\ \A s \in DOMAIN directory : directory[s] = putting[s].list /\ putting[s].at = "done"
  /\ \A s \in Storers \ damaged : Alone(s) /\ HasChunks(s)
  /\ \A r \in Lookers : HasRead(r)

LEMMA BlobInitHolds == BlobInit => BlobInv
<1> SUFFICES ASSUME BlobInit PROVE BlobInv
  OBVIOUS
<1> USE BlobAssumption DEF BlobInit, NoPage
<1>1. DOMAIN cache = {} /\ DOMAIN directory = {} /\ damaged = {} /\ Len(pages) = 0
  OBVIOUS
<1>2. BlobTypes
  BY <1>1 DEF BlobTypes, Ats, Contents
<1>3. CacheOK /\ CacheBounded
  BY <1>1, FS_EmptySet DEF CacheOK, CacheBounded
<1>4. \A s \in Storers : ListOK(s) /\ Alone(s) /\ HasChunks(s)
  BY <1>1 DEF ListOK, Alone, HasChunks, Has, Lists
<1>5. \A r \in Lookers : HasRead(r)
  BY DEF HasRead
<1> QED  BY <1>1, <1>2, <1>3, <1>4, <1>5 DEF BlobInv

\* A blob's chunks are contents of pages.
LEMMA ChunksAre ==
  ASSUME NEW s \in Storers, NEW i \in 1 .. ChunksOf[s]
  PROVE  ChunkOf(s, i) \in Contents
BY DEF Contents

\* The page that leaves the cache is one of it, and there is one if it is full.
LEMMA VictimIs ==
  ASSUME CacheOK, NEW ps, ps \subseteq DOMAIN cache, ps # {}
  PROVE  Oldest(ps) \in ps
<1> DEFINE seqs == {cache[p].seq : p \in ps}
<1>1. seqs \in SUBSET Nat /\ seqs # {}
  BY DEF CacheOK, CachedPages
<1>2. PICK m \in seqs : \A n \in seqs : m <= n
  BY <1>1, LeastOf
<1>3. PICK p \in ps : cache[p].seq = m
  BY <1>2
<1>4. \A q \in ps : cache[p].seq <= cache[q].seq
  BY <1>2, <1>3
<1> QED  BY <1>4 DEF Oldest

\* BufferPool::insert: the cache stays within its capacity, has the page it is given,
\* and changes no other page that stays.
LEMMA InsertIs ==
  ASSUME CacheOK, CacheBounded, pages \in Seq(Contents), seq \in Nat,
         NEW p \in 1 .. Len(pages), NEW content \in Contents, NEW dirty \in BOOLEAN,
         InsertPage(p, content, dirty), Len(pages') = Len(pages)
  PROVE  /\ CacheOK' /\ CacheBounded' /\ seq' \in Nat
         /\ p \in DOMAIN cache' /\ cache'[p].content = content /\ cache'[p].dirty = dirty
         /\ \A q \in DOMAIN cache' : q # p => q \in DOMAIN cache /\ cache'[q] = cache[q]
         /\ \A q \in DOMAIN cache : q \notin Victims(p) => q \in DOMAIN cache'
<1> USE BlobAssumption
<1>1. /\ DOMAIN cache' = (DOMAIN cache \ Victims(p)) \cup {p}
      /\ cache'[p] = Fresh(content, dirty)
      /\ \A q \in DOMAIN cache' : q # p => q \in DOMAIN cache /\ cache'[q] = cache[q]
      /\ seq' = seq + 1
  BY DEF InsertPage
<1>2. IsFiniteSet(DOMAIN cache) /\ Cardinality(DOMAIN cache) \in Nat
  <2>1. DOMAIN cache \subseteq 1 .. Len(pages)
    BY DEF CacheOK
  <2>2. IsFiniteSet(1 .. Len(pages))
    BY FS_Interval
  <2> QED  BY <2>1, <2>2, FS_Subset, FS_CardinalityType
<1>3. CacheOK'
  <2>1. Fresh(content, dirty) \in CachedPages /\ Fresh(content, dirty).seq <= seq'
    BY <1>1 DEF Fresh, CachedPages
  <2>2. ASSUME NEW q \in DOMAIN cache' PROVE (q \in 1 .. Len(pages) /\ cache[q] \in CachedPages /\ cache[q].seq <= seq)'
    <3>1. CASE q = p
      BY <1>1, <2>1, <3>1 DEF CachedPages, Contents
    <3>2. CASE q # p
      <4>1. cache'[q] = cache[q] /\ q \in 1 .. Len(pages) /\ cache[q] \in CachedPages /\ cache[q].seq <= seq
        BY <1>1, <3>2 DEF CacheOK
      <4>2. cache[q].seq \in Nat
        BY <4>1 DEF CachedPages
      <4> QED  BY <1>1, <4>1, <4>2 DEF CachedPages, Contents
    <3> QED  BY <3>1, <3>2
  <2> QED  BY <2>2 DEF CacheOK
<1>4. CacheBounded'
  <2>1. CASE p \in DOMAIN cache
    <3>1. Victims(p) = {}
      BY <2>1 DEF Victims
    <3>2. DOMAIN cache' = DOMAIN cache
      BY <1>1, <2>1, <3>1
    <3> QED  BY <3>2 DEF CacheBounded
  <2>2. CASE p \notin DOMAIN cache /\ Cardinality(DOMAIN cache) < CachePages
    <3>1. Victims(p) = {}
      BY <2>2 DEF Victims
    <3>2. DOMAIN cache' = DOMAIN cache \cup {p}
      BY <1>1, <3>1
    <3>3. Cardinality(DOMAIN cache') = Cardinality(DOMAIN cache) + 1
      BY <1>2, <2>2, <3>2, FS_AddElement
    <3> QED  BY <1>2, <2>2, <3>3 DEF CacheBounded
  <2>3. CASE p \notin DOMAIN cache /\ ~(Cardinality(DOMAIN cache) < CachePages)
    <3>1. DOMAIN cache # {}
      <4> SUFFICES ASSUME DOMAIN cache = {} PROVE FALSE
        OBVIOUS
      <4>1. Cardinality(DOMAIN cache) = 0
        BY FS_EmptySet
      <4>2. 0 < CachePages
        BY BlobAssumption
      <4> QED  BY <2>3, <4>1, <4>2
    <3>2. PICK v \in DOMAIN cache : Victims(p) = {v}
      <4> DEFINE ps == IF Probationary # {} THEN Probationary ELSE DOMAIN cache
      <4>1. ps \subseteq DOMAIN cache /\ ps # {}
        BY <3>1 DEF Probationary
      <4>2. Oldest(ps) \in DOMAIN cache
        BY <4>1, VictimIs
      <4>3. Victims(p) = {Oldest(ps)}
        BY <2>3 DEF Victims
      <4> QED  BY <4>2, <4>3
    <3>3. IsFiniteSet(DOMAIN cache \ {v}) /\ Cardinality(DOMAIN cache \ {v}) = Cardinality(DOMAIN cache) - 1
      BY <1>2, FS_RemoveElement
    <3>4. DOMAIN cache' = (DOMAIN cache \ {v}) \cup {p} /\ p \notin DOMAIN cache \ {v}
      BY <1>1, <2>3, <3>2
    <3>5. Cardinality(DOMAIN cache') = Cardinality(DOMAIN cache \ {v}) + 1
      BY <3>3, <3>4, FS_AddElement
    <3> QED  BY <1>2, <3>3, <3>5 DEF CacheBounded
  <2> QED  BY <2>1, <2>2, <2>3
<1>5. cache'[p].content = content /\ cache'[p].dirty = dirty
  BY <1>1 DEF Fresh
<1> QED  BY <1>1, <1>3, <1>4, <1>5

\* A thread that puts a page into the cache: the chunks of others are where they
\* were, unless their page leaves the cache unwritten.
LEMMA OthersKeep ==
  ASSUME BlobInv, NEW p \in 1 .. Len(pages), NEW s \in Storers, s \notin damaged, s \notin Unwritten(p),
         ~Has(s, p), pages' = pages, putting'[s] = putting[s],
         \A q \in DOMAIN cache' : q # p => q \in DOMAIN cache /\ cache'[q] = cache[q],
         \A q \in DOMAIN cache : q \notin Victims(p) => q \in DOMAIN cache'
  PROVE  HasChunks(s)'
<1>1. HasChunks(s) /\ ListOK(s) /\ NextChunk(s)' = NextChunk(s)
  BY DEF BlobInv, NextChunk, ChunkOf
<1>2. ASSUME NEW q, Has(s, q), q \in DOMAIN cache' PROVE q \in DOMAIN cache /\ cache'[q] = cache[q]
  BY <1>2
<1>3. CASE putting[s].at = "write"
  <2>1. Has(s, putting[s].page)
    BY <1>3 DEF Has
  <2>2. putting[s].page \in DOMAIN cache /\ cache[putting[s].page].dirty
    BY <1>1, <1>3 DEF HasChunks
  <2>3. putting[s].page \notin Victims(p)
    BY <2>2 DEF Unwritten
  <2>4. putting[s].page \in DOMAIN cache' /\ cache'[putting[s].page] = cache[putting[s].page]
    BY <1>2, <2>1, <2>2, <2>3
  <2>5. ASSUME NEW i \in 1 .. Len(putting[s].list), putting[s].list[i] \in DOMAIN cache'
        PROVE  putting[s].list[i] \in DOMAIN cache /\ cache'[putting[s].list[i]] = cache[putting[s].list[i]]
    BY <1>2, <2>5 DEF Has, Lists
  <2> QED  BY <1>1, <1>3, <2>4, <2>5 DEF HasChunks, ChunkOf
<1>4. CASE putting[s].at # "write"
  <2>1. ASSUME putting[s].at = "clear", putting[s].page \in DOMAIN cache'
        PROVE  putting[s].page \in DOMAIN cache /\ cache'[putting[s].page] = cache[putting[s].page]
    BY <1>2, <2>1 DEF Has
  <2>2. ASSUME NEW i \in 1 .. Len(putting[s].list), putting[s].list[i] \in DOMAIN cache'
        PROVE  putting[s].list[i] \in DOMAIN cache /\ cache'[putting[s].list[i]] = cache[putting[s].list[i]]
    BY <1>2, <2>2 DEF Has, Lists
  <2> QED  BY <1>1, <1>4, <2>1, <2>2 DEF HasChunks, ChunkOf
<1> QED  BY <1>3, <1>4

\* What concerns one storer follows from what it and the others do.
LEMMA StorerStays ==
  ASSUME NEW s \in Storers, Len(pages') = Len(pages), putting'[s] = putting[s]
  PROVE  /\ ListOK(s)' <=> ListOK(s)
         /\ \A p : Has(s, p)' <=> Has(s, p)
         /\ \A p : WorksAt(s, p)' <=> WorksAt(s, p)
BY DEF ListOK, Has, WorksAt, Lists

\* Steps that change no blob that is listed, nor more blobs than before are damaged,
\* leave the lookers what they read.
LEMMA LookersStay ==
  ASSUME BlobInv, getting' = getting, DOMAIN directory \subseteq DOMAIN directory', damaged \subseteq damaged'
  PROVE  \A r \in Lookers : HasRead(r)'
BY DEF BlobInv, HasRead, ChunkOf

\* allocate_page, the size of the file.
LEMMA SizeOfFileStep ==
  ASSUME BlobInv, NEW s \in Storers, SizeOfFile(s) PROVE BlobInv'
<1> USE BlobAssumption DEF SizeOfFile
<1>0. /\ BlobTypes /\ ListOK(s) /\ Len(pages) \in Nat
      /\ putting[s] \in [at : Ats, page : Nat, list : Seq(Nat)]
  BY DEF BlobInv, BlobTypes
<1>1. /\ putting'[s].at = "extend" /\ putting'[s].page = Len(pages) + 1 /\ putting'[s].list = putting[s].list
      /\ \A t \in Storers : t # s => putting'[t] = putting[t]
      /\ putting' \in [Storers -> [at : Ats, page : Nat, list : Seq(Nat)]]
  <2>1. PICK n \in Nat : n = Len(pages) + 1
    BY <1>0
  <2>2. PICK doing : doing = [putting[s] EXCEPT !.at = "extend", !.page = n]
    OBVIOUS
  <2>3. doing \in [at : Ats, page : Nat, list : Seq(Nat)]
        /\ doing.at = "extend" /\ doing.page = n /\ doing.list = putting[s].list
    BY <1>0, <2>2 DEF Ats
  <2>4. putting' = [putting EXCEPT ![s] = doing]
    BY <1>0, <2>1, <2>2 DEF BlobTypes
  <2>5. putting \in [Storers -> [at : Ats, page : Nat, list : Seq(Nat)]]
    BY <1>0 DEF BlobTypes
  <2>6. putting'[s] = doing /\ \A t \in Storers : t # s => putting'[t] = putting[t]
    BY <2>4, <2>5
  <2>7. putting' \in [Storers -> [at : Ats, page : Nat, list : Seq(Nat)]]
    BY <2>3, <2>4, <2>5
  <2> QED  BY <2>1, <2>3, <2>6, <2>7
<1>2. BlobTypes' /\ CacheOK' /\ CacheBounded'
  BY <1>1 DEF BlobInv, BlobTypes, CacheOK, CacheBounded, CachedPages, Contents
<1>3. ASSUME NEW t \in Storers PROVE ListOK(t)'
  <2>1. CASE t = s
    BY <1>0, <1>1, <2>1 DEF ListOK, NoPage
  <2>2. CASE t # s
    BY <1>1, <2>2, StorerStays DEF BlobInv
  <2> QED  BY <2>1, <2>2
<1>4. \A t \in DOMAIN directory' : (directory[t] = putting[t].list /\ putting[t].at = "done")'
  BY <1>1 DEF BlobInv, BlobTypes
<1>5. /\ \A p \in Nat : Has(s, p)' => Has(s, p) /\ p <= Len(pages)
      /\ \A p \in Nat : WorksAt(s, p)' => WorksAt(s, p) \/ p = Len(pages) + 1
      /\ \A t \in Storers, p \in Nat : Has(t, p) => p <= Len(pages)
  <2>1. \A p \in Nat : Has(s, p)' => Has(s, p)
    BY <1>1 DEF Has, Lists
  <2>2. \A p \in Nat : WorksAt(s, p)' => WorksAt(s, p) \/ p = Len(pages) + 1
    BY <1>1 DEF WorksAt, Lists
  <2>3. ASSUME NEW t \in Storers, NEW p \in Nat, Has(t, p) PROVE p <= Len(pages)
    <3>1. ListOK(t)
      BY DEF BlobInv
    <3> QED  BY <1>0, <2>3, <3>1, SMTT(60) DEF Has, Lists, ListOK
  <2> QED  BY <2>1, <2>2, <2>3
<1>6. ASSUME NEW t \in Storers \ damaged' PROVE Alone(t)' /\ HasChunks(t)'
  <2>0. Alone(t) /\ HasChunks(t) /\ t \in Storers
    BY DEF BlobInv
  <2>1. Alone(t)'
    <3>1. (putting[t].at = "extend" => putting[t].page = Len(pages) + 1)'
      BY <1>1, <2>0 DEF Alone
    <3>2. ASSUME NEW u \in Storers \ {t}, NEW p \in Nat, Has(t, p)' PROVE ~WorksAt(u, p)'
      <4>1. Has(t, p) /\ p <= Len(pages)
        <5>1. CASE t = s
          BY <1>5, <3>2, <5>1
        <5>2. CASE t # s
          BY <1>1, <1>5, <3>2, <5>2, StorerStays
        <5> QED  BY <5>1, <5>2
      <4>2. ~WorksAt(u, p)
        BY <2>0, <4>1 DEF Alone
      <4>3. CASE u = s
        BY <1>0, <1>5, <4>1, <4>2, <4>3
      <4>4. CASE u # s
        BY <1>1, <4>2, <4>4, StorerStays
      <4> QED  BY <4>3, <4>4
    <3> QED  BY <3>1, <3>2 DEF Alone
  <2>2. HasChunks(t)'
    <3>1. putting'[t].list = putting[t].list
      BY <1>1, <2>0
    <3>2. putting'[t].at = "extend" \/ putting'[t] = putting[t]
      BY <1>1, <2>0
    <3> QED  BY <2>0, <3>1, <3>2 DEF HasChunks, ChunkOf, NextChunk
  <2> QED  BY <2>1, <2>2
<1>7. \A r \in Lookers : HasRead(r)'
  BY LookersStay
<1> QED  BY <1>2, <1>3, <1>4, <1>6, <1>7 DEF BlobInv

\* A storer that goes on with the page it works at.
LEMMA MoveIs ==
  ASSUME BlobTypes, NEW s \in Storers, NEW from, NEW to \in Ats, Moves(s, from, to)
  PROVE  /\ putting' \in [Storers -> [at : Ats, page : Nat, list : Seq(Nat)]]
         /\ putting[s].at = from /\ putting'[s].at = to
         /\ putting'[s].page = putting[s].page /\ putting'[s].list = putting[s].list
         /\ \A t \in Storers : t # s => putting'[t] = putting[t]
BY DEF Moves, BlobTypes

\* What is true of every storer while one goes on from an access to its page to the
\* next, or from its list to its entry in the directory.
LEMMA MoveKeeps ==
  ASSUME BlobInv, NEW s \in Storers, NEW from, NEW to, Moves(s, from, to), Len(pages') = Len(pages),
         \/ from \in {"cache", "put", "write", "clear"} /\ to \in {"cache", "put", "write", "clear"}
         \/ from = "list" /\ to = "done"
  PROVE  /\ \A t \in Storers : ListOK(t)'
         /\ \A t \in Storers \ damaged : Alone(t)'
         /\ \A t \in Storers, p \in Nat : Has(t, p)' <=> Has(t, p)
<1>0. /\ putting' \in [Storers -> [at : Ats, page : Nat, list : Seq(Nat)]]
      /\ putting[s].at = from /\ putting'[s].at = to
      /\ putting'[s].page = putting[s].page /\ putting'[s].list = putting[s].list
      /\ \A t \in Storers : t # s => putting'[t] = putting[t]
  BY MoveIs DEF BlobInv, Ats
<1>1. ASSUME NEW t \in Storers PROVE ListOK(t)'
  <2>0. ListOK(t)
    BY DEF BlobInv
  <2>1. CASE t = s
    BY <1>0, <2>0, <2>1 DEF ListOK
  <2>2. CASE t # s
    BY <1>0, <2>0, <2>2, StorerStays
  <2> QED  BY <2>1, <2>2
<1>2. ASSUME NEW t \in Storers, NEW p \in Nat
      PROVE  (Has(t, p)' <=> Has(t, p)) /\ (WorksAt(t, p)' <=> WorksAt(t, p))
  <2>1. CASE t = s
    BY <1>0, <2>1 DEF Has, WorksAt, Lists
  <2>2. CASE t # s
    BY <1>0, <2>2, StorerStays
  <2> QED  BY <2>1, <2>2
<1>3. ASSUME NEW t \in Storers \ damaged PROVE Alone(t)'
  <2>1. Alone(t)
    BY DEF BlobInv
  <2>2. (putting[t].at = "extend" => putting[t].page = Len(pages) + 1)'
    BY <1>0, <2>1 DEF Alone
  <2> QED  BY <1>2, <2>1, <2>2 DEF Alone
<1> QED  BY <1>1, <1>2, <1>3

\* The directory's entries are of storers that are done, which do nothing more.
LEMMA EntriesStay ==
  ASSUME BlobInv, directory' = directory, NEW s \in Storers, putting[s].at # "done",
         \A t \in Storers : t # s => putting'[t] = putting[t]
  PROVE  \A t \in DOMAIN directory' : (directory[t] = putting[t].list /\ putting[t].at = "done")'
BY DEF BlobInv, BlobTypes

\* allocate_page, the page behind the end of the file.
LEMMA ExtendStep ==
  ASSUME BlobInv, NEW s \in Storers, Extend(s) PROVE BlobInv'
<1> USE BlobAssumption DEF Extend
<1>0. /\ BlobTypes /\ ListOK(s) /\ Len(pages) \in Nat /\ pages \in Seq(Contents)
      /\ \A q \in 1 .. Len(pages) : pages[q] \in Contents
      /\ putting[s].page \in Nat /\ putting[s].list \in Seq(Nat) /\ putting[s].at = "extend"
  BY DEF BlobInv, BlobTypes, Moves
<1> DEFINE p == putting[s].page
           others == {t \in Storers \ {s} : WorksAt(t, p)}
<1>1. /\ putting' \in [Storers -> [at : Ats, page : Nat, list : Seq(Nat)]]
      /\ putting'[s].at = "cache"
      /\ putting'[s].page = p /\ putting'[s].list = putting[s].list
      /\ \A t \in Storers : t # s => putting'[t] = putting[t]
  BY <1>0, MoveIs DEF Ats
<1>2. p \in 1 .. Len(pages) + 1
  BY <1>0 DEF ListOK, NoPage
<1>3. /\ pages' \in Seq(Contents) /\ Len(pages') >= Len(pages) /\ p <= Len(pages')
      /\ p <= Len(pages) => Len(pages') = Len(pages)
      /\ p > Len(pages) => Len(pages') = Len(pages) + 1
      /\ \A q \in 1 .. Len(pages) : q # p => pages'[q] = pages[q]
  <2>1. Zeroes \in Contents
    BY DEF Contents
  <2>2. PICK n \in Nat : n = p
    BY <1>0
  <2>3. CASE n > Len(pages)
    BY <1>0, <1>2, <2>1, <2>2, <2>3
  <2>4. CASE ~(n > Len(pages))
    BY <1>0, <1>2, <2>1, <2>2, <2>4
  <2> QED  BY <2>3, <2>4
<1>4. damaged' = IF others = {} THEN damaged ELSE damaged \cup others \cup {s}
  BY DEF WorksAt, Lists
<1> HIDE DEF p
<1>5. BlobTypes' /\ CacheOK' /\ CacheBounded'
  <2>1. BlobTypes'
    BY <1>0, <1>1, <1>3, <1>4 DEF BlobTypes, Contents, Ats
  <2>2. CacheOK'
    BY <1>0, <1>3 DEF BlobInv, CacheOK, CachedPages, Contents
  <2> QED  BY <2>1, <2>2 DEF BlobInv, CacheBounded
<1>6. ASSUME NEW t \in Storers PROVE ListOK(t)'
  <2>0. ListOK(t) /\ putting[t].page \in Nat /\ putting[t].list \in Seq(Nat)
    BY <1>0 DEF BlobInv, BlobTypes
  <2>1. CASE t = s
    <3>1. p > 0 /\ p = putting[s].page /\ Len(pages') \in Nat
      BY <1>0, <1>2, <1>3 DEF p
    <3>2. ASSUME NEW i \in 1 .. Len(putting[s].list)
          PROVE  /\ putting[s].list[i] \in 1 .. Len(pages') /\ putting[s].list[i] < p
                 /\ \A j \in 1 .. Len(putting[s].list) : i < j => putting[s].list[i] < putting[s].list[j]
      BY <1>0, <1>3, <3>1 DEF ListOK, NoPage
    <3>3. Len(putting[s].list) < ChunksOf[s]
      BY <1>0 DEF ListOK
    <3>4. ListOK(s)'
      BY <1>1, <1>3, <3>1, <3>2, <3>3 DEF ListOK, NoPage
    <3> QED  BY <2>1, <3>4
  <2>2. CASE t # s
    <3>1. putting'[t] = putting[t]
      BY <1>1, <2>2
    <3> QED  BY <1>0, <1>3, <2>0, <3>1, SMTT(60) DEF ListOK
  <2> QED  BY <2>1, <2>2
<1>7. /\ \A q \in Nat : Has(s, q)' => Has(s, q) \/ q = p
      /\ \A t \in Storers, q \in Nat : WorksAt(t, q)' <=> WorksAt(t, q)
      /\ \A t \in Storers, q \in Nat : t # s => (Has(t, q)' <=> Has(t, q))
  BY <1>1 DEF Has, WorksAt, Lists, p
<1>8. ASSUME NEW t \in Storers \ damaged' PROVE Alone(t)' /\ HasChunks(t)'
  <2>0. Alone(t) /\ HasChunks(t) /\ ListOK(t) /\ t \in Storers /\ t \notin damaged
    BY <1>4 DEF BlobInv
  <2>1. CASE t = s
    <3>1. others = {}
      BY <1>4, <2>1
    <3>2. ASSUME NEW u \in Storers \ {s}, NEW q \in Nat, Has(s, q)' PROVE ~WorksAt(u, q)'
      BY <1>7, <2>0, <2>1, <3>1, <3>2 DEF Alone
    <3>3. Alone(s)'
      BY <1>1, <3>2 DEF Alone
    <3>4. \A i \in 1 .. Len(putting[s].list) : putting[s].list[i] \in 1 .. Len(pages) /\ putting[s].list[i] # p
      BY <1>0, <1>2 DEF ListOK, p, NoPage
    <3>5. HasChunks(s)'
      BY <1>1, <1>3, <2>0, <2>1, <3>4, SMTT(60) DEF HasChunks, ChunkOf
    <3> QED  BY <2>1, <3>3, <3>5
  <2>2. CASE t # s
    <3>1. ~WorksAt(t, p)
      BY <1>4, <2>0, <2>2
    <3>2. putting'[t] = putting[t] /\ putting[t].page # p
          /\ \A i \in 1 .. Len(putting[t].list) : putting[t].list[i] # p
      BY <1>1, <2>2, <3>1 DEF WorksAt, Lists
    <3>3. (putting[t].at = "extend" => putting[t].page = Len(pages) + 1)'
      BY <1>0, <1>2, <1>3, <2>0, <3>2 DEF Alone
    <3>4. Alone(t)'
      BY <1>7, <2>0, <2>2, <3>3 DEF Alone
    <3>5. \A i \in 1 .. Len(putting[t].list) : putting[t].list[i] \in 1 .. Len(pages)
      BY <2>0 DEF ListOK
    <3>6. putting[t].at \in {"write", "clear"} => putting[t].page \in 1 .. Len(pages)
      BY <1>0, <2>0 DEF ListOK, NoPage
    <3>7. HasChunks(t)'
      BY <1>3, <2>0, <3>2, <3>5, <3>6, SMTT(60) DEF HasChunks, ChunkOf, NextChunk
    <3> QED  BY <3>4, <3>7
  <2> QED  BY <2>1, <2>2
<1>9. \A t \in DOMAIN directory' : (directory[t] = putting[t].list /\ putting[t].at = "done")'
  BY <1>0, <1>1, EntriesStay
<1>10. \A r \in Lookers : HasRead(r)'
  BY <1>4, LookersStay
<1> QED  BY <1>5, <1>6, <1>8, <1>9, <1>10 DEF BlobInv

\* A page put into the cache by whoever: the blobs that stay undamaged keep what
\* they have, but for the storer that does it.
LEMMA InsertKeeps ==
  ASSUME BlobInv, NEW p \in 1 .. Len(pages), NEW content \in Contents, NEW dirty \in BOOLEAN,
         InsertPage(p, content, dirty), pages' = pages, damaged' = damaged \cup Unwritten(p),
         NEW s \in Storers \ damaged', ~Has(s, p), putting'[s] = putting[s]
  PROVE  HasChunks(s)'
<1>1. s \in Storers /\ s \notin damaged /\ s \notin Unwritten(p)
  OBVIOUS
<1>2. CacheOK /\ CacheBounded /\ pages \in Seq(Contents) /\ seq \in Nat
  BY DEF BlobInv, BlobTypes
<1>3. /\ \A q \in DOMAIN cache' : q # p => q \in DOMAIN cache /\ cache'[q] = cache[q]
      /\ \A q \in DOMAIN cache : q \notin Victims(p) => q \in DOMAIN cache'
  BY <1>2, InsertIs
<1> QED  BY <1>1, <1>3, OthersKeep

\* A storer puts its page into the cache: with zeroes behind the end of the file, and
\* then with its chunk.
LEMMA CachesStep ==
  ASSUME BlobInv, NEW s \in Storers, NEW from, NEW to, NEW content \in Contents, NEW dirty \in BOOLEAN,
         Moves(s, from, to), InsertPage(putting[s].page, content, dirty),
         damaged' = damaged \cup Unwritten(putting[s].page),
         UNCHANGED <<pages, directory, getting>>,
         \/ from = "cache" /\ to = "put"
         \/ from = "put" /\ to = "write" /\ dirty /\ content = NextChunk(s)
  PROVE  BlobInv'
<1> USE BlobAssumption
<1>0. /\ BlobTypes /\ CacheOK /\ CacheBounded /\ Len(pages) \in Nat /\ pages \in Seq(Contents) /\ seq \in Nat
      /\ putting[s].page \in Nat /\ putting[s].list \in Seq(Nat)
      /\ putting[s].at = from /\ from \in {"cache", "put"} /\ to \in {"put", "write"}
  BY DEF BlobInv, BlobTypes, Moves
<1>1. /\ putting' \in [Storers -> [at : Ats, page : Nat, list : Seq(Nat)]]
      /\ putting'[s].at = to
      /\ putting'[s].page = putting[s].page /\ putting'[s].list = putting[s].list
      /\ \A t \in Storers : t # s => putting'[t] = putting[t]
  BY <1>0, MoveIs DEF Ats
<1> DEFINE p == putting[s].page
<1>2. p \in 1 .. Len(pages) /\ \A i \in 1 .. Len(putting[s].list) : putting[s].list[i] # p
  <2>1. ListOK(s)
    BY DEF BlobInv
  <2> QED  BY <1>0, <2>1 DEF ListOK, NoPage
<1>3. /\ CacheOK' /\ CacheBounded' /\ seq' \in Nat
      /\ p \in DOMAIN cache' /\ cache'[p].content = content /\ cache'[p].dirty = dirty
      /\ \A q \in DOMAIN cache' : q # p => q \in DOMAIN cache /\ cache'[q] = cache[q]
  BY <1>0, <1>2, InsertIs
<1>4. BlobTypes'
  BY <1>0, <1>1, <1>3 DEF BlobTypes, Contents, Ats, Unwritten
<1>5. (\A t \in Storers : ListOK(t)') /\ (\A t \in Storers \ damaged : Alone(t)')
  BY <1>0, MoveKeeps
<1>6. ASSUME NEW t \in Storers \ damaged' PROVE HasChunks(t)'
  <2>0. Alone(t) /\ HasChunks(t) /\ t \in Storers /\ t \notin damaged
    BY DEF BlobInv
  <2>1. CASE t = s
    <3>1. /\ to = "write" => cache'[p].dirty /\ cache'[p].content = NextChunk(s)
          /\ NextChunk(s)' = NextChunk(s)
      BY <1>0, <1>1, <1>3 DEF NextChunk, ChunkOf
    <3>2. ASSUME NEW i \in 1 .. Len(putting[s].list)
          PROVE  /\ pages[putting[s].list[i]] = ChunkOf(s, i)
                 /\ putting[s].list[i] \in DOMAIN cache' => cache'[putting[s].list[i]].content = ChunkOf(s, i)
      BY <1>2, <1>3, <2>0, <2>1 DEF HasChunks
    <3>3. HasChunks(s)'
      BY <1>0, <1>1, <1>3, <3>1, <3>2 DEF HasChunks, ChunkOf
    <3> QED  BY <2>1, <3>3
  <2>2. CASE t # s
    <3>1. WorksAt(s, p)
      BY DEF WorksAt
    <3>2. ~Has(t, p)
      BY <1>0, <2>0, <2>2, <3>1 DEF Alone
    <3> QED  BY <1>1, <1>2, <2>2, <3>2, InsertKeeps
  <2> QED  BY <2>1, <2>2
<1>7. \A t \in DOMAIN directory' : (directory[t] = putting[t].list /\ putting[t].at = "done")'
  BY <1>0, <1>1, EntriesStay
<1>8. \A r \in Lookers : HasRead(r)'
  BY LookersStay
<1> QED  BY <1>3, <1>4, <1>5, <1>6, <1>7, <1>8 DEF BlobInv

\* flush_page, the write to the file.
LEMMA WritePageStep ==
  ASSUME BlobInv, NEW s \in Storers, WritePage(s) PROVE BlobInv'
<1> USE BlobAssumption DEF WritePage
<1>0. /\ BlobTypes /\ CacheOK /\ Len(pages) \in Nat /\ pages \in Seq(Contents)
      /\ putting[s].page \in Nat /\ putting[s].list \in Seq(Nat) /\ putting[s].at = "write"
      /\ Moves(s, "write", "clear")
  BY DEF BlobInv, BlobTypes, Moves
<1> DEFINE p == putting[s].page
<1>1. /\ putting' \in [Storers -> [at : Ats, page : Nat, list : Seq(Nat)]]
      /\ putting'[s].at = "clear"
      /\ putting'[s].page = p /\ putting'[s].list = putting[s].list
      /\ \A t \in Storers : t # s => putting'[t] = putting[t]
  BY <1>0, MoveIs DEF Ats
<1>2. p \in 1 .. Len(pages) /\ \A i \in 1 .. Len(putting[s].list) : putting[s].list[i] # p
  <2>1. ListOK(s)
    BY DEF BlobInv
  <2> QED  BY <1>0, <2>1 DEF ListOK, NoPage
<1>3. /\ pages' \in Seq(Contents) /\ Len(pages') = Len(pages)
      /\ \A q \in 1 .. Len(pages) : q # p => pages'[q] = pages[q]
      /\ p \in DOMAIN cache /\ cache[p].dirty => pages'[p] = cache[p].content
  <2>1. p \in DOMAIN cache => cache[p].content \in Contents
    BY <1>0 DEF CacheOK, CachedPages
  <2>2. CASE p \in DOMAIN cache /\ cache[p].dirty
    BY <1>0, <1>2, <2>1, <2>2
  <2>3. CASE ~(p \in DOMAIN cache /\ cache[p].dirty)
    BY <1>0, <2>3
  <2> QED  BY <2>2, <2>3
<1> HIDE DEF p
<1>4. BlobTypes' /\ CacheOK' /\ CacheBounded'
  <2>1. BlobTypes'
    BY <1>0, <1>1, <1>3 DEF BlobTypes, Contents, Ats
  <2>2. CacheOK'
    BY <1>0, <1>3 DEF CacheOK, CachedPages, Contents
  <2> QED  BY <2>1, <2>2 DEF BlobInv, CacheBounded
<1>5. (\A t \in Storers : ListOK(t)') /\ (\A t \in Storers \ damaged : Alone(t)')
  BY <1>0, <1>3, MoveKeeps
<1>6. ASSUME NEW t \in Storers \ damaged' PROVE HasChunks(t)'
  <2>0. Alone(t) /\ HasChunks(t) /\ ListOK(t) /\ t \in Storers /\ t \notin damaged
    BY DEF BlobInv
  <2>1. \A i \in 1 .. Len(putting[t].list) : putting[t].list[i] \in 1 .. Len(pages)
    BY <2>0 DEF ListOK
  <2>2. CASE t = s
    <3>1. pages'[p] = NextChunk(s) /\ (p \in DOMAIN cache => cache[p].content = NextChunk(s))
          /\ NextChunk(s)' = NextChunk(s)
      BY <1>0, <1>1, <1>3, <2>0, <2>2 DEF HasChunks, NextChunk, ChunkOf, p
    <3>2. ASSUME NEW i \in 1 .. Len(putting[s].list)
          PROVE  /\ pages'[putting[s].list[i]] = ChunkOf(s, i)
                 /\ putting[s].list[i] \in DOMAIN cache => cache[putting[s].list[i]].content = ChunkOf(s, i)
      BY <1>2, <1>3, <2>0, <2>1, <2>2 DEF HasChunks
    <3>3. HasChunks(s)'
      BY <1>1, <3>1, <3>2 DEF HasChunks, ChunkOf
    <3> QED  BY <2>2, <3>3
  <2>3. CASE t # s
    <3>1. ~Has(t, p)
      <4>1. WorksAt(s, p)
        BY DEF WorksAt, p
      <4> QED  BY <1>0, <2>0, <2>3, <4>1 DEF Alone, p
    <3>2. /\ putting'[t] = putting[t]
          /\ putting[t].at \in {"write", "clear"} => putting[t].page # p
          /\ \A i \in 1 .. Len(putting[t].list) : putting[t].list[i] # p
      BY <1>1, <2>3, <3>1 DEF Has, Lists
    <3>3. putting[t].at \in {"write", "clear"} => putting[t].page \in 1 .. Len(pages)
      BY <1>0, <2>0 DEF ListOK, NoPage
    <3>4. NextChunk(t)' = NextChunk(t) /\ cache' = cache
      BY <3>2 DEF NextChunk, ChunkOf
    <3>5. putting[t].at = "clear" => pages'[putting[t].page] = NextChunk(t)
      BY <1>3, <2>0, <3>2, <3>3 DEF HasChunks
    <3>6. \A i \in 1 .. Len(putting[t].list) : pages'[putting[t].list[i]] = ChunkOf(t, i)
      BY <1>3, <2>0, <2>1, <3>2 DEF HasChunks
    <3> HIDE DEF WritePage
    <3> QED  BY <2>0, <3>2, <3>4, <3>5, <3>6 DEF HasChunks, ChunkOf
  <2> QED  BY <2>2, <2>3
<1>7. \A t \in DOMAIN directory' : (directory[t] = putting[t].list /\ putting[t].at = "done")'
  BY <1>0, <1>1, EntriesStay
<1>8. \A r \in Lookers : HasRead(r)'
  BY LookersStay
<1> QED  BY <1>4, <1>5, <1>6, <1>7, <1>8 DEF BlobInv

\* A page somebody has is a page of the file.
LEMMA HasInFile ==
  ASSUME BlobInv, NEW s \in Storers, NEW p \in Nat, Has(s, p)
  PROVE  p \in 1 .. Len(pages)
<1>1. ListOK(s) /\ Len(pages) \in Nat /\ putting[s].page \in Nat
  BY DEF BlobInv, BlobTypes
<1> QED  BY <1>1 DEF Has, Lists, ListOK, NoPage

\* flush_page, the mark, and the page's place in the list.
LEMMA ClearMarkStep ==
  ASSUME BlobInv, NEW s \in Storers, ClearMark(s) PROVE BlobInv'
<1> USE BlobAssumption DEF ClearMark
<1>0. /\ BlobTypes /\ CacheOK /\ CacheBounded /\ Len(pages) \in Nat /\ pages \in Seq(Contents)
      /\ putting[s].page \in Nat /\ putting[s].list \in Seq(Nat) /\ putting[s].at = "clear"
      /\ ListOK(s) /\ ChunksOf[s] \in Nat
  BY DEF BlobInv, BlobTypes
<1> DEFINE p == putting[s].page
           n == Len(putting[s].list)
<1>1. /\ putting' \in [Storers -> [at : Ats, page : Nat, list : Seq(Nat)]]
      /\ putting'[s].at = IF n + 1 = ChunksOf[s] THEN "list" ELSE "size"
      /\ putting'[s].page = NoPage
      /\ Len(putting'[s].list) = n + 1 /\ putting'[s].list[n + 1] = p
      /\ \A i \in 1 .. n : putting'[s].list[i] = putting[s].list[i]
      /\ \A t \in Storers : t # s => putting'[t] = putting[t]
  <2>1. PICK list : list = Append(putting[s].list, p)
    OBVIOUS
  <2>2. list \in Seq(Nat) /\ Len(list) = n + 1 /\ list[n + 1] = p /\ \A i \in 1 .. n : list[i] = putting[s].list[i]
    BY <1>0, <2>1
  <2>3. PICK doing : doing = [at |-> IF Len(list) = ChunksOf[s] THEN "list" ELSE "size", page |-> NoPage, list |-> list]
    OBVIOUS
  <2>4. /\ doing \in [at : Ats, page : Nat, list : Seq(Nat)]
        /\ doing.at = IF n + 1 = ChunksOf[s] THEN "list" ELSE "size"
        /\ doing.page = NoPage /\ doing.list = list
    BY <2>2, <2>3 DEF Ats, NoPage
  <2>5. putting' = [putting EXCEPT ![s] = doing]
    BY <2>1, <2>3
  <2>6. putting \in [Storers -> [at : Ats, page : Nat, list : Seq(Nat)]]
    BY <1>0 DEF BlobTypes
  <2>7. putting'[s] = doing /\ \A t \in Storers : t # s => putting'[t] = putting[t]
    BY <2>5, <2>6
  <2>8. putting' \in [Storers -> [at : Ats, page : Nat, list : Seq(Nat)]]
    BY <2>4, <2>5, <2>6
  <2> QED  BY <2>2, <2>4, <2>7, <2>8
<1>2. p \in 1 .. Len(pages) /\ n \in Nat /\ \A i \in 1 .. n : putting[s].list[i] \in 1 .. Len(pages) /\ putting[s].list[i] < p
  BY <1>0, SMTT(60) DEF ListOK, NoPage
<1>3. /\ DOMAIN cache' = DOMAIN cache
      /\ \A q \in DOMAIN cache : cache'[q] \in CachedPages /\ cache'[q].content = cache[q].content /\ cache'[q].seq = cache[q].seq
      /\ \A q \in DOMAIN cache : q # p => cache'[q] = cache[q]
  BY <1>0 DEF CacheOK, CachedPages
<1> HIDE DEF p, n
<1>4. BlobTypes' /\ CacheOK' /\ CacheBounded'
  <2>1. BlobTypes'
    BY <1>0, <1>1 DEF BlobTypes, Contents, Ats
  <2>2. CacheOK'
    <3>1. ASSUME NEW q \in DOMAIN cache' PROVE q \in 1 .. Len(pages) /\ cache'[q] \in CachedPages /\ cache'[q].seq <= seq
      BY <1>0, <1>3 DEF CacheOK
    <3>2. CachedPages' = CachedPages /\ Len(pages)' = Len(pages) /\ seq' = seq
      BY DEF CachedPages, Contents
    <3> QED  BY <3>1, <3>2 DEF CacheOK
  <2> QED  BY <1>0, <1>3, <2>1, <2>2 DEF CacheBounded
<1>5. ASSUME NEW t \in Storers PROVE ListOK(t)'
  <2>1. CASE t = s
    <3>1. ASSUME NEW i \in 1 .. n + 1
          PROVE  /\ putting'[s].list[i] \in 1 .. Len(pages)
                 /\ \A j \in 1 .. n + 1 : i < j => putting'[s].list[i] < putting'[s].list[j]
      <4>1. CASE i = n + 1
        BY <1>1, <1>2, <4>1
      <4>2. CASE i # n + 1
        <5>1. i \in 1 .. n /\ putting'[s].list[i] = putting[s].list[i] /\ putting[s].list[i] \in 1 .. Len(pages)
          BY <1>1, <1>2, <4>2, SMTT(60)
        <5>2. ASSUME NEW j \in 1 .. n + 1, i < j PROVE putting'[s].list[i] < putting'[s].list[j]
          <6>1. CASE j = n + 1
            BY <1>1, <1>2, <5>1, <6>1
          <6>2. CASE j # n + 1
            <7>1. j \in 1 .. n
              BY <1>2, <6>2
            <7> QED  BY <1>0, <1>1, <5>1, <5>2, <7>1 DEF ListOK, n
          <6> QED  BY <6>1, <6>2
        <5> QED  BY <5>1, <5>2
      <4> QED  BY <4>1, <4>2
    <3>2. n < ChunksOf[s]
      BY <1>0 DEF ListOK, n
    <3>4. putting'[s].at \in {"list", "size"} /\ Len(pages') = Len(pages) /\ putting'[s].page = 0
      BY <1>1 DEF NoPage
    <3>5. IF putting'[s].at \in {"list", "done"} THEN n + 1 = ChunksOf[s] ELSE n + 1 < ChunksOf[s]
      BY <1>0, <1>1, <1>2, <3>2
    <3>3. ListOK(s)'
      BY <1>0, <1>1, <3>1, <3>4, <3>5, SMTT(60) DEF ListOK, NoPage
    <3> QED  BY <2>1, <3>3
  <2>2. CASE t # s
    BY <1>1, <2>2, StorerStays DEF BlobInv
  <2> QED  BY <2>1, <2>2
<1>6. /\ \A q \in Nat : Lists(s, q)' <=> Lists(s, q) \/ q = p
      /\ \A t \in Storers, q \in Nat : Has(t, q)' <=> Has(t, q)
      /\ \A t \in Storers, q \in Nat : WorksAt(t, q)' => WorksAt(t, q) \/ q = 0
  <2>1. ASSUME NEW q \in Nat PROVE Lists(s, q)' <=> Lists(s, q) \/ q = p
    <3>1. Lists(s, q)' <=> \E i \in 1 .. n + 1 : putting'[s].list[i] = q
      BY <1>1 DEF Lists
    <3>2. Lists(s, q) <=> \E i \in 1 .. n : putting[s].list[i] = q
      BY DEF Lists, n
    <3>3. \A i : i \in 1 .. n + 1 <=> i \in 1 .. n \/ i = n + 1
      BY <1>2
    <3> QED  BY <1>1, <3>1, <3>2, <3>3
  <2>2. ASSUME NEW t \in Storers, NEW q \in Nat
        PROVE  (Has(t, q)' <=> Has(t, q)) /\ (WorksAt(t, q)' => WorksAt(t, q) \/ q = 0)
    <3>1. CASE t = s
      BY <1>0, <1>1, <2>1, <3>1 DEF Has, WorksAt, NoPage, p
    <3>2. CASE t # s
      BY <1>1, <3>2, StorerStays
    <3> QED  BY <3>1, <3>2
  <2> QED  BY <2>1, <2>2
<1>7. ASSUME NEW t \in Storers \ damaged' PROVE Alone(t)' /\ HasChunks(t)'
  <2>0. Alone(t) /\ HasChunks(t) /\ t \in Storers
    BY DEF BlobInv
  <2>1. Alone(t)'
    <3>1. (putting[t].at = "extend" => putting[t].page = Len(pages) + 1)'
      BY <1>1, <2>0 DEF Alone
    <3>2. ASSUME NEW u \in Storers \ {t}, NEW q \in Nat, Has(t, q)' PROVE ~WorksAt(u, q)'
      <4>1. Has(t, q)
        BY <1>6, <3>2
      <4>2. q # 0 /\ ~WorksAt(u, q)
        BY <1>0, <2>0, <4>1, HasInFile DEF Alone
      <4> QED  BY <1>6, <4>2
    <3> QED  BY <3>1, <3>2 DEF Alone
  <2>2. CASE t = s
    <3>1. pages[p] = ChunkOf(s, n + 1) /\ (p \in DOMAIN cache => cache[p].content = ChunkOf(s, n + 1))
      BY <1>0, <2>0, <2>2 DEF HasChunks, NextChunk, p, n
    <3>2. ASSUME NEW i \in 1 .. n + 1
          PROVE  /\ pages[putting'[s].list[i]] = ChunkOf(s, i)
                 /\ putting'[s].list[i] \in DOMAIN cache' => cache'[putting'[s].list[i]].content = ChunkOf(s, i)
      <4>1. CASE i = n + 1
        BY <1>1, <1>3, <3>1, <4>1
      <4>2. CASE i # n + 1
        <5>1. i \in 1 .. n
          BY <1>2, <4>2
        <5>2. /\ pages[putting[s].list[i]] = ChunkOf(s, i)
              /\ putting[s].list[i] \in DOMAIN cache => cache[putting[s].list[i]].content = ChunkOf(s, i)
          BY <2>0, <2>2, <5>1 DEF HasChunks, n
        <5> QED  BY <1>1, <1>3, <5>1, <5>2, SMTT(60)
      <4> QED  BY <4>1, <4>2
    <3>3. HasChunks(s)'
      BY <1>1, <3>2 DEF HasChunks, ChunkOf
    <3> QED  BY <2>1, <2>2, <3>3
  <2>3. CASE t # s
    <3>1. ~Has(t, p)
      <4>1. WorksAt(s, p)
        BY DEF WorksAt, p
      <4> QED  BY <1>0, <2>0, <2>3, <4>1 DEF Alone, p
    <3>2. /\ putting'[t] = putting[t]
          /\ putting[t].at \in {"write", "clear"} => putting[t].page # p
      BY <1>1, <2>3, <3>1 DEF Has
    <3>3. putting[t].at = "write" => putting[t].page \in DOMAIN cache /\ cache'[putting[t].page] = cache[putting[t].page]
      BY <1>3, <2>0, <3>2 DEF HasChunks
    <3>4. NextChunk(t)' = NextChunk(t)
      BY <3>2 DEF NextChunk, ChunkOf
    <3>5. \A q \in DOMAIN cache' : q \in DOMAIN cache /\ cache'[q].content = cache[q].content
      BY <1>3
    <3>6. ASSUME putting[t].at = "write"
          PROVE  /\ putting[t].page \in DOMAIN cache' /\ cache'[putting[t].page].dirty
                 /\ cache'[putting[t].page].content = NextChunk(t)
      BY <1>3, <2>0, <3>3, <3>6 DEF HasChunks
    <3>7. ASSUME putting[t].at = "clear"
          PROVE  /\ pages[putting[t].page] = NextChunk(t)
                 /\ putting[t].page \in DOMAIN cache' => cache'[putting[t].page].content = NextChunk(t)
      BY <2>0, <3>5, <3>7 DEF HasChunks
    <3>8. ASSUME NEW i \in 1 .. Len(putting[t].list)
          PROVE  /\ pages[putting[t].list[i]] = ChunkOf(t, i)
                 /\ putting[t].list[i] \in DOMAIN cache' => cache'[putting[t].list[i]].content = ChunkOf(t, i)
      BY <2>0, <3>5 DEF HasChunks
    <3>9. pages' = pages
      OBVIOUS
    <3> HIDE DEF ClearMark
    <3>10. PICK doing : doing = putting[t]
      OBVIOUS
    <3>11. HasChunks(t)'
      BY <3>2, <3>4, <3>6, <3>7, <3>8, <3>9, <3>10 DEF HasChunks, ChunkOf
    <3> QED  BY <2>1, <3>11
  <2> QED  BY <2>2, <2>3
<1>8. \A t \in DOMAIN directory' : (directory[t] = putting[t].list /\ putting[t].at = "done")'
  BY <1>0, <1>1, EntriesStay
<1>9. \A r \in Lookers : HasRead(r)'
  BY LookersStay
<1> QED  BY <1>4, <1>5, <1>7, <1>8, <1>9 DEF BlobInv

\* put_blob, the entry in the directory.
LEMMA ListBlobStep ==
  ASSUME BlobInv, NEW s \in Storers, ListBlob(s) PROVE BlobInv'
<1> USE BlobAssumption DEF ListBlob
<1>0. /\ BlobTypes /\ CacheOK /\ CacheBounded /\ Moves(s, "list", "done") /\ putting[s].at = "list"
  BY DEF BlobInv, Moves
<1>1. /\ putting' \in [Storers -> [at : Ats, page : Nat, list : Seq(Nat)]]
      /\ putting'[s].at = "done"
      /\ putting'[s].page = putting[s].page /\ putting'[s].list = putting[s].list
      /\ \A t \in Storers : t # s => putting'[t] = putting[t]
  BY <1>0, MoveIs DEF Ats
<1>2. DOMAIN directory' = DOMAIN directory \cup {s}
      /\ \A t \in DOMAIN directory' : directory'[t] = IF t = s THEN putting[s].list ELSE directory[t]
  OBVIOUS
<1>3. BlobTypes' /\ CacheOK' /\ CacheBounded'
  BY <1>0, <1>1, <1>2 DEF BlobTypes, CacheOK, CacheBounded, CachedPages, Contents, Ats
<1>4. (\A t \in Storers : ListOK(t)') /\ (\A t \in Storers \ damaged : Alone(t)')
  BY <1>0, MoveKeeps
<1>5. ASSUME NEW t \in Storers \ damaged' PROVE HasChunks(t)'
  <2>1. HasChunks(t)
    BY DEF BlobInv
  <2>2. CASE t = s
    <3>1. HasChunks(s)
      BY <2>1, <2>2
    <3>2. UNCHANGED <<pages, cache>>
      OBVIOUS
    <3> HIDE DEF ListBlob
    <3>3. HasChunks(s)'
      BY <1>1, <3>1, <3>2 DEF HasChunks, ChunkOf
    <3> QED  BY <2>2, <3>3
  <2>3. CASE t # s
    BY <1>1, <2>1, <2>3 DEF HasChunks, ChunkOf, NextChunk
  <2> QED  BY <2>2, <2>3
<1>6. \A t \in DOMAIN directory' : (directory[t] = putting[t].list /\ putting[t].at = "done")'
  BY <1>0, <1>1, <1>2 DEF BlobInv, BlobTypes
<1>7. \A r \in Lookers : HasRead(r)'
  BY <1>2, LookersStay
<1> QED  BY <1>3, <1>4, <1>5, <1>6, <1>7 DEF BlobInv

\* A blob's pages are pages of the file, each in the list once, and its chunks are
\* where the list says.
LEMMA ListedPage ==
  ASSUME BlobInv, NEW s \in DOMAIN directory, NEW i \in 1 .. ChunksOf[s]
  PROVE  /\ s \in Storers /\ putting[s].list[i] = directory[s][i]
         /\ directory[s][i] \in 1 .. Len(pages) /\ Has(s, directory[s][i])
         /\ \A j \in 1 .. ChunksOf[s] : directory[s][j] = directory[s][i] => j = i
         /\ s \notin damaged =>
              /\ pages[directory[s][i]] = ChunkOf(s, i)
              /\ directory[s][i] \in DOMAIN cache => cache[directory[s][i]].content = ChunkOf(s, i)
<1>1. /\ s \in Storers /\ ListOK(s) /\ directory[s] = putting[s].list /\ putting[s].at = "done"
      /\ putting[s].list \in Seq(Nat)
      /\ s \notin damaged => HasChunks(s)
  BY DEF BlobInv, BlobTypes
<1>2. Len(putting[s].list) = ChunksOf[s] /\ ChunksOf[s] \in Nat
  BY <1>1, BlobAssumption DEF ListOK
<1>3. \A j, k \in 1 .. ChunksOf[s] : j < k => directory[s][j] < directory[s][k]
  BY <1>1, <1>2 DEF ListOK
<1>4. \A j \in 1 .. ChunksOf[s] : directory[s][j] \in Nat
  BY <1>1, <1>2
<1>5. \A j \in 1 .. ChunksOf[s] : directory[s][j] = directory[s][i] => j = i
  <2> SUFFICES ASSUME NEW j \in 1 .. ChunksOf[s], directory[s][j] = directory[s][i], j # i PROVE FALSE
    OBVIOUS
  <2>1. j < i \/ i < j
    BY <1>2
  <2> QED  BY <1>3, <1>4, <2>1
<1> QED  BY <1>1, <1>2, <1>5 DEF HasChunks, Has, Lists, ListOK

\* The page a looker is about to read, and its chunk.
LEMMA NextToRead ==
  ASSUME BlobInv, NEW r \in Lookers, More(r) \/ getting[r].at = "load"
  PROVE  LET b == getting[r].blob
             k == Len(getting[r].got) + 1
         IN /\ b \in DOMAIN directory /\ b \in Storers /\ k \in 1 .. ChunksOf[b]
            /\ PageToRead(r) = directory[b][k]
            /\ getting[r].at = "load" /\ b \notin damaged => getting[r].read = ChunkOf(b, k)
<1>1. HasRead(r) /\ Len(getting[r].got) \in Nat /\ getting[r].blob \in Storers \cup {NoPage}
  BY DEF BlobInv, BlobTypes
<1>2. /\ getting[r].blob \in DOMAIN directory /\ Len(getting[r].got) < ChunksOf[getting[r].blob]
      /\ getting[r].at = "load" /\ getting[r].blob \notin damaged =>
           getting[r].read = ChunkOf(getting[r].blob, Len(getting[r].got) + 1)
  BY <1>1 DEF HasRead, More
<1>3. getting[r].blob \in Storers
  BY <1>2 DEF BlobInv, BlobTypes
<1>4. ChunksOf[getting[r].blob] \in Nat
  BY <1>3, BlobAssumption
<1> QED  BY <1>1, <1>2, <1>3, <1>4 DEF PageToRead

\* One looker reads on: the others have what they had.
LEMMA OthersRead ==
  ASSUME BlobInv, NEW r \in Lookers, directory' = directory, damaged \subseteq damaged',
         \A q \in Lookers : q # r => getting'[q] = getting[q],
         HasRead(r)'
  PROVE  \A q \in Lookers : HasRead(q)'
<1>1. ASSUME NEW q \in Lookers, q # r PROVE HasRead(q)'
  <2>1. HasRead(q) /\ getting'[q] = getting[q]
    BY <1>1 DEF BlobInv
  <2> QED  BY <2>1 DEF HasRead, ChunkOf
<1> QED  BY <1>1

\* A looker takes a chunk.
LEMMA Takes ==
  ASSUME BlobTypes, NEW r \in Lookers, NEW content \in Contents,
         HasRead(r), getting[r].blob # NoPage,
         Len(getting[r].got) < ChunksOf[getting[r].blob],
         getting[r].blob \notin damaged => content = ChunkOf(getting[r].blob, Len(getting[r].got) + 1),
         \/ getting' = [getting EXCEPT ![r].got = Append(@, content)] /\ getting[r].at = "look"
         \/ getting' = [getting EXCEPT ![r].at = "look", ![r].got = Append(@, content)],
         DOMAIN directory \subseteq Storers, directory' = directory, damaged \subseteq damaged'
  PROVE  /\ getting' \in [Lookers -> [at : {"none", "look", "load"}, blob : Storers \cup {NoPage},
                                      got : Seq(Contents), read : Contents]]
         /\ \A q \in Lookers : q # r => getting'[q] = getting[q]
         /\ HasRead(r)'
<1>0. /\ getting \in [Lookers -> [at : {"none", "look", "load"}, blob : Storers \cup {NoPage},
                                  got : Seq(Contents), read : Contents]]
      /\ getting[r].got \in Seq(Contents)
  BY DEF BlobTypes
<1>1. PICK more : more = Append(getting[r].got, content)
  OBVIOUS
<1>2. /\ more \in Seq(Contents) /\ Len(more) = Len(getting[r].got) + 1 /\ Len(getting[r].got) \in Nat
      /\ more[Len(getting[r].got) + 1] = content
      /\ \A i \in 1 .. Len(getting[r].got) : more[i] = getting[r].got[i]
  BY <1>0, <1>1
<1>3. PICK now : now = [getting[r] EXCEPT !.at = "look", !.got = more]
  OBVIOUS
<1>4. /\ now \in [at : {"none", "look", "load"}, blob : Storers \cup {NoPage}, got : Seq(Contents), read : Contents]
      /\ now.at = "look" /\ now.blob = getting[r].blob /\ now.got = more
  <2>1. getting[r] \in [at : {"none", "look", "load"}, blob : Storers \cup {NoPage}, got : Seq(Contents), read : Contents]
    BY <1>0
  <2> QED  BY <1>2, <1>3, <2>1
<1>5. getting'[r] = now /\ \A q \in Lookers : q # r => getting'[q] = getting[q]
  <2>1. CASE getting' = [getting EXCEPT ![r].got = Append(@, content)] /\ getting[r].at = "look"
    BY <1>0, <1>1, <1>3, <2>1
  <2>2. CASE getting' = [getting EXCEPT ![r].at = "look", ![r].got = Append(@, content)]
    BY <1>0, <1>1, <1>3, <2>2
  <2> QED  BY <2>1, <2>2
<1>6. getting' \in [Lookers -> [at : {"none", "look", "load"}, blob : Storers \cup {NoPage},
                                got : Seq(Contents), read : Contents]]
  BY <1>0, <1>4, <1>5
<1>7. ASSUME getting[r].blob \notin damaged', NEW i \in 1 .. Len(more) PROVE more[i] = ChunkOf(getting[r].blob, i)
  <2>1. getting[r].blob \notin damaged
    BY <1>7
  <2>2. CASE i = Len(getting[r].got) + 1
    BY <1>2, <2>1, <2>2
  <2>3. CASE i # Len(getting[r].got) + 1
    BY <1>2, <2>1, <2>3 DEF HasRead
  <2> QED  BY <2>2, <2>3
<1>8. getting[r].blob \in DOMAIN directory /\ getting[r].blob \in Storers /\ ChunksOf[getting[r].blob] \in Nat
  BY BlobAssumption DEF HasRead
<1>9. HasRead(r)'
  BY <1>2, <1>4, <1>5, <1>7, <1>8 DEF HasRead, ChunkOf
<1> QED  BY <1>5, <1>6, <1>9

\* get_blob, a page of the cache.
LEMMA HitStep ==
  ASSUME BlobInv, NEW r \in Lookers, Hit(r) PROVE BlobInv'
<1> USE BlobAssumption DEF Hit
<1> DEFINE p == PageToRead(r)
           b == getting[r].blob
           k == Len(getting[r].got) + 1
<1>0. /\ BlobTypes /\ CacheOK /\ CacheBounded /\ HasRead(r) /\ getting[r].at = "look" /\ b # NoPage
      /\ p \in DOMAIN cache /\ cache[p] \in CachedPages
  BY DEF BlobInv, HasRead, More, CacheOK
<1>1. /\ b \in DOMAIN directory /\ k \in 1 .. ChunksOf[b] /\ p = directory[b][k]
      /\ Len(getting[r].got) < ChunksOf[b]
  BY NextToRead DEF More
<1>2. b \notin damaged => cache[p].content = ChunkOf(b, k)
  <2>1. PICK s \in DOMAIN directory : s = b
    BY <1>1
  <2>2. PICK i \in 1 .. ChunksOf[s] : i = k
    BY <1>1, <2>1
  <2>3. s \notin damaged /\ directory[s][i] \in DOMAIN cache => cache[directory[s][i]].content = ChunkOf(s, i)
    BY ListedPage
  <2> QED  BY <1>0, <1>1, <2>1, <2>2, <2>3
<1>3. /\ DOMAIN cache' = DOMAIN cache
      /\ seq' = seq + 1
      /\ \A q \in DOMAIN cache : /\ cache'[q] \in CachedPages /\ cache'[q].content = cache[q].content
                                 /\ cache'[q].dirty = cache[q].dirty /\ cache'[q].seq <= seq'
  <2>1. DOMAIN cache' = DOMAIN cache /\ seq' = seq + 1 /\ seq \in Nat
    BY <1>0 DEF BlobTypes
  <2>2. ASSUME NEW q \in DOMAIN cache
        PROVE  /\ cache'[q] \in CachedPages /\ cache'[q].content = cache[q].content
               /\ cache'[q].dirty = cache[q].dirty /\ cache'[q].seq <= seq'
    <3>1. cache[q] \in CachedPages /\ cache[q].seq <= seq /\ cache[q].seq \in Nat
      BY <1>0 DEF CacheOK, CachedPages
    <3>2. CASE q = p
      <4>1. PICK page : page = [cache[p] EXCEPT !.seq = seq + 1, !.protected = TRUE]
        OBVIOUS
      <4>2. cache'[p] = page
        BY <1>0, <4>1
      <4>3. /\ page \in CachedPages /\ page.content = cache[p].content /\ page.dirty = cache[p].dirty
            /\ page.seq = seq + 1
        BY <1>0, <2>1, <4>1 DEF CachedPages
      <4> QED  BY <2>1, <3>2, <4>2, <4>3
    <3>3. CASE q # p
      <4>1. cache'[q] = cache[q]
        BY <3>3
      <4> QED  BY <2>1, <3>1, <4>1
    <3> QED  BY <3>2, <3>3
  <2> QED  BY <2>1, <2>2
<1>4. /\ getting' \in [Lookers -> [at : {"none", "look", "load"}, blob : Storers \cup {NoPage},
                                   got : Seq(Contents), read : Contents]]
      /\ \A q \in Lookers : q # r => getting'[q] = getting[q]
      /\ HasRead(r)'
  <2>1. PICK content : content = cache[p].content
    OBVIOUS
  <2>2. content \in Contents
    BY <1>0, <2>1 DEF CachedPages
  <2>3. getting' = [getting EXCEPT ![r].got = Append(@, content)]
    BY <2>1
  <2> QED  BY <1>0, <1>1, <1>2, <2>1, <2>2, <2>3, Takes DEF BlobTypes
<1> HIDE DEF p, b, k
<1>5. BlobTypes' /\ CacheOK' /\ CacheBounded'
  <2>1. BlobTypes'
    <3>1. Contents' = Contents /\ Ats' = Ats
      BY DEF Contents, Ats
    <3>2. /\ pages' \in Seq(Contents) /\ DOMAIN directory' \subseteq Storers /\ damaged' \subseteq Storers
          /\ putting' \in [Storers -> [at : Ats, page : Nat, list : Seq(Nat)]]
          /\ seq' \in Nat
      BY <1>0, <1>3 DEF BlobTypes
    <3> HIDE DEF Hit
    <3> QED  BY <1>4, <3>1, <3>2 DEF BlobTypes
  <2>2. CachedPages' = CachedPages /\ pages' = pages
    BY DEF CachedPages, Contents
  <2>3. CacheOK'
    BY <1>0, <1>3, <2>2 DEF CacheOK
  <2> QED  BY <1>0, <1>3, <2>1, <2>3 DEF CacheBounded
<1>6. \A t \in Storers : ListOK(t)'
  BY StorerStays DEF BlobInv, BlobTypes
<1>7. ASSUME NEW t \in Storers \ damaged' PROVE Alone(t)' /\ HasChunks(t)'
  <2>1. Alone(t) /\ HasChunks(t)
    BY DEF BlobInv
  <2>2. Alone(t)'
    BY <2>1 DEF Alone, Has, WorksAt, Lists
  <2>3. HasChunks(t)'
    BY <1>3, <2>1 DEF HasChunks, ChunkOf, NextChunk
  <2> QED  BY <2>2, <2>3
<1>8. \A t \in DOMAIN directory' : (directory[t] = putting[t].list /\ putting[t].at = "done")'
  BY DEF BlobInv
<1>9. \A q \in Lookers : HasRead(q)'
  BY <1>4, OthersRead
<1> QED  BY <1>5, <1>6, <1>7, <1>8, <1>9 DEF BlobInv

\* get_blob, a page of the file put into the cache.
LEMMA CacheReadStep ==
  ASSUME BlobInv, NEW r \in Lookers, CacheRead(r) PROVE BlobInv'
<1> USE BlobAssumption DEF CacheRead
<1> DEFINE p == PageToRead(r)
           b == getting[r].blob
           k == Len(getting[r].got) + 1
<1>0. /\ BlobTypes /\ CacheOK /\ CacheBounded /\ HasRead(r) /\ getting[r].at = "load" /\ b # NoPage
      /\ pages \in Seq(Contents) /\ seq \in Nat /\ getting[r].read \in Contents
      /\ Len(getting[r].got) < ChunksOf[b]
  BY DEF BlobInv, BlobTypes, HasRead
<1>1. /\ b \in DOMAIN directory /\ b \in Storers /\ k \in 1 .. ChunksOf[b] /\ p = directory[b][k]
      /\ b \notin damaged => getting[r].read = ChunkOf(b, k)
  BY NextToRead
<1>2. /\ p \in 1 .. Len(pages) /\ Has(b, p)
      /\ \A j \in 1 .. ChunksOf[b] : directory[b][j] = p => j = k
  <2>1. PICK s \in DOMAIN directory : s = b
    BY <1>1
  <2>2. PICK i \in 1 .. ChunksOf[s] : i = k
    BY <1>1, <2>1
  <2>3. /\ directory[s][i] \in 1 .. Len(pages) /\ Has(s, directory[s][i])
        /\ \A j \in 1 .. ChunksOf[s] : directory[s][j] = directory[s][i] => j = i
    BY ListedPage
  <2> QED  BY <1>1, <2>1, <2>2, <2>3
<1>3. /\ CacheOK' /\ CacheBounded' /\ seq' \in Nat
      /\ p \in DOMAIN cache' /\ cache'[p].content = getting[r].read
      /\ \A q \in DOMAIN cache' : q # p => q \in DOMAIN cache /\ cache'[q] = cache[q]
  BY <1>0, <1>2, InsertIs
<1>4. /\ getting' \in [Lookers -> [at : {"none", "look", "load"}, blob : Storers \cup {NoPage},
                                   got : Seq(Contents), read : Contents]]
      /\ \A q \in Lookers : q # r => getting'[q] = getting[q]
      /\ HasRead(r)'
  <2>1. PICK content \in Contents : content = getting[r].read
    BY <1>0
  <2>2. getting' = [getting EXCEPT ![r].at = "look", ![r].got = Append(@, content)]
    BY <2>1
  <2>3. damaged \subseteq damaged' /\ DOMAIN directory \subseteq Storers
    BY <1>0 DEF BlobTypes
  <2> QED  BY <1>0, <1>1, <2>1, <2>2, <2>3, Takes
<1> HIDE DEF p, b, k
<1>5. BlobTypes'
  <2>1. damaged' \subseteq Storers /\ UNCHANGED <<pages, putting, directory>>
    BY <1>0 DEF BlobTypes, Unwritten
  <2> HIDE DEF CacheRead
  <2>2. Contents' = Contents /\ Ats' = Ats
    BY DEF Contents, Ats
  <2>3. /\ pages' \in Seq(Contents) /\ DOMAIN directory' \subseteq Storers
        /\ putting' \in [Storers -> [at : Ats, page : Nat, list : Seq(Nat)]]
    BY <1>0, <2>1 DEF BlobTypes
  <2> QED  BY <1>3, <1>4, <2>1, <2>2, <2>3 DEF BlobTypes
<1>6. \A t \in Storers : ListOK(t)'
  BY StorerStays DEF BlobInv, BlobTypes
<1>7. ASSUME NEW t \in Storers \ damaged' PROVE Alone(t)' /\ HasChunks(t)'
  <2>0. Alone(t) /\ HasChunks(t) /\ t \in Storers /\ t \notin damaged
    BY DEF BlobInv
  <2>1. Alone(t)'
    BY <2>0 DEF Alone, Has, WorksAt, Lists
  <2>2. CASE t = b
    <3>1. putting[b].at = "done" /\ putting[b].list = directory[b] /\ Len(putting[b].list) = ChunksOf[b]
      BY <1>1 DEF BlobInv, ListOK
    <3>2. ASSUME NEW i \in 1 .. Len(putting[b].list)
          PROVE  /\ pages[putting[b].list[i]] = ChunkOf(b, i)
                 /\ putting[b].list[i] \in DOMAIN cache' => cache'[putting[b].list[i]].content = ChunkOf(b, i)
      <4>1. CASE putting[b].list[i] = p
        <5>1. i = k
          BY <1>2, <3>1, <4>1
        <5> QED  BY <1>1, <1>3, <2>0, <2>2, <4>1, <5>1 DEF HasChunks
      <4>2. CASE putting[b].list[i] # p
        BY <1>3, <2>0, <2>2, <4>2 DEF HasChunks
      <4> QED  BY <4>1, <4>2
    <3>3. UNCHANGED <<pages, putting>>
      OBVIOUS
    <3> HIDE DEF CacheRead
    <3>4. HasChunks(t)'
      BY <2>2, <3>1, <3>2, <3>3 DEF HasChunks, ChunkOf
    <3> QED  BY <2>1, <3>4
  <2>3. CASE t # b
    <3>1. WorksAt(b, p)
      <4>1. putting[b].at = "done"
        BY <1>1 DEF BlobInv
      <4> QED  BY <1>2, <4>1 DEF Has, WorksAt
    <3>2. ~Has(t, p)
      BY <1>1, <1>2, <2>0, <2>3, <3>1 DEF Alone
    <3>3. HasChunks(t)'
      <4>1. InsertPage(p, getting[r].read, FALSE) /\ damaged' = damaged \cup Unwritten(p)
        BY DEF p
      <4> QED  BY <1>0, <1>2, <3>2, <4>1, InsertKeeps
    <3> QED  BY <2>1, <3>3
  <2> QED  BY <2>2, <2>3
<1>8. \A t \in DOMAIN directory' : (directory[t] = putting[t].list /\ putting[t].at = "done")'
  BY DEF BlobInv
<1>9. \A q \in Lookers : HasRead(q)'
  BY <1>4, OthersRead
<1> QED  BY <1>3, <1>5, <1>6, <1>7, <1>8, <1>9 DEF BlobInv

\* Storers that do nothing while the file and the cache stay.
LEMMA StoresStay ==
  ASSUME BlobInv, UNCHANGED <<pages, cache, putting>>
  PROVE  (\A t \in Storers : ListOK(t)') /\ (\A t \in Storers \ damaged : Alone(t)' /\ HasChunks(t)')
<1>1. ASSUME NEW t \in Storers PROVE ListOK(t)' /\ (t \notin damaged => Alone(t)' /\ HasChunks(t)')
  <2>1. ListOK(t) /\ (t \notin damaged => Alone(t) /\ HasChunks(t))
    BY DEF BlobInv
  <2>2. ListOK(t)'
    BY <2>1 DEF ListOK
  <2>3. t \notin damaged => Alone(t)'
    BY <2>1 DEF Alone, Has, WorksAt, Lists
  <2>4. t \notin damaged => HasChunks(t)'
    BY <2>1 DEF HasChunks, NextChunk, ChunkOf
  <2> QED  BY <2>2, <2>3, <2>4
<1> QED  BY <1>1

\* Steps of a looker that touch neither the file nor the cache.
LEMMA LookStays ==
  ASSUME BlobInv, UNCHANGED <<pages, cache, seq, putting, directory, damaged>>, NEW r \in Lookers,
         getting' \in [Lookers -> [at : {"none", "look", "load"}, blob : Storers \cup {NoPage},
                                   got : Seq(Contents), read : Contents]],
         \A q \in Lookers : q # r => getting'[q] = getting[q],
         HasRead(r)'
  PROVE  BlobInv'
<1>1. BlobTypes' /\ CacheOK' /\ CacheBounded'
  BY DEF BlobInv, BlobTypes, CacheOK, CacheBounded, CachedPages, Contents, Ats
<1>2. (\A t \in Storers : ListOK(t)') /\ (\A t \in Storers \ damaged : Alone(t)' /\ HasChunks(t)')
  BY StoresStay
<1>3. \A t \in DOMAIN directory' : (directory[t] = putting[t].list /\ putting[t].at = "done")'
  BY DEF BlobInv
<1>4. \A q \in Lookers : HasRead(q)'
  BY OthersRead
<1> QED  BY <1>1, <1>2, <1>3, <1>4 DEF BlobInv

\* get_blob from its call, a miss that reads the file, and its end.
LEMMA LookStep ==
  ASSUME BlobInv, NEW r \in Lookers, Miss(r) \/ GotBlob(r) \/ (\E s \in Storers : GetBlob(r, s))
  PROVE  BlobInv'
<1> USE BlobAssumption
<1>0. /\ BlobTypes /\ HasRead(r) /\ pages \in Seq(Contents)
      /\ getting \in [Lookers -> [at : {"none", "look", "load"}, blob : Storers \cup {NoPage},
                                  got : Seq(Contents), read : Contents]]
  BY DEF BlobInv, BlobTypes
<1>1. CASE Miss(r)
  <2> USE <1>1 DEF Miss
  <2>1. PICK content : content = pages[PageToRead(r)]
    OBVIOUS
  <2>2. LET b == getting[r].blob IN
          /\ b \in DOMAIN directory /\ b \in Storers /\ getting[r].at = "look"
          /\ Len(getting[r].got) + 1 \in 1 .. ChunksOf[b]
          /\ Len(getting[r].got) < ChunksOf[b]
          /\ PageToRead(r) = directory[b][Len(getting[r].got) + 1]
    BY NextToRead DEF More
  <2>3. /\ content \in Contents
        /\ getting[r].blob \notin damaged => content = ChunkOf(getting[r].blob, Len(getting[r].got) + 1)
    BY <1>0, <2>1, <2>2, ListedPage
  <2>4. PICK now : now = [getting[r] EXCEPT !.at = "load", !.read = content]
    OBVIOUS
  <2>5. /\ now \in [at : {"none", "look", "load"}, blob : Storers \cup {NoPage}, got : Seq(Contents), read : Contents]
        /\ now.at = "load" /\ now.blob = getting[r].blob /\ now.got = getting[r].got /\ now.read = content
    <3>1. getting[r] \in [at : {"none", "look", "load"}, blob : Storers \cup {NoPage}, got : Seq(Contents), read : Contents]
      BY <1>0
    <3> QED  BY <2>3, <2>4, <3>1
  <2>6. getting'[r] = now /\ \A q \in Lookers : q # r => getting'[q] = getting[q]
    BY <1>0, <2>1, <2>4
  <2>7. getting' \in [Lookers -> [at : {"none", "look", "load"}, blob : Storers \cup {NoPage},
                                  got : Seq(Contents), read : Contents]]
    BY <1>0, <2>5, <2>6
  <2>8. HasRead(r)'
    BY <1>0, <2>2, <2>3, <2>5, <2>6 DEF HasRead, ChunkOf
  <2> QED  BY <2>6, <2>7, <2>8, LookStays
<1>2. CASE GotBlob(r)
  <2> USE <1>2 DEF GotBlob
  <2>1. /\ getting' \in [Lookers -> [at : {"none", "look", "load"}, blob : Storers \cup {NoPage},
                                     got : Seq(Contents), read : Contents]]
        /\ \A q \in Lookers : q # r => getting'[q] = getting[q]
        /\ getting'[r].at = "none" /\ getting'[r].blob = getting[r].blob /\ getting'[r].got = getting[r].got
    BY <1>0
  <2>2. HasRead(r)'
    BY <1>0, <2>1 DEF HasRead, ChunkOf
  <2> QED  BY <2>1, <2>2, LookStays
<1>3. ASSUME NEW s \in Storers, GetBlob(r, s) PROVE BlobInv'
  <2> USE <1>3 DEF GetBlob
  <2>1. PICK now : now = [at |-> "look", blob |-> s, got |-> <<>>, read |-> Zeroes]
    OBVIOUS
  <2>2. now \in [at : {"none", "look", "load"}, blob : Storers \cup {NoPage}, got : Seq(Contents), read : Contents]
        /\ now.at = "look" /\ now.blob = s /\ now.got = <<>>
    BY <2>1 DEF Contents
  <2>3. getting' = [getting EXCEPT ![r] = now]
    BY <2>1
  <2>4. /\ getting' \in [Lookers -> [at : {"none", "look", "load"}, blob : Storers \cup {NoPage},
                                     got : Seq(Contents), read : Contents]]
        /\ getting'[r] = now /\ \A q \in Lookers : q # r => getting'[q] = getting[q]
    BY <1>0, <2>2, <2>3
  <2>5. HasRead(r)'
    BY <2>2, <2>4 DEF HasRead, NoPage
  <2> QED  BY <2>4, <2>5, LookStays
<1> QED  BY <1>1, <1>2, <1>3

LEMMA BlobStep == BlobInv /\ [BlobNext]_blobVars => BlobInv'
<1> SUFFICES ASSUME BlobInv, [BlobNext]_blobVars PROVE BlobInv'
  OBVIOUS
<1>1. ASSUME NEW s \in Storers, CacheNew(s) PROVE BlobInv'
  <2>1. Zeroes \in Contents
    BY DEF Contents
  <2> QED  BY <1>1, <2>1, CachesStep DEF CacheNew
<1>2. ASSUME NEW s \in Storers, PutPage(s) PROVE BlobInv'
  <2>1. ListOK(s) /\ putting[s].at = "put" /\ putting[s].list \in Seq(Nat) /\ ChunksOf[s] \in Nat
    BY <1>2, BlobAssumption DEF BlobInv, BlobTypes, PutPage, Moves
  <2>2. Len(putting[s].list) + 1 \in 1 .. ChunksOf[s]
    BY <2>1 DEF ListOK
  <2>3. NextChunk(s) \in Contents
    BY <2>2, ChunksAre DEF NextChunk
  <2> QED  BY <1>2, <2>3, CachesStep DEF PutPage
<1>3. CASE UNCHANGED blobVars
  <2>0. UNCHANGED <<pages, cache, seq, putting, directory, getting, damaged>>
    BY <1>3 DEF blobVars
  <2>1. BlobTypes' /\ CacheOK' /\ CacheBounded'
    BY <2>0 DEF BlobInv, BlobTypes, CacheOK, CacheBounded, CachedPages, Contents, Ats
  <2>2. (\A t \in Storers : ListOK(t)') /\ (\A t \in Storers \ damaged : Alone(t)' /\ HasChunks(t)')
    BY <2>0, StoresStay
  <2>3. \A t \in DOMAIN directory' : (directory[t] = putting[t].list /\ putting[t].at = "done")'
    BY <2>0 DEF BlobInv
  <2>4. \A q \in Lookers : HasRead(q)'
    BY <2>0, LookersStay
  <2> QED  BY <2>0, <2>1, <2>2, <2>3, <2>4 DEF BlobInv
<1> QED
  BY <1>1, <1>2, <1>3, SizeOfFileStep, ExtendStep, WritePageStep, ClearMarkStep, ListBlobStep,
     HitStep, CacheReadStep, LookStep DEF BlobNext

\* The invariant says of every blob what the run checks.
LEMMA BlobInvEnough == BlobInv => BlobsSound
<1> SUFFICES ASSUME BlobInv PROVE BlobsSound
  OBVIOUS
<1>1. BlobTypeOK
  BY DEF BlobInv, BlobTypes, CacheOK, CachedPages, BlobTypeOK, Ats
<1>2. ASSUME NEW s \in DOMAIN directory \ damaged, NEW i \in 1 .. ChunksOf[s]
      PROVE  /\ pages[directory[s][i]] = ChunkOf(s, i)
             /\ directory[s][i] \in DOMAIN cache => cache[directory[s][i]].content = ChunkOf(s, i)
  BY ListedPage
<1>3. ASSUME NEW r \in Lookers, getting[r].blob \notin damaged \cup {NoPage}
      PROVE  getting[r].got = SubSeq(Blob(getting[r].blob), 1, Len(getting[r].got))
  <2> DEFINE b == getting[r].blob
             got == getting[r].got
  <2>1. /\ HasRead(r) /\ got \in Seq(Contents) /\ b \in Storers
    BY <1>3 DEF BlobInv, BlobTypes
  <2>2. /\ Len(got) \in Nat /\ Len(got) <= ChunksOf[b] /\ ChunksOf[b] \in Nat
        /\ \A k \in 1 .. Len(got) : got[k] = ChunkOf(b, k)
    BY <1>3, <2>1, BlobAssumption DEF HasRead
  <2>3. /\ Blob(b) \in Seq(Contents) /\ Len(Blob(b)) = ChunksOf[b]
        /\ \A k \in 1 .. ChunksOf[b] : Blob(b)[k] = ChunkOf(b, k)
    <3>1. \A k \in 1 .. ChunksOf[b] : ChunkOf(b, k) \in Contents
      BY <2>1, ChunksAre
    <3>2. Blob(b) \in [1 .. ChunksOf[b] -> Contents]
      BY <3>1 DEF Blob
    <3> QED  BY <2>2, <3>2 DEF Blob
  <2> HIDE DEF b, got
  <2>4. /\ SubSeq(Blob(b), 1, Len(got)) \in Seq(Contents) /\ Len(SubSeq(Blob(b), 1, Len(got))) = Len(got)
        /\ \A k \in 1 .. Len(got) : SubSeq(Blob(b), 1, Len(got))[k] = Blob(b)[k]
    <3>1. PICK whole \in Seq(Contents) : whole = Blob(b)
      BY <2>3
    <3>2. PICK n \in Nat : n = Len(got)
      BY <2>2
    <3>3. n <= Len(whole)
      BY <2>2, <2>3, <3>1, <3>2
    <3>4. /\ SubSeq(whole, 1, n) \in Seq(Contents) /\ Len(SubSeq(whole, 1, n)) = n
          /\ \A k \in 1 .. n : SubSeq(whole, 1, n)[k] = whole[k]
      BY <3>3
    <3> QED  BY <3>1, <3>2, <3>4
  <2>5. ASSUME NEW k \in 1 .. Len(got) PROVE got[k] = SubSeq(Blob(b), 1, Len(got))[k]
    BY <2>2, <2>3, <2>4
  <2>6. got = SubSeq(Blob(b), 1, Len(got))
    BY <2>1, <2>4, <2>5, SeqEqual DEF b, got
  <2> QED  BY <2>6 DEF b, got
<1> QED  BY <1>1, <1>2, <1>3 DEF BlobInv, BlobsSound, BlobsReadBack

\* BlobManager and BufferPool: however many threads store and read, a listed blob is in
\* the file chunk by chunk and read as it was stored, unless another thread was given
\* one of its pages or one was evicted unwritten; the cache never exceeds its capacity.
THEOREM BlobsReadAsStored == BlobSpec => []BlobsSound
<1> QED  BY BlobInitHolds, BlobStep, BlobInvEnough, PTL DEF BlobSpec
=============================================================================
