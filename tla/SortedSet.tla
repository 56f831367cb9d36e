----------------------------- MODULE SortedSet -----------------------------
(***************************************************************************)
(* SortedSet (packages/queueovn/src/stores/SortedSet.ts): scores per key,  *)
(* the sorted array that reads build and writes must throw away, award with*)
(* its rank, the snapshot.                                                 *)
(***************************************************************************)
EXTENDS Integers, FiniteSets, Sequences, SequencesExt

CONSTANTS
  Boards,      \* keys
  MembersOf(_), \* members of a key, in the order of localeCompare
  MaxScore     \* bound: scores

VARIABLES
  scores,  \* per key: member -> score
  sorted,  \* sortedCache: per key the sorted array, or None
  saved    \* the snapshot

zVars == <<scores, sorted, saved>>

None == "none"
NoScores == <<>>

ZTypeOK ==
  \A b \in Boards : /\ DOMAIN scores[b] \subseteq ToSet(MembersOf(b))
                    /\ \A m \in DOMAIN scores[b] : scores[b][m] \in 0 .. MaxScore

ZInit ==
  /\ scores = [b \in Boards |-> NoScores]
  /\ sorted = [b \in Boards |-> None]
  /\ saved = scores

\* m comes before n: by score, then by name.
Before(b, m, n) ==
  \/ scores[b][m] < scores[b][n]
  \/ /\ scores[b][m] = scores[b][n]
     /\ SelectSeq(MembersOf(b), LAMBDA x : x \in {m, n}) = <<m, n>>

\* _sorted
Sorted(b) ==
  IF sorted[b] # None THEN sorted[b]
  ELSE SetToSortSeq(DOMAIN scores[b], LAMBDA m, n : Before(b, m, n))

Written(b, m, s) ==
  scores' = [scores EXCEPT ![b] = [x \in DOMAIN @ \cup {m} |-> IF x = m THEN s ELSE @[x]]]

Score(b, m) == IF m \in DOMAIN scores[b] THEN scores[b][m] ELSE 0

\* zadd
Zadd(b, m, s) ==
  /\ Written(b, m, s)
  /\ sorted' = [sorted EXCEPT ![b] = None]
  /\ UNCHANGED saved

\* zincrby, the write of award.
Zincrby(b, m, by) ==
  /\ Written(b, m, Score(b, m) + by)
  /\ sorted' = [sorted EXCEPT ![b] = None]
  /\ UNCHANGED saved

Award(b, m, by) ==
  /\ Score(b, m) + by <= MaxScore
  /\ Zincrby(b, m, by)

\* zrem, for a member that is there.
Zrem(b, m) ==
  /\ m \in DOMAIN scores[b]
  /\ scores' = [scores EXCEPT ![b] = Restrict(@, DOMAIN @ \ {m})]
  /\ sorted' = [sorted EXCEPT ![b] = None]
  /\ UNCHANGED saved

\* del and resetLeaderboard.
Zdel(b) ==
  /\ scores' = [scores EXCEPT ![b] = NoScores]
  /\ sorted' = [sorted EXCEPT ![b] = None]
  /\ UNCHANGED saved

\* Any read that sorts; a key that is not there is not cached.
Read(b) ==
  /\ scores[b] # NoScores
  /\ sorted' = [sorted EXCEPT ![b] = Sorted(b)]
  /\ UNCHANGED <<scores, saved>>

Save == saved' = scores /\ UNCHANGED <<scores, sorted>>

Reload ==
  /\ scores' = saved
  /\ sorted' = [b \in Boards |-> None]
  /\ UNCHANGED saved

ZNext ==
  \/ \E b \in Boards, s \in 0 .. MaxScore : \E m \in ToSet(MembersOf(b)) : Zadd(b, m, s)
  \/ \E b \in Boards : \E m \in ToSet(MembersOf(b)) : Award(b, m, 1)
  \/ \E b \in Boards : \E m \in ToSet(MembersOf(b)) : Zrem(b, m)
  \/ \E b \in Boards : Zdel(b)
  \/ \E b \in Boards : Read(b)
  \/ Save
  \/ Reload

\* zcard
Zcard(b) == Cardinality(DOMAIN scores[b])

\* slice(s, e + 1) of an array: an end below 0 counts from the back once more.
Slice(seq, start, stop) ==
  LET len == Len(seq)
      s == IF start < 0 THEN (IF len + start > 0 THEN len + start ELSE 0) ELSE start
      e == IF stop < 0 THEN len + stop ELSE IF stop < len - 1 THEN stop ELSE len - 1
  IN SubSeq(seq, s + 1, IF e + 1 < 0 THEN len + e + 1 ELSE e + 1)

\* zrange, by ascending score.
Zrange(b, start, stop) == Slice(Sorted(b), start, stop)

\* zrevrange, by descending score.
Zrevrange(b, start, stop) == Slice(Reverse(Sorted(b)), start, stop)

\* zrangebyscore
ZrangeByScore(b, min, max) ==
  SelectSeq(Sorted(b), LAMBDA m : scores[b][m] >= min /\ scores[b][m] <= max)

\* leaderboard; the rank is the place.
Leaderboard(b, limit) == Zrevrange(b, 0, limit - 1)

\* The boards that have a member, and its score over them.
GroupsOf(m) == {b \in Boards : m \in DOMAIN scores[b]}
Total(m) == FoldSet(LAMBDA b, sum : sum + scores[b][m], 0, GroupsOf(m))

\* globalLeaderboard: by descending total, then by name, as in the list all.
GlobalLeaderboard(all, limit) ==
  LET entries == SelectSeq(all, LAMBDA m : GroupsOf(m) # {})
      place(m) == CHOOSE i \in DOMAIN all : all[i] = m
      sums == SetToSortSeq(ToSet(entries),
                LAMBDA m, n : Total(m) > Total(n) \/ (Total(m) = Total(n) /\ place(m) < place(n)))
  IN SubSeq(sums, 1, IF limit < Len(sums) THEN limit ELSE Len(sums))

\* zrevrank + 1, the rank that award reports.
Rank(b, m) ==
  LET at == CHOOSE i \in DOMAIN Sorted(b) : Sorted(b)[i] = m
  IN Len(Sorted(b)) - at + 1

\* The rank a member is told is one more than the number of members that are
\* ahead of it now, whichever reads filled the cache before the last write.
RanksAreFresh ==
  \A b \in Boards :
    /\ ToSet(Sorted(b)) = DOMAIN scores[b]
    /\ \A m \in DOMAIN scores[b] :
         Rank(b, m) = 1 + Cardinality({n \in DOMAIN scores[b] : Before(b, m, n)})

\* The lists agree with the ranks: the leaderboard has at each place the member
\* whom award tells this rank, up to its limit, zrange is it backwards, a range by
\* scores has just the members with such scores.  The global leaderboard has
\* everyone who is on a board, nobody behind one with less, and no points are lost
\* or counted twice on the way.
ListsAreTheRanks ==
  /\ \A b \in Boards :
       LET card == Zcard(b) IN
       /\ \A limit \in 1 .. card, i \in 1 .. card :
            LET top == Leaderboard(b, limit) IN
            /\ Len(top) = limit
            /\ i <= limit => Rank(b, top[i]) = i /\ Zrange(b, -i, -i) = <<top[i]>>
       /\ Zrange(b, 0, -1) = Sorted(b)
       /\ \A min, max \in 0 .. MaxScore :
            ToSet(ZrangeByScore(b, min, max)) =
              {m \in DOMAIN scores[b] : scores[b][m] \in min .. max}
  /\ LET all == MembersOf(CHOOSE b \in Boards : \A c \in Boards : ToSet(MembersOf(c)) \subseteq ToSet(MembersOf(b)))
         global == GlobalLeaderboard(all, Len(all))
     IN /\ ToSet(global) = UNION {DOMAIN scores[b] : b \in Boards} /\ IsInjective(global)
        /\ \A i, j \in DOMAIN global : i < j => Total(global[i]) >= Total(global[j])
        /\ FoldSet(LAMBDA m, sum : sum + Total(m), 0, ToSet(all)) =
             FoldSet(LAMBDA b, sum : sum + FoldSet(LAMBDA m, part : part + scores[b][m], 0,
                                                   DOMAIN scores[b]), 0, Boards)
        /\ GlobalLeaderboard(all, 1) = SubSeq(global, 1, IF global = <<>> THEN 0 ELSE 1)
=============================================================================
