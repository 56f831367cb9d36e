---------------------------- MODULE QueueProofs -----------------------------
(***************************************************************************)
(* Theorems about the parts of the queue around its process loop: the      *)
(* schedules, the documents and rows under the adapters, the plugins at the*)
(* door, batches on their way in, and what watches jobs from outside.  They*)
(* hold for any number of jobs, process loops, schedules and calls and for *)
(* any limits.                                                             *)
(***************************************************************************)
EXTENDS Cron, OvnStore, StoredJobs, Admission, JobBatches, JobWatch,
        FiniteSetTheorems, NaturalsInduction, TLAPS

LEMMA LeastOf ==
  ASSUME NEW ns \in SUBSET Nat, ns # {}
  PROVE  \E m \in ns : \A n \in ns : m <= n
<1> DEFINE less == OpToRel(<, Nat)
<1>1. IsWellFoundedOn(less, Nat)
  BY NatLessThanWellFounded
<1>2. \A m, n \in Nat : m < n => <<m, n>> \in less
  BY DEF OpToRel
<1> HIDE DEF less
<1>3. PICK m \in ns : \A n \in ns : ~ (<<n, m>> \in less)
  BY <1>1, WFMin
<1>4. ASSUME NEW n \in ns PROVE m <= n
  <2>1. m \in Nat /\ n \in Nat /\ ~(n < m)
    BY <1>2, <1>3
  <2> QED  BY <2>1
<1> QED  BY <1>3, <1>4

-----------------------------------------------------------------------------
(***************************************************************************)
(* When a schedule runs, for any expressions, calendar and gaps between ticks. *)
(***************************************************************************)

\* The next run is always what the expression gives from the last one, and a tick that
\* ran was for the date that was due.
TimesInv ==
  /\ expression \in CronExpressions
  /\ startedAt \in 0 .. MinuteLength - 1
  /\ wallClock \in 0 .. MaxMoments /\ heldUp \in BOOLEAN
  /\ lastRun.at \in startedAt .. wallClock /\ runBefore \in startedAt .. lastRun.at
  /\ nextRunAt = ParseCron(expression, lastRun.at) /\ nextRunAt # NoDate
  /\ marked \in BOOLEAN /\ (expression.kind = "every" => ~marked)
  /\ marked \/ nextRunAt > wallClock \/ (nextRunAt = lastRun.at /\ wallClock = lastRun.at)
  /\ lastRun.by = "tick" =>
       IF expression.kind = "every" THEN lastRun.at - runBefore >= expression.length
       ELSE /\ \E m \in DueMinutes : m > MinuteOf(runBefore) /\ m <= MinuteOf(lastRun.at)
            /\ ~heldUp => MinuteOf(lastRun.at) \in DueMinutes

LEMMA Products ==
  ASSUME NEW l \in Nat \ {0}, NEW m \in Nat, NEW n \in Nat
  PROVE  /\ l * m \in Nat /\ l * m = m * l
         /\ l * (m + 1) = l * m + l
         /\ m <= n => l * m <= l * n
         /\ m < n => l * m + l <= l * n
         /\ l * m < l * n => m < n
<1>1. l * m \in Nat /\ l * m = m * l
  OBVIOUS
<1>2. l * (m + 1) = l * m + l
  OBVIOUS
<1>3. ASSUME NEW k \in Nat, NEW i \in Nat, k <= i PROVE l * k <= l * i
  <2>1. PICK d \in Nat : i = k + d
    <3>1. i - k \in Nat /\ i = k + (i - k)
      BY <1>3
    <3> QED  BY <3>1
  <2>2. l * i = l * k + l * d
    BY <2>1
  <2>3. l * d \in Nat /\ l * k \in Nat
    OBVIOUS
  <2> QED  BY <2>2, <2>3
<1>4. m < n => l * m + l <= l * n
  <2>1. m < n => m + 1 <= n
    OBVIOUS
  <2> QED  BY <1>2, <1>3, <2>1
<1>5. l * m < l * n => m < n
  <2>1. n <= m => l * n <= l * m
    BY <1>3
  <2>2. l * n \in Nat
    OBVIOUS
  <2> QED  BY <1>1, <2>1, <2>2
<1> QED  BY <1>1, <1>2, <1>3, <1>4, <1>5

\* The minute a moment is in.
LEMMA MinuteIs ==
  ASSUME NEW t \in Nat
  PROVE  /\ MinuteOf(t) \in Nat
         /\ MinuteLength * MinuteOf(t) <= t /\ t < MinuteLength * MinuteOf(t) + MinuteLength
<1>1. MinuteLength \in Nat \ {0}
  BY CronTimesAssumption
<1> QED  BY <1>1 DEF MinuteOf

LEMMA MinuteAtLeast ==
  ASSUME NEW t \in Nat, NEW m \in Nat
  PROVE  /\ MinuteLength * m <= t <=> m <= MinuteOf(t)
         /\ MinuteLength * m \in Nat
<1>1. MinuteLength \in Nat \ {0} /\ MinuteOf(t) \in Nat
  BY CronTimesAssumption, MinuteIs
<1> DEFINE k == MinuteOf(t)
<1>2. MinuteLength * k <= t /\ t < MinuteLength * k + MinuteLength
  BY MinuteIs
<1> HIDE DEF k
<1>3. k \in Nat /\ k = MinuteOf(t)
  BY <1>1 DEF k
<1>4. /\ m <= k => MinuteLength * m <= MinuteLength * k
      /\ k < m => MinuteLength * k + MinuteLength <= MinuteLength * m
      /\ MinuteLength * m \in Nat /\ MinuteLength * k \in Nat
  BY <1>1, <1>3, Products
<1> QED  BY <1>1, <1>2, <1>3, <1>4

\* What parseCron returns of a cron expression: the first minute that matches.
LEMMA ParseFinds ==
  ASSUME NEW e, e.kind # "every", NEW t \in Nat, ParseCron(e, t) # NoDate
  PROVE  \E m \in Nat : /\ m > MinuteOf(t) /\ MatchesAt(e, m)
                        /\ ParseCron(e, t) = MinuteLength * m
                        /\ \A k \in Nat : k > MinuteOf(t) /\ MatchesAt(e, k) => m <= k
<1> DEFINE tried == MinuteOf(t) + 1 .. MinuteOf(t) + SearchLimit
           found == {m \in tried : MatchesAt(e, m)}
           first == CHOOSE m \in found : \A k \in found : m <= k
<1>1. found # {} /\ ParseCron(e, t) = MinuteLength * first
  BY DEF ParseCron
<1>2. MinuteOf(t) \in Nat /\ SearchLimit \in Nat
  BY MinuteIs, CronTimesAssumption
<1>3. \E m \in found : \A k \in found : m <= k
  <2>1. found \in SUBSET Nat
    BY <1>2
  <2> QED  BY <1>1, <2>1, LeastOf
<1>4. first \in found /\ \A k \in found : first <= k
  BY <1>3
<1> HIDE DEF first
<1>5. first \in Nat /\ first > MinuteOf(t) /\ MatchesAt(e, first) /\ first <= MinuteOf(t) + SearchLimit
  BY <1>2, <1>4
<1>6. ASSUME NEW k \in Nat, k > MinuteOf(t), MatchesAt(e, k) PROVE first <= k
  <2>1. CASE k <= MinuteOf(t) + SearchLimit
    BY <1>2, <1>4, <1>6, <2>1
  <2>2. CASE k > MinuteOf(t) + SearchLimit
    BY <1>2, <1>5, <2>2
  <2> QED  BY <1>2, <2>1, <2>2
<1> QED  BY <1>1, <1>5, <1>6

\* The next run is ahead, or is given up.
LEMMA ParseIsAhead ==
  ASSUME NEW e \in CronExpressions, NEW t \in Nat
  PROVE  /\ e.kind = "every" => ParseCron(e, t) = t + e.length /\ e.length \in Nat
         /\ e.kind # "every" => ParseCron(e, t) = NoDate \/ ParseCron(e, t) > t
         /\ ParseCron(e, t) = NoDate \/ (ParseCron(e, t) \in Nat /\ ParseCron(e, t) >= t)
<1>1. CASE e.kind = "every"
  BY <1>1, CronTimesAssumption DEF ParseCron
<1>2. CASE e.kind # "every" /\ ParseCron(e, t) # NoDate
  <2>1. PICK m \in Nat : m > MinuteOf(t) /\ ParseCron(e, t) = MinuteLength * m
    BY <1>2, ParseFinds
  <2>2. MinuteLength * m \in Nat /\ ~(MinuteLength * m <= t)
    BY <2>1, MinuteAtLeast, MinuteIs
  <2> QED  BY <1>2, <2>1, <2>2
<1> QED  BY <1>1, <1>2

LEMMA TimesInitKeeps == TimesInit => TimesInv
<1> SUFFICES ASSUME TimesInit PROVE TimesInv
  OBVIOUS
<1>1. /\ MinuteLength \in Nat /\ MinuteLength <= MaxMoments /\ MaxMoments \in Nat
      /\ startedAt \in 0 .. MinuteLength - 1 /\ wallClock = startedAt /\ expression \in CronExpressions
      /\ lastRun.at = startedAt /\ lastRun.by = "add" /\ runBefore = startedAt /\ heldUp = FALSE
      /\ nextRunAt = ParseCron(expression, startedAt) /\ nextRunAt # NoDate /\ marked = FALSE
  BY CronTimesAssumption DEF TimesInit
<1>2. nextRunAt >= startedAt /\ nextRunAt \in Nat
  BY <1>1, ParseIsAhead
<1>3. /\ wallClock \in 0 .. MaxMoments /\ startedAt \in startedAt .. startedAt
      /\ lastRun.at \in startedAt .. wallClock /\ runBefore \in startedAt .. lastRun.at
  <2>1. startedAt \in startedAt .. startedAt /\ startedAt \in 0 .. MaxMoments
    BY <1>1
  <2> QED  BY <1>1, <2>1, Zenon
<1>6. heldUp \in BOOLEAN
  BY <1>1, Zenon
<1>4. nextRunAt > wallClock \/ (nextRunAt = lastRun.at /\ wallClock = lastRun.at)
  BY <1>1, <1>2
<1>5. lastRun.by # "tick" /\ nextRunAt = ParseCron(expression, lastRun.at)
  BY <1>1
<1> QED  BY <1>1, <1>3, <1>4, <1>5, <1>6, Zenon DEF TimesInv

\* What a tick that finds the schedule due runs it for.
LEMMA TickRuns ==
  ASSUME TimesInv, NEW gap \in Gaps, TickAfter(gap), ~marked,
         wallClock + gap >= nextRunAt, expression.kind # "every"
  PROVE  /\ \E m \in DueMinutes : m > MinuteOf(lastRun.at) /\ m <= MinuteOf(wallClock + gap)
         /\ gap <= MinuteLength => MinuteOf(wallClock + gap) \in DueMinutes
<1> DEFINE t == wallClock + gap
<1>1. /\ wallClock \in Nat /\ gap \in Nat \ {0} /\ t \in Nat /\ t <= MaxMoments /\ MaxMoments \in Nat
      /\ lastRun.at \in Nat /\ startedAt \in Nat /\ startedAt < MinuteLength /\ lastRun.at >= startedAt
      /\ MinuteLength \in Nat \ {0} /\ lastRun.at <= wallClock
  BY CronTimesAssumption DEF TimesInv, TickAfter
<1>2. PICK m \in Nat : m > MinuteOf(lastRun.at) /\ MatchesAt(expression, m)
                       /\ nextRunAt = MinuteLength * m
  <2>1. nextRunAt = ParseCron(expression, lastRun.at) /\ nextRunAt # NoDate
    BY DEF TimesInv
  <2> QED  BY <1>1, <2>1, ParseFinds
<1>3. m <= MinuteOf(t) /\ MinuteOf(t) <= MinuteOf(MaxMoments)
  <2>1. m <= MinuteOf(t)
    BY <1>1, <1>2, MinuteAtLeast
  <2>2. MinuteOf(t) \in Nat /\ MinuteLength * MinuteOf(t) <= MaxMoments
    BY <1>1, MinuteIs, MinuteAtLeast
  <2> QED  BY <1>1, <2>1, <2>2, MinuteAtLeast
<1>4. MinuteOf(startedAt) <= MinuteOf(lastRun.at) /\ MinuteOf(startedAt) \in Nat
      /\ MinuteOf(lastRun.at) \in Nat /\ MinuteOf(t) \in Nat /\ MinuteOf(MaxMoments) \in Nat
  <2>1. MinuteOf(startedAt) \in Nat /\ MinuteLength * MinuteOf(startedAt) <= lastRun.at
    <3>1. MinuteLength * MinuteOf(startedAt) <= startedAt /\ MinuteOf(startedAt) \in Nat
      BY <1>1, MinuteIs
    <3> QED  BY <1>1, <3>1, MinuteAtLeast
  <2> QED  BY <1>1, <2>1, MinuteAtLeast, MinuteIs
<1>5. m \in DueMinutes
  BY <1>2, <1>3, <1>4 DEF DueMinutes
<1>6. ASSUME gap <= MinuteLength PROVE MinuteOf(t) = m
  <2>1. wallClock < MinuteLength * m
    BY <1>1, <1>2, ParseIsAhead DEF TimesInv
  <2>2. MinuteLength * (m + 1) = MinuteLength * m + MinuteLength /\ MinuteLength * m \in Nat
    BY <1>1, Products
  <2>3. ~(MinuteLength * (m + 1) <= t)
    BY <1>1, <1>6, <2>1, <2>2
  <2>4. ~(m + 1 <= MinuteOf(t))
    BY <1>1, <2>3, MinuteAtLeast
  <2> QED  BY <1>3, <1>4, <2>4
<1> QED  BY <1>2, <1>3, <1>5, <1>6

LEMMA TimesStepKeeps ==
  ASSUME TimesInv, TimesNext
  PROVE  TimesInv'
<1>0. /\ wallClock \in Nat /\ lastRun.at \in Nat /\ startedAt \in Nat /\ runBefore \in Nat
      /\ wallClock <= MaxMoments /\ MaxMoments \in Nat /\ expression \in CronExpressions
      /\ startedAt <= runBefore /\ runBefore <= lastRun.at /\ lastRun.at <= wallClock
      /\ heldUp \in BOOLEAN /\ startedAt \in 0 .. MinuteLength - 1
      /\ nextRunAt = ParseCron(expression, lastRun.at) /\ nextRunAt # NoDate
      /\ marked \in BOOLEAN
  BY CronTimesAssumption DEF TimesInv
<1>1. ASSUME NEW gap \in Gaps, TickAfter(gap), ~marked, wallClock + gap >= nextRunAt,
             FireAt(wallClock + gap, "tick")
      PROVE  TimesInv'
  <2>1. /\ wallClock' = wallClock + gap /\ wallClock' <= MaxMoments /\ gap \in Nat \ {0}
        /\ heldUp' = (heldUp \/ gap > MinuteLength)
        /\ lastRun'.at = wallClock + gap /\ lastRun'.by = "tick" /\ runBefore' = lastRun.at
        /\ nextRunAt' = ParseCron(expression, wallClock + gap) /\ marked' = FALSE
        /\ nextRunAt' # NoDate
        /\ UNCHANGED <<expression, startedAt>>
    BY <1>1, CronTimesAssumption DEF TickAfter, FireAt
  <2>2. wallClock + gap \in Nat
    BY <1>0, <2>1
  <2>3. nextRunAt' \in Nat /\ nextRunAt' >= wallClock + gap
    BY <1>0, <2>1, <2>2, ParseIsAhead
  <2>4. expression.kind = "every" => wallClock + gap - lastRun.at >= expression.length
    <3>1. expression.kind = "every" => nextRunAt = lastRun.at + expression.length /\ expression.length \in Nat
      BY <1>0, ParseIsAhead
    <3> QED  BY <1>0, <1>1, <2>1, <3>1
  <2>5. expression.kind # "every" =>
          /\ \E m \in DueMinutes : m > MinuteOf(lastRun.at) /\ m <= MinuteOf(wallClock + gap)
          /\ gap <= MinuteLength => MinuteOf(wallClock + gap) \in DueMinutes
    BY <1>1, TickRuns
  <2>6. DueMinutes' = DueMinutes
    BY <2>1 DEF DueMinutes
  <2>7. ~heldUp' => gap <= MinuteLength
    <3>1. ~heldUp' => ~(gap > MinuteLength)
      BY <2>1, Zenon
    <3> QED  BY <2>1, <3>1, CronTimesAssumption
  <2>8. /\ wallClock' \in 0 .. MaxMoments /\ heldUp' \in BOOLEAN
        /\ lastRun'.at \in startedAt' .. wallClock' /\ runBefore' \in startedAt' .. lastRun'.at
    BY <1>0, <2>1, <2>2
  <2>9. IF expression'.kind = "every" THEN lastRun'.at - runBefore' >= expression'.length
        ELSE /\ \E m \in DueMinutes' : m > MinuteOf(runBefore)' /\ m <= MinuteOf(lastRun.at)'
             /\ ~heldUp' => MinuteOf(lastRun.at)' \in DueMinutes'
    <3>1. MinuteOf(runBefore)' = MinuteOf(lastRun.at) /\ MinuteOf(lastRun.at)' = MinuteOf(wallClock + gap)
      BY <2>1 DEF MinuteOf
    <3>2. CASE expression.kind = "every"
      <4>1. lastRun'.at - runBefore' = wallClock + gap - lastRun.at
        BY <1>0, <2>1
      <4>2. expression'.kind = "every" /\ expression'.length = expression.length
        BY <2>1, <3>2
      <4>3. lastRun'.at - runBefore' >= expression'.length
        BY <2>4, <3>2, <4>1, <4>2
      <4> QED  BY <4>2, <4>3, Zenon
    <3>3. CASE expression.kind # "every"
      <4>1. \E m \in DueMinutes' : m > MinuteOf(runBefore)' /\ m <= MinuteOf(lastRun.at)'
        BY <2>5, <2>6, <3>1, <3>3
      <4>2. ~heldUp' => MinuteOf(lastRun.at)' \in DueMinutes'
        BY <2>5, <2>6, <2>7, <3>1, <3>3
      <4> QED  BY <2>1, <3>3, <4>1, <4>2, Zenon
    <3> QED  BY <3>2, <3>3
  <2>10. ParseCron(expression, lastRun.at)' = ParseCron(expression, wallClock + gap)
    BY <2>1 DEF ParseCron, MinuteOf, MatchesAt
  <2>11. nextRunAt' > wallClock' \/ (nextRunAt' = lastRun'.at /\ wallClock' = lastRun'.at)
    BY <2>1, <2>2, <2>3
  <2> QED  BY <1>0, <2>1, <2>8, <2>9, <2>10, <2>11, Zenon DEF TimesInv
<1>2. ASSUME NEW gap \in Gaps, TickAfter(gap),
             ~(~marked /\ wallClock + gap >= nextRunAt) \/ NoDateAt(wallClock + gap)
      PROVE  TimesInv'
  <2>1. /\ wallClock' = wallClock + gap /\ wallClock' <= MaxMoments /\ gap \in Nat \ {0}
        /\ heldUp' = (heldUp \/ gap > MinuteLength)
        /\ UNCHANGED <<lastRun, runBefore, nextRunAt, expression, startedAt>>
        /\ marked' \in BOOLEAN /\ (~marked' => ~marked /\ ~(wallClock + gap >= nextRunAt))
        /\ marked' = marked \/ NoDateAt(wallClock + gap)
    BY <1>0, <1>2, CronTimesAssumption DEF TickAfter, NoDateAt, FireAt
  <2>2. marked' \/ nextRunAt > wallClock'
    <3>1. nextRunAt \in Nat
      BY <1>0, ParseIsAhead
    <3> QED  BY <1>0, <2>1, <3>1
  <2>9. expression.kind = "every" => ~marked'
    <3>1. expression.kind = "every" => ParseCron(expression, wallClock + gap) # NoDate
      BY <1>0, <2>1, ParseIsAhead DEF NoDate
    <3> QED  BY <2>1, <3>1 DEF NoDateAt, TimesInv
  <2>3. /\ wallClock' \in 0 .. MaxMoments /\ heldUp' \in BOOLEAN
        /\ lastRun.at \in startedAt .. wallClock' /\ runBefore \in startedAt .. lastRun.at
    BY <1>0, <2>1
  <2>4. ~heldUp' => ~heldUp
    BY <2>1
  <2>5. DueMinutes' = DueMinutes
    BY <2>1 DEF DueMinutes
  <2>6. ParseCron(expression, lastRun.at)' = ParseCron(expression, lastRun.at)
    BY <2>1 DEF ParseCron, MinuteOf, MatchesAt
  <2>7. MinuteOf(runBefore)' = MinuteOf(runBefore) /\ MinuteOf(lastRun.at)' = MinuteOf(lastRun.at)
    BY <2>1 DEF MinuteOf
  <2>8. lastRun.by = "tick" =>
          IF expression.kind = "every" THEN lastRun.at - runBefore >= expression.length
          ELSE /\ \E m \in DueMinutes' : m > MinuteOf(runBefore)' /\ m <= MinuteOf(lastRun.at)'
               /\ ~heldUp' => MinuteOf(lastRun.at)' \in DueMinutes'
    BY <2>4, <2>5, <2>7, Zenon DEF TimesInv
  <2> QED  BY <1>0, <2>1, <2>2, <2>3, <2>6, <2>8, <2>9, Zenon DEF TimesInv
<1>3. ASSUME RunNowAt, FireAt(wallClock, "call") PROVE TimesInv'
  <2>1. /\ lastRun'.at = wallClock /\ lastRun'.by = "call" /\ runBefore' = lastRun.at
        /\ nextRunAt' = ParseCron(expression, wallClock) /\ nextRunAt' # NoDate
        /\ marked' = FALSE
        /\ UNCHANGED <<expression, startedAt, wallClock, heldUp>>
    BY <1>3 DEF RunNowAt, FireAt
  <2>2. nextRunAt' \in Nat /\ nextRunAt' >= wallClock
    BY <1>0, <2>1, ParseIsAhead
  <2>3. ParseCron(expression, lastRun.at)' = ParseCron(expression, wallClock)
    BY <2>1 DEF ParseCron, MinuteOf, MatchesAt
  <2>4. /\ lastRun'.at \in startedAt .. wallClock /\ runBefore' \in startedAt .. lastRun'.at
        /\ wallClock \in 0 .. MaxMoments
    BY <1>0, <2>1
  <2>5. nextRunAt' > wallClock \/ nextRunAt' = lastRun'.at
    BY <1>0, <2>1, <2>2
  <2> QED  BY <1>0, <2>1, <2>3, <2>4, <2>5, Zenon DEF TimesInv
<1>4. ASSUME RunNowAt, NoDateAt(wallClock) PROVE TimesInv'
  <2>1. /\ marked' = TRUE
        /\ UNCHANGED <<lastRun, runBefore, nextRunAt, expression, startedAt, wallClock, heldUp>>
        /\ ParseCron(expression, wallClock) = NoDate
    BY <1>4 DEF RunNowAt, NoDateAt
  <2>2. expression.kind # "every"
    BY <1>0, <2>1, ParseIsAhead DEF NoDate
  <2>3. /\ ParseCron(expression, lastRun.at)' = ParseCron(expression, lastRun.at)
        /\ DueMinutes' = DueMinutes /\ MinuteOf(runBefore)' = MinuteOf(runBefore)
        /\ MinuteOf(lastRun.at)' = MinuteOf(lastRun.at)
    BY <2>1 DEF ParseCron, MinuteOf, MatchesAt, DueMinutes
  <2> QED  BY <2>1, <2>2, <2>3, Zenon DEF TimesInv
<1> QED
  <2>1. ASSUME NEW gap \in Gaps, TickAfter(gap) PROVE TimesInv'
    <3>1. CASE ~marked /\ wallClock + gap >= nextRunAt
      <4>1. FireAt(wallClock + gap, "tick") \/ NoDateAt(wallClock + gap)
        BY <2>1, <3>1 DEF TickAfter
      <4> QED  BY <1>1, <1>2, <2>1, <3>1, <4>1
    <3>2. CASE ~(~marked /\ wallClock + gap >= nextRunAt)
      BY <1>2, <2>1, <3>2
    <3> QED  BY <3>1, <3>2
  <2>2. RunNowAt => TimesInv'
    BY <1>3, <1>4 DEF RunNowAt
  <2> QED  BY <2>1, <2>2 DEF TimesNext

\* No minute that has begun and matches is without a run.
LEMMA TimesSay == TimesInv => TimesSound
<1> SUFFICES ASSUME TimesInv PROVE TimesSound
  OBVIOUS
<1>0. /\ wallClock \in Nat /\ lastRun.at \in Nat /\ expression \in CronExpressions
      /\ wallClock \in 0 .. MaxMoments /\ startedAt \in Nat
      /\ nextRunAt = ParseCron(expression, lastRun.at) /\ lastRun.at <= wallClock
      /\ marked \/ nextRunAt > wallClock \/ (nextRunAt = lastRun.at /\ wallClock = lastRun.at)
      /\ nextRunAt \in Nat /\ nextRunAt # NoDate /\ marked \in BOOLEAN
      /\ expression.kind = "every" => ~marked
  BY CronTimesAssumption, ParseIsAhead DEF TimesInv
<1>1. TimesTypeOK
  BY <1>0 DEF TimesTypeOK, NoDate
<1>2. ASSUME expression.kind = "every"
      PROVE  wallClock < lastRun.at + expression.length \/ wallClock = lastRun.at
  <2>1. nextRunAt = lastRun.at + expression.length /\ expression.length \in Nat
    BY <1>0, <1>2, ParseIsAhead
  <2> QED  BY <1>0, <1>2, <2>1
<1>3. ASSUME expression.kind # "every", ~marked,
             NEW m \in DueMinutes, m * MinuteLength <= wallClock
      PROVE  lastRun.at >= m * MinuteLength
  <2>1. PICK n \in Nat : /\ nextRunAt = MinuteLength * n
                         /\ \A k \in Nat : k > MinuteOf(lastRun.at) /\ MatchesAt(expression, k) => n <= k
    BY <1>0, <1>3, ParseFinds
  <2>2. m \in Nat /\ MatchesAt(expression, m) /\ MinuteLength \in Nat \ {0}
    <3>1. MinuteOf(startedAt) \in Nat /\ MinuteOf(MaxMoments) \in Nat
      BY <1>0, MinuteIs, CronTimesAssumption
    <3> QED  BY <3>1, CronTimesAssumption DEF DueMinutes
  <2>3. m * MinuteLength = MinuteLength * m /\ MinuteLength * m \in Nat
        /\ (n <= m => MinuteLength * n <= MinuteLength * m)
    BY <2>2, Products
  <2>4. nextRunAt > lastRun.at
    BY <1>0, <1>3, ParseIsAhead
  <2>5. ~(n <= m)
    BY <1>0, <1>3, <2>1, <2>3, <2>4
  <2>6. MinuteOf(lastRun.at) \in Nat /\ ~(m > MinuteOf(lastRun.at))
    BY <1>0, <2>1, <2>2, <2>5, MinuteIs
  <2>7. MinuteLength * m <= lastRun.at
    BY <1>0, <2>2, <2>6, MinuteAtLeast
  <2> QED  BY <1>0, <2>3, <2>7
<1>4. RunsWhenItSays
  <2>1. CASE expression.kind = "every"
    BY <1>0, <1>2, <2>1 DEF RunsWhenItSays, TimesInv
  <2>2. CASE expression.kind # "every"
    BY <1>3, <2>2 DEF RunsWhenItSays, TimesInv
  <2> QED  BY <2>1, <2>2
<1> QED  BY <1>1, <1>4 DEF TimesSound

LEMMA TimesInvariant == TimesSpec => []TimesSound
<1>1. TimesInv /\ [TimesNext]_timesVars => TimesInv'
  <2>1. ASSUME TimesInv, UNCHANGED timesVars PROVE TimesInv'
    BY <2>1 DEF TimesInv, timesVars, ParseCron, MinuteOf, MatchesAt, DueMinutes
  <2> QED  BY <2>1, TimesStepKeeps
<1> QED  BY <1>1, TimesInitKeeps, TimesSay, PTL DEF TimesSpec

-----------------------------------------------------------------------------
(***************************************************************************)
(* CronScheduler, for any number of schedules, overlapping ticks and runNow *)
(* calls, any periods and limits of runs, and any number of calls, restarts *)
(* and clock steps.                                                        *)
(***************************************************************************)

EntryRec == [enabled : BOOLEAN, next : Nat, runs : Nat, ins : Nat]
FireRec  == [id : Schedules, by : Ticks \cup RunNows, stage : {"asked", "queued"},
             old : BOOLEAN]
TickRec  == [on : BOOLEAN, at : Nat, last : Nat, awaiting : BOOLEAN]

CronTypes ==
  /\ budget \in Budgets /\ calls \subseteq RunNows
  /\ inFlight \subseteq Schedules /\ unfound \subseteq Schedules
  /\ ticks \in [Ticks -> TickRec] /\ \A t \in Ticks : ticks[t].at <= now
  /\ fires \subseteq FireRec /\ IsFiniteSet(fires)
  /\ now \in 0 .. MaxClock /\ adds \in Nat
  /\ lastTick \in [Schedules -> Int]
  /\ ticked \in [Schedules -> Nat] /\ lost \in [Schedules -> Int]

\* Where an entry is in the Map, and when it is due at the latest.
EntryAt(e, i, time, added) ==
  /\ e.ins >= 1 /\ e.ins <= Cardinality(Schedules) + added
  /\ e.next <= time + Period(i)

MapAt(map, time, added) ==
  /\ map \in [DOMAIN map -> EntryRec] /\ DOMAIN map \subseteq Schedules
  /\ \A i \in DOMAIN map : EntryAt(map[i], i, time, added)

MapsOK == MapAt(entries, now, adds) /\ MapAt(saved, now, adds)

\* What may differ from an entry that was saved.
Saves(e, old, i) ==
  /\ old.runs <= e.runs
  /\ old.enabled # e.enabled => (MaxRuns(i) > 0 /\ e.runs >= MaxRuns(i)) \/ i \in unfound

SavesAll(map, file) ==
  DOMAIN file = DOMAIN map /\ \A i \in DOMAIN map : Saves(map[i], file[i], i)

\* A caller awaits one fire, a tick exactly while it says so.
FiresOK ==
  /\ \A f, g \in fires : f.by = g.by => f = g
  /\ \A f \in fires : f.by \notin calls
  /\ \A t \in Ticks : ticks[t].awaiting => ticks[t].on
  /\ \A t \in Ticks : ticks[t].awaiting <=> \E f \in fires : f.by = t

\* A fire's schedule is marked, unless another fire of it took the mark away.
MarksOK ==
  /\ MarkedWhileFiring
  /\ \A f \in fires : f.id \in inFlight \cup overlapped
  /\ \A f, g \in fires :
       f.id = g.id /\ f.by \in Ticks /\ g.by \in Ticks /\ f # g => f.id \in overlapped

\* The jobs ticks are about to queue for an entry.
IsAsked(f, i) == f.id = i /\ f.by \in Ticks /\ f.stage = "asked" /\ ~f.old
Asked(i) == {f \in fires : IsAsked(f, i)}
Counted(i) == ticked[i] + Cardinality(Asked(i))

\* Each was counted as a run before, below the limit.
CountOK(i) ==
  /\ Counted(i) <= entries[i].runs + lost[i]
  /\ MaxRuns(i) > 0 => Counted(i) <= MaxRuns(i) + lost[i]

LastOK(i) == lastTick[i] >= 0 => entries[i].next >= lastTick[i] + Period(i)

CronInv ==
  /\ CronTypes /\ MapsOK /\ SavesAll(entries, saved) /\ FiresOK /\ MarksOK
  /\ \A i \in Entered : CountOK(i) /\ LastOK(i)

-----------------------------------------------------------------------------
(* Entries                                                                 *)

LEMMA SchedulesCounted == Cardinality(Schedules) \in Nat
  BY CronAssumption, FS_CardinalityType

\* What _fire makes of an entry.
LEMMA StartedIs ==
  ASSUME CronTypes, NEW e \in EntryRec, NEW i \in Schedules
  PROVE  /\ Started(e, i) \in EntryRec
         /\ Started(e, i).enabled = e.enabled /\ Started(e, i).ins = e.ins
         /\ Started(e, i).next = now + Period(i) /\ Started(e, i).runs = e.runs + 1
<1>1. now + Period(i) \in Nat /\ e.runs + 1 \in Nat
  BY CronAssumption DEF CronTypes, EntryRec
<1>2. Started(e, i) = [e EXCEPT !.runs = e.runs + 1, !.next = now + Period(i)]
  BY DEF Started
<1> QED  BY <1>1, <1>2 DEF EntryRec

\* An entry or a map stays as it should be while clock and counts go up.
LEMMA EntryStays ==
  ASSUME NEW e \in EntryRec, NEW i \in Schedules, NEW t \in Nat,
         NEW n \in Nat, NEW t2 \in Nat, NEW n2 \in Nat,
         EntryAt(e, i, t, n), t <= t2, n <= n2
  PROVE  EntryAt(e, i, t2, n2)
<1>1. e.next \in Nat /\ e.runs \in Nat /\ e.ins \in Nat /\ Period(i) \in Nat
  BY CronAssumption DEF EntryRec
<1> QED  BY <1>1, SchedulesCounted DEF EntryAt

LEMMA MapStays ==
  ASSUME NEW map, NEW t \in Nat, NEW n \in Nat, NEW t2 \in Nat, NEW n2 \in Nat,
         MapAt(map, t, n), t <= t2, n <= n2
  PROVE  MapAt(map, t2, n2)
<1>1. ASSUME NEW i \in DOMAIN map PROVE EntryAt(map[i], i, t2, n2)
  BY <1>1, EntryStays DEF MapAt
<1> QED  BY <1>1 DEF MapAt

\* A fire leaves an entry that is as it should be.
LEMMA StartedOK ==
  ASSUME CronInv, NEW i \in Schedules, NEW e \in EntryRec, EntryAt(e, i, now, adds)
  PROVE  EntryAt(Started(e, i), i, now, adds)
<1>1. PICK s : s = Started(e, i)
  OBVIOUS
<1>2. s.next = now + Period(i) /\ s.runs = e.runs + 1 /\ s.ins = e.ins
  BY <1>1, StartedIs DEF CronInv
<1>3. /\ e.next \in Nat /\ e.runs \in Nat /\ e.ins \in Nat /\ now \in Nat /\ adds \in Nat
      /\ Period(i) \in Nat \ {0}
  BY CronAssumption DEF EntryRec, CronInv, CronTypes
<1>5. EntryAt(s, i, now, adds)
  BY <1>2, <1>3, SchedulesCounted DEF EntryAt
<1> QED  BY <1>1, <1>5

-----------------------------------------------------------------------------
(* What a tick does as it goes on                                          *)

\* The entries with those it passed disabled if they have had all their runs.
IsKept(kept) ==
  /\ kept \in [Entered -> EntryRec]
  /\ \A i \in Entered :
       /\ kept[i].next = entries[i].next /\ kept[i].runs = entries[i].runs
       /\ kept[i].ins = entries[i].ins
       /\ kept[i].enabled # entries[i].enabled => Exhausted(i)

TickEnds(t, kept) ==
  /\ entries' = kept
  /\ ticks' = [ticks EXCEPT ![t] = Off]
  /\ UNCHANGED <<inFlight, fires, lastTick, unfound>>

TickFires(t, tick, kept, i) ==
  /\ entries[i].next <= now /\ i \notin inFlight /\ ~Exhausted(i)
  /\ ticks' = [ticks EXCEPT ![t] = [tick EXCEPT !.last = entries[i].ins, !.awaiting = TRUE]]
  /\ lastTick' = [lastTick EXCEPT ![i] = now]
  /\ Fire(i, t, kept)

TickThrows(t, kept, i) ==
  /\ FireThrows(i, kept)
  /\ ticks' = [ticks EXCEPT ![t] = Off]
  /\ UNCHANGED lastTick

\* Of the entries that are ready there is a first.
LEMMA ReadyFirst ==
  ASSUME CronInv, NEW R \in SUBSET Entered, R # {}
  PROVE  \E i \in R : \A k \in R : entries[i].ins <= entries[k].ins
<1> DEFINE less == OpToRel(<, Nat)
           places == {entries[i].ins : i \in R}
<1>1. \A i \in R : entries[i].ins \in Nat
  BY DEF CronInv, MapsOK, MapAt, EntryRec, Entered
<1>2. IsWellFoundedOn(less, Nat)
  BY NatLessThanWellFounded
<1>3. \A m, n \in Nat : m < n => <<m, n>> \in less
  BY DEF OpToRel
<1>4. places \subseteq Nat /\ places # {}
  BY <1>1
<1> HIDE DEF less, places
<1>5. PICK m \in places : \A n \in places : ~ (<<n, m>> \in less)
  BY <1>2, <1>4, WFMin
<1>6. ASSUME NEW n \in places PROVE m <= n
  <2>1. m \in Nat /\ n \in Nat /\ ~(n < m)
    BY <1>3, <1>4, <1>5
  <2> QED  BY <2>1
<1> QED  BY <1>5, <1>6 DEF places

LEMMA Visits ==
  ASSUME CronInv, NEW t, NEW tick, tick.at \in Nat, tick.at <= now, Visit(t, tick)
  PROVE  \E kept : IsKept(kept) /\ (\/ TickEnds(t, kept)
                                    \/ \E i \in Entered : \/ TickFires(t, tick, kept, i)
                                                          \/ TickThrows(t, kept, i))
<1> DEFINE ahead == {i \in Entered : entries[i].ins > tick.last}
           ready == {i \in ahead : ReadyToFire(i, tick.at)}
           first == CHOOSE i \in ready : \A k \in ready : entries[i].ins <= entries[k].ins
           passed == IF ready = {} THEN ahead
                     ELSE {i \in ahead : entries[i].ins < entries[first].ins}
           kept == [i \in Entered |-> IF i \in passed /\ Spent(i, tick.at)
                                      THEN [entries[i] EXCEPT !.enabled = FALSE]
                                      ELSE entries[i]]
<1>1. IsKept(kept)
  <2>1. \A i \in Entered : entries[i] \in EntryRec
    BY DEF CronInv, MapsOK, MapAt, Entered
  <2>2. ASSUME NEW i \in Entered
        PROVE  /\ [entries[i] EXCEPT !.enabled = FALSE] \in EntryRec
               /\ [entries[i] EXCEPT !.enabled = FALSE].next = entries[i].next
               /\ [entries[i] EXCEPT !.enabled = FALSE].runs = entries[i].runs
               /\ [entries[i] EXCEPT !.enabled = FALSE].ins = entries[i].ins
    BY <2>1 DEF EntryRec
  <2>3. \A i \in Entered : Spent(i, tick.at) => Exhausted(i)
    BY DEF Spent
  <2> HIDE DEF passed
  <2>4. ASSUME NEW i \in Entered
        PROVE  /\ kept[i] \in EntryRec
               /\ kept[i].next = entries[i].next /\ kept[i].runs = entries[i].runs
               /\ kept[i].ins = entries[i].ins
               /\ kept[i].enabled # entries[i].enabled => Exhausted(i)
    <3>1. CASE i \in passed /\ Spent(i, tick.at)
      <4>1. kept[i] = [entries[i] EXCEPT !.enabled = FALSE]
        BY <3>1
      <4> QED  BY <3>1, <4>1, <2>2, <2>3
    <3>2. CASE ~(i \in passed /\ Spent(i, tick.at))
      <4>1. kept[i] = entries[i]
        BY <3>2
      <4> QED  BY <4>1, <2>1
    <3> QED  BY <3>1, <3>2
  <2> QED  BY <2>4 DEF IsKept
<1>2. CASE ready = {}
  <2>1. TickEnds(t, kept)
    BY <1>2 DEF Visit, TickEnds
  <2> QED  BY <1>1, <2>1
<1>3. CASE ready # {}
  <2>1. first \in ready
    BY <1>3, ReadyFirst
  <2>2. /\ entries[first].next <= now /\ first \notin inFlight /\ ~Exhausted(first)
        /\ first \in Entered
    <3>1. entries[first].next \in Nat /\ now \in Nat
      BY <2>1 DEF CronInv, MapsOK, MapAt, EntryRec, CronTypes, Entered
    <3>2. first \in Entered /\ ReadyToFire(first, tick.at)
      BY <2>1
    <3> HIDE DEF first
    <3> QED  BY <3>1, <3>2 DEF ReadyToFire
  <2>3. \/ /\ Fire(first, t, kept)
           /\ ticks' = [ticks EXCEPT ![t] = [tick EXCEPT !.last = entries[first].ins,
                                                        !.awaiting = TRUE]]
           /\ lastTick' = [lastTick EXCEPT ![first] = now]
        \/ /\ FireThrows(first, kept)
           /\ ticks' = [ticks EXCEPT ![t] = Off]
           /\ UNCHANGED lastTick
    BY <1>3 DEF Visit
  <2> HIDE DEF first, kept
  <2> QED  BY <1>1, <2>2, <2>3 DEF TickFires, TickThrows
<1> QED  BY <1>2, <1>3

-----------------------------------------------------------------------------
(* A fire starts                                                           *)

LEMMA KeptMap ==
  ASSUME CronInv, NEW kept, IsKept(kept)
  PROVE  DOMAIN kept = Entered /\ MapAt(kept, now, adds) /\ SavesAll(kept, saved)
<1>1. DOMAIN kept = Entered /\ Entered \subseteq Schedules
  BY DEF IsKept, CronInv, MapsOK, MapAt, Entered
<1>2. ASSUME NEW j \in Entered
      PROVE  EntryAt(kept[j], j, now, adds) /\ Saves(kept[j], saved[j], j)
  <2>1. EntryAt(entries[j], j, now, adds) /\ Saves(entries[j], saved[j], j)
    BY DEF CronInv, MapsOK, MapAt, SavesAll, Entered
  <2>2. /\ entries[j].enabled \in BOOLEAN /\ kept[j].enabled \in BOOLEAN
        /\ saved[j].enabled \in BOOLEAN
    BY DEF CronInv, MapsOK, MapAt, SavesAll, Entered, EntryRec, IsKept
  <2> QED  BY <2>1, <2>2 DEF IsKept, EntryAt, Saves, Exhausted
<1> QED  BY <1>1, <1>2 DEF IsKept, MapAt, SavesAll, CronInv, Entered

IsFired(map, kept, i) == map = [kept EXCEPT ![i] = Started(kept[i], i)]

LEMMA FiredMap ==
  ASSUME CronInv, NEW kept, IsKept(kept), NEW i \in Entered,
         NEW map, IsFired(map, kept, i)
  PROVE  /\ DOMAIN map = Entered /\ MapAt(map, now, adds) /\ SavesAll(map, saved)
         /\ \A j \in Entered \ {i} : map[j] = kept[j]
         /\ map[i].runs = entries[i].runs + 1 /\ map[i].next = now + Period(i)
<1>1. DOMAIN kept = Entered /\ MapAt(kept, now, adds) /\ SavesAll(kept, saved)
  BY KeptMap
<1>2. i \in Schedules /\ kept[i] \in EntryRec /\ EntryAt(kept[i], i, now, adds)
  BY <1>1 DEF MapAt
<1>3. /\ kept[i].next = entries[i].next /\ kept[i].runs = entries[i].runs
  BY DEF IsKept
<1>4. /\ map[i] = Started(kept[i], i) /\ DOMAIN map = Entered
      /\ \A j \in Entered \ {i} : map[j] = kept[j]
  BY <1>1 DEF IsFired
<1>5. EntryAt(map[i], i, now, adds)
  BY <1>2, <1>4, StartedOK
<1>6. /\ map[i] \in EntryRec /\ map[i].enabled = kept[i].enabled
      /\ map[i].next = now + Period(i) /\ map[i].runs = kept[i].runs + 1
  BY <1>2, <1>4, StartedIs DEF CronInv
<1>8. ASSUME NEW j \in Entered \ {i}
      PROVE  map[j] \in EntryRec /\ EntryAt(map[j], j, now, adds)
  BY <1>1, <1>4 DEF MapAt
<1>9. Saves(map[i], saved[i], i)
  <2>1. Saves(kept[i], saved[i], i)
    BY <1>1 DEF SavesAll
  <2>2. /\ kept[i].runs \in Nat /\ saved[i].runs \in Nat /\ MaxRuns(i) \in Nat
        /\ kept[i].enabled \in BOOLEAN /\ saved[i].enabled \in BOOLEAN
    BY <1>2, CronAssumption DEF CronInv, MapsOK, MapAt, SavesAll, Entered, EntryRec
  <2> QED  BY <1>6, <2>1, <2>2 DEF Saves
<1>10. map \in [Entered -> EntryRec]
  BY <1>1, <1>6 DEF IsKept, IsFired
<1>11. MapAt(map, now, adds)
  BY <1>1, <1>4, <1>5, <1>8, <1>10 DEF MapAt
<1>12. SavesAll(map, saved)
  BY <1>1, <1>4, <1>9 DEF SavesAll
<1> QED  BY <1>3, <1>4, <1>6, <1>11, <1>12

LEMMA AskedIsFinite ==
  ASSUME IsFiniteSet(fires), NEW i
  PROVE  IsFiniteSet(Asked(i)) /\ Cardinality(Asked(i)) \in Nat
<1>1. Asked(i) \subseteq fires
  BY DEF Asked
<1> QED  BY <1>1, FS_Subset, FS_CardinalityType

\* A new fire is the only one of its caller, and a tick's the only one of its
\* schedule unless others of it overlapped.
LEMMA NewFire ==
  ASSUME CronInv, NEW i \in Schedules, NEW caller \in Ticks \cup RunNows,
         \A f \in fires : f.by # caller, NEW kept, Fire(i, caller, kept),
         overlapped' = overlapped, caller \in Ticks => i \notin inFlight
  PROVE  /\ fires' \subseteq FireRec /\ IsFiniteSet(fires') /\ inFlight' \subseteq Schedules
         /\ \A f, g \in fires' : f.by = g.by => f = g
         /\ \E new : fires' = fires \cup {new} /\ new.by = caller /\ new.id = i
         /\ MarksOK'
         /\ \A k : k # i \/ caller \notin Ticks => Asked(k)' = Asked(k)
         /\ Cardinality(Asked(i)') <= Cardinality(Asked(i)) + 1
<1>1. PICK new : new = [id |-> i, by |-> caller, stage |-> "asked", old |-> FALSE]
  OBVIOUS
<1>2. /\ new \in FireRec /\ new.id = i /\ new.by = caller
  BY <1>1 DEF FireRec
<1>3. fires' = fires \cup {new} /\ inFlight' = inFlight \cup {i} /\ unfound' = unfound
  BY <1>1 DEF Fire
<1>4. fires \subseteq FireRec /\ IsFiniteSet(fires) /\ inFlight \subseteq Schedules
  BY DEF CronInv, CronTypes
<1>5. fires' \subseteq FireRec /\ IsFiniteSet(fires') /\ inFlight' \subseteq Schedules
  BY <1>2, <1>3, <1>4, FS_AddElement
<1>6. \A f, g \in fires' : f.by = g.by => f = g
  BY <1>2, <1>3 DEF CronInv, FiresOK
<1>7. MarksOK'
  <2>1. inFlight' \subseteq {f.id : f \in fires'} \cup unfound'
    BY <1>2, <1>3 DEF CronInv, MarksOK, MarkedWhileFiring
  <2>2. \A f \in fires' : f.id \in inFlight' \cup overlapped'
    BY <1>2, <1>3 DEF CronInv, MarksOK
  <2>3. ASSUME NEW f \in fires', NEW g \in fires', f.id = g.id, f.by \in Ticks,
               g.by \in Ticks, f # g
        PROVE  f.id \in overlapped'
    <3>1. CASE f \in fires /\ g \in fires
      BY <2>3, <3>1 DEF CronInv, MarksOK
    <3>2. CASE f = new \/ g = new
      BY <1>2, <1>3, <2>3, <3>2 DEF CronInv, MarksOK
    <3> QED  BY <1>3, <3>1, <3>2
  <2> QED  BY <2>1, <2>2, <2>3 DEF MarksOK, MarkedWhileFiring
<1>8. \A k : k # i \/ caller \notin Ticks => Asked(k)' = Asked(k)
  BY <1>2, <1>3 DEF Asked, IsAsked
<1>9. Cardinality(Asked(i)') <= Cardinality(Asked(i)) + 1
  <2>1. Asked(i)' \subseteq Asked(i) \cup {new}
    BY <1>3 DEF Asked
  <2>2. IsFiniteSet(Asked(i)) /\ Cardinality(Asked(i)) \in Nat
    BY <1>4, AskedIsFinite
  <2>3. /\ IsFiniteSet(Asked(i) \cup {new})
        /\ Cardinality(Asked(i) \cup {new}) \in {Cardinality(Asked(i)), Cardinality(Asked(i)) + 1}
    BY <2>2, FS_AddElement
  <2>4. /\ Cardinality(Asked(i)') <= Cardinality(Asked(i) \cup {new})
        /\ Cardinality(Asked(i)') \in Nat
    BY <2>1, <2>3, FS_Subset, FS_CardinalityType
  <2> QED  BY <2>2, <2>3, <2>4
<1> QED  BY <1>2, <1>3, <1>5, <1>6, <1>7, <1>8, <1>9

-----------------------------------------------------------------------------
(* The steps                                                               *)

\* What the fires and their marks need of a step that leaves them alone.
LEMMA FiresStay ==
  ASSUME CronInv, UNCHANGED <<fires, inFlight, overlapped, unfound, calls>>,
         \A t \in Ticks : ticks'[t].awaiting = ticks[t].awaiting /\ ticks'[t].on = ticks[t].on
  PROVE  FiresOK' /\ MarksOK' /\ \A i : Asked(i)' = Asked(i)
  BY DEF CronInv, FiresOK, MarksOK, MarkedWhileFiring, Asked

\* Counts and due times while runs and due times do not go down.
LEMMA CountStays ==
  ASSUME CronInv, NEW i \in Entered, i \in Entered',
         entries'[i].runs \in Nat, entries'[i].runs >= entries[i].runs,
         entries'[i].next \in Nat, entries'[i].next >= entries[i].next,
         ticked'[i] = ticked[i], lost'[i] = lost[i], lastTick'[i] = lastTick[i],
         Asked(i)' \subseteq Asked(i)
  PROVE  CountOK(i)' /\ LastOK(i)'
<1>1. /\ i \in Schedules /\ Period(i) \in Nat /\ MaxRuns(i) \in Nat
      /\ entries[i].runs \in Nat /\ entries[i].next \in Nat
  BY CronAssumption DEF CronInv, MapsOK, MapAt, Entered, EntryRec
<1>2. ticked[i] \in Nat /\ lost[i] \in Int /\ lastTick[i] \in Int
  BY <1>1 DEF CronInv, CronTypes
<1>3. /\ Cardinality(Asked(i)) \in Nat /\ Cardinality(Asked(i)') \in Nat
      /\ Cardinality(Asked(i)') <= Cardinality(Asked(i))
  <2>1. IsFiniteSet(Asked(i)) /\ Cardinality(Asked(i)) \in Nat
    BY AskedIsFinite DEF CronInv, CronTypes
  <2> QED  BY <2>1, FS_Subset, FS_CardinalityType
<1>4. CountOK(i) /\ LastOK(i)
  BY DEF CronInv
<1> QED  BY <1>1, <1>2, <1>3, <1>4 DEF CountOK, LastOK, Counted

\* What remains of a fire that threw.
LEMMA ThrowKeeps ==
  ASSUME CronInv, NEW kept, IsKept(kept), NEW i \in Entered, FireThrows(i, kept),
         ticks' \in [Ticks -> TickRec], \A t \in Ticks : ticks'[t].at <= now,
         \A t \in Ticks : /\ ticks'[t].awaiting <=> ticks[t].awaiting
                          /\ ticks'[t].awaiting => ticks'[t].on,
         calls' \subseteq calls,
         UNCHANGED <<budget, now, adds, saved, lastTick, ticked, lost, overlapped>>
  PROVE  CronInv'
<1>1. DOMAIN kept = Entered /\ MapAt(kept, now, adds) /\ SavesAll(kept, saved)
  BY KeptMap
<1>2. /\ entries' = [kept EXCEPT ![i].runs = @ + 1] /\ fires' = fires
      /\ inFlight' = inFlight \cup {i} /\ unfound' = unfound \cup {i}
  BY DEF FireThrows
<1>3. PICK doing : doing = [kept[i] EXCEPT !.runs = kept[i].runs + 1]
  OBVIOUS
<1>4. /\ i \in Schedules /\ kept[i] \in EntryRec /\ EntryAt(kept[i], i, now, adds)
      /\ kept[i].runs \in Nat
  BY <1>1 DEF MapAt, EntryRec
<1>5. /\ doing \in EntryRec /\ doing.next = kept[i].next /\ doing.ins = kept[i].ins
      /\ doing.enabled = kept[i].enabled /\ doing.runs = kept[i].runs + 1
  BY <1>3, <1>4 DEF EntryRec
<1>6. /\ DOMAIN entries' = Entered /\ entries'[i] = doing
      /\ \A k \in Entered \ {i} : entries'[k] = kept[k]
      /\ entries' \in [Entered -> EntryRec]
  BY <1>1, <1>2, <1>3, <1>5 DEF IsKept
<1>7. Entered' = Entered
  BY <1>6 DEF Entered
<1>8. MapAt(entries', now, adds)
  <2>1. EntryAt(doing, i, now, adds)
    BY <1>4, <1>5 DEF EntryAt
  <2> QED  BY <1>1, <1>6, <2>1 DEF MapAt
<1>9. SavesAll(entries, saved)'
  <2>1. ASSUME NEW k \in Entered PROVE Saves(entries[k], saved[k], k)'
    <3>1. /\ Saves(kept[k], saved[k], k) /\ saved[k].runs \in Nat /\ kept[k].runs \in Nat
      BY <1>1 DEF SavesAll, CronInv, MapsOK, MapAt, EntryRec, Entered
    <3> QED  BY <1>2, <1>4, <1>5, <1>6, <3>1 DEF Saves
  <2> QED  BY <1>1, <1>6, <2>1 DEF SavesAll
<1>10. MapsOK'
  BY <1>8 DEF MapsOK, CronInv
<1>11. CronTypes'
  BY <1>2, <1>4 DEF CronInv, CronTypes
<1>12. FiresOK' /\ MarksOK' /\ \A k : Asked(k)' = Asked(k)
  <2>1. FiresOK'
    <3>1. /\ \A f, g \in fires' : f.by = g.by => f = g
          /\ \A f \in fires' : f.by \notin calls'
      BY <1>2 DEF CronInv, FiresOK
    <3>2. ASSUME NEW t \in Ticks
          PROVE  /\ ticks'[t].awaiting => ticks'[t].on
                 /\ ticks'[t].awaiting <=> \E f \in fires' : f.by = t
      <4>1. ticks[t].awaiting <=> \E f \in fires : f.by = t
        BY DEF CronInv, FiresOK
      <4>2. ticks'[t].awaiting <=> ticks[t].awaiting
        OBVIOUS
      <4>3. ticks'[t].awaiting => ticks'[t].on
        OBVIOUS
      <4> QED  BY <1>2, <4>1, <4>2, <4>3, Zenon
    <3> QED  BY <3>1, <3>2, Zenon DEF FiresOK
  <2>2. MarksOK'
    BY <1>2 DEF CronInv, MarksOK, MarkedWhileFiring
  <2> QED  BY <1>2, <2>1, <2>2 DEF Asked
<1>13. ASSUME NEW k \in Entered PROVE CountOK(k)' /\ LastOK(k)'
  <2>1. /\ entries[k].runs \in Nat /\ entries[k].next \in Nat
        /\ kept[k].next = entries[k].next /\ kept[k].runs = entries[k].runs
    BY DEF CronInv, MapsOK, MapAt, Entered, EntryRec, IsKept
  <2>2. /\ entries'[k].runs \in Nat /\ entries'[k].runs >= entries[k].runs
        /\ entries'[k].next \in Nat /\ entries'[k].next >= entries[k].next
    BY <1>5, <1>6, <2>1
  <2> QED  BY <1>7, <1>12, <2>2, CountStays
<1> QED  BY <1>7, <1>9, <1>10, <1>11, <1>12, <1>13 DEF CronInv

LEMMA TickKeeps ==
  ASSUME CronInv, NEW t \in Ticks, NEW tick \in TickRec, tick.at <= now, tick.on,
         ~ticks[t].awaiting, Visit(t, tick),
         UNCHANGED <<saved, counters, calls, ticked, lost, overlapped>>
  PROVE  CronInv'
<1>1. PICK kept : IsKept(kept) /\ (\/ TickEnds(t, kept)
                                   \/ \E i \in Entered : \/ TickFires(t, tick, kept, i)
                                                         \/ TickThrows(t, kept, i))
  BY Visits DEF TickRec
<1>2. /\ now' = now /\ adds' = adds /\ calls' = calls
      /\ saved' = saved /\ budget' = budget /\ ticked' = ticked /\ lost' = lost
      /\ overlapped' = overlapped
  BY DEF counters
<1>3. DOMAIN kept = Entered /\ MapAt(kept, now, adds) /\ SavesAll(kept, saved)
  BY <1>1, KeptMap
<1>4. CASE TickEnds(t, kept)
  <2>1. /\ entries' = kept /\ UNCHANGED <<inFlight, fires, lastTick, unfound>>
        /\ ticks' = [ticks EXCEPT ![t] = Off]
    BY <1>4 DEF TickEnds
  <2>2. Off \in TickRec /\ Off.at = 0 /\ ~Off.awaiting /\ ~Off.on
    BY DEF Off, TickRec
  <2>3. FiresOK' /\ MarksOK' /\ \A i : Asked(i)' = Asked(i)
    <3>1. \A u \in Ticks : /\ ticks'[u].awaiting <=> ticks[u].awaiting
                           /\ ticks'[u].awaiting => ticks'[u].on
      BY <2>1, <2>2 DEF CronInv, CronTypes, FiresOK
    <3> QED  BY <1>2, <2>1, <3>1
             DEF CronInv, FiresOK, MarksOK, MarkedWhileFiring, Asked
  <2>4. CronTypes'
    BY <1>2, <2>1, <2>2 DEF CronInv, CronTypes
  <2>5. MapsOK' /\ SavesAll(entries, saved)'
    BY <1>2, <1>3, <2>1 DEF CronInv, MapsOK, SavesAll, Saves
  <2>6. \A i \in Entered' : CountOK(i)' /\ LastOK(i)'
    <3>1. Entered' = Entered
      BY <1>3, <2>1 DEF Entered
    <3>2. ASSUME NEW i \in Entered
          PROVE  /\ entries'[i].runs \in Nat /\ entries'[i].runs >= entries[i].runs
                 /\ entries'[i].next \in Nat /\ entries'[i].next >= entries[i].next
      <4>1. entries[i].runs \in Nat /\ entries[i].next \in Nat
        BY DEF CronInv, MapsOK, MapAt, Entered, EntryRec
      <4> QED  BY <1>1, <2>1, <4>1 DEF IsKept
    <3> QED  BY <1>2, <2>1, <2>3, <3>1, <3>2, CountStays
  <2> QED  BY <2>3, <2>4, <2>5, <2>6 DEF CronInv
<1>5. ASSUME NEW i \in Entered, TickFires(t, tick, kept, i) PROVE CronInv'
  <2>1. /\ entries[i].next <= now /\ i \notin inFlight /\ ~Exhausted(i)
        /\ entries' = [kept EXCEPT ![i] = Started(kept[i], i)]
        /\ ticks' = [ticks EXCEPT ![t] = [tick EXCEPT !.last = entries[i].ins,
                                                      !.awaiting = TRUE]]
        /\ lastTick' = [lastTick EXCEPT ![i] = now]
        /\ Fire(i, t, kept) /\ unfound' = unfound
    BY <1>5 DEF TickFires, Fire
  <2>2. /\ DOMAIN entries' = Entered /\ MapAt(entries', now, adds)
        /\ SavesAll(entries', saved)
        /\ \A j \in Entered \ {i} : entries'[j] = kept[j]
        /\ entries'[i].runs = entries[i].runs + 1 /\ entries'[i].next = now + Period(i)
    <3>1. PICK map : map = entries'
      OBVIOUS
    <3>2. IsFired(map, kept, i)
      BY <2>1, <3>1 DEF IsFired
    <3>3. /\ DOMAIN map = Entered /\ MapAt(map, now, adds) /\ SavesAll(map, saved)
          /\ \A j \in Entered \ {i} : map[j] = kept[j]
          /\ map[i].runs = entries[i].runs + 1 /\ map[i].next = now + Period(i)
      BY <1>1, <3>2, FiredMap
    <3> QED  BY <3>1, <3>3
  <2>3. i \in Schedules /\ entries[i].ins \in Nat
    BY DEF CronInv, MapsOK, MapAt, Entered, EntryRec
  <2>4. \A f \in fires : f.by # t
    BY DEF CronInv, FiresOK
  <2>5. /\ fires' \subseteq FireRec /\ IsFiniteSet(fires') /\ inFlight' \subseteq Schedules
        /\ \A f, g \in fires' : f.by = g.by => f = g
        /\ \E new : fires' = fires \cup {new} /\ new.by = t /\ new.id = i
        /\ MarksOK'
        /\ \A k : k # i => Asked(k)' = Asked(k)
        /\ Cardinality(Asked(i)') <= Cardinality(Asked(i)) + 1
    BY <1>2, <2>1, <2>3, <2>4, NewFire
  <2>6. PICK rest : rest = [tick EXCEPT !.last = entries[i].ins, !.awaiting = TRUE]
    OBVIOUS
  <2>7. rest \in TickRec /\ rest.at = tick.at /\ rest.awaiting /\ rest.on
    BY <2>3, <2>6 DEF TickRec
  <2>8. ticks' = [ticks EXCEPT ![t] = rest] /\ ticks'[t] = rest
    BY <2>1, <2>6 DEF CronInv, CronTypes
  <2>9. CronTypes'
    <3>1. ticks' \in [Ticks -> TickRec] /\ \A u \in Ticks : ticks'[u].at <= now
      BY <2>7, <2>8 DEF CronInv, CronTypes
    <3>2. lastTick' \in [Schedules -> Int]
      BY <2>1, <2>3 DEF CronInv, CronTypes
    <3> QED  BY <1>2, <2>1, <2>5, <3>1, <3>2 DEF CronInv, CronTypes
  <2>10. FiresOK'
    <3>1. \A f \in fires' : f.by \notin calls'
      BY <1>2, <2>5, CronAssumption DEF CronInv, FiresOK, CronTypes
    <3>2. ASSUME NEW u \in Ticks
          PROVE  /\ ticks'[u].awaiting => ticks'[u].on
                 /\ ticks'[u].awaiting <=> \E f \in fires' : f.by = u
      <4>1. CASE u = t
        BY <2>5, <2>7, <2>8, <4>1
      <4>2. CASE u # t
        BY <2>5, <2>8, <4>2 DEF CronInv, FiresOK, CronTypes
      <4> QED  BY <4>1, <4>2
    <3> QED  BY <2>5, <3>1, <3>2 DEF FiresOK
  <2>11. MapsOK' /\ SavesAll(entries, saved)'
    BY <1>2, <2>1, <2>2 DEF CronInv, MapsOK, SavesAll, Saves
  <2>12. Entered' = Entered
    BY <2>2 DEF Entered
  <2>13. \A j \in Entered \ {i} : CountOK(j)' /\ LastOK(j)'
    <3>1. ASSUME NEW j \in Entered \ {i}
          PROVE  /\ entries'[j].runs \in Nat /\ entries'[j].runs >= entries[j].runs
                 /\ entries'[j].next \in Nat /\ entries'[j].next >= entries[j].next
                 /\ lastTick'[j] = lastTick[j]
      <4>1. j \in Schedules /\ entries[j].runs \in Nat /\ entries[j].next \in Nat
        BY DEF CronInv, MapsOK, MapAt, Entered, EntryRec
      <4> QED  BY <1>1, <2>1, <2>2, <4>1 DEF IsKept, CronInv, CronTypes
    <3> QED  BY <1>2, <2>5, <2>12, <3>1, CountStays
  <2>14. CountOK(i)' /\ LastOK(i)'
    <3>1. /\ Period(i) \in Nat /\ MaxRuns(i) \in Nat /\ now \in Nat
          /\ entries[i].runs \in Nat /\ ticked[i] \in Nat /\ lost[i] \in Int
      BY <2>3, CronAssumption DEF CronInv, MapsOK, MapAt, Entered, EntryRec, CronTypes
    <3>2. Cardinality(Asked(i)) \in Nat /\ Cardinality(Asked(i)') \in Nat
      <4>1. IsFiniteSet(Asked(i)')
        <5>1. Asked(i)' \subseteq fires'
          BY DEF Asked
        <5> QED  BY <2>5, <5>1, FS_Subset
      <4> QED  BY <4>1, AskedIsFinite, FS_CardinalityType DEF CronInv, CronTypes
    <3>3. CountOK(i) /\ (MaxRuns(i) > 0 => entries[i].runs < MaxRuns(i))
      BY <2>1, <3>1 DEF CronInv, Exhausted
    <3>4. lastTick'[i] = now
      BY <2>1, <2>3 DEF CronInv, CronTypes
    <3>5. LastOK(i)'
      BY <1>2, <2>2, <3>1, <3>4 DEF LastOK
    <3>6. Counted(i) <= entries[i].runs + lost[i] /\ Counted(i)' <= Counted(i) + 1
      BY <1>2, <2>5, <3>1, <3>2, <3>3 DEF CountOK, Counted
    <3>7. Counted(i) \in Nat /\ Counted(i)' \in Nat
      BY <1>2, <3>1, <3>2 DEF Counted
    <3> QED  BY <1>2, <2>2, <3>1, <3>3, <3>5, <3>6, <3>7 DEF CountOK
  <2> QED  BY <2>5, <2>9, <2>10, <2>11, <2>12, <2>13, <2>14 DEF CronInv
<1>6. ASSUME NEW i \in Entered, TickThrows(t, kept, i) PROVE CronInv'
  <2>1. FireThrows(i, kept) /\ ticks' = [ticks EXCEPT ![t] = Off] /\ lastTick' = lastTick
    BY <1>6 DEF TickThrows
  <2>2. Off \in TickRec /\ Off.at = 0 /\ ~Off.awaiting /\ ~Off.on
    BY DEF Off, TickRec
  <2>3. ticks' \in [Ticks -> TickRec] /\ \A u \in Ticks : ticks'[u].at <= now
    BY <2>1, <2>2 DEF CronInv, CronTypes
  <2>4. \A u \in Ticks : /\ ticks'[u].awaiting <=> ticks[u].awaiting
                         /\ ticks'[u].awaiting => ticks'[u].on
    BY <2>1, <2>2 DEF CronInv, CronTypes, FiresOK
  <2> QED  BY <1>1, <1>2, <2>1, <2>3, <2>4, ThrowKeeps
<1> QED  BY <1>1, <1>4, <1>5, <1>6

LEMMA RunNowFires ==
  ASSUME CronInv, NEW c \in RunNows, RunNow(c), NEW i \in Entered, Fire(i, c, entries)
  PROVE  CronInv'
<1>1. entries' = [entries EXCEPT ![i] = Started(entries[i], i)] /\ unfound' = unfound
  BY DEF Fire
<1>2. /\ calls' = calls \ {c} /\ c \in calls /\ paused' = paused /\ ticks' = ticks
      /\ saved' = saved /\ budget' = budget /\ now' = now /\ adds' = adds
      /\ lastTick' = lastTick /\ ticked' = ticked /\ lost' = lost /\ overlapped' = overlapped
  BY DEF RunNow, counters, history
<1>3. now \in Nat /\ adds \in Nat
  BY DEF CronInv, CronTypes
<1>4. IsKept(entries) /\ i \in Schedules /\ c \notin Ticks
  BY CronAssumption DEF IsKept, CronInv, MapsOK, MapAt, Entered
<1>5. /\ DOMAIN entries' = Entered /\ MapAt(entries', now, adds)
      /\ SavesAll(entries', saved) /\ \A j \in Entered \ {i} : entries'[j] = entries[j]
      /\ entries'[i].runs = entries[i].runs + 1 /\ entries'[i].next = now + Period(i)
  <2>1. PICK map, kept : map = entries' /\ kept = entries
    OBVIOUS
  <2>2. IsKept(kept) /\ IsFired(map, kept, i)
    BY <1>1, <1>4, <2>1 DEF IsFired
  <2>3. /\ DOMAIN map = Entered /\ MapAt(map, now, adds) /\ SavesAll(map, saved)
        /\ \A j \in Entered \ {i} : map[j] = kept[j]
        /\ map[i].runs = entries[i].runs + 1 /\ map[i].next = now + Period(i)
    BY <2>2, FiredMap
  <2> QED  BY <2>1, <2>3
<1>6. \A f \in fires : f.by # c
  BY <1>2 DEF CronInv, FiresOK
<1>7. /\ fires' \subseteq FireRec /\ IsFiniteSet(fires') /\ inFlight' \subseteq Schedules
      /\ \A f, g \in fires' : f.by = g.by => f = g
      /\ \E new : fires' = fires \cup {new} /\ new.by = c /\ new.id = i
      /\ MarksOK'
      /\ \A k : Asked(k)' = Asked(k)
  BY <1>1, <1>2, <1>4, <1>6, NewFire
<1>8. CronTypes'
  BY <1>1, <1>2, <1>7 DEF CronInv, CronTypes
<1>9. FiresOK'
  BY <1>2, <1>4, <1>7 DEF CronInv, FiresOK
<1>11. MapsOK' /\ SavesAll(entries, saved)' /\ Entered' = Entered
  BY <1>1, <1>2, <1>5 DEF CronInv, MapsOK, SavesAll, Saves, Entered
<1>12. ASSUME NEW j \in Entered
       PROVE  /\ entries'[j].runs \in Nat /\ entries'[j].runs >= entries[j].runs
              /\ entries'[j].next \in Nat /\ entries'[j].next >= entries[j].next
  <2>1. /\ entries[j].runs \in Nat /\ entries[j].next \in Nat /\ Period(j) \in Nat
        /\ entries[j].next <= now + Period(j)
    BY CronAssumption DEF CronInv, MapsOK, MapAt, EntryAt, Entered, EntryRec
  <2> QED  BY <1>3, <1>5, <2>1
<1>13. \A j \in Entered' : CountOK(j)' /\ LastOK(j)'
  BY <1>2, <1>7, <1>11, <1>12, CountStays
<1> QED  BY <1>7, <1>8, <1>9, <1>11, <1>13 DEF CronInv

LEMMA RunNowKeeps ==
  ASSUME CronInv, NEW c \in RunNows, RunNow(c)
  PROVE  CronInv'
<1>1. PICK i \in Entered : Fire(i, c, entries) \/ FireThrows(i, entries)
  BY DEF RunNow
<1>2. CASE Fire(i, c, entries)
  BY <1>2, RunNowFires
<1>3. CASE FireThrows(i, entries)
  <2>1. IsKept(entries)
    BY DEF IsKept, CronInv, MapsOK, MapAt, Entered
  <2>2. /\ UNCHANGED <<ticks, saved, budget, now, adds, lastTick, ticked, lost, overlapped>>
        /\ calls' \subseteq calls
    BY DEF RunNow, counters, history
  <2>3. /\ ticks' \in [Ticks -> TickRec] /\ \A t \in Ticks : ticks'[t].at <= now
        /\ \A t \in Ticks : /\ ticks'[t].awaiting <=> ticks[t].awaiting
                            /\ ticks'[t].awaiting => ticks'[t].on
    BY <2>2 DEF CronInv, CronTypes, FiresOK
  <2> QED  BY <1>3, <2>1, <2>2, <2>3, ThrowKeeps
<1> QED  BY <1>1, <1>2, <1>3

\* Fires that are marked anew and keep caller and schedule.
IsRelabelled(m) ==
  /\ m \in [fires -> FireRec]
  /\ \A f \in fires : m[f].id = f.id /\ m[f].by = f.by

LEMMA Relabels ==
  ASSUME CronInv, NEW m, IsRelabelled(m), fires' = {m[f] : f \in fires},
         UNCHANGED <<inFlight, overlapped, unfound, calls, ticks>>
  PROVE  /\ FiresOK' /\ MarksOK'
         /\ fires' \subseteq FireRec /\ IsFiniteSet(fires')
<1>1. \A g \in fires' : \E f \in fires : g = m[f]
  OBVIOUS
<1>2. \A f \in fires : m[f] \in fires' /\ m[f] \in FireRec /\ m[f].id = f.id /\ m[f].by = f.by
  BY DEF IsRelabelled
<1>3. fires' \subseteq FireRec /\ IsFiniteSet(fires')
  <2>1. m \in Surjection(fires, fires')
    BY <1>1, <1>2 DEF IsRelabelled, Surjection
  <2>2. IsFiniteSet(fires)
    BY DEF CronInv, CronTypes
  <2> QED  BY <1>1, <1>2, <2>1, <2>2, FS_Surjection
<1>4. FiresOK'
  <2>1. \A f, g \in fires' : f.by = g.by => f = g
    BY <1>1, <1>2 DEF CronInv, FiresOK
  <2>2. \A f \in fires' : f.by \notin calls'
    BY <1>1, <1>2 DEF CronInv, FiresOK
  <2>3. \A t \in Ticks : (\E f \in fires' : f.by = t) <=> \E f \in fires : f.by = t
    BY <1>1, <1>2
  <2> QED  BY <2>1, <2>2, <2>3 DEF CronInv, FiresOK
<1>5. MarksOK'
  <2>1. inFlight' \subseteq {f.id : f \in fires'} \cup unfound'
    BY <1>2 DEF CronInv, MarksOK, MarkedWhileFiring
  <2>2. \A f \in fires' : f.id \in inFlight' \cup overlapped'
    BY <1>1, <1>2 DEF CronInv, MarksOK
  <2>3. \A f, g \in fires' :
          f.id = g.id /\ f.by \in Ticks /\ g.by \in Ticks /\ f # g => f.id \in overlapped'
    BY <1>1, <1>2 DEF CronInv, MarksOK
  <2> QED  BY <2>1, <2>2, <2>3 DEF MarksOK, MarkedWhileFiring
<1> QED  BY <1>3, <1>4, <1>5

LEMMA JobQueuedKeeps ==
  ASSUME CronInv, NEW f \in fires, JobQueued(f)
  PROVE  CronInv'
<1>1. PICK queued : queued = [f EXCEPT !.stage = "queued"]
  OBVIOUS
<1>2. /\ f \in FireRec /\ queued \in FireRec
      /\ queued.id = f.id /\ queued.by = f.by /\ queued.old = f.old
      /\ queued.stage = "queued" /\ f.stage = "asked"
  <2>1. f \in FireRec
    BY DEF CronInv, CronTypes
  <2> QED  BY <1>1, <2>1 DEF FireRec, JobQueued
<1>3. /\ fires' = (fires \ {f}) \cup {queued}
      /\ ticked' = IF f.by \in Ticks /\ ~f.old THEN [ticked EXCEPT ![f.id] = @ + 1] ELSE ticked
      /\ UNCHANGED <<entries, inFlight, ticks, saved, counters, calls, lastTick, lost,
                     overlapped, unfound>>
  BY <1>1 DEF JobQueued
<1>4. /\ FiresOK' /\ MarksOK'
      /\ fires' \subseteq FireRec /\ IsFiniteSet(fires')
  <2>1. PICK m : m = [g \in fires |-> IF g = f THEN queued ELSE g]
    OBVIOUS
  <2>2. \A g \in fires : m[g] = IF g = f THEN queued ELSE g
    BY <2>1
  <2>3. IsRelabelled(m)
    BY <1>2, <2>1, <2>2 DEF IsRelabelled, CronInv, CronTypes
  <2>4. fires' = {m[g] : g \in fires}
    <3> HIDE <2>1
    <3> QED  BY <1>3, <2>2
  <2> QED  BY <1>3, <2>3, <2>4, Relabels
<1>5. /\ now' = now /\ adds' = adds /\ budget' = budget /\ Entered' = Entered
      /\ MapsOK' /\ SavesAll(entries, saved)'
  BY <1>3, <1>4 DEF counters, CronInv, MapsOK, SavesAll, Saves, Entered
<1>6. f.id \in Schedules /\ ticked[f.id] \in Nat
  BY <1>2 DEF FireRec, CronInv, CronTypes
<1>7. CronTypes'
  <2>1. ticked' \in [Schedules -> Nat]
    BY <1>3, <1>6 DEF CronInv, CronTypes
  <2> QED  BY <1>3, <1>4, <1>5, <2>1 DEF CronInv, CronTypes
<1>8. ASSUME NEW i \in Entered PROVE CountOK(i)' /\ LastOK(i)'
  <2>1. /\ entries'[i].runs = entries[i].runs /\ entries'[i].next = entries[i].next
        /\ entries[i].runs \in Nat /\ entries[i].next \in Nat /\ i \in Schedules
    BY <1>3 DEF CronInv, MapsOK, MapAt, Entered, EntryRec
  <2>2. CASE f.by \in Ticks /\ ~f.old /\ f.id = i
    <3>1. Asked(i)' = Asked(i) \ {f} /\ f \in Asked(i)
      BY <1>2, <1>3, <2>2 DEF Asked, IsAsked
    <3>2. IsFiniteSet(Asked(i)) /\ Cardinality(Asked(i)) \in Nat
      BY AskedIsFinite DEF CronInv, CronTypes
    <3>3. Cardinality(Asked(i)') = Cardinality(Asked(i)) - 1
      BY <3>1, <3>2, FS_RemoveElement
    <3>4. ticked'[i] = ticked[i] + 1 /\ ticked[i] \in Nat
      BY <1>3, <1>6, <2>2 DEF CronInv, CronTypes
    <3>5. Counted(i)' = Counted(i)
      BY <3>2, <3>3, <3>4 DEF Counted
    <3> QED  BY <1>3, <2>1, <3>5 DEF CronInv, CountOK, LastOK
  <2>3. CASE ~(f.by \in Ticks /\ ~f.old /\ f.id = i)
    <3>1. Asked(i)' = Asked(i)
      BY <1>2, <1>3, <2>3 DEF Asked, IsAsked
    <3>2. ticked'[i] = ticked[i]
      BY <1>3, <1>6, <2>1, <2>3 DEF CronInv, CronTypes
    <3> QED  BY <1>3, <1>5, <2>1, <3>1, <3>2, CountStays
  <2> QED  BY <2>2, <2>3
<1> QED  BY <1>4, <1>5, <1>7, <1>8 DEF CronInv


LEMMA FireSettlesKeeps ==
  ASSUME CronInv, NEW f \in fires, NEW ok \in BOOLEAN, FireSettles(f, ok)
  PROVE  CronInv'
<1>1. /\ inFlight' = inFlight \ {f.id} /\ fires' = fires \ {f}
      /\ saved' = IF ok THEN entries ELSE saved
      /\ ticks' = IF f.by \in Ticks THEN [ticks EXCEPT ![f.by].awaiting = FALSE] ELSE ticks
      /\ overlapped' = IF FiresOf(f.id) = {f} THEN overlapped \ {f.id}
                       ELSE overlapped \cup {f.id}
      /\ UNCHANGED <<entries, counters, calls, lastTick, ticked, lost, unfound>>
  BY DEF FireSettles, Settled, history
<1>2. /\ now' = now /\ adds' = adds /\ budget' = budget
      /\ Entered' = Entered
  BY <1>1 DEF counters, Entered
<1>3. ASSUME NEW t \in Ticks
      PROVE  /\ ticks'[t] \in TickRec /\ ticks'[t].at = ticks[t].at
             /\ ticks'[t].on = ticks[t].on
             /\ ticks'[t].awaiting = IF t = f.by THEN FALSE ELSE ticks[t].awaiting
  BY <1>1 DEF CronInv, CronTypes, TickRec
<1>4. CronTypes'
  <2>1. ticks' \in [Ticks -> TickRec]
    BY <1>1, <1>3 DEF CronInv, CronTypes
  <2>2. fires' \subseteq FireRec /\ IsFiniteSet(fires')
    BY <1>1, FS_RemoveElement DEF CronInv, CronTypes
  <2> QED  BY <1>1, <1>2, <1>3, <2>1, <2>2 DEF CronInv, CronTypes
<1>5. FiresOK'
  <2>1. /\ \A g, h \in fires' : g.by = h.by => g = h
        /\ \A g \in fires' : g.by \notin calls'
    BY <1>1 DEF CronInv, FiresOK
  <2>2. ASSUME NEW t \in Ticks
        PROVE  /\ ticks'[t].awaiting => ticks'[t].on
               /\ ticks'[t].awaiting <=> \E g \in fires' : g.by = t
    <3>1. CASE t = f.by
      <4>1. ~ticks'[t].awaiting
        BY <1>3, <3>1
      <4>2. ~\E g \in fires' : g.by = t
        BY <1>1, <3>1 DEF CronInv, FiresOK
      <4> QED  BY <4>1, <4>2
    <3>2. CASE t # f.by
      <4>1. ticks'[t].awaiting = ticks[t].awaiting /\ ticks'[t].on = ticks[t].on
        BY <1>3, <3>2
      <4>2. (\E g \in fires' : g.by = t) <=> \E g \in fires : g.by = t
        BY <1>1, <3>2
      <4> QED  BY <4>1, <4>2 DEF CronInv, FiresOK
    <3> QED  BY <3>1, <3>2
  <2> QED  BY <2>1, <2>2 DEF FiresOK
<1>6. MarksOK'
  <2>1. inFlight' \subseteq {g.id : g \in fires'} \cup unfound'
    BY <1>1 DEF CronInv, MarksOK, MarkedWhileFiring
  <2>2. ASSUME NEW g \in fires', g.id = f.id PROVE f.id \in overlapped'
    <3>1. FiresOf(f.id) # {f}
      BY <1>1, <2>2 DEF FiresOf
    <3> QED  BY <1>1, <3>1
  <2>3. overlapped \ {f.id} \subseteq overlapped'
    BY <1>1
  <2>4. \A g \in fires' : g.id \in inFlight' \cup overlapped'
    BY <1>1, <2>2, <2>3 DEF CronInv, MarksOK
  <2>5. \A g, h \in fires' :
          g.id = h.id /\ g.by \in Ticks /\ h.by \in Ticks /\ g # h => g.id \in overlapped'
    BY <1>1, <2>2, <2>3 DEF CronInv, MarksOK
  <2> QED  BY <2>1, <2>4, <2>5 DEF MarksOK, MarkedWhileFiring
<1>7. MapsOK' /\ SavesAll(entries, saved)'
  <2>1. SavesAll(entries, entries)
    BY DEF SavesAll, Saves, CronInv, MapsOK, MapAt, EntryRec
  <2> QED  BY <1>1, <1>2, <2>1 DEF CronInv, MapsOK, SavesAll, Saves
<1>8. ASSUME NEW i \in Entered PROVE CountOK(i)' /\ LastOK(i)'
  <2>1. entries[i].runs \in Nat /\ entries[i].next \in Nat
    BY DEF CronInv, MapsOK, MapAt, Entered, EntryRec
  <2>2. Asked(i)' \subseteq Asked(i)
    BY <1>1 DEF Asked
  <2> QED  BY <1>1, <1>2, <2>1, <2>2, CountStays
<1> QED  BY <1>2, <1>4, <1>5, <1>6, <1>7, <1>8 DEF CronInv

\* An entry that add() makes.
LEMMA AddKeeps ==
  ASSUME CronInv, NEW i \in Schedules, Add(i)
  PROVE  CronInv'
<1>1. PICK e :
        /\ e = [enabled |-> TRUE, next |-> now + Period(i), runs |-> 0,
                ins |-> IF i \in Entered THEN entries[i].ins
                        ELSE Cardinality(Schedules) + adds + 1]
        /\ entries' = [k \in Entered \cup {i} |-> IF k = i THEN e ELSE entries[k]]
  BY DEF Add
<1>2. /\ adds' = adds + 1 /\ saved' = entries'
      /\ fires' = {IF f.id = i THEN [f EXCEPT !.old = TRUE] ELSE f : f \in fires}
      /\ lastTick' = [lastTick EXCEPT ![i] = -1]
      /\ ticked' = [ticked EXCEPT ![i] = 0] /\ lost' = [lost EXCEPT ![i] = 0]
      /\ UNCHANGED <<budget, inFlight, ticks, now, calls, overlapped, unfound>>
  BY DEF Add
<1>3. /\ adds \in Nat /\ now \in Nat /\ Period(i) \in Nat \ {0} /\ MaxRuns(i) \in Nat
      /\ Cardinality(Schedules) \in Nat
  BY CronAssumption, SchedulesCounted DEF CronInv, CronTypes
<1>4. /\ e.enabled = TRUE /\ e.next = now + Period(i) /\ e.runs = 0
      /\ e.ins = IF i \in Entered THEN entries[i].ins ELSE Cardinality(Schedules) + adds + 1
  BY <1>1
<1>5. e \in EntryRec /\ EntryAt(e, i, now, adds + 1)
  <2>1. e.ins \in Nat /\ e.ins >= 1 /\ e.ins <= Cardinality(Schedules) + adds + 1
    <3>1. CASE i \in Entered
      <4>1. entries[i].ins \in Nat /\ EntryAt(entries[i], i, now, adds)
        BY <3>1 DEF CronInv, MapsOK, MapAt, Entered, EntryRec
      <4> QED  BY <1>3, <1>4, <3>1, <4>1 DEF EntryAt
    <3>2. CASE i \notin Entered
      BY <1>3, <1>4, <3>2
    <3> QED  BY <3>1, <3>2
  <2>2. e \in EntryRec
    BY <1>1, <1>3, <1>4, <2>1 DEF EntryRec
  <2> QED  BY <1>3, <1>4, <2>1, <2>2 DEF EntryAt
<1>6. MapAt(entries, now, adds + 1)
  BY <1>3, MapStays DEF CronInv, MapsOK
<1>7. /\ Entered' = Entered \cup {i} /\ entries'[i] = e
      /\ \A k \in Entered \ {i} : entries'[k] = entries[k]
  BY <1>1 DEF Entered
<1>8. MapAt(entries', now, adds + 1)
  <2>1. ASSUME NEW k \in Entered \cup {i}
        PROVE  k \in Schedules /\ entries'[k] \in EntryRec
               /\ EntryAt(entries'[k], k, now, adds + 1)
    BY <1>5, <1>6, <1>7 DEF MapAt, Entered
  <2>2. entries' \in [DOMAIN entries' -> EntryRec] /\ DOMAIN entries' = Entered \cup {i}
    BY <1>1, <2>1
  <2> QED  BY <2>1, <2>2 DEF MapAt
<1>9. /\ FiresOK' /\ MarksOK'
      /\ fires' \subseteq FireRec /\ IsFiniteSet(fires')
  <2> DEFINE Marked(f) == IF f.id = i THEN [f EXCEPT !.old = TRUE] ELSE f
  <2>1. ASSUME NEW f \in fires
        PROVE  Marked(f) \in FireRec /\ Marked(f).id = f.id /\ Marked(f).by = f.by
    <3>1. f \in FireRec
      BY DEF CronInv, CronTypes
    <3>2. /\ [f EXCEPT !.old = TRUE] \in FireRec
          /\ [f EXCEPT !.old = TRUE].id = f.id /\ [f EXCEPT !.old = TRUE].by = f.by
      BY <3>1 DEF FireRec
    <3> QED  BY <3>1, <3>2
  <2>2. fires' = {Marked(f) : f \in fires}
    BY <1>2
  <2> HIDE DEF Marked
  <2>3. PICK m : m = [f \in fires |-> Marked(f)]
    OBVIOUS
  <2>4. IsRelabelled(m) /\ fires' = {m[f] : f \in fires}
    BY <2>1, <2>2, <2>3 DEF IsRelabelled
  <2> QED  BY <1>2, <2>4, Relabels
<1>10. Asked(i)' = {} /\ \A k : k # i => Asked(k)' = Asked(k)
  <2>1. \A f \in fires : /\ [f EXCEPT !.old = TRUE].old = TRUE
                         /\ [f EXCEPT !.old = TRUE].id = f.id
    BY DEF CronInv, CronTypes, FireRec
  <2> QED  BY <1>2, <2>1 DEF Asked, IsAsked
<1>11. CronTypes'
  <2>1. lastTick' \in [Schedules -> Int] /\ ticked' \in [Schedules -> Nat]
        /\ lost' \in [Schedules -> Int]
    BY <1>2 DEF CronInv, CronTypes
  <2> QED  BY <1>2, <1>3, <1>9, <2>1 DEF CronInv, CronTypes
<1>12. MapsOK' /\ SavesAll(entries, saved)'
  <2>1. SavesAll(entries', entries')
    BY <1>8 DEF SavesAll, Saves, MapAt, EntryRec
  <2> QED  BY <1>2, <1>8, <1>9, <2>1 DEF MapsOK, SavesAll, Saves
<1>13. ASSUME NEW k \in Entered, k # i PROVE CountOK(k)' /\ LastOK(k)'
  <2>1. /\ k \in Schedules /\ entries[k].runs \in Nat /\ entries[k].next \in Nat
        /\ entries'[k] = entries[k]
    BY <1>7, <1>13 DEF CronInv, MapsOK, MapAt, Entered, EntryRec
  <2>2. lastTick'[k] = lastTick[k] /\ ticked'[k] = ticked[k] /\ lost'[k] = lost[k]
    BY <1>2, <1>13, <2>1 DEF CronInv, CronTypes
  <2> QED  BY <1>7, <1>10, <1>13, <2>1, <2>2, CountStays
<1>14. CountOK(i)' /\ LastOK(i)'
  <2>1. lastTick'[i] = -1 /\ ticked'[i] = 0 /\ lost'[i] = 0
    BY <1>2 DEF CronInv, CronTypes
  <2>2. Counted(i)' = 0
    BY <1>10, <2>1, FS_EmptySet DEF Counted
  <2> QED  BY <1>3, <1>4, <1>7, <2>1, <2>2 DEF CountOK, LastOK
<1> QED  BY <1>7, <1>9, <1>11, <1>12, <1>13, <1>14 DEF CronInv

LEMMA RemoveKeeps ==
  ASSUME CronInv, NEW i \in Schedules, RemoveSchedule(i)
  PROVE  CronInv'
<1>1. /\ entries' = [k \in Entered \ {i} |-> entries[k]] /\ saved' = entries'
      /\ UNCHANGED <<inFlight, ticks, fires, counters, calls, lastTick, ticked, lost,
                     overlapped, unfound>>
  BY DEF RemoveSchedule, history
<1>2. now' = now /\ adds' = adds /\ budget' = budget /\ Entered' = Entered \ {i}
  BY <1>1 DEF counters, Entered
<1>3. FiresOK' /\ MarksOK' /\ \A k : Asked(k)' = Asked(k)
  BY <1>1, FiresStay
<1>4. CronTypes'
  BY <1>1, <1>2 DEF CronInv, CronTypes
<1>5. MapAt(entries', now, adds)
  <2>1. DOMAIN entries' \subseteq Entered /\ \A k \in DOMAIN entries' : entries'[k] = entries[k]
    BY <1>1
  <2> QED  BY <1>1, <2>1 DEF CronInv, MapsOK, MapAt, Entered
<1>6. MapsOK' /\ SavesAll(entries, saved)'
  <2>1. SavesAll(entries', entries')
    BY <1>5 DEF SavesAll, Saves, MapAt, EntryRec
  <2> QED  BY <1>1, <1>2, <1>3, <1>5, <2>1 DEF MapsOK, SavesAll, Saves
<1>7. ASSUME NEW k \in Entered' PROVE CountOK(k)' /\ LastOK(k)'
  <2>1. k \in Entered /\ entries'[k] = entries[k]
    BY <1>1, <1>2
  <2>2. entries[k].runs \in Nat /\ entries[k].next \in Nat
    BY <2>1 DEF CronInv, MapsOK, MapAt, Entered, EntryRec
  <2> QED  BY <1>1, <1>3, <2>1, <2>2, CountStays
<1> QED  BY <1>3, <1>4, <1>6, <1>7 DEF CronInv

LEMMA SetEnabledKeeps ==
  ASSUME CronInv, NEW i \in Schedules, NEW on \in BOOLEAN, SetEnabled(i, on)
  PROVE  CronInv'
<1>1. /\ entries' = [entries EXCEPT ![i] =
           [entries[i] EXCEPT !.enabled = on,
                              !.next = IF on THEN now + Period(i) ELSE entries[i].next]]
      /\ saved' = entries' /\ i \in Entered
      /\ UNCHANGED <<inFlight, ticks, fires, counters, calls, lastTick, ticked, lost,
                     overlapped, unfound>>
  BY DEF SetEnabled, history
<1>2. now' = now /\ adds' = adds /\ budget' = budget /\ Entered' = Entered
  BY <1>1 DEF counters, Entered
<1>3. FiresOK' /\ MarksOK' /\ \A k : Asked(k)' = Asked(k)
  BY <1>1, FiresStay
<1>4. CronTypes'
  BY <1>1, <1>2 DEF CronInv, CronTypes
<1>5. /\ Period(i) \in Nat \ {0} /\ now \in Nat /\ adds \in Nat
      /\ Cardinality(Schedules) \in Nat
  BY CronAssumption, SchedulesCounted DEF CronInv, CronTypes
<1>6. entries \in [Entered -> EntryRec] /\ EntryAt(entries[i], i, now, adds)
  BY <1>1 DEF CronInv, MapsOK, MapAt, Entered
<1>7. /\ entries'[i] \in EntryRec /\ entries'[i].runs = entries[i].runs
      /\ entries'[i].ins = entries[i].ins
      /\ entries'[i].next = IF on THEN now + Period(i) ELSE entries[i].next
  <2>1. PICK due : due = IF on THEN now + Period(i) ELSE entries[i].next
    OBVIOUS
  <2>2. entries[i] \in EntryRec /\ due \in Nat
    BY <1>1, <1>5, <1>6, <2>1 DEF EntryRec
  <2>3. entries'[i] = [entries[i] EXCEPT !.enabled = on, !.next = due]
    BY <1>1, <1>6, <2>1
  <2>4. /\ entries'[i] \in EntryRec /\ entries'[i].runs = entries[i].runs
        /\ entries'[i].ins = entries[i].ins /\ entries'[i].next = due
    BY <2>2, <2>3 DEF EntryRec
  <2> QED  BY <2>1, <2>4
<1>8. DOMAIN entries' = Entered /\ \A k \in Entered \ {i} : entries'[k] = entries[k]
  BY <1>1, <1>6
<1>9. /\ entries[i].runs \in Nat /\ entries[i].next \in Nat /\ entries[i].ins \in Nat
      /\ entries'[i].next \in Nat /\ entries'[i].next >= entries[i].next
      /\ EntryAt(entries'[i], i, now, adds)
  <2>1. entries[i].runs \in Nat /\ entries[i].next \in Nat /\ entries[i].ins \in Nat
    BY <1>1, <1>6 DEF EntryRec
  <2> QED  BY <1>5, <1>6, <1>7, <2>1 DEF EntryAt
<1>10. MapAt(entries', now, adds)
  <2>1. \A k \in Entered : /\ entries'[k] \in EntryRec
                           /\ EntryAt(entries'[k], k, now, adds)
    BY <1>7, <1>8, <1>9 DEF CronInv, MapsOK, MapAt, Entered
  <2>2. entries' \in [Entered -> EntryRec]
    <3>1. entries' = [k \in Entered |-> entries'[k]]
      BY <1>1, <1>6
    <3> QED  BY <2>1, <3>1
  <2> QED  BY <1>8, <2>1, <2>2 DEF MapAt, CronInv, MapsOK, Entered
<1>11. MapsOK' /\ SavesAll(entries, saved)'
  <2>1. SavesAll(entries', entries')
    BY <1>10 DEF SavesAll, Saves, MapAt, EntryRec
  <2> QED  BY <1>1, <1>2, <1>3, <1>10, <2>1 DEF MapsOK, SavesAll, Saves
<1>12. ASSUME NEW k \in Entered PROVE CountOK(k)' /\ LastOK(k)'
  <2>1. /\ entries'[k].runs \in Nat /\ entries'[k].runs >= entries[k].runs
        /\ entries'[k].next \in Nat /\ entries'[k].next >= entries[k].next
    <3>1. entries[k].runs \in Nat /\ entries[k].next \in Nat
      BY <1>6 DEF EntryRec
    <3> QED  BY <1>7, <1>8, <1>9, <3>1
  <2> QED  BY <1>1, <1>2, <1>3, <2>1, CountStays
<1> QED  BY <1>2, <1>3, <1>4, <1>11, <1>12 DEF CronInv

LEMMA SaveKeeps ==
  ASSUME CronInv, saved' = entries \/ saved' = saved,
         UNCHANGED <<entries, inFlight, ticks, fires, counters, calls, history, overlapped, unfound>>
  PROVE  CronInv'
<1>1. /\ UNCHANGED <<entries, inFlight, ticks, fires, calls, lastTick, ticked, lost, overlapped, unfound>>
      /\ now' = now /\ adds' = adds /\ budget' = budget /\ Entered' = Entered
  BY DEF counters, history, Entered
<1>2. FiresOK' /\ MarksOK' /\ \A k : Asked(k)' = Asked(k)
  BY <1>1, FiresStay
<1>3. CronTypes'
  BY <1>1 DEF CronInv, CronTypes
<1>4. MapsOK' /\ SavesAll(entries, saved)'
  <2>1. SavesAll(entries, entries)
    BY DEF SavesAll, Saves, CronInv, MapsOK, MapAt, EntryRec
  <2> QED  BY <1>1, <1>2, <2>1 DEF CronInv, MapsOK, SavesAll, Saves
<1>5. ASSUME NEW k \in Entered PROVE CountOK(k)' /\ LastOK(k)'
  <2>1. entries[k].runs \in Nat /\ entries[k].next \in Nat
    BY DEF CronInv, MapsOK, MapAt, Entered, EntryRec
  <2> QED  BY <1>1, <1>2, <2>1, CountStays
<1> QED  BY <1>1, <1>2, <1>3, <1>4, <1>5 DEF CronInv

LEMMA ClockKeeps ==
  ASSUME CronInv, Clock
  PROVE  CronInv'
<1>1. /\ UNCHANGED <<entries, saved, inFlight, ticks, fires, calls, lastTick, ticked, lost,
                     overlapped, unfound>>
      /\ now' = now + 1 /\ now < budget.clock /\ adds' = adds /\ budget' = budget
      /\ Entered' = Entered
  BY DEF Clock, history, Entered
<1>2. FiresOK' /\ MarksOK' /\ \A k : Asked(k)' = Asked(k)
  BY <1>1, FiresStay
<1>3. budget.clock \in 0 .. MaxClock /\ MaxClock \in Nat /\ now \in Nat
  BY CronAssumption DEF CronInv, CronTypes
<1>4. now' \in 0 .. MaxClock /\ now' \in Nat
  BY <1>1, <1>3
<1>5. CronTypes'
  <2>1. \A t \in Ticks : ticks[t].at <= now + 1
    BY <1>3 DEF CronInv, CronTypes, TickRec
  <2> QED  BY <1>1, <1>4, <2>1 DEF CronInv, CronTypes
<1>6. MapsOK' /\ SavesAll(entries, saved)'
  <2>1. adds \in Nat /\ now + 1 \in Nat /\ now <= now + 1
    BY <1>3 DEF CronInv, CronTypes
  <2>2. MapAt(entries, now + 1, adds) /\ MapAt(saved, now + 1, adds)
    BY <1>3, <2>1, MapStays DEF CronInv, MapsOK
  <2> QED  BY <1>1, <1>2, <2>2 DEF CronInv, MapsOK, SavesAll, Saves
<1>7. ASSUME NEW k \in Entered PROVE CountOK(k)' /\ LastOK(k)'
  <2>1. entries[k].runs \in Nat /\ entries[k].next \in Nat
    BY DEF CronInv, MapsOK, MapAt, Entered, EntryRec
  <2> QED  BY <1>1, <1>2, <2>1, CountStays
<1> QED  BY <1>1, <1>2, <1>5, <1>6, <1>7 DEF CronInv

\* What is loaded has lost the runs that were not saved, and no fire is left.
LEMMA RestartKeeps ==
  ASSUME CronInv, Restart
  PROVE  CronInv'
<1>1. /\ now' \in now .. budget.clock /\ entries' = saved /\ inFlight' = {} /\ fires' = {}
      /\ ticks' = [t \in Ticks |-> Off] /\ lastTick' = [i \in Schedules |-> -1]
      /\ lost' = [i \in Schedules |->
                    IF i \in Entered \cap DOMAIN saved
                    THEN lost[i] + entries[i].runs - saved[i].runs ELSE lost[i]]
      /\ overlapped' = {} /\ unfound' = {} /\ UNCHANGED <<budget, saved, adds, calls, ticked>>
  BY DEF Restart
<1>2. DOMAIN saved = Entered /\ Entered' = Entered
  BY <1>1 DEF CronInv, SavesAll, Entered
<1>3. budget.clock \in 0 .. MaxClock /\ MaxClock \in Nat /\ now \in Nat /\ adds \in Nat
  BY CronAssumption DEF CronInv, CronTypes
<1>4. now' \in 0 .. MaxClock /\ now' \in Nat /\ now <= now'
  BY <1>1, <1>3
<1>5. ASSUME NEW i \in Entered
      PROVE  /\ entries[i].runs \in Nat /\ saved[i].runs \in Nat
             /\ saved[i].runs <= entries[i].runs /\ i \in Schedules
  BY <1>2 DEF CronInv, MapsOK, MapAt, Entered, EntryRec, SavesAll, Saves
<1>6. CronTypes'
  <2>1. Off \in TickRec /\ Off.at = 0
    BY DEF Off, TickRec
  <2>2. ticks' \in [Ticks -> TickRec] /\ \A t \in Ticks : ticks'[t].at <= now'
    BY <1>1, <1>4, <2>1
  <2>3. lost' \in [Schedules -> Int]
    BY <1>1, <1>5 DEF CronInv, CronTypes
  <2> QED  BY <1>1, <1>4, <2>2, <2>3, FS_EmptySet DEF CronInv, CronTypes
<1>7. MapsOK' /\ SavesAll(entries, saved)'
  <2>1. SavesAll(saved, saved)
    BY DEF SavesAll, Saves, CronInv, MapsOK, MapAt, EntryRec
  <2>3. PICK time : time = now'
    OBVIOUS
  <2>4. MapAt(saved, time, adds)
    BY <1>3, <1>4, <2>3, MapStays DEF CronInv, MapsOK
  <2> QED  BY <1>1, <1>2, <2>1, <2>3, <2>4 DEF MapsOK, SavesAll, Saves
<1>8. FiresOK' /\ MarksOK' /\ \A k : Asked(k)' = {}
  <2>1. ~Off.awaiting
    BY DEF Off
  <2> QED  BY <1>1, <2>1 DEF FiresOK, MarksOK, MarkedWhileFiring, Asked
<1>9. ASSUME NEW i \in Entered PROVE CountOK(i)' /\ LastOK(i)'
  <2>1. /\ lastTick'[i] = -1 /\ ticked'[i] = ticked[i]
        /\ lost'[i] = lost[i] + entries[i].runs - saved[i].runs
    BY <1>1, <1>2, <1>5
  <2>2. ticked[i] \in Nat /\ lost[i] \in Int /\ MaxRuns(i) \in Nat
    BY <1>5, CronAssumption DEF CronInv, CronTypes
  <2>3. Cardinality(Asked(i)) \in Nat /\ CountOK(i)
    BY AskedIsFinite DEF CronInv, CronTypes
  <2>4. Counted(i)' = ticked[i]
    <3>1. Cardinality(Asked(i)') = 0
      BY <1>8, FS_EmptySet
    <3> QED  BY <2>1, <2>2, <3>1 DEF Counted
  <2>5. CountOK(i)'
    BY <1>1, <1>5, <2>1, <2>2, <2>3, <2>4 DEF CountOK, Counted
  <2>6. LastOK(i)'
    BY <2>1 DEF LastOK
  <2> QED  BY <2>5, <2>6
<1> QED  BY <1>2, <1>6, <1>7, <1>8, <1>9 DEF CronInv

\* A schedule that setEnabled enabled before the search threw.
LEMMA EnableThrowsKeeps ==
  ASSUME CronInv, NEW i \in Schedules, EnableThrows(i)
  PROVE  CronInv'
<1>1. /\ entries' = [entries EXCEPT ![i].enabled = TRUE] /\ i \in Entered
      /\ unfound' = unfound \cup {i}
      /\ UNCHANGED <<inFlight, ticks, fires, saved, counters, calls, lastTick, ticked, lost,
                     overlapped>>
  BY DEF EnableThrows, history
<1>2. now' = now /\ adds' = adds /\ budget' = budget
  BY <1>1 DEF counters
<1>3. entries \in [Entered -> EntryRec] /\ entries[i] \in EntryRec
  BY <1>1 DEF CronInv, MapsOK, MapAt, Entered
<1>4. PICK e : e = [entries[i] EXCEPT !.enabled = TRUE]
  OBVIOUS
<1>5. /\ e \in EntryRec /\ e.next = entries[i].next /\ e.ins = entries[i].ins
      /\ e.runs = entries[i].runs
  BY <1>3, <1>4 DEF EntryRec
<1>6. /\ entries' \in [Entered -> EntryRec] /\ DOMAIN entries' = Entered
      /\ entries'[i] = e /\ \A k \in Entered \ {i} : entries'[k] = entries[k]
      /\ Entered' = Entered
  BY <1>1, <1>3, <1>4, <1>5 DEF Entered
<1>7. CronTypes'
  BY <1>1, <1>2 DEF CronInv, CronTypes
<1>8. FiresOK' /\ MarksOK' /\ \A k : Asked(k)' = Asked(k)
  BY <1>1 DEF CronInv, FiresOK, MarksOK, MarkedWhileFiring, Asked
<1>9. MapsOK'
  <2>1. MapAt(entries', now, adds)
    BY <1>1, <1>5, <1>6 DEF CronInv, MapsOK, MapAt, EntryAt, Entered
  <2> QED  BY <1>1, <1>2, <2>1 DEF CronInv, MapsOK
<1>10. SavesAll(entries, saved)'
  BY <1>1, <1>5, <1>6 DEF CronInv, SavesAll, Saves, Entered
<1>11. ASSUME NEW k \in Entered PROVE CountOK(k)' /\ LastOK(k)'
  <2>1. entries[k].runs \in Nat /\ entries[k].next \in Nat
    BY <1>3 DEF EntryRec
  <2>2. entries'[k].runs = entries[k].runs /\ entries'[k].next = entries[k].next
    BY <1>5, <1>6
  <2> QED  BY <1>1, <1>6, <1>8, <2>1, <2>2, CountStays
<1> QED  BY <1>6, <1>7, <1>8, <1>9, <1>10, <1>11 DEF CronInv

\* A tick that starts, and one that goes on, is a tick that visits.
LEMMA TickTurns ==
  ASSUME CronInv, NEW t \in Ticks, TickStart(t) \/ TickResumes(t)
  PROVE  \E tick \in TickRec :
           /\ tick.at \in Nat /\ tick.at <= now /\ tick.on /\ ~ticks[t].awaiting
           /\ Visit(t, tick)
<1>1. ticks[t] \in TickRec /\ ticks[t].at <= now /\ now \in Nat
  BY DEF CronInv, CronTypes
<1>2. CASE TickStart(t)
  <2>1. PICK tick : tick = [on |-> TRUE, at |-> now, last |-> 0, awaiting |-> FALSE]
    OBVIOUS
  <2>2. tick \in TickRec /\ tick.at = now /\ tick.on
    BY <1>1, <2>1 DEF TickRec
  <2>3. Visit(t, tick) /\ ~ticks[t].on
    BY <1>2, <2>1 DEF TickStart
  <2>4. ~ticks[t].awaiting
    BY <2>3 DEF CronInv, FiresOK
  <2> QED  BY <1>1, <2>2, <2>3, <2>4
<1>3. CASE TickResumes(t)
  <2>1. ticks[t].on /\ ~ticks[t].awaiting /\ Visit(t, ticks[t])
    BY <1>3 DEF TickResumes
  <2>2. ticks[t].at \in Nat
    BY <1>1 DEF TickRec
  <2> QED  BY <1>1, <2>1, <2>2
<1> QED  BY <1>2, <1>3

LEMMA CronInitKeeps == CronInit => CronInv
<1> SUFFICES ASSUME CronInit PROVE CronInv
  OBVIOUS
<1>1. /\ entries = [i \in Schedules |-> [enabled |-> TRUE, next |-> Period(i), runs |-> 0,
                                         ins |-> Loaded(i)]]
      /\ saved = entries /\ inFlight = {} /\ fires = {} /\ ticks = [t \in Ticks |-> Off]
      /\ now = 0 /\ adds = 0 /\ budget \in Budgets /\ calls = budget.calls
      /\ lastTick = [i \in Schedules |-> -1]
      /\ ticked = [i \in Schedules |-> 0] /\ lost = [i \in Schedules |-> 0]
      /\ unfound = {}
  BY DEF CronInit
<1>2. Off \in TickRec /\ Off.at = 0 /\ ~Off.awaiting
  BY DEF Off, TickRec
<1>3. CronTypes
  <2>1. calls \subseteq RunNows /\ now \in 0 .. MaxClock
    BY <1>1, CronAssumption
  <2>2. ticks \in [Ticks -> TickRec] /\ \A t \in Ticks : ticks[t].at <= now
    BY <1>1, <1>2
  <2>3. /\ lastTick \in [Schedules -> Int]
        /\ ticked \in [Schedules -> Nat] /\ lost \in [Schedules -> Int]
    BY <1>1
  <2> QED  BY <1>1, <2>1, <2>2, <2>3, FS_EmptySet DEF CronTypes
<1>4. Entered = Schedules
  BY <1>1 DEF Entered
<1>5. ASSUME NEW i \in Schedules
      PROVE  /\ entries[i] \in EntryRec /\ EntryAt(entries[i], i, now, adds)
             /\ entries[i].runs = 0 /\ entries[i].enabled \in BOOLEAN
  <2>1. /\ entries[i] = [enabled |-> TRUE, next |-> Period(i), runs |-> 0, ins |-> Loaded(i)]
        /\ Period(i) \in Nat \ {0} /\ Loaded(i) \in 1 .. Cardinality(Schedules)
        /\ Cardinality(Schedules) \in Nat
    BY <1>1, CronAssumption, SchedulesCounted
  <2>2. Loaded(i) \in Nat /\ Loaded(i) >= 1 /\ Loaded(i) <= Cardinality(Schedules)
    BY <2>1
  <2>3. /\ entries[i].enabled = TRUE /\ entries[i].next = Period(i) /\ entries[i].runs = 0
        /\ entries[i].ins = Loaded(i) /\ entries[i] \in EntryRec
    BY <2>1, <2>2 DEF EntryRec
  <2>4. now = 0 /\ adds = 0
    BY <1>1
  <2>5. EntryAt(entries[i], i, now, adds)
    BY <2>1, <2>2, <2>3, <2>4 DEF EntryAt
  <2> QED  BY <2>3, <2>5
<1>6. entries \in [Schedules -> EntryRec]
  BY <1>1, <1>5
<1>7. MapsOK /\ SavesAll(entries, saved)
  BY <1>1, <1>4, <1>5, <1>6 DEF MapsOK, MapAt, SavesAll, Saves, Entered
<1>8. FiresOK /\ MarksOK
  BY <1>1, <1>2 DEF FiresOK, MarksOK, MarkedWhileFiring
<1>9. ASSUME NEW i \in Entered PROVE CountOK(i) /\ LastOK(i)
  <2>1. Asked(i) = {} /\ ticked[i] = 0 /\ lost[i] = 0 /\ lastTick[i] = -1
    BY <1>1, <1>4 DEF Asked
  <2>2. Counted(i) = 0 /\ MaxRuns(i) \in Nat
    BY <1>4, <2>1, FS_EmptySet, CronAssumption DEF Counted
  <2> QED  BY <1>4, <1>5, <2>1, <2>2 DEF CountOK, LastOK
<1> QED  BY <1>3, <1>7, <1>8, <1>9 DEF CronInv

LEMMA CronStepKeeps == CronInv /\ [CronNext]_cronVars => CronInv'
<1> SUFFICES ASSUME CronInv, [CronNext]_cronVars PROVE CronInv'
  OBVIOUS
<1>1. ASSUME NEW t \in Ticks, TickStart(t) \/ TickResumes(t) PROVE CronInv'
  <2>1. PICK tick \in TickRec :
          /\ tick.at \in Nat /\ tick.at <= now /\ tick.on /\ ~ticks[t].awaiting
          /\ Visit(t, tick)
    BY <1>1, TickTurns
  <2>2. UNCHANGED <<saved, counters, calls, ticked, lost, overlapped>>
    BY <1>1 DEF TickStart, TickResumes
  <2> QED  BY <2>1, <2>2, TickKeeps
<1>2. ASSUME NEW f \in fires, NEW ok \in BOOLEAN, FireSettles(f, ok) PROVE CronInv'
  BY <1>2, FireSettlesKeeps
<1>3. ASSUME NEW c \in RunNows, RunNow(c) PROVE CronInv'
  BY <1>3, RunNowKeeps
<1>4. ASSUME NEW f \in fires, JobQueued(f) PROVE CronInv'
  BY <1>4, JobQueuedKeeps
<1>5. ASSUME NEW i \in Schedules, Add(i) \/ RemoveSchedule(i) PROVE CronInv'
  BY <1>5, AddKeeps, RemoveKeeps
<1>6. ASSUME NEW i \in Schedules, NEW on \in BOOLEAN, SetEnabled(i, on) PROVE CronInv'
  BY <1>6, SetEnabledKeeps
<1>9. ASSUME NEW i \in Schedules, EnableThrows(i) PROVE CronInv'
  BY <1>9, EnableThrowsKeeps
<1>7. CASE Pause \/ CronShutdown \/ UNCHANGED cronVars
  <2>1. /\ saved' = entries \/ saved' = saved
        /\ UNCHANGED <<entries, inFlight, ticks, fires, counters, calls, history, overlapped, unfound>>
    BY <1>7 DEF Pause, CronShutdown, cronVars, counters, history
  <2> QED  BY <2>1, SaveKeeps
<1>8. CASE Restart \/ Clock
  BY <1>8, RestartKeeps, ClockKeeps
<1> QED  BY <1>1, <1>2, <1>3, <1>4, <1>5, <1>6, <1>7, <1>8, <1>9 DEF CronNext

-----------------------------------------------------------------------------
(* The properties                                                          *)

LEMMA CronInvariant == CronSpec => []CronInv
  BY CronInitKeeps, CronStepKeeps, PTL DEF CronSpec

\* Ticks, runNow, add, remove, pause and restarts, interleaved at every await,
\* neither block a schedule that has a next run, fire it twice at once, exceed its
\* runs nor lose it; and however late ticks are and whenever it is called by hand, no
\* minute its expression names goes by without a run, and no tick runs it for another,
\* until a search for its next run finds no date.
THEOREM SchedulesHold == CronSpec /\ TimesSpec => []SchedulesSound
<1>1. ASSUME CronInv, TimesSound PROVE SchedulesSound
  <2> USE <1>1
  <2>1. CronTypeOK
    <3>1. Entered \subseteq Schedules /\ DOMAIN saved \subseteq Schedules
      BY DEF CronInv, MapsOK, MapAt, Entered
    <3>2. ASSUME NEW i \in Entered
          PROVE  /\ entries[i].enabled \in BOOLEAN
                 /\ entries[i].next \in 0 .. MaxClock + Period(i)
                 /\ entries[i].runs \in Nat
                 /\ entries[i].ins \in 1 .. Cardinality(Schedules) + adds
      <4>1. entries[i] \in EntryRec /\ EntryAt(entries[i], i, now, adds)
        BY DEF CronInv, MapsOK, MapAt, Entered
      <4>2. /\ now \in Nat /\ now <= MaxClock /\ MaxClock \in Nat /\ adds \in Nat
            /\ Period(i) \in Nat /\ Cardinality(Schedules) \in Nat
        BY <3>1, CronAssumption, SchedulesCounted DEF CronInv, CronTypes
      <4>4. /\ entries[i].next \in Nat /\ entries[i].runs \in Nat /\ entries[i].ins \in Nat
            /\ entries[i].enabled \in BOOLEAN
        BY <4>1 DEF EntryRec
      <4> QED  BY <4>1, <4>2, <4>4 DEF EntryAt
    <3>3. \A f \in fires : f.by \in Ticks \cup RunNows /\ f.stage \in {"asked", "queued"}
      BY DEF CronInv, CronTypes, FireRec
    <3> QED  BY <3>1, <3>2, <3>3 DEF CronTypeOK, CronInv, CronTypes, FiresOK
  <2>2. MarkedWhileFiring
    BY DEF CronInv, MarksOK
  <2>3. NoDoubleFire
    <3> SUFFICES ASSUME NEW i \in Schedules,
                        Cardinality({f \in FiresOf(i) : f.by \in Ticks}) > 1,
                        i \notin overlapped
                 PROVE  FALSE
      BY DEF NoDoubleFire
    <3> DEFINE twice == {f \in FiresOf(i) : f.by \in Ticks}
    <3>1. \A f, g \in twice : f = g
      BY DEF CronInv, MarksOK, FiresOf
    <3>2. Cardinality(twice) <= 1
      <4>1. CASE twice = {}
        BY <4>1, FS_EmptySet
      <4>2. CASE twice # {}
        <5>1. PICK f : twice = {f}
          BY <3>1, <4>2
        <5>2. Cardinality({f}) = 1
          BY FS_Singleton
        <5> HIDE DEF twice
        <5> QED  BY <5>1, <5>2
      <4> QED  BY <4>1, <4>2
    <3>3. IsFiniteSet(twice)
      <4>1. twice \subseteq fires /\ IsFiniteSet(fires)
        BY DEF FiresOf, CronInv, CronTypes
      <4> QED  BY <4>1, FS_Subset
    <3>4. Cardinality(twice) \in Nat /\ Cardinality(twice) > 1
      BY <3>3, FS_CardinalityType
    <3> QED  BY <3>2, <3>4
  <2>4. RunsBounded
    <3> SUFFICES ASSUME NEW i \in Entered, MaxRuns(i) > 0
                 PROVE  ticked[i] <= MaxRuns(i) + lost[i]
      BY DEF RunsBounded
    <3>1. i \in Schedules
      BY DEF CronInv, MapsOK, MapAt, Entered
    <3>2. /\ ticked[i] \in Nat /\ lost[i] \in Int /\ MaxRuns(i) \in Nat
          /\ Cardinality(Asked(i)) \in Nat
      BY <3>1, CronAssumption, AskedIsFinite DEF CronInv, CronTypes
    <3>3. Counted(i) <= MaxRuns(i) + lost[i]
      BY DEF CronInv, CountOK
    <3> QED  BY <3>2, <3>3 DEF Counted
  <2>5. RestartKeepsSchedules
    <3>1. DOMAIN saved = Entered
      BY DEF CronInv, SavesAll, Entered
    <3>2. ASSUME NEW i \in Entered
          PROVE  /\ saved[i].runs <= entries[i].runs
                 /\ saved[i].enabled # entries[i].enabled => Exhausted(i) \/ i \in unfound
      BY DEF CronInv, SavesAll, Saves, Entered, Exhausted
    <3> QED  BY <3>1, <3>2 DEF RestartKeepsSchedules
  <2> QED  BY <1>1, <2>1, <2>2, <2>3, <2>4, <2>5 DEF SchedulesSound
<1> QED  BY <1>1, CronInvariant, TimesInvariant, PTL

\* Missed runs are not made up for one by one: however long ticks were held up, the
\* runs of a schedule are at least a period apart, for every period.
THEOREM MissedRunsAreOne == CronSpec => MissedRunsCoalesce
<1> DEFINE Apart(t) ==
      ~ticks[t].awaiting /\ ticks'[t].awaiting =>
        \A f \in fires' : f.by = t /\ lastTick[f.id] >= 0
                            => now >= lastTick[f.id] + Period(f.id)
<1>1. ASSUME CronInv, [CronNext]_cronVars, NEW t \in Ticks PROVE Apart(t)
  <2> SUFFICES ASSUME ~ticks[t].awaiting, ticks'[t].awaiting, NEW f \in fires', f.by = t,
                      lastTick[f.id] >= 0
               PROVE  now >= lastTick[f.id] + Period(f.id)
    OBVIOUS
  <2>1. ticks' # ticks
    OBVIOUS
  <2>2. \E u \in Ticks : TickStart(u) \/ TickResumes(u)
    <3>1. ASSUME NEW g \in fires, NEW ok \in BOOLEAN, FireSettles(g, ok) PROVE FALSE
      <4>1. ticks' = IF g.by \in Ticks THEN [ticks EXCEPT ![g.by].awaiting = FALSE] ELSE ticks
        BY <3>1 DEF FireSettles
      <4> QED  BY <1>1, <4>1 DEF CronInv, CronTypes, TickRec
    <3>2. CASE Restart
      BY <3>2 DEF Restart, Off
    <3>3. ~(UNCHANGED cronVars \/ Pause \/ CronShutdown \/ Clock)
      BY <2>1 DEF cronVars, Pause, CronShutdown, Clock
    <3>4. /\ ~\E c \in RunNows : RunNow(c)
          /\ ~\E g \in fires : JobQueued(g)
          /\ ~\E i \in Schedules : Add(i) \/ RemoveSchedule(i)
          /\ ~\E i \in Schedules, on \in BOOLEAN : SetEnabled(i, on)
          /\ ~\E i \in Schedules : EnableThrows(i)
      BY <2>1 DEF RunNow, JobQueued, Add, RemoveSchedule, SetEnabled, EnableThrows
    <3> QED  BY <1>1, <3>1, <3>2, <3>3, <3>4 DEF CronNext
  <2>3. PICK u \in Ticks : TickStart(u) \/ TickResumes(u)
    BY <2>2
  <2>4. PICK tick \in TickRec : tick.at \in Nat /\ tick.at <= now /\ Visit(u, tick)
    BY <1>1, <2>3, TickTurns
  <2>5. PICK kept : IsKept(kept) /\ (\/ TickEnds(u, kept)
                                     \/ \E i \in Entered : \/ TickFires(u, tick, kept, i)
                                                           \/ TickThrows(u, kept, i))
    BY <1>1, <2>4, Visits
  <2>6. PICK i \in Entered : TickFires(u, tick, kept, i)
    <3>1. ~TickEnds(u, kept) /\ ~\E i \in Entered : TickThrows(u, kept, i)
      BY <1>1 DEF TickEnds, TickThrows, Off, CronInv, CronTypes
    <3> QED  BY <2>5, <3>1
  <2>7. /\ entries[i].next <= now /\ Fire(i, u, kept)
        /\ \E r : ticks' = [ticks EXCEPT ![u] = r]
    BY <2>6 DEF TickFires
  <2>8. u = t
    BY <1>1, <2>7 DEF CronInv, CronTypes
  <2>9. f \notin fires
    BY <1>1 DEF CronInv, FiresOK
  <2>10. f.id = i
    BY <2>7, <2>9 DEF Fire
  <2>11. LastOK(i) /\ i \in Schedules /\ entries[i].next \in Nat
    BY <1>1 DEF CronInv, MapsOK, MapAt, Entered, EntryRec
  <2>12. now \in Nat /\ lastTick[i] \in Int /\ Period(i) \in Nat
    BY <1>1, <2>11, CronAssumption DEF CronInv, CronTypes
  <2> QED  BY <2>7, <2>10, <2>11, <2>12 DEF LastOK
<1>2. ASSUME CronInv, [CronNext]_cronVars PROVE [\A t \in Ticks : Apart(t)]_cronVars
  BY <1>1, <1>2
<1> QED  BY <1>2, CronInvariant, PTL DEF CronSpec, MissedRunsCoalesce

-----------------------------------------------------------------------------
(***************************************************************************)
(* OvnDbAdapter: the process loops over one collection.                    *)
(***************************************************************************)

LoopRec == [at : {"idle", "claiming", "popped"}, left : SUBSET StoredJobs,
            job : StoredJobs \cup {0}]

\* A loop claims one of its candidates, and holds a job exactly after it popped one.
LoopsOK ==
  /\ loop \in [Loops -> LoopRec]
  /\ \A p \in Loops : /\ loop[p].at = "claiming" => loop[p].left # {}
                      /\ loop[p].at = "popped" <=> loop[p].job # 0

Pops(j) == \E p \in Loops : loop[p].job = j

\* A job is in one place: a push that inserts it, its document that waits, the loop
\* that popped it, or its run.
InOnePlace(j) ==
  /\ \A p, q \in Loops : loop[p].job = j /\ loop[q].job = j => p = q
  /\ run[j] \in {0, 1}
  /\ run[j] = 1 => ~Pops(j)
  /\ run[j] = 1 \/ Pops(j) => doc[j] # "waiting" /\ j \notin inserting
  /\ j \in inserting => doc[j] # "waiting"
  /\ pushes[j] = 0 => run[j] = 0 /\ ~Pops(j) /\ doc[j] # "waiting" /\ j \notin inserting

OvnInv == OvnTypeOK /\ LoopsOK /\ \A j \in StoredJobs : InOnePlace(j)

\* Of any numbers there is a least.
LEMMA FirstOfIsIn ==
  ASSUME NEW js \in SUBSET StoredJobs, js # {}
  PROVE  FirstOf(js) \in js
<1>1. js \in SUBSET Nat
  BY OvnAssumption
<1>2. \E j \in js : \A i \in js : j <= i
  BY <1>1, LeastOf
<1> QED  BY <1>2 DEF FirstOf

LEMMA IdleLoop ==
  /\ Empty \in LoopRec /\ Empty.at = "idle" /\ Empty.job = 0
  /\ \A js \in SUBSET StoredJobs :
       LET c == [Empty EXCEPT !.at = "claiming", !.left = js]
       IN c \in LoopRec /\ c.at = "claiming" /\ c.left = js /\ c.job = 0
  /\ \A j \in StoredJobs :
       LET c == [Empty EXCEPT !.at = "popped", !.job = j]
       IN c \in LoopRec /\ c.at = "popped" /\ c.job = j
BY DEF Empty, LoopRec

LEMMA OvnInitKeeps == OvnInit => OvnInv
<1> SUFFICES ASSUME OvnInit PROVE OvnInv
  OBVIOUS
<1>1. LoopsOK
  BY IdleLoop DEF OvnInit, LoopsOK
<1>3. OvnTypeOK
  BY <1>1, OvnAssumption DEF OvnInit, OvnTypeOK, LoopsOK, LoopRec
<1>2. ASSUME NEW j \in StoredJobs PROVE InOnePlace(j)
  <2>1. j # 0 /\ \A p \in Loops : loop[p].job = 0
    BY OvnAssumption, IdleLoop DEF OvnInit
  <2> QED  BY <2>1 DEF OvnInit, InOnePlace, Pops
<1> QED  BY <1>1, <1>2, <1>3 DEF OvnInv

\* Loops stay as they are.
LEMMA PushKeeps ==
  ASSUME OvnInv, NEW j \in StoredJobs, PushUpdates(j), j \notin inserting, doc[j] # "waiting",
         loop' \in [Loops -> LoopRec],
         \A p \in Loops : loop'[p] = loop[p] \/ (loop[p].job = j /\ loop'[p] = Empty),
         ~(Pops(j)'), run' \in [StoredJobs -> Nat], run'[j] = 0,
         \A i \in StoredJobs \ {j} : run'[i] = run[i],
         UNCHANGED <<overlooked, deaths>>
  PROVE  OvnInv'
<1>1. /\ doc' \in [StoredJobs -> {"none", "waiting", "active", "over"}]
      /\ \A i \in StoredJobs \ {j} : doc'[i] = doc[i]
      /\ inserting' \subseteq inserting \cup {j} /\ inserting \subseteq inserting'
      /\ j \in inserting' => doc'[j] = doc[j]
  BY DEF OvnInv, OvnTypeOK, PushUpdates, Writes, Finds
<1>2. /\ pushes' \in [StoredJobs -> 0 .. MaxPushes] /\ pushes'[j] # 0
      /\ \A i \in StoredJobs \ {j} : pushes'[i] = pushes[i]
  BY OvnAssumption DEF OvnInv, OvnTypeOK, PushUpdates
<1>3. OvnTypeOK'
  <2>1. inserting' \subseteq StoredJobs /\ overlooked' \subseteq StoredJobs /\ deaths' \in 0 .. MaxDeaths
    BY <1>1 DEF OvnInv, OvnTypeOK
  <2>2. loop' \in [Loops -> [at : {"idle", "claiming", "popped"}, left : SUBSET StoredJobs,
                             job : StoredJobs \cup {0}]]
    BY DEF LoopRec
  <2> QED  BY <1>1, <1>2, <2>1, <2>2 DEF OvnTypeOK
<1>4. LoopsOK'
  <2>1. Empty.at = "idle" /\ Empty.job = 0
    BY IdleLoop
  <2>2. ASSUME NEW p \in Loops
        PROVE  /\ loop'[p].at = "claiming" => loop'[p].left # {}
               /\ loop'[p].at = "popped" <=> loop'[p].job # 0
    BY <2>1 DEF OvnInv, LoopsOK
  <2> QED  BY <2>2 DEF LoopsOK
<1>5. InOnePlace(j)'
  BY <1>1, <1>2 DEF OvnInv, InOnePlace, Pops
<1>6. ASSUME NEW i \in StoredJobs, i # j PROVE InOnePlace(i)'
  <2>1. InOnePlace(i) /\ i # 0
    BY OvnAssumption DEF OvnInv
  <2>2. \A p \in Loops : loop'[p].job = i => loop[p].job = i
    BY <2>1, IdleLoop
  <2> QED  BY <1>1, <1>2, <1>6, <2>1, <2>2 DEF InOnePlace, Pops
<1> QED  BY <1>3, <1>4, <1>5, <1>6 DEF OvnInv

\* Ends of runs and calls on documents: no loop moves and nothing is pushed.
LEMMA DocStays ==
  ASSUME OvnInv, doc' \in [StoredJobs -> {"none", "waiting", "active", "over"}],
         \A j \in StoredJobs : doc'[j] = doc[j] \/ doc'[j] # "waiting",
         run' \in [StoredJobs -> Nat], \A j \in StoredJobs : run'[j] <= run[j],
         UNCHANGED <<inserting, pushes, loop, overlooked, deaths>>
  PROVE  OvnInv'
<1>1. OvnTypeOK' /\ LoopsOK'
  BY DEF OvnInv, OvnTypeOK, LoopsOK
<1>2. ASSUME NEW j \in StoredJobs PROVE InOnePlace(j)'
  <2>1. run'[j] \in Nat /\ run'[j] <= run[j] /\ InOnePlace(j)
    BY DEF OvnInv
  <2>2. run'[j] \in {0, 1} /\ (run'[j] = 1 => run[j] = 1)
    BY <2>1 DEF InOnePlace
  <2> QED  BY <2>1, <2>2 DEF InOnePlace, Pops
<1> QED  BY <1>1, <1>2 DEF OvnInv

LEMMA PopsKeep ==
  ASSUME OvnInv, NEW p \in Loops, PopFinds(p) \/ PopClaims(p)
  PROVE  OvnInv'
<1>1. CASE PopFinds(p)
  <2>1. FirstFew # {} /\ FirstFew \subseteq StoredJobs
    <3>1. PICK j \in Waiting : \A i \in Waiting : j <= i
      <4>1. Waiting \in SUBSET StoredJobs /\ Waiting # {}
        BY <1>1 DEF PopFinds, Waiting
      <4>2. Waiting \in SUBSET Nat
        BY <4>1, OvnAssumption
      <4> QED  BY <4>1, <4>2, LeastOf
    <3>2. {i \in Waiting : i < j} = {}
      <4>1. Waiting \subseteq Nat
        BY OvnAssumption DEF Waiting
      <4>2. \A i \in Waiting : ~(i < j)
        BY <3>1, <4>1
      <4> QED  BY <4>2
    <3>3. j \in FirstFew
      BY <3>2, FS_EmptySet, OvnAssumption DEF FirstFew
    <3> QED  BY <3>3 DEF FirstFew, Waiting
  <2>2. PICK c : c = [Empty EXCEPT !.at = "claiming", !.left = FirstFew]
    OBVIOUS
  <2>3. c \in LoopRec /\ c.at = "claiming" /\ c.left # {} /\ c.job = 0
    BY <2>1, <2>2, IdleLoop
  <2>4. loop' = [loop EXCEPT ![p] = c] /\ UNCHANGED <<doc, inserting, pushes, run, overlooked, deaths>>
    BY <1>1, <2>2 DEF PopFinds
  <2> QED  BY <2>3, <2>4, OvnAssumption
           DEF OvnInv, OvnTypeOK, LoopsOK, LoopRec, InOnePlace, Pops
<1>2. CASE PopClaims(p)
  <2>1. PICK j : j = FirstOf(loop[p].left)
    OBVIOUS
  <2>2. loop[p].at = "claiming" /\ j \in loop[p].left /\ j \in StoredJobs /\ loop[p].job = 0
    BY <1>2, <2>1, FirstOfIsIn DEF PopClaims, OvnInv, LoopsOK, LoopRec
  <2>3. CASE Finds(j) /\ doc[j] = "waiting"
    <3>1. PICK c : c = [Empty EXCEPT !.at = "popped", !.job = j]
      OBVIOUS
    <3>2. c \in LoopRec /\ c.at = "popped" /\ c.job = j
      BY <2>2, <3>1, IdleLoop
    <3>3. /\ doc' = [doc EXCEPT ![j] = "active"] /\ loop' = [loop EXCEPT ![p] = c]
          /\ UNCHANGED <<overlooked, inserting, pushes, run, deaths>>
      BY <1>2, <2>1, <2>3, <3>1 DEF PopClaims
    <3>4. OvnTypeOK' /\ LoopsOK'
      BY <2>2, <3>2, <3>3, OvnAssumption DEF OvnInv, OvnTypeOK, LoopsOK, LoopRec
    <3>5. ASSUME NEW i \in StoredJobs PROVE InOnePlace(i)'
      BY <2>2, <2>3, <3>2, <3>3 DEF OvnInv, OvnTypeOK, LoopsOK, InOnePlace, Pops
    <3> QED  BY <3>4, <3>5 DEF OvnInv
  <2>4. CASE ~(Finds(j) /\ doc[j] = "waiting")
    <3>1. PICK rest : rest = loop[p].left \ {j}
      OBVIOUS
    <3>2. PICK c : c = IF rest = {} THEN Empty ELSE [loop[p] EXCEPT !.left = rest]
      OBVIOUS
    <3>3. /\ c \in LoopRec /\ c.job = 0 /\ c.at # "popped"
          /\ c.at = "claiming" => c.left # {}
      <4>1. loop[p] \in LoopRec /\ rest \subseteq StoredJobs
        BY <3>1 DEF OvnInv, LoopsOK, LoopRec
      <4>2. CASE rest = {}
        BY <3>2, <4>2, IdleLoop
      <4>3. CASE rest # {}
        BY <2>2, <3>2, <4>1, <4>3 DEF LoopRec
      <4> QED  BY <4>2, <4>3
    <3>4. loop' = [loop EXCEPT ![p] = c]
      BY <1>2, <2>1, <2>4, <3>1, <3>2 DEF PopClaims, Passed
    <3>5. /\ UNCHANGED <<doc, inserting, pushes, run, deaths>>
          /\ overlooked' \subseteq overlooked \cup {j}
      BY <1>2, <2>1, <2>4 DEF PopClaims
    <3>6. OvnTypeOK' /\ LoopsOK'
      BY <2>2, <3>3, <3>4, <3>5 DEF OvnInv, OvnTypeOK, LoopsOK, LoopRec
    <3>7. ASSUME NEW i \in StoredJobs PROVE InOnePlace(i)'
      BY <3>3, <3>4, <3>5, OvnAssumption DEF OvnInv, LoopsOK, InOnePlace, Pops
    <3> QED  BY <3>6, <3>7 DEF OvnInv
  <2> QED  BY <2>3, <2>4
<1> QED  BY <1>1, <1>2

LEMMA TakesKeep ==
  ASSUME OvnInv, NEW p \in Loops, NEW j \in StoredJobs,
         Dispatches(p, j) \/ Discards(p, j) \/ Throttles(p, j)
  PROVE  OvnInv'
<1>1. /\ loop[p].at = "popped" /\ loop[p].job = j /\ loop' = [loop EXCEPT ![p] = Empty]
      /\ j # 0 /\ InOnePlace(j) /\ Pops(j)
  BY OvnAssumption DEF Dispatches, Discards, Throttles, Takes, OvnInv, Pops
<1>2. /\ loop' \in [Loops -> LoopRec] /\ LoopsOK'
      /\ \A q \in Loops : loop'[q].job = IF q = p THEN 0 ELSE loop[q].job
      /\ \A q \in Loops : loop'[q] = loop[q] \/ (loop[q].job = j /\ loop'[q] = Empty)
  BY <1>1, IdleLoop, ZenonT(60) DEF OvnInv, LoopsOK
<1>3. ~(Pops(j)')
  BY <1>1, <1>2 DEF InOnePlace, Pops
<1>4. run[j] = 0 /\ doc[j] # "waiting" /\ j \notin inserting /\ pushes[j] # 0
  BY <1>1 DEF InOnePlace
<1>5. CASE Dispatches(p, j)
  <2>1. /\ doc' \in [StoredJobs -> {"none", "waiting", "active", "over"}] /\ doc'[j] # "waiting"
        /\ \A i \in StoredJobs \ {j} : doc'[i] = doc[i]
    BY <1>4, <1>5 DEF Dispatches, Writes, OvnInv, OvnTypeOK
  <2>2. /\ run' = [run EXCEPT ![j] = @ + 1]
        /\ UNCHANGED <<inserting, pushes, overlooked, deaths>>
    BY <1>5 DEF Dispatches
  <2>3. OvnTypeOK'
    BY <1>2, <2>1, <2>2 DEF OvnInv, OvnTypeOK, LoopRec
  <2>4. InOnePlace(j)'
    BY <1>1, <1>3, <1>4, <2>1, <2>2 DEF OvnInv, OvnTypeOK, InOnePlace, Pops
  <2>5. ASSUME NEW i \in StoredJobs, i # j PROVE InOnePlace(i)'
    <3>1. InOnePlace(i) /\ i # 0 /\ doc'[i] = doc[i] /\ run'[i] = run[i]
      BY <2>1, <2>2, <2>5, OvnAssumption DEF OvnInv, OvnTypeOK
    <3> QED  BY <1>2, <2>2, <3>1 DEF InOnePlace, Pops
  <2> QED  BY <1>2, <2>3, <2>4, <2>5 DEF OvnInv
<1>6. CASE Discards(p, j)
  <2>1. UNCHANGED <<doc, inserting, pushes, run, overlooked, deaths>>
    BY <1>6 DEF Discards
  <2>2. OvnTypeOK'
    BY <1>2, <2>1 DEF OvnInv, OvnTypeOK, LoopRec
  <2>3. ASSUME NEW i \in StoredJobs PROVE InOnePlace(i)'
    <3>1. InOnePlace(i) /\ i # 0
      BY OvnAssumption DEF OvnInv
    <3> QED  BY <1>2, <2>1, <3>1 DEF InOnePlace, Pops
  <2> QED  BY <1>2, <2>2, <2>3 DEF OvnInv
<1>7. CASE Throttles(p, j)
  <2>1. PushUpdates(j) /\ UNCHANGED <<run, overlooked, deaths>>
    BY <1>7 DEF Throttles
  <2>2. run \in [StoredJobs -> Nat]
    BY DEF OvnInv, OvnTypeOK
  <2> QED  BY <1>2, <1>3, <1>4, <2>1, <2>2, PushKeeps
<1> QED  BY <1>5, <1>6, <1>7

LEMMA JobCallsKeep ==
  ASSUME OvnInv, NEW j \in StoredJobs,
         Enqueues(j) \/ PushInserts(j) \/ Finishes(j) \/ Retries(j) \/ Expires(j)
  PROVE  OvnInv'
<1>1. /\ run \in [StoredJobs -> Nat] /\ loop \in [Loops -> LoopRec] /\ InOnePlace(j)
      /\ doc \in [StoredJobs -> {"none", "waiting", "active", "over"}]
  BY DEF OvnInv, OvnTypeOK, LoopsOK
<1>2. CASE Enqueues(j)
  <2>1. /\ pushes[j] = 0 /\ PushUpdates(j)
        /\ UNCHANGED <<loop, run, overlooked, deaths>>
    BY <1>2 DEF Enqueues
  <2>2. run[j] = 0 /\ ~Pops(j) /\ doc[j] # "waiting" /\ j \notin inserting
    BY <1>1, <2>1 DEF InOnePlace
  <2>3. ~(Pops(j)')
    BY <2>1, <2>2 DEF Pops
  <2> QED  BY <1>1, <2>1, <2>2, <2>3, PushKeeps
<1>3. CASE Retries(j)
  <2>1. /\ run[j] > 0 /\ run' = [run EXCEPT ![j] = @ - 1] /\ PushUpdates(j)
        /\ UNCHANGED <<loop, overlooked, deaths>>
    BY <1>3 DEF Retries, Ends
  <2>2. run[j] = 1 /\ ~Pops(j) /\ doc[j] # "waiting" /\ j \notin inserting
    BY <1>1, <2>1 DEF InOnePlace
  <2>3. ~(Pops(j)')
    BY <2>1, <2>2 DEF Pops
  <2>4. /\ run' \in [StoredJobs -> Nat] /\ run'[j] = 0
        /\ \A i \in StoredJobs \ {j} : run'[i] = run[i]
    BY <1>1, <2>1, <2>2
  <2> QED  BY <1>1, <2>1, <2>2, <2>3, <2>4, PushKeeps
<1>4. CASE PushInserts(j)
  <2>1. /\ j \in inserting /\ inserting' = inserting \ {j} /\ doc' = [doc EXCEPT ![j] = "waiting"]
        /\ UNCHANGED <<pushes, loop, run, overlooked, deaths>>
    BY <1>4 DEF PushInserts
  <2>2. OvnTypeOK' /\ LoopsOK'
    BY <2>1 DEF OvnInv, OvnTypeOK, LoopsOK
  <2>3. ASSUME NEW i \in StoredJobs PROVE InOnePlace(i)'
    <3>1. InOnePlace(i)
      BY DEF OvnInv
    <3> QED  BY <1>1, <2>1, <3>1 DEF InOnePlace, Pops
  <2> QED  BY <2>2, <2>3 DEF OvnInv
<1>5. CASE Finishes(j)
  <2>1. /\ run' = [run EXCEPT ![j] = @ - 1] /\ run[j] > 0 /\ Writes(j, "over")
        /\ UNCHANGED <<inserting, pushes, loop, overlooked, deaths>>
    BY <1>5 DEF Finishes, Ends
  <2>2. run' \in [StoredJobs -> Nat] /\ \A i \in StoredJobs : run'[i] <= run[i]
    BY <1>1, <2>1
  <2>3. /\ doc' \in [StoredJobs -> {"none", "waiting", "active", "over"}]
        /\ \A i \in StoredJobs : doc'[i] = doc[i] \/ doc'[i] # "waiting"
    BY <1>1, <2>1 DEF Writes
  <2> QED  BY <2>1, <2>2, <2>3, DocStays
<1>6. CASE Expires(j)
  <2>1. /\ doc' = [doc EXCEPT ![j] = "none"]
        /\ UNCHANGED <<inserting, pushes, loop, run, overlooked, deaths>>
    BY <1>6 DEF Expires
  <2>2. run' \in [StoredJobs -> Nat] /\ \A i \in StoredJobs : run'[i] <= run[i]
    BY <1>1, <2>1
  <2>3. /\ doc' \in [StoredJobs -> {"none", "waiting", "active", "over"}]
        /\ \A i \in StoredJobs : doc'[i] = doc[i] \/ doc'[i] # "waiting"
    BY <1>1, <2>1
  <2> QED  BY <2>1, <2>2, <2>3, DocStays
<1> QED  BY <1>2, <1>3, <1>4, <1>5, <1>6

LEMMA OvnStepKeeps == OvnInv /\ [OvnNext]_ovnVars => OvnInv'
<1> SUFFICES ASSUME OvnInv, [OvnNext]_ovnVars PROVE OvnInv'
  OBVIOUS
<1>1. CASE \E j \in StoredJobs :
             Enqueues(j) \/ PushInserts(j) \/ Finishes(j) \/ Retries(j) \/ Expires(j)
  BY <1>1, JobCallsKeep
<1>2. CASE \E p \in Loops : PopFinds(p) \/ PopClaims(p)
  BY <1>2, PopsKeep
<1>3. CASE \E p \in Loops, j \in StoredJobs : Dispatches(p, j) \/ Discards(p, j) \/ Throttles(p, j)
  BY <1>3, TakesKeep
<1>4. CASE Clears
  <2>1. /\ doc' = [j \in StoredJobs |-> "none"]
        /\ UNCHANGED <<inserting, pushes, loop, run, overlooked, deaths>>
    BY <1>4 DEF Clears
  <2>2. run' \in [StoredJobs -> Nat] /\ \A j \in StoredJobs : run'[j] <= run[j]
    BY <2>1 DEF OvnInv, OvnTypeOK
  <2> QED  BY <2>1, <2>2, DocStays
<1>5. CASE Crashes
  <2>1. /\ deaths' = deaths + 1 /\ deaths < MaxDeaths /\ inserting' = {}
        /\ loop' = [p \in Loops |-> Empty] /\ run' = [j \in StoredJobs |-> 0]
        /\ UNCHANGED <<doc, pushes, overlooked>>
    BY <1>5 DEF Crashes
  <2>2. LoopsOK'
    BY <2>1, IdleLoop DEF LoopsOK
  <2>4. OvnTypeOK'
    BY <2>1, <2>2, OvnAssumption DEF OvnInv, OvnTypeOK, LoopsOK, LoopRec
  <2>3. ASSUME NEW j \in StoredJobs PROVE InOnePlace(j)'
    <3>1. j # 0 /\ \A p \in Loops : loop'[p].job = 0
      BY <2>1, OvnAssumption, IdleLoop
    <3>2. InOnePlace(j)
      BY DEF OvnInv
    <3> QED  BY <2>1, <3>1, <3>2 DEF InOnePlace, Pops
  <2> QED  BY <2>2, <2>3, <2>4 DEF OvnInv
<1>6. CASE UNCHANGED ovnVars
  BY <1>6 DEF ovnVars, OvnInv, OvnTypeOK, LoopsOK, InOnePlace, Pops
<1> QED  BY <1>1, <1>2, <1>3, <1>4, <1>5, <1>6 DEF OvnNext

LEMMA OvnInvariant == OvnSpec => []OvnInv
<1> QED  BY OvnInitKeeps, OvnStepKeeps, PTL DEF OvnSpec

LEMMA OneHolds == OvnInv => OneRunner
<1> SUFFICES ASSUME OvnInv, NEW j \in StoredJobs
             PROVE  run[j] + Cardinality({p \in Loops : loop[p].job = j}) <= 1
  BY DEF OneRunner
<1>1. InOnePlace(j) /\ run[j] \in {0, 1}
  BY DEF OvnInv, InOnePlace
<1>2. CASE Pops(j)
  <2>1. PICK p \in Loops : loop[p].job = j
    BY <1>2 DEF Pops
  <2>2. {q \in Loops : loop[q].job = j} = {p}
    BY <1>1, <2>1 DEF InOnePlace
  <2>3. run[j] = 0 /\ Cardinality({p}) = 1
    BY <1>1, <1>2, FS_Singleton DEF InOnePlace
  <2> QED  BY <2>2, <2>3
<1>3. CASE ~Pops(j)
  <2>1. {q \in Loops : loop[q].job = j} = {}
    BY <1>3 DEF Pops
  <2> QED  BY <1>1, <2>1, FS_EmptySet
<1> QED  BY <1>2, <1>3

\* A job over OvnDbAdapter is with one process loop or one run at a time, whatever
\* pushes, pops, retries, expiries, clears and crashes run in between.
THEOREM DocumentsRunOnce == OvnSpec => []OvnTypeOK /\ []OneRunner
<1>1. OvnInv => OvnTypeOK
  BY DEF OvnInv
<1> QED  BY <1>1, OvnInvariant, OneHolds, PTL

-----------------------------------------------------------------------------
(***************************************************************************)
(* FileAdapter and SqliteAdapter.                                          *)
(***************************************************************************)

InHand(j) == \E p \in Pollers : popped[p] = {j}
Out(j) == runs[j] = 1 \/ InHand(j) \/ j \in delayed

\* A job is in one place: it waits where a pop or the next process finds it, a process
\* loop has popped it, it runs, or a timer has it.  Then it has not ended, and what
\* was accepted and neither ended nor went is in one of them or saved as active.
Placed(j) ==
  /\ \A p, q \in Pollers : popped[p] = {j} /\ popped[q] = {j} => p = q
  /\ runs[j] \in {0, 1} /\ (runs[j] = 1 => ~InHand(j))
  /\ runs[j] = 1 \/ InHand(j) => j \notin delayed
  /\ j \in delayed => tries[j] < MaxTries
  /\ Out(j) => stored[j] # "waiting" /\ onDisk[j] # "waiting"
  /\ Out(j) \/ stored[j] = "waiting" \/ onDisk[j] = "waiting" => left[j] # "ended"
  /\ stored[j] = "over" \/ onDisk[j] = "over" => left[j] # "no"
  /\ tries[j] = 0 => ~Out(j) /\ stored[j] = "none" /\ onDisk[j] = "none" /\ left[j] = "no"
  /\ tries[j] > 0 /\ left[j] = "no" => stored[j] \in {"waiting", "active"} \/ Out(j)
  /\ medium = "sqlite" =>
       /\ stored[j] = onDisk[j] /\ left[j] # "lost"
       /\ tries[j] > 0 /\ left[j] = "no" => stored[j] \in {"waiting", "active"}

StoredInv == StoredTypeOK /\ \A j \in KeptJobs : Placed(j)

JobStates == {"none", "waiting", "active", "over"}

LEMMA Rewrites ==
  ASSUME StoredInv, NEW m \in [KeptJobs -> JobStates], NEW ok \in BOOLEAN, Rewrite(m, ok)
  PROVE  /\ stored' = m /\ (onDisk' = m \/ onDisk' = onDisk)
         /\ medium = "sqlite" => onDisk' = m
         /\ onDisk' \in [KeptJobs -> JobStates] /\ lostWrites' \in 0 .. MaxFailed
BY StoredAssumption DEF Rewrite, Flush, Statement, StoredInv, StoredTypeOK, JobStates

LEMMA Puts ==
  ASSUME StoredInv, NEW j \in KeptJobs, NEW s \in JobStates, NEW ok \in BOOLEAN,
         Rewrite([stored EXCEPT ![j] = s], ok)
  PROVE  /\ stored' \in [KeptJobs -> JobStates] /\ onDisk' \in [KeptJobs -> JobStates]
         /\ stored'[j] = s /\ \A i \in KeptJobs \ {j} : stored'[i] = stored[i]
         /\ onDisk'[j] \in {s, onDisk[j]}
         /\ \A i \in KeptJobs \ {j} : onDisk'[i] \in {stored[i], onDisk[i]}
         /\ medium = "sqlite" => onDisk' = stored'
         /\ lostWrites' \in 0 .. MaxFailed
<1>1. PICK m : m = [stored EXCEPT ![j] = s]
  OBVIOUS
<1>2. /\ m \in [KeptJobs -> JobStates] /\ m[j] = s
      /\ \A i \in KeptJobs \ {j} : m[i] = stored[i]
  BY <1>1 DEF StoredInv, StoredTypeOK, JobStates
<1>3. /\ stored' = m /\ (onDisk' = m \/ onDisk' = onDisk)
      /\ medium = "sqlite" => onDisk' = m
      /\ onDisk' \in [KeptJobs -> JobStates] /\ lostWrites' \in 0 .. MaxFailed
  BY <1>1, <1>2, Rewrites
<1> QED  BY <1>2, <1>3

\* What a call of one job leaves of the others.
LEMMA OthersStay ==
  ASSUME StoredInv, NEW j \in KeptJobs, NEW i \in KeptJobs, i # j, medium' = medium,
         stored'[i] = stored[i], onDisk'[i] \in {stored[i], onDisk[i]},
         medium = "sqlite" => onDisk'[i] = stored'[i],
         tries'[i] = tries[i], runs'[i] = runs[i], left'[i] = left[i],
         i \in delayed' <=> i \in delayed,
         \A p \in Pollers : popped'[p] = {i} <=> popped[p] = {i}
  PROVE  Placed(i)'
<1>1. Placed(i)
  BY DEF StoredInv
<1>2. InHand(i)' <=> InHand(i)
  BY DEF InHand
<1>3. Out(i)' <=> Out(i)
  BY <1>2 DEF Out
<1> QED  BY <1>1, <1>2, <1>3 DEF Placed

LEMMA StoredInitKeeps == StoredInit => StoredInv
<1> SUFFICES ASSUME StoredInit PROVE StoredInv
  OBVIOUS
<1>1. StoredTypeOK
  BY StoredAssumption DEF StoredInit, StoredTypeOK, Nothing0
<1>2. ASSUME NEW j \in KeptJobs PROVE Placed(j)
  BY DEF StoredInit, Nothing0, Placed, Out, InHand
<1> QED  BY <1>1, <1>2 DEF StoredInv

\* A call that writes the state s of one job j, which is in no place afterwards but
\* the one given.
LEMMA EnqueueKeeps ==
  ASSUME StoredInv, NEW j \in KeptJobs, NEW ok \in BOOLEAN,
         EnqueueStored(j, ok) \/ DueStored(j, ok)
  PROVE  StoredInv'
<1> DEFINE Written ==
      /\ stored' \in [KeptJobs -> JobStates] /\ onDisk' \in [KeptJobs -> JobStates]
      /\ stored'[j] = "waiting" /\ \A i \in KeptJobs \ {j} : stored'[i] = stored[i]
      /\ onDisk'[j] \in {"waiting", onDisk[j]}
      /\ \A i \in KeptJobs \ {j} : onDisk'[i] \in {stored[i], onDisk[i]}
      /\ medium = "sqlite" => onDisk' = stored'
      /\ lostWrites' \in 0 .. MaxFailed
<1>1. Written /\ UNCHANGED <<medium, popped, runs, left, ends>>
  BY Puts DEF EnqueueStored, DueStored, Put, JobStates
<1>2. Placed(j) /\ tries[j] \in 0 .. MaxTries /\ runs[j] \in {0, 1}
  BY DEF StoredInv, StoredTypeOK, Placed
<1>3. /\ runs[j] = 0 /\ ~InHand(j) /\ left[j] # "ended" /\ delayed' = delayed \ {j}
      /\ tries' = [tries EXCEPT ![j] = tries[j] + 1] /\ tries[j] < MaxTries
  <2>1. CASE EnqueueStored(j, ok)
    <3>1. tries[j] = 0 /\ tries' = [tries EXCEPT ![j] = 1] /\ UNCHANGED delayed
      BY <2>1 DEF EnqueueStored
    <3>2. runs[j] = 0 /\ ~InHand(j) /\ left[j] # "ended" /\ j \notin delayed
      BY <1>2, <3>1 DEF Placed, Out
    <3> QED  BY <3>1, <3>2, StoredAssumption
  <2>2. CASE DueStored(j, ok)
    BY <1>2, <2>2 DEF DueStored, Placed, Out
  <2> QED  BY <2>1, <2>2
<1>4. StoredTypeOK'
  BY <1>1, <1>2, <1>3, StoredAssumption DEF StoredInv, StoredTypeOK, JobStates
<1>5. Placed(j)'
  BY <1>1, <1>2, <1>3 DEF StoredInv, StoredTypeOK, Placed, Out, InHand
<1>6. ASSUME NEW i \in KeptJobs, i # j PROVE Placed(i)'
  BY <1>1, <1>3, <1>6, OthersStay DEF StoredInv, StoredTypeOK
<1> QED  BY <1>4, <1>5, <1>6 DEF StoredInv
\* A job that a process loop holds is dispatched, dropped or pushed back.
LEMMA HeldKeeps ==
  ASSUME StoredInv, NEW p \in Pollers, NEW j \in KeptJobs, NEW ok \in BOOLEAN,
         DispatchStored(p, j, ok) \/ PushBackStored(p, j, ok) \/ DiscardStored(p, j)
  PROVE  StoredInv'
<1>1. /\ popped[p] = {j} /\ popped' = [popped EXCEPT ![p] = {}]
      /\ UNCHANGED <<medium, delayed, ends>>
  BY DEF DispatchStored, PushBackStored, DiscardStored
<1>2. Placed(j) /\ InHand(j) /\ popped \in [Pollers -> SUBSET KeptJobs]
  BY <1>1 DEF StoredInv, StoredTypeOK, InHand
<1>3. ~InHand(j)' /\ \A i \in KeptJobs \ {j}, q \in Pollers : popped'[q] = {i} <=> popped[q] = {i}
  <2>1. \A q \in Pollers : popped'[q] = IF q = p THEN {} ELSE popped[q]
    BY <1>1, <1>2
  <2>2. \A q \in Pollers : popped[q] = {j} => q = p
    BY <1>1, <1>2 DEF Placed
  <2>3. \A i : {i} # {}
    OBVIOUS
  <2>4. ~InHand(j)'
    BY <2>1, <2>2, <2>3 DEF InHand
  <2>5. ASSUME NEW i \in KeptJobs \ {j}, NEW q \in Pollers PROVE popped'[q] = {i} <=> popped[q] = {i}
    <3>1. {i} # {j}
      OBVIOUS
    <3> QED  BY <1>1, <2>1, <2>3, <3>1
  <2> QED  BY <2>4, <2>5
<1>4. /\ runs[j] = 0 /\ j \notin delayed /\ left[j] # "ended" /\ stored[j] # "waiting"
      /\ onDisk[j] # "waiting" /\ tries[j] # 0 /\ tries[j] \in 0 .. MaxTries
  BY <1>2 DEF Placed, Out, StoredInv, StoredTypeOK
<1>5. CASE DispatchStored(p, j, ok)
  <2>1. /\ stored' \in [KeptJobs -> JobStates] /\ onDisk' \in [KeptJobs -> JobStates]
        /\ stored'[j] = "active" /\ \A i \in KeptJobs \ {j} : stored'[i] = stored[i]
        /\ onDisk'[j] \in {"active", onDisk[j]}
        /\ \A i \in KeptJobs \ {j} : onDisk'[i] \in {stored[i], onDisk[i]}
        /\ medium = "sqlite" => onDisk' = stored'
        /\ lostWrites' \in 0 .. MaxFailed
    BY <1>5, Puts DEF DispatchStored, Put, JobStates
  <2>2. runs' = [runs EXCEPT ![j] = @ + 1] /\ UNCHANGED <<tries, left>>
    BY <1>5 DEF DispatchStored
  <2>3. StoredTypeOK'
    BY <1>1, <2>1, <2>2 DEF StoredInv, StoredTypeOK, JobStates
  <2>4. Placed(j)'
    BY <1>1, <1>2, <1>3, <1>4, <2>1, <2>2 DEF StoredInv, StoredTypeOK, Placed, Out, InHand
  <2>5. ASSUME NEW i \in KeptJobs, i # j PROVE Placed(i)'
    BY <1>1, <1>3, <2>1, <2>2, <2>5, OthersStay DEF StoredInv, StoredTypeOK
  <2> QED  BY <2>3, <2>4, <2>5 DEF StoredInv
<1>6. CASE PushBackStored(p, j, ok)
  <2>1. /\ stored' \in [KeptJobs -> JobStates] /\ onDisk' \in [KeptJobs -> JobStates]
        /\ stored'[j] = "waiting" /\ \A i \in KeptJobs \ {j} : stored'[i] = stored[i]
        /\ onDisk'[j] \in {"waiting", onDisk[j]}
        /\ \A i \in KeptJobs \ {j} : onDisk'[i] \in {stored[i], onDisk[i]}
        /\ medium = "sqlite" => onDisk' = stored'
        /\ lostWrites' \in 0 .. MaxFailed
    BY <1>6, Puts DEF PushBackStored, Put, JobStates
  <2>2. /\ tries[j] < MaxTries /\ tries' = [tries EXCEPT ![j] = tries[j] + 1]
        /\ UNCHANGED <<runs, left>>
    BY <1>6 DEF PushBackStored
  <2>3. StoredTypeOK'
    BY <1>1, <1>4, <2>1, <2>2, StoredAssumption DEF StoredInv, StoredTypeOK, JobStates
  <2>4. Placed(j)'
    BY <1>1, <1>2, <1>3, <1>4, <2>1, <2>2 DEF StoredInv, StoredTypeOK, Placed, Out, InHand
  <2>5. ASSUME NEW i \in KeptJobs, i # j PROVE Placed(i)'
    BY <1>1, <1>3, <2>1, <2>2, <2>5, OthersStay DEF StoredInv, StoredTypeOK
  <2> QED  BY <2>3, <2>4, <2>5 DEF StoredInv
<1>7. CASE DiscardStored(p, j)
  <2>1. /\ left' = [left EXCEPT ![j] = "dropped"]
        /\ UNCHANGED <<stored, onDisk, tries, runs, lostWrites>>
    BY <1>7 DEF DiscardStored
  <2>2. StoredTypeOK'
    BY <1>1, <2>1 DEF StoredInv, StoredTypeOK
  <2>3. Placed(j)'
    BY <1>1, <1>2, <1>3, <1>4, <2>1 DEF StoredInv, StoredTypeOK, Placed, Out, InHand
  <2>4. ASSUME NEW i \in KeptJobs, i # j PROVE Placed(i)'
    <3>1. medium = "sqlite" => onDisk[i] = stored[i]
      BY DEF StoredInv, Placed
    <3> QED  BY <1>1, <1>3, <2>1, <2>4, <3>1, OthersStay DEF StoredInv, StoredTypeOK
  <2> QED  BY <2>2, <2>3, <2>4 DEF StoredInv
<1> QED  BY <1>5, <1>6, <1>7

\* A run ends, or a job's time is up.
LEMMA EndsKeep ==
  ASSUME StoredInv, NEW j \in KeptJobs, NEW ok \in BOOLEAN,
         FinishStored(j, ok) \/ RetryStored(j) \/ ExpireStored(j, ok)
  PROVE  StoredInv'
<1>1. /\ Placed(j) /\ runs \in [KeptJobs -> Nat] /\ runs[j] \in {0, 1}
      /\ left \in [KeptJobs -> {"no", "ended", "dropped", "lost"}]
  BY DEF StoredInv, StoredTypeOK, Placed
<1>2. UNCHANGED <<medium, popped, tries, ends>>
  BY DEF FinishStored, RetryStored, ExpireStored
<1>3. CASE FinishStored(j, ok)
  <2>1. /\ stored' \in [KeptJobs -> JobStates] /\ onDisk' \in [KeptJobs -> JobStates]
        /\ stored'[j] = "over" /\ \A i \in KeptJobs \ {j} : stored'[i] = stored[i]
        /\ onDisk'[j] \in {"over", onDisk[j]}
        /\ \A i \in KeptJobs \ {j} : onDisk'[i] \in {stored[i], onDisk[i]}
        /\ medium = "sqlite" => onDisk' = stored'
        /\ lostWrites' \in 0 .. MaxFailed
    BY <1>3, Puts DEF FinishStored, Put, JobStates
  <2>2. /\ runs[j] = 1 /\ runs' = [runs EXCEPT ![j] = 0] /\ left' = [left EXCEPT ![j] = "ended"]
        /\ UNCHANGED delayed
    <3>1. runs[j] > 0 /\ runs' = [runs EXCEPT ![j] = runs[j] - 1]
      BY <1>3 DEF FinishStored
    <3>2. runs[j] = 1 /\ runs[j] - 1 = 0
      BY <1>1, <3>1
    <3> QED  BY <1>3, <3>1, <3>2 DEF FinishStored
  <2>3. StoredTypeOK'
    BY <1>2, <2>1, <2>2 DEF StoredInv, StoredTypeOK, JobStates
  <2>4. Placed(j)'
    BY <1>1, <1>2, <2>1, <2>2 DEF Placed, Out, InHand
  <2>5. ASSUME NEW i \in KeptJobs, i # j PROVE Placed(i)'
    BY <1>1, <1>2, <2>1, <2>2, <2>5, OthersStay
  <2> QED  BY <2>3, <2>4, <2>5 DEF StoredInv
<1>4. CASE RetryStored(j)
  <2>1. /\ runs[j] = 1 /\ runs' = [runs EXCEPT ![j] = 0] /\ tries[j] < MaxTries
        /\ delayed' = delayed \cup {j}
        /\ UNCHANGED <<stored, onDisk, left, lostWrites>>
    <3>1. runs[j] > 0 /\ runs' = [runs EXCEPT ![j] = runs[j] - 1]
      BY <1>4 DEF RetryStored
    <3>2. runs[j] = 1 /\ runs[j] - 1 = 0
      BY <1>1, <3>1
    <3> QED  BY <1>4, <3>1, <3>2 DEF RetryStored
  <2>2. StoredTypeOK'
    BY <1>2, <2>1 DEF StoredInv, StoredTypeOK
  <2>3. Placed(j)'
    BY <1>1, <1>2, <2>1 DEF Placed, Out, InHand
  <2>4. ASSUME NEW i \in KeptJobs, i # j PROVE Placed(i)'
    <3>1. medium = "sqlite" => onDisk[i] = stored[i]
      BY DEF StoredInv, Placed
    <3> QED  BY <1>1, <1>2, <2>1, <2>4, <3>1, OthersStay
  <2> QED  BY <2>2, <2>3, <2>4 DEF StoredInv
<1>5. CASE ExpireStored(j, ok)
  <2>1. /\ stored' \in [KeptJobs -> JobStates] /\ onDisk' \in [KeptJobs -> JobStates]
        /\ stored'[j] = "none" /\ \A i \in KeptJobs \ {j} : stored'[i] = stored[i]
        /\ onDisk'[j] \in {"none", onDisk[j]}
        /\ \A i \in KeptJobs \ {j} : onDisk'[i] \in {stored[i], onDisk[i]}
        /\ medium = "sqlite" => onDisk' = stored'
        /\ lostWrites' \in 0 .. MaxFailed
    BY <1>5, Puts DEF ExpireStored, Take, JobStates
  <2>2. /\ tries[j] > 0 /\ left' = [left EXCEPT ![j] = "dropped"] /\ UNCHANGED <<runs, delayed>>
    BY <1>5 DEF ExpireStored
  <2>3. StoredTypeOK'
    BY <1>2, <2>1, <2>2 DEF StoredInv, StoredTypeOK, JobStates
  <2>4. Placed(j)'
    BY <1>1, <1>2, <2>1, <2>2 DEF Placed, Out, InHand
  <2>5. ASSUME NEW i \in KeptJobs, i # j PROVE Placed(i)'
    BY <1>1, <1>2, <2>1, <2>2, <2>5, OthersStay
  <2> QED  BY <2>3, <2>4, <2>5 DEF StoredInv
<1> QED  BY <1>3, <1>4, <1>5

LEMMA PopKeeps ==
  ASSUME StoredInv, NEW p \in Pollers, NEW ok \in BOOLEAN, PopStored(p, ok)
  PROVE  StoredInv'
<1>1. PICK j : j = FirstReady(stored)
  OBVIOUS
<1>2. j \in KeptJobs /\ stored[j] = "waiting"
  <2>1. PICK ready : ready = {i \in KeptJobs : stored[i] = "waiting"}
    OBVIOUS
  <2>2. ready \in SUBSET Nat /\ ready # {}
    BY <2>1, StoredAssumption DEF PopStored
  <2>3. \E m \in ready : \A n \in ready : m <= n
    BY <2>2, LeastOf
  <2> QED  BY <1>1, <2>1, <2>3 DEF FirstReady
<1>3. /\ popped[p] = {} /\ UNCHANGED <<medium, tries, runs, delayed, ends>>
      /\ Placed(j) /\ popped \in [Pollers -> SUBSET KeptJobs]
  BY <1>2 DEF PopStored, StoredInv, StoredTypeOK
<1>4. runs[j] = 0 /\ ~InHand(j) /\ j \notin delayed /\ left[j] # "ended" /\ tries[j] # 0
  BY <1>2, <1>3 DEF Placed, Out
<1>5. CASE UNCHANGED popped
  <2>1. /\ Rewrite([stored EXCEPT ![j] = "none"], ok)
        /\ medium = "file" /\ left' = [left EXCEPT ![j] = "lost"]
    <3>1. ~ SqlitePop(p) /\ ~ok
      BY <1>2, <1>3, <1>5, <1>1 DEF SqlitePop, FilePop, PopStored
    <3> QED  BY <1>1, <1>5, <3>1 DEF PopStored, FilePop, Rewrite
  <2>2. /\ stored' \in [KeptJobs -> JobStates] /\ onDisk' \in [KeptJobs -> JobStates]
        /\ stored'[j] = "none" /\ \A i \in KeptJobs \ {j} : stored'[i] = stored[i]
        /\ onDisk'[j] \in {"none", onDisk[j]}
        /\ \A i \in KeptJobs \ {j} : onDisk'[i] \in {stored[i], onDisk[i]}
        /\ lostWrites' \in 0 .. MaxFailed
    BY <1>2, <2>1, Puts DEF JobStates
  <2>3. StoredTypeOK'
    BY <1>3, <1>5, <2>1, <2>2 DEF StoredInv, StoredTypeOK, JobStates
  <2>4. Placed(j)'
    BY <1>2, <1>3, <1>4, <1>5, <2>1, <2>2 DEF StoredInv, StoredTypeOK, Placed, Out, InHand
  <2>5. ASSUME NEW i \in KeptJobs, i # j PROVE Placed(i)'
    BY <1>2, <1>3, <1>5, <2>1, <2>2, <2>5, OthersStay DEF StoredInv, StoredTypeOK
  <2> QED  BY <2>3, <2>4, <2>5 DEF StoredInv
<1>6. CASE popped' # popped
  <2>1. PICK s \in {"none", "active"} :
          /\ Rewrite([stored EXCEPT ![j] = s], ok)
          /\ medium = "sqlite" => s = "active"
          /\ medium = "file" => ok
          /\ popped' = [popped EXCEPT ![p] = {j}] /\ UNCHANGED left
    BY <1>1, <1>6 DEF PopStored, FilePop, SqlitePop, Rewrite
  <2>2. /\ stored' \in [KeptJobs -> JobStates] /\ onDisk' \in [KeptJobs -> JobStates]
        /\ stored'[j] = s /\ \A i \in KeptJobs \ {j} : stored'[i] = stored[i]
        /\ \A i \in KeptJobs \ {j} : onDisk'[i] \in {stored[i], onDisk[i]}
        /\ medium = "sqlite" => onDisk' = stored'
        /\ lostWrites' \in 0 .. MaxFailed
    BY <1>2, <2>1, Puts DEF JobStates
  <2>3. onDisk'[j] = s
    BY <1>2, <2>1, <2>2 DEF Rewrite, Flush, StoredInv, StoredTypeOK
  <2>4. /\ popped' \in [Pollers -> SUBSET KeptJobs]
        /\ \A q \in Pollers : popped'[q] = {j} <=> q = p
        /\ \A i \in KeptJobs \ {j}, q \in Pollers : popped'[q] = {i} <=> popped[q] = {i}
    <3>1. \A q \in Pollers : popped'[q] = IF q = p THEN {j} ELSE popped[q]
      BY <1>3, <2>1
    <3>2. \A i : {i} # {}
      OBVIOUS
    <3>3. \A i \in KeptJobs \ {j} : {i} # {j}
      OBVIOUS
    <3>4. \A q \in Pollers : popped[q] # {j}
      BY <1>4 DEF InHand
    <3>5. popped' \in [Pollers -> SUBSET KeptJobs]
      BY <1>2, <1>3, <2>1
    <3> QED  BY <1>3, <3>1, <3>2, <3>3, <3>4, <3>5
  <2>5. StoredTypeOK'
    BY <1>3, <2>1, <2>2, <2>4 DEF StoredInv, StoredTypeOK, JobStates
  <2>6. Placed(j)'
    BY <1>2, <1>3, <1>4, <2>1, <2>2, <2>3, <2>4 DEF StoredInv, StoredTypeOK, Placed, Out, InHand
  <2>7. ASSUME NEW i \in KeptJobs, i # j PROVE Placed(i)'
    BY <1>2, <1>3, <2>1, <2>2, <2>4, <2>7, OthersStay
  <2> QED  BY <2>5, <2>6, <2>7 DEF StoredInv
<1> QED  BY <1>5, <1>6

LEMMA StoredStepKeeps == StoredInv /\ [StoredNext]_storedVars => StoredInv'
<1> SUFFICES ASSUME StoredInv, [StoredNext]_storedVars PROVE StoredInv'
  OBVIOUS
<1>1. CASE \E j \in KeptJobs, ok \in BOOLEAN :
             EnqueueStored(j, ok) \/ FinishStored(j, ok) \/ DueStored(j, ok) \/ ExpireStored(j, ok)
  BY <1>1, EnqueueKeeps, EndsKeep
<1>2. CASE \E p \in Pollers, ok \in BOOLEAN : PopStored(p, ok)
  BY <1>2, PopKeeps
<1>3. CASE \E p \in Pollers, j \in KeptJobs, ok \in BOOLEAN :
             DispatchStored(p, j, ok) \/ PushBackStored(p, j, ok)
  BY <1>3, HeldKeeps
<1>4. CASE \E p \in Pollers, j \in KeptJobs : DiscardStored(p, j)
  BY <1>4, HeldKeeps
<1>5. CASE \E j \in KeptJobs : RetryStored(j)
  BY <1>5, EndsKeep
<1>6. CASE \E ok \in BOOLEAN : ClearStored(ok)
  <2>1. PICK ok \in BOOLEAN : ClearStored(ok)
    BY <1>6
  <2>2. Nothing0 \in [KeptJobs -> JobStates] /\ \A j \in KeptJobs : Nothing0[j] = "none"
    BY DEF Nothing0, JobStates
  <2>3. /\ stored' = Nothing0 /\ (onDisk' = Nothing0 \/ onDisk' = onDisk)
        /\ medium = "sqlite" => onDisk' = Nothing0
        /\ onDisk' \in [KeptJobs -> JobStates] /\ lostWrites' \in 0 .. MaxFailed
    BY <2>1, <2>2, Rewrites DEF ClearStored
  <2>4. /\ left' = [j \in KeptJobs |-> IF stored[j] \in {"waiting", "active"} THEN "dropped" ELSE left[j]]
        /\ UNCHANGED <<medium, tries, popped, runs, delayed, ends>>
    BY <2>1 DEF ClearStored
  <2>5. StoredTypeOK'
    BY <2>2, <2>3, <2>4 DEF StoredInv, StoredTypeOK, JobStates
  <2>6. ASSUME NEW j \in KeptJobs PROVE Placed(j)'
    <3>1. Placed(j)
      BY DEF StoredInv
    <3> QED  BY <2>2, <2>3, <2>4, <3>1 DEF Placed, Out, InHand
  <2> QED  BY <2>5, <2>6 DEF StoredInv
<1>7. CASE RestartStored
  <2>1. /\ ends < MaxEnds /\ ends' = ends + 1 /\ stored' = onDisk
        /\ left' = [j \in KeptJobs |->
                IF left[j] = "no" /\ tries[j] > 0 /\ onDisk[j] = "none" THEN "lost" ELSE left[j]]
        /\ popped' = [p \in Pollers |-> {}] /\ runs' = [j \in KeptJobs |-> 0] /\ delayed' = {}
        /\ UNCHANGED <<medium, onDisk, tries, lostWrites>>
    BY <1>7 DEF RestartStored
  <2>2. StoredTypeOK'
    BY <2>1, StoredAssumption DEF StoredInv, StoredTypeOK
  <2>3. ASSUME NEW j \in KeptJobs PROVE Placed(j)'
    <3>1. Placed(j) /\ onDisk[j] \in JobStates /\ left[j] \in {"no", "ended", "dropped", "lost"}
      BY DEF StoredInv, StoredTypeOK, JobStates
    <3>2. \A p \in Pollers : popped'[p] # {j}
      BY <2>1
    <3>3. ~Out(j)'
      BY <2>1, <3>2 DEF Out, InHand
    <3> QED  BY <2>1, <3>1, <3>2, <3>3 DEF Placed, InHand, JobStates
  <2> QED  BY <2>2, <2>3 DEF StoredInv
<1>8. CASE UNCHANGED storedVars
  <2>1. StoredTypeOK'
    BY <1>8 DEF storedVars, StoredInv, StoredTypeOK
  <2>2. ASSUME NEW j \in KeptJobs PROVE Placed(j)'
    <3>1. Placed(j)
      BY DEF StoredInv
    <3> QED  BY <1>8, <3>1 DEF storedVars, Placed, Out, InHand
  <2> QED  BY <2>1, <2>2 DEF StoredInv
<1> QED  BY <1>1, <1>2, <1>3, <1>4, <1>5, <1>6, <1>7, <1>8 DEF StoredNext

LEMMA StoredInvariant == StoredSpec => []StoredInv
  BY StoredInitKeeps, StoredStepKeeps, PTL DEF StoredSpec

LEMMA HandsCounted ==
  ASSUME StoredInv, NEW j \in KeptJobs
  PROVE  /\ Hands0(j) <= 1 /\ (runs[j] = 1 \/ InHand(j) => Hands0(j) > 0)
         /\ (runs[j] # 1 /\ ~InHand(j) => Hands0(j) = 0)
<1>1. Placed(j) /\ runs[j] \in {0, 1}
  BY DEF StoredInv, Placed
<1>2. CASE InHand(j)
  <2>1. PICK p \in Pollers : popped[p] = {j}
    BY <1>2 DEF InHand
  <2>2. {q \in Pollers : popped[q] = {j}} = {p}
    BY <1>1, <2>1 DEF Placed
  <2>3. runs[j] = 0 /\ Cardinality({p}) = 1
    BY <1>1, <1>2, FS_Singleton DEF Placed
  <2> QED  BY <1>2, <2>2, <2>3 DEF Hands0
<1>3. CASE ~InHand(j)
  <2>1. {q \in Pollers : popped[q] = {j}} = {}
    BY <1>3 DEF InHand
  <2> QED  BY <1>1, <1>3, <2>1, FS_EmptySet DEF Hands0
<1> QED  BY <1>2, <1>3

\* FileAdapter and SqliteAdapter give a job to one process loop at a time, lose no job
\* but in the two gaps of the file, and never run again what has ended - for any
\* number of jobs, processes, rewrites that fail and ends of the processes.
THEOREM RowsAndFileHold ==
  StoredSpec => []StoredTypeOK /\ []OneRunnerStored /\ []StoredJobsKept /\ []RowsKept
                /\ []EndedStaysEnded
<1>1. StoredInv => StoredTypeOK
  BY DEF StoredInv
<1>2. StoredInv => OneRunnerStored
  BY HandsCounted DEF OneRunnerStored
<1>3. StoredInv => StoredJobsKept
  BY HandsCounted DEF StoredJobsKept, StoredInv, Placed, Out
<1>4. StoredInv => RowsKept
  BY DEF RowsKept, StoredInv, Placed
<1>5. StoredInv => EndedStaysEnded
  BY HandsCounted DEF EndedStaysEnded, StoredInv, Placed, Out
<1> QED  BY <1>1, <1>2, <1>3, <1>4, <1>5, StoredInvariant, PTL

-----------------------------------------------------------------------------
(***************************************************************************)
(* What goes in: enqueue, its hooks and the plugins.                       *)
(***************************************************************************)

\* j has gone through the hook of the plugin.
PastHook(j, plugin) == \E n \in DOMAIN hooks : hooks[n] = plugin /\ n < hook[j]

\* Jobs the Deduplicator let in.
Admitted(j) == Live(j) \/ phase[j] = "held" \/ (phase[j] = "hooks" /\ PastHook(j, "dedup"))

AdTypes ==
  /\ how \in Ways /\ hooks \in PluginLists /\ AdTypeOK
  /\ bucket \in [tokens : 0 .. Tokens, resetAt : Nat]
  /\ DOMAIN pending \subseteq Keys /\ pending \in [DOMAIN pending -> [latest : Arrivals, at : Nat]]
  /\ superseded \subseteq Arrivals
  /\ clock \in Nat /\ overlap \subseteq Arrivals
  /\ DOMAIN grants \subseteq Arrivals /\ grants \in [DOMAIN grants -> Nat]

HasDedup == \E n \in DOMAIN hooks : hooks[n] = "dedup"

\* Whom a key is held for, and that it is held for the jobs that were let in.
KeysOK ==
  /\ \A k \in active : k \in leaked \/ \E j \in Arrivals : KeyOf(j) = k /\ Admitted(j)
  /\ HasDedup =>
       /\ \A j \in Arrivals : Admitted(j) => KeyOf(j) \in active \cup freed
       /\ \A j, k \in Arrivals :
            j # k /\ KeyOf(j) = KeyOf(k) /\ Admitted(j) /\ Admitted(k) => KeyOf(j) \in freed
  /\ \A j, k \in Batch : phase[j] = "hooks" /\ phase[k] = "hooks" => j = k
  /\ \A j \in Arrivals : phase[j] = "new" => hook[j] = 1

\* Debounce's tables name jobs that have passed it.
NewestOK ==
  /\ NewestNotSuperseded
  /\ \A k \in DOMAIN pending : PastHook(pending[k].latest, "debounce")
  /\ \A j \in superseded : PastHook(j, "debounce")

\* The size enqueue tested is out of date only if another job was pushed.
RoomOK ==
  \A j \in Arrivals :
    how[j] = "enqueue" /\ phase[j] = "hooks" /\ j \notin overlap
    => Cardinality(waiting) < MaxQueueSize

\* Jobs whose token was given at a time from t to u, or from t on.
Given(t, u) == {j \in DOMAIN grants : grants[j] >= t /\ grants[j] <= u}
Since(t) == {j \in DOMAIN grants : grants[j] >= t}

Opened == bucket.resetAt - RateWindow

\* A window opens with its first token: who looks at less than the whole of it misses
\* one at least.
WindowOK ==
  /\ \A j \in DOMAIN grants : grants[j] <= clock /\ grants[j] < bucket.resetAt
  /\ IF DOMAIN grants = {} THEN bucket.resetAt = 0 ELSE Opened <= clock
  /\ Cardinality(Since(Opened)) <= Tokens - bucket.tokens
  /\ DOMAIN grants # {} =>
       \A t \in Int : t > Opened => Cardinality(Since(t)) <= Tokens - 1 - bucket.tokens
  /\ \A t \in Int : t > Opened - RateWindow => Cardinality(Given(t, Opened - 1)) <= Tokens - 1
  /\ \A t \in Int : Cardinality(Given(t, t + RateWindow - 1)) < 2 * Tokens

AdInv == AdTypes /\ KeysOK /\ NewestOK /\ RoomOK /\ WindowOK

-----------------------------------------------------------------------------

LEMMA HookRuns ==
  ASSUME AdTypes, NEW j \in Arrivals, RunHook(j)
  PROVE  /\ phase[j] = "hooks" /\ hook[j] \in DOMAIN hooks
         /\ UNCHANGED <<waiting, clock, retakes, overlap, freed>>
         /\ \/ /\ hooks[hook[j]] = "dedup" /\ Dedup(j)
               /\ UNCHANGED <<pending, superseded, bucket, timers, grants>>
            \/ /\ hooks[hook[j]] = "debounce" /\ Debounce(j) /\ Passes(j)
               /\ UNCHANGED <<active, bucket, timers, grants, leaked>>
            \/ /\ hooks[hook[j]] = "rate" /\ Rate(j)
               /\ UNCHANGED <<active, pending, superseded, timers>>
            \/ /\ hooks[hook[j]] = "ttl" /\ timers' = timers \cup ({j} \cap TtlJobs) /\ Passes(j)
               /\ UNCHANGED <<active, pending, superseded, bucket, grants, leaked>>
<1>1. hook[j] \in 1 .. Len(hooks) + 1 /\ hooks \in Seq(PluginNames)
  BY AdmissionAssumption DEF AdTypes, AdTypeOK
<1>2. phase[j] = "hooks" /\ hook[j] <= Len(hooks)
  BY DEF RunHook
<1>3. hook[j] \in DOMAIN hooks /\ hooks[hook[j]] \in PluginNames
  BY <1>1, <1>2
<1> QED  BY <1>2, <1>3 DEF RunHook, PluginNames

\* What the refusal of a job, and with it of its batch, does.
LEMMA Refuses ==
  ASSUME AdTypes, NEW j \in Arrivals, phase[j] = "hooks", hook[j] \in DOMAIN hooks, Refuse(j)
  PROVE  \E out \in SUBSET Arrivals :
           /\ j \in out /\ (\A k \in out : AtTheDoor(k) \/ phase[k] = "new")
           /\ \A k \in out : k = j \/ (k \in Batch /\ j \in Batch)
           /\ phase' = [k \in Arrivals |-> IF k \in out THEN "refused" ELSE phase[k]]
           /\ \A k \in out : phase[k] = "held" \/ (k = j /\ PastHook(j, "dedup"))
                             => KeyOf(k) \in leaked'
           /\ leaked \subseteq leaked' /\ UNCHANGED hook
<1> DEFINE out == IF how[j] = "batch" THEN {k \in Batch : AtTheDoor(k) \/ phase[k] = "new"} ELSE {j}
           knew == {k \in out : phase[k] = "held" \/ (k = j /\ "dedup" \in {hooks[n] : n \in 1 .. hook[j] - 1})}
<1>1. /\ phase' = [k \in Arrivals |-> IF k \in out THEN "refused" ELSE phase[k]]
      /\ leaked' = leaked \cup {KeyOf(k) : k \in knew} /\ UNCHANGED hook
  BY DEF Refuse
<1>2. out \in SUBSET Arrivals /\ j \in out /\ \A k \in out : AtTheDoor(k) \/ phase[k] = "new"
  BY DEF Batch, AtTheDoor
<1>3. \A k \in out : k = j \/ (k \in Batch /\ j \in Batch)
  BY DEF Batch
<1>4. hooks \in Seq(PluginNames) /\ hook[j] \in 1 .. Len(hooks)
  BY AdmissionAssumption DEF AdTypes, AdTypeOK
<1>5. PastHook(j, "dedup") => "dedup" \in {hooks[n] : n \in 1 .. hook[j] - 1}
  <2>1. SUFFICES ASSUME NEW n \in DOMAIN hooks, hooks[n] = "dedup", n < hook[j]
                 PROVE  "dedup" \in {hooks[m] : m \in 1 .. hook[j] - 1}
    BY DEF PastHook
  <2>2. n \in 1 .. hook[j] - 1
    BY <1>4, <2>1
  <2> QED  BY <2>1, <2>2
<1>6. \A k \in out : phase[k] = "held" \/ (k = j /\ PastHook(j, "dedup")) => KeyOf(k) \in leaked'
  BY <1>1, <1>5
<1> HIDE DEF out, knew
<1> QED  BY <1>1, <1>2, <1>3, <1>6

LEMMA Waits ==
  ASSUME AdTypes
  PROVE  IsFiniteSet(waiting) /\ Cardinality(waiting) \in Nat /\ waiting \subseteq Arrivals
<1>1. waiting \in SUBSET Arrivals
  BY DEF AdTypes, AdTypeOK
<1> QED  BY <1>1, AdmissionAssumption, FS_Subset, FS_CardinalityType

-----------------------------------------------------------------------------
(* Types                                                                   *)

LEMMA HookTypes ==
  ASSUME AdTypes, NEW j \in Arrivals, RunHook(j), UNCHANGED <<how, hooks>>
  PROVE  AdTypes'
<1>1. hook[j] + 1 \in 1 .. Len(hooks) + 1 /\ Len(hooks) \in Nat
  <2>1. hooks \in Seq(PluginNames) /\ hook[j] \in DOMAIN hooks
    BY HookRuns, AdmissionAssumption DEF AdTypes
  <2> QED  BY <2>1
<1>2. UNCHANGED <<how, hooks, waiting, clock, retakes, overlap, freed>>
  BY HookRuns
<1>3. /\ phase' \in [Arrivals -> Phases] /\ hook' \in [Arrivals -> 1 .. Len(hooks) + 1]
      /\ {k \in Arrivals : phase'[k] = "in"} = {k \in Arrivals : phase[k] = "in"}
  <2>1. CASE Refuse(j)
    <3>1. PICK out \in SUBSET Arrivals :
            /\ \A k \in out : AtTheDoor(k) \/ phase[k] = "new"
            /\ phase' = [k \in Arrivals |-> IF k \in out THEN "refused" ELSE phase[k]]
            /\ UNCHANGED hook
      BY <2>1, HookRuns, Refuses
    <3> QED  BY <3>1 DEF AdTypes, AdTypeOK, Phases, AtTheDoor
  <2>2. CASE Passes(j)
    BY <1>1, <2>2 DEF Passes, AdTypes, AdTypeOK
  <2> QED  BY <2>1, <2>2, HookRuns DEF Dedup, Rate
<1>4. active' \subseteq Keys /\ timers' \subseteq TtlJobs
  BY HookRuns, SMTT(60) DEF Dedup, Keys, AdTypes, AdTypeOK
<1>5. /\ DOMAIN pending' \subseteq Keys /\ superseded' \subseteq Arrivals
      /\ pending' \in [DOMAIN pending' -> [latest : Arrivals, at : Nat]]
      /\ \A k \in DOMAIN pending' : KeyOf(pending'[k].latest) = k
  <2>1. CASE Debounce(j)
    BY <2>1 DEF Debounce, Keys, AdTypes, AdTypeOK
  <2>2. CASE UNCHANGED <<pending, superseded>>
    BY <2>2 DEF AdTypes, AdTypeOK
  <2> QED  BY <2>1, <2>2, HookRuns
<1>6. /\ bucket' \in [tokens : 0 .. Tokens, resetAt : Nat]
      /\ DOMAIN grants' \subseteq Arrivals /\ grants' \in [DOMAIN grants' -> Nat]
  <2>1. CASE Rate(j)
    <3>1. Bucket \in [tokens : 0 .. Tokens, resetAt : Nat]
      BY AdmissionAssumption DEF Bucket, AdTypes
    <3>2. CASE Bucket.tokens = 0
      BY <2>1, <3>1, <3>2 DEF Rate, AdTypes
    <3>3. CASE Bucket.tokens # 0
      BY <2>1, <3>1, <3>3, AdmissionAssumption DEF Rate, AdTypes
    <3> QED  BY <3>2, <3>3
  <2>2. CASE UNCHANGED <<bucket, grants>>
    BY <2>2 DEF AdTypes
  <2> QED  BY <2>1, <2>2, HookRuns
<1> QED  BY <1>2, <1>3, <1>4, <1>5, <1>6 DEF AdTypes, AdTypeOK

LEMMA TypesKept ==
  ASSUME AdTypes, AdNext
  PROVE  AdTypes'
<1>0. UNCHANGED <<how, hooks>>
  BY DEF AdNext
<1>1. ASSUME NEW j \in Arrivals, Enter(j) \/ EnterUntested(j) PROVE AdTypes'
  BY <1>0, <1>1 DEF Enter, EnterUntested, AdTypes, AdTypeOK, Phases, plugins, adHistory
<1>2. ASSUME NEW j \in Arrivals, Through(j) PROVE AdTypes'
  BY <1>0, <1>2, SMTT(60) DEF Through, Pushed, AtTheDoor, AdTypes, AdTypeOK, Phases, plugins
<1>3. CASE BatchIn
  BY <1>0, <1>3 DEF BatchIn, Pushed, AtTheDoor, Batch, AdTypes, AdTypeOK, Phases, plugins
<1>4. ASSUME NEW j \in Arrivals, TakeNext(j) PROVE AdTypes'
  BY <1>0, <1>4 DEF TakeNext, AdTypes, AdTypeOK, Phases, plugins, adHistory
<1>5. ASSUME NEW j \in Arrivals, Process(j) PROVE AdTypes'
  BY <1>0, <1>5 DEF Process, AdTypes, AdTypeOK, Phases
<1>6. ASSUME NEW j \in Arrivals, CleanUp(j)
      PROVE  /\ active' \subseteq active /\ superseded' \subseteq superseded
             /\ DOMAIN pending' \subseteq DOMAIN pending
             /\ pending' \in [DOMAIN pending' -> [latest : Arrivals, at : Nat]]
             /\ \A k \in DOMAIN pending' : pending'[k] = pending[k]
  BY <1>6 DEF CleanUp, AdTypes
<1>7. ASSUME NEW j \in Arrivals, NEW end \in {"done", "failed"}, End(j, end) PROVE AdTypes'
  <2>1. CleanUp(j) /\ UNCHANGED <<hook, waiting, bucket, clock, retakes, overlap, grants, freed>>
    BY <1>7 DEF End
  <2>2. /\ phase' \in [Arrivals -> Phases] /\ timers' \subseteq TtlJobs
        /\ {k \in Arrivals : phase'[k] = "in"} = waiting
    BY <1>7 DEF End, AdTypes, AdTypeOK, Phases
  <2> QED  BY <1>0, <1>6, <2>1, <2>2 DEF AdTypes, AdTypeOK
<1>8. ASSUME NEW j \in Arrivals, Expire(j) PROVE AdTypes'
  <2>1. CleanUp(j) /\ UNCHANGED <<hook, bucket, clock, retakes, overlap, grants>>
    BY <1>8 DEF Expire
  <2>2. /\ phase' \in [Arrivals -> Phases] /\ timers' \subseteq TtlJobs
        /\ {k \in Arrivals : phase'[k] = "in"} = waiting'
    BY <1>8 DEF Expire, AdTypes, AdTypeOK, Phases
  <2> QED  BY <1>0, <1>6, <2>1, <2>2 DEF AdTypes, AdTypeOK
<1>9. ASSUME NEW j \in Arrivals, RetryLater(j) PROVE AdTypes'
  BY <1>0, <1>9 DEF RetryLater, AdTypes, AdTypeOK, Phases, plugins, adHistory
<1>10. ASSUME NEW j \in Arrivals, Due(j) \/ Retake(j) PROVE AdTypes'
  <2>1. /\ phase' = [phase EXCEPT ![j] = "in"] /\ Pushed({j})
        /\ UNCHANGED <<hook, plugins, clock, grants>>
    BY <1>10 DEF Due, Retake
  <2>2. /\ phase' \in [Arrivals -> Phases] /\ overlap' \subseteq Arrivals
        /\ waiting' = {k \in Arrivals : phase'[k] = "in"}
    BY <2>1 DEF Pushed, AdTypes, AdTypeOK, Phases
  <2> QED  BY <1>0, <2>1, <2>2 DEF AdTypes, AdTypeOK, plugins
<1>11. CASE Clear
  BY <1>0, <1>11 DEF Clear, AdTypes, AdTypeOK, Phases, plugins
<1>12. CASE AdClock
  BY <1>0, <1>12 DEF AdClock, AdTypes, AdTypeOK, plugins, adHistory
<1> QED  BY <1>0, <1>1, <1>2, <1>3, <1>4, <1>5, <1>7, <1>8, <1>9, <1>10, <1>11, <1>12,
            HookTypes DEF AdNext
-----------------------------------------------------------------------------
(* Debounce                                                                *)

LEMMA PassedStays ==
  ASSUME AdTypes, AdNext
  PROVE  /\ \A j \in Arrivals : hook'[j] >= hook[j] /\ hook[j] \in Int /\ hook'[j] \in Int
         /\ \A j \in Arrivals : \A name : PastHook(j, name) => PastHook(j, name)'
<1>0. UNCHANGED hooks /\ \A j \in Arrivals : hook[j] \in Int /\ hook'[j] \in Int
  BY TypesKept DEF AdNext, AdTypes, AdTypeOK
<1>1. ASSUME NEW j \in Arrivals, RunHook(j) PROVE \A k \in Arrivals : hook'[k] >= hook[k]
  <2>1. CASE Refuse(j)
    BY <1>0, <2>1 DEF Refuse
  <2>2. CASE Passes(j)
    BY <1>0, <2>2 DEF Passes, AdTypes, AdTypeOK
  <2> QED  BY <1>1, <2>1, <2>2, HookRuns DEF Dedup, Rate
<1>2. \A j \in Arrivals : hook'[j] >= hook[j]
  <2>1. CASE UNCHANGED hook
    BY <1>0, <2>1
  <2> QED  BY <1>1, <2>1
           DEF AdNext, Enter, EnterUntested, Through, BatchIn, TakeNext, Process, End, RetryLater,
               Due, Retake, Expire, Clear, AdClock
<1>3. ASSUME NEW j \in Arrivals, NEW name, NEW n \in DOMAIN hooks, hooks[n] = name, n < hook[j]
      PROVE  PastHook(j, name)'
  <2>1. n \in Int
    BY AdmissionAssumption DEF AdTypes
  <2>2. n < hook'[j]
    BY <1>0, <1>2, <1>3, <2>1
  <2> QED  BY <1>0, <1>3, <2>2 DEF PastHook
<1> QED  BY <1>0, <1>2, <1>3 DEF PastHook

LEMMA NewestKept ==
  ASSUME AdTypes, NewestOK, AdNext
  PROVE  NewestOK'
<1>0. /\ \A k \in DOMAIN pending : pending[k].latest \in Arrivals /\ KeyOf(pending[k].latest) = k
      /\ superseded \subseteq Arrivals /\ hooks \in Seq(PluginNames) /\ hooks \in PluginLists
      /\ UNCHANGED hooks
  BY AdmissionAssumption DEF AdTypes, AdTypeOK, AdNext
<1>1. ASSUME NEW j \in Arrivals, Debounce(j), Passes(j), phase[j] = "hooks",
             hook[j] \in DOMAIN hooks, hooks[hook[j]] = "debounce"
      PROVE  NewestOK'
  <2>1. ~PastHook(j, "debounce")
    <3>1. SUFFICES ASSUME NEW n \in DOMAIN hooks, hooks[n] = "debounce", n < hook[j] PROVE FALSE
      BY DEF PastHook
    <3>2. n = hook[j]
      BY <1>0, <1>1, <3>1, AdmissionAssumption
    <3>3. n \in Int
      BY <1>0
    <3> QED  BY <3>1, <3>2, <3>3
  <2>2. PastHook(j, "debounce")'
    <3>1. hook[j] < hook'[j]
      BY <1>1 DEF Passes, AdTypes, AdTypeOK
    <3> QED  BY <1>0, <1>1, <3>1 DEF PastHook
  <2>3. j \notin superseded /\ \A k \in DOMAIN pending : pending[k].latest # j
    BY <2>1 DEF NewestOK
  <2>4. \A i \in Arrivals : PastHook(i, "debounce") => PastHook(i, "debounce")'
    BY PassedStays
  <2>5. /\ superseded' \subseteq superseded \cup {pending[q].latest : q \in DOMAIN pending \cap {KeyOf(j)}}
        /\ \A k \in DOMAIN pending' : IF k = KeyOf(j) THEN pending'[k].latest = j
                                      ELSE k \in DOMAIN pending /\ pending'[k] = pending[k]
    BY <1>1 DEF Debounce
  <2>6. ASSUME NEW k \in DOMAIN pending'
        PROVE  (pending[k].latest \notin superseded /\ PastHook(pending[k].latest, "debounce"))'
    <3>1. CASE k = KeyOf(j)
      BY <2>2, <2>3, <2>5, <3>1, <1>0 DEF PastHook
    <3>2. CASE k # KeyOf(j)
      <4>1. PICK i \in Arrivals : i = pending[k].latest /\ KeyOf(i) = k /\ i = pending'[k].latest
        BY <1>0, <2>5, <3>2
      <4>2. i \notin superseded /\ PastHook(i, "debounce")
        BY <2>5, <3>2, <4>1 DEF NewestOK, NewestNotSuperseded
      <4>3. i \notin superseded'
        BY <1>0, <2>5, <3>2, <4>1, <4>2
      <4>4. PastHook(i, "debounce")'
        BY <2>4, <4>2 DEF PastHook
      <4> QED  BY <4>1, <4>3, <4>4 DEF PastHook
    <3> QED  BY <3>1, <3>2
  <2>7. ASSUME NEW i \in superseded' PROVE PastHook(i, "debounce")'
    <3>1. i \in Arrivals /\ PastHook(i, "debounce")
      BY <1>0, <2>5, <2>7 DEF NewestOK
    <3> QED  BY <2>4, <3>1 DEF PastHook
  <2> QED  BY <2>6, <2>7 DEF NewestOK, NewestNotSuperseded
<1>2. ASSUME superseded' \subseteq superseded, DOMAIN pending' \subseteq DOMAIN pending,
             \A k \in DOMAIN pending' : pending'[k] = pending[k]
      PROVE  NewestOK'
  <2>1. \A i \in Arrivals : PastHook(i, "debounce") => PastHook(i, "debounce")'
    BY PassedStays
  <2>2. ASSUME NEW k \in DOMAIN pending'
        PROVE  (pending[k].latest \notin superseded /\ PastHook(pending[k].latest, "debounce"))'
    <3>1. PICK i \in Arrivals : i = pending[k].latest /\ i = pending'[k].latest
      BY <1>0, <1>2
    <3>2. i \notin superseded /\ PastHook(i, "debounce")
      BY <1>2, <3>1 DEF NewestOK, NewestNotSuperseded
    <3>3. PastHook(i, "debounce")'
      BY <2>1, <3>2 DEF PastHook
    <3> QED  BY <1>2, <3>1, <3>2, <3>3 DEF PastHook
  <2>3. ASSUME NEW i \in superseded' PROVE PastHook(i, "debounce")'
    <3>1. i \in Arrivals /\ PastHook(i, "debounce")
      BY <1>0, <1>2, <2>3 DEF NewestOK
    <3> QED  BY <2>1, <3>1 DEF PastHook
  <2> QED  BY <2>2, <2>3 DEF NewestOK, NewestNotSuperseded
<1>3. ASSUME NEW j \in Arrivals, CleanUp(j) PROVE NewestOK'
  BY <1>2, <1>3 DEF CleanUp
<1>4. CASE UNCHANGED <<pending, superseded>>
  BY <1>2, <1>4
<1>5. ASSUME NEW j \in Arrivals, RunHook(j) PROVE NewestOK'
  BY <1>1, <1>4, <1>5, HookRuns
<1>6. ASSUME NEW j \in Arrivals, Process(j) PROVE NewestOK'
  BY <1>2, <1>6 DEF Process
<1> QED  BY <1>3, <1>4, <1>5, <1>6
         DEF AdNext, Enter, EnterUntested, Through, BatchIn, TakeNext, End, RetryLater,
             Due, Retake, Expire, Clear, AdClock, plugins

-----------------------------------------------------------------------------
(* The size of the queue                                                   *)

LEMMA RoomKept ==
  ASSUME AdTypes, RoomOK, AdNext
  PROVE  RoomOK'
<1>0. IsFiniteSet(waiting) /\ Cardinality(waiting) \in Nat /\ UNCHANGED how
  BY Waits DEF AdNext
<1>1. ASSUME waiting' \subseteq waiting, UNCHANGED overlap,
             \A j \in Arrivals : how[j] = "enqueue" /\ phase'[j] = "hooks"
                                 => phase[j] = "hooks" \/ Cardinality(waiting) < MaxQueueSize
      PROVE  RoomOK'
  <2>1. Cardinality(waiting') <= Cardinality(waiting) /\ Cardinality(waiting') \in Nat
    BY <1>0, <1>1, FS_Subset, FS_CardinalityType
  <2> QED  BY <1>0, <1>1, <2>1, AdmissionAssumption DEF RoomOK
<1>2. ASSUME NEW js, Pushed(js), \A j \in Arrivals : phase'[j] = "hooks" => phase[j] = "hooks" /\ j \notin js
      PROVE  RoomOK'
  BY <1>2 DEF Pushed, RoomOK, AtTheDoor
<1>3. ASSUME NEW j \in Arrivals, Enter(j) PROVE RoomOK'
  <2>1. ASSUME NEW i \in Arrivals, phase'[i] = "hooks"
        PROVE  phase[i] = "hooks" \/ Cardinality(waiting) < MaxQueueSize
    BY <1>0, <1>3, <2>1, AdmissionAssumption DEF Enter, AdTypes, AdTypeOK
  <2> QED  BY <1>1, <1>3, <2>1 DEF Enter, adHistory
<1>4. ASSUME NEW j \in Arrivals, EnterUntested(j) PROVE RoomOK'
  BY <1>1, <1>4 DEF EnterUntested, AdTypes, AdTypeOK, adHistory
<1>5. ASSUME NEW j \in Arrivals, RunHook(j) PROVE RoomOK'
  <2>1. ASSUME NEW i \in Arrivals, phase'[i] = "hooks" PROVE phase[i] = "hooks"
    <3>1. CASE Refuse(j)
      BY <1>5, <2>1, <3>1, HookRuns, Refuses DEF AdTypes, AdTypeOK
    <3>2. CASE Passes(j)
      BY <2>1, <3>2 DEF Passes
    <3> QED  BY <1>5, <3>1, <3>2, HookRuns DEF Dedup, Rate
  <2> QED  BY <1>1, <1>5, <2>1, HookRuns
<1>6. ASSUME NEW j \in Arrivals, Through(j) PROVE RoomOK'
  <2>1. \A i \in Arrivals : phase'[i] = "hooks" => phase[i] = "hooks" /\ i # j
    BY <1>6 DEF Through, AdTypes, AdTypeOK
  <2> QED  BY <1>1, <1>2, <1>6, <2>1 DEF Through
<1>7. CASE BatchIn
  BY <1>2, <1>7 DEF BatchIn
<1>8. ASSUME NEW j \in Arrivals, Due(j) \/ Retake(j) PROVE RoomOK'
  <2>1. \A i \in Arrivals : phase'[i] = "hooks" => phase[i] = "hooks" /\ i # j
    BY <1>8 DEF Due, Retake, AdTypes, AdTypeOK
  <2> QED  BY <1>2, <1>8, <2>1 DEF Due, Retake
<1>9. ASSUME NEW j \in Arrivals, TakeNext(j) \/ Process(j) \/ RetryLater(j) \/ Expire(j)
      PROVE  RoomOK'
  <2>1. \A i \in Arrivals : phase'[i] = "hooks" => phase[i] = "hooks"
    BY <1>9 DEF TakeNext, Process, RetryLater, Expire, AdTypes, AdTypeOK
  <2> QED  BY <1>1, <1>9, <2>1 DEF TakeNext, Process, RetryLater, Expire, adHistory
<1>10. ASSUME NEW j \in Arrivals, NEW end \in {"done", "failed"}, End(j, end) PROVE RoomOK'
  BY <1>1, <1>10 DEF End, AdTypes, AdTypeOK
<1>11. CASE Clear \/ AdClock
  BY <1>1, <1>11 DEF Clear, AdClock, adHistory
<1> QED  BY <1>3, <1>4, <1>5, <1>6, <1>7, <1>8, <1>9, <1>10, <1>11 DEF AdNext
-----------------------------------------------------------------------------
(* The Deduplicator                                                        *)

\* A step that lets nobody in whose key it does not free, and tells of who leaves.
LEMMA KeysStay ==
  ASSUME AdTypes, KeysOK, UNCHANGED <<how, hooks>>,
         active' \subseteq active, freed \subseteq freed',
         \A k \in active' : k \in leaked => k \in leaked',
         \A j \in Arrivals : Admitted(j) => Admitted(j)' \/ KeyOf(j) \in leaked' \/ KeyOf(j) \notin active',
         HasDedup => \A j \in Arrivals :
           Admitted(j)' => /\ Admitted(j) \/ KeyOf(j) \in freed'
                           /\ KeyOf(j) \in active \ active' => KeyOf(j) \in freed',
         \A j \in Arrivals : phase'[j] = "hooks" => phase[j] = "hooks" \/ j \notin Batch
                               \/ \A k \in Batch : phase'[k] = "hooks" => k = j,
         \A j \in Arrivals : phase'[j] = "new" => phase[j] = "new" /\ hook'[j] = hook[j]
  PROVE  KeysOK'
<1>1. ASSUME NEW k \in active' PROVE k \in leaked' \/ \E j \in Arrivals : KeyOf(j) = k /\ Admitted(j)'
  BY <1>1 DEF KeysOK
<1>2. ASSUME HasDedup, NEW j \in Arrivals, Admitted(j)' PROVE KeyOf(j) \in active' \cup freed'
  BY <1>2 DEF KeysOK
<1>3. ASSUME HasDedup, NEW j \in Arrivals, NEW k \in Arrivals, j # k, KeyOf(j) = KeyOf(k),
             Admitted(j)', Admitted(k)'
      PROVE  KeyOf(j) \in freed'
  BY <1>3 DEF KeysOK
<1>4. ASSUME NEW j \in Batch, NEW k \in Batch, phase'[j] = "hooks", phase'[k] = "hooks" PROVE j = k
  <2>1. j \in Arrivals /\ k \in Arrivals
    BY DEF Batch
  <2> QED  BY <1>4, <2>1 DEF KeysOK
<1>5. HasDedup' = HasDedup /\ Batch' = Batch
  BY DEF HasDedup, Batch
<1>6. \A j \in Arrivals : phase'[j] = "new" => hook'[j] = 1
  BY DEF KeysOK
<1> QED  BY <1>1, <1>2, <1>3, <1>4, <1>5, <1>6 DEF KeysOK

\* Where a job is that was let in.
LEMMA WhoIsIn ==
  ASSUME AdTypes, NEW j \in Arrivals
  PROVE  Admitted(j) <=> \/ phase[j] \in {"in", "popped", "running", "waiting", "held"}
                         \/ phase[j] = "hooks" /\ PastHook(j, "dedup")
  BY DEF Admitted, Live

LEMMA DedupPasses ==
  ASSUME AdTypes, KeysOK, UNCHANGED <<how, hooks>>, NEW j \in Arrivals,
         KeyOf(j) \notin active, active' = active \cup {KeyOf(j)}, Passes(j), UNCHANGED leaked,
         phase[j] = "hooks", hook[j] \in DOMAIN hooks, hooks[hook[j]] = "dedup", UNCHANGED freed
  PROVE  KeysOK'
<1>1. UNCHANGED phase /\ hook[j] < hook'[j] /\ \A i \in Arrivals \ {j} : hook'[i] = hook[i]
  BY DEF Passes, AdTypes, AdTypeOK
<1>2. \A i \in Arrivals \ {j} : Admitted(i)' <=> Admitted(i)
  BY <1>1 DEF Admitted, Live, PastHook
<1>3. Admitted(j)'
  BY <1>1 DEF Admitted, PastHook
<1>4. \A k \in active' : k \in leaked' \/ \E i \in Arrivals : KeyOf(i) = k /\ Admitted(i)'
  BY <1>2, <1>3 DEF KeysOK
<1>5. HasDedup => \A i \in Arrivals : Admitted(i)' => KeyOf(i) \in active' \cup freed'
  BY <1>2 DEF KeysOK
<1>6. ASSUME HasDedup, NEW i \in Arrivals, NEW k \in Arrivals, i # k, KeyOf(i) = KeyOf(k),
             Admitted(i)', Admitted(k)'
      PROVE  KeyOf(i) \in freed'
  BY <1>2, <1>6 DEF KeysOK
<1>7. \A i, k \in Batch : phase'[i] = "hooks" /\ phase'[k] = "hooks" => i = k
  BY <1>1 DEF KeysOK
<1>8. \A i \in Arrivals : phase'[i] = "new" => hook'[i] = 1
  BY <1>1 DEF KeysOK
<1>9. HasDedup' = HasDedup /\ Batch' = Batch
  BY DEF HasDedup, Batch
<1> QED  BY <1>4, <1>5, <1>6, <1>7, <1>8, <1>9 DEF KeysOK

\* A step that changes the phases of jobs that stay in, and no table.
LEMMA KeysMove ==
  ASSUME AdTypes, KeysOK, UNCHANGED <<how, hooks, active, leaked, hook>>, freed \subseteq freed',
         \A j \in Arrivals : Admitted(j) => Admitted(j)',
         HasDedup => \A j \in Arrivals : Admitted(j)' => Admitted(j) \/ KeyOf(j) \in freed',
         \A j \in Arrivals : phase'[j] = "hooks" => phase[j] = "hooks" \/ j \notin Batch
                               \/ \A k \in Batch : phase'[k] = "hooks" => k = j,
         \A j \in Arrivals : phase'[j] = "new" => phase[j] = "new"
  PROVE  KeysOK'
BY KeysStay

LEMMA RefusalKeeps ==
  ASSUME AdTypes, KeysOK, UNCHANGED <<how, hooks, active, freed>>, NEW j \in Arrivals,
         phase[j] = "hooks", hook[j] \in DOMAIN hooks, Refuse(j)
  PROVE  KeysOK'
<1>1. PICK out \in SUBSET Arrivals :
        /\ j \in out /\ (\A k \in out : AtTheDoor(k) \/ phase[k] = "new")
        /\ \A k \in out : k = j \/ (k \in Batch /\ j \in Batch)
        /\ phase' = [k \in Arrivals |-> IF k \in out THEN "refused" ELSE phase[k]]
        /\ \A k \in out : phase[k] = "held" \/ (k = j /\ PastHook(j, "dedup")) => KeyOf(k) \in leaked'
        /\ leaked \subseteq leaked' /\ UNCHANGED hook
  BY Refuses
<1>2. \A k \in Arrivals \ out : phase'[k] = phase[k] /\ (Admitted(k)' <=> Admitted(k))
  BY <1>1 DEF Admitted, Live, PastHook
<1>3. \A k \in out : phase'[k] = "refused" /\ ~Admitted(k)'
  BY <1>1 DEF Admitted, Live
<1>4. ASSUME NEW k \in out, Admitted(k) PROVE KeyOf(k) \in leaked'
  <2>1. phase[k] = "held" \/ (phase[k] = "hooks" /\ PastHook(k, "dedup"))
    BY <1>1, <1>4 DEF Admitted, Live, AtTheDoor
  <2>2. phase[k] = "hooks" => k = j
    BY <1>1 DEF KeysOK
  <2> QED  BY <1>1, <2>1, <2>2
<1>5. \A k \in Arrivals : Admitted(k) => Admitted(k)' \/ KeyOf(k) \in leaked'
  BY <1>2, <1>4
<1>6. \A k \in Arrivals : Admitted(k)' => Admitted(k)
  BY <1>2, <1>3
<1>7. \A k \in Arrivals : phase'[k] \in {"hooks", "new"} => phase[k] = phase'[k]
  BY <1>2, <1>3
<1> QED  BY <1>1, <1>5, <1>6, <1>7, KeysStay

LEMMA OtherHookPasses ==
  ASSUME AdTypes, KeysOK, UNCHANGED <<how, hooks, active, freed, leaked>>, NEW j \in Arrivals,
         phase[j] = "hooks", hook[j] \in DOMAIN hooks, hooks[hook[j]] # "dedup", Passes(j)
  PROVE  KeysOK'
<1>1. /\ UNCHANGED phase /\ hook'[j] = hook[j] + 1
      /\ \A i \in Arrivals \ {j} : hook'[i] = hook[i]
  BY DEF Passes, AdTypes, AdTypeOK
<1>2. \A n \in DOMAIN hooks : n \in Int /\ hook[j] \in Int
  BY AdmissionAssumption DEF AdTypes, AdTypeOK
<1>3. PastHook(j, "dedup")' <=> PastHook(j, "dedup")
  <2>1. \A n \in DOMAIN hooks : hooks[n] = "dedup" => (n < hook'[j] <=> n < hook[j])
    BY <1>1, <1>2
  <2> QED  BY <2>1 DEF PastHook
<1>4. \A i \in Arrivals : Admitted(i)' <=> Admitted(i)
  BY <1>1, <1>3 DEF Admitted, Live, PastHook
<1>5. \A i \in Arrivals : phase'[i] = "new" => hook'[i] = hook[i]
  BY <1>1
<1> QED  BY <1>1, <1>4, <1>5, KeysStay

LEMMA KeysKept ==
  ASSUME AdTypes, KeysOK, AdNext
  PROVE  KeysOK'
<1>0. UNCHANGED <<how, hooks>> /\ phase \in [Arrivals -> Phases]
  BY DEF AdNext, AdTypes, AdTypeOK
<1>1. ASSUME NEW j \in Arrivals, Enter(j) \/ EnterUntested(j) PROVE KeysOK'
  <2>1. /\ UNCHANGED <<active, leaked, freed, hook>> /\ phase[j] = "new" /\ hook[j] = 1
        /\ phase'[j] \in {"refused", "hooks"}
        /\ \A i \in Arrivals \ {j} : phase'[i] = phase[i]
    BY <1>0, <1>1 DEF Enter, EnterUntested, plugins, adHistory, KeysOK
  <2>2. \A i \in Arrivals \ {j} : Admitted(i)' <=> Admitted(i)
    BY <1>0, <2>1 DEF Admitted, Live, PastHook
  <2>3. ~Admitted(j) /\ ~Admitted(j)'
    <3>1. \A n \in DOMAIN hooks : ~(n < 1)
      BY AdmissionAssumption DEF AdTypes
    <3> QED  BY <1>0, <2>1, <3>1 DEF Admitted, Live, PastHook
  <2>4. phase'[j] = "hooks" => j \notin Batch \/ \A k \in Batch : phase'[k] = "hooks" => k = j
    BY <1>0, <1>1, <2>1 DEF Enter, EnterUntested, Batch
  <2>5. \A i \in Arrivals : Admitted(i) <=> Admitted(i)'
    BY <2>2, <2>3
  <2> QED  BY <1>0, <2>1, <2>4, <2>5, KeysMove
<1>2. ASSUME NEW j \in Arrivals, RunHook(j) PROVE KeysOK'
  <2>1. phase[j] = "hooks" /\ hook[j] \in DOMAIN hooks /\ UNCHANGED freed
    BY <1>2, HookRuns
  <2>2. CASE hooks[hook[j]] = "dedup"
    <3>1. Dedup(j)
      BY <1>2, <2>2, HookRuns
    <3> QED  BY <1>0, <2>1, <2>2, <3>1, DedupPasses, RefusalKeeps DEF Dedup
  <2>3. CASE hooks[hook[j]] # "dedup"
    <3>1. UNCHANGED active /\ (Refuse(j) \/ (Passes(j) /\ UNCHANGED leaked))
      BY <1>2, <2>3, HookRuns DEF Rate
    <3> QED  BY <1>0, <2>1, <2>3, <3>1, RefusalKeeps, OtherHookPasses
  <2> QED  BY <2>2, <2>3
<1>3. ASSUME NEW j \in Arrivals, Through(j) PROVE KeysOK'
  <2>1. /\ UNCHANGED <<active, leaked, freed, hook>> /\ phase[j] = "hooks" /\ hook[j] > Len(hooks)
        /\ phase'[j] \in {"in", "held", "popped"}
        /\ \A i \in Arrivals \ {j} : phase'[i] = phase[i]
    BY <1>0, <1>3 DEF Through, plugins
  <2>2. \A i \in Arrivals \ {j} : Admitted(i)' <=> Admitted(i)
    BY <1>0, <2>1 DEF Admitted, Live, PastHook
  <2>3. Admitted(j)' /\ (HasDedup => Admitted(j))
    <3>1. \A n \in DOMAIN hooks : n < hook[j]
      BY <2>1, AdmissionAssumption DEF AdTypes, AdTypeOK
    <3> QED  BY <2>1, <3>1 DEF Admitted, Live, PastHook, HasDedup
  <2> QED  BY <1>0, <2>1, <2>2, <2>3, KeysMove
<1>4. ASSUME UNCHANGED <<active, leaked, freed, hook>>,
             \A i \in Arrivals : phase'[i] = phase[i]
                \/ (phase[i] \in {"in", "popped", "running", "waiting", "held"}
                    /\ phase'[i] \in {"in", "popped", "running", "waiting", "held"})
      PROVE  KeysOK'
  <2>1. \A i \in Arrivals : Admitted(i)' <=> Admitted(i)
    BY <1>0, <1>4 DEF Admitted, Live, PastHook
  <2>2. \A i \in Arrivals : phase'[i] \in {"hooks", "new"} => phase[i] = phase'[i]
    BY <1>4
  <2> QED  BY <1>0, <1>4, <2>1, <2>2, KeysMove
<1>5. CASE BatchIn
  BY <1>0, <1>4, <1>5 DEF BatchIn, plugins
<1>6. ASSUME NEW j \in Arrivals, TakeNext(j) PROVE KeysOK'
  BY <1>0, <1>4, <1>6 DEF TakeNext, plugins, adHistory, AdTypes, AdTypeOK
<1>7. ASSUME NEW j \in Arrivals, RetryLater(j) \/ Due(j) PROVE KeysOK'
  BY <1>0, <1>4, <1>7 DEF RetryLater, Due, plugins, adHistory
<1>8. CASE AdClock
  BY <1>4, <1>8 DEF AdClock, plugins, adHistory
<1>9. ASSUME NEW j \in Arrivals, Process(j) PROVE KeysOK'
  <2>1. CASE j \notin superseded
    BY <1>0, <1>4, <1>9, <2>1 DEF Process
  <2>2. CASE j \in superseded
    <3>1. /\ UNCHANGED <<active, freed, hook>> /\ leaked' = leaked \cup {KeyOf(j)}
          /\ phase'[j] = "discarded" /\ \A i \in Arrivals \ {j} : phase'[i] = phase[i]
      BY <1>0, <1>9, <2>2 DEF Process
    <3>2. (\A i \in Arrivals \ {j} : Admitted(i)' <=> Admitted(i)) /\ ~Admitted(j)'
      BY <3>1, <1>0 DEF Admitted, Live, PastHook
    <3> QED  BY <1>0, <3>1, <3>2, KeysStay
  <2> QED  BY <2>1, <2>2
<1>10. CASE Clear
  <2>1. /\ UNCHANGED <<active, freed, hook>> /\ leaked' = leaked \cup {KeyOf(i) : i \in waiting}
        /\ \A i \in waiting : phase'[i] = "cleared"
        /\ \A i \in Arrivals \ waiting : phase'[i] = phase[i]
    BY <1>10 DEF Clear, plugins, AdTypes, AdTypeOK
  <2>2. /\ \A i \in Arrivals \ waiting : Admitted(i)' <=> Admitted(i)
        /\ \A i \in Arrivals \cap waiting : ~Admitted(i)'
    BY <2>1, <1>0 DEF Admitted, Live, PastHook
  <2>3. \A i \in Arrivals : phase'[i] \in {"hooks", "new"} => phase[i] = phase'[i]
    BY <2>1
  <2> QED  BY <1>0, <2>1, <2>2, <2>3, KeysStay
<1>11. ASSUME NEW j \in Arrivals, NEW end \in {"done", "failed"}, End(j, end) PROVE KeysOK'
  <2>1. /\ UNCHANGED <<freed, hook>> /\ leaked' = leaked \ {KeyOf(j)} /\ phase[j] = "running"
        /\ active' = active \ {KeyOf(j)}
        /\ phase'[j] = end /\ \A i \in Arrivals \ {j} : phase'[i] = phase[i]
    BY <1>0, <1>11 DEF End, CleanUp
  <2>2. (\A i \in Arrivals \ {j} : Admitted(i)' <=> Admitted(i)) /\ ~Admitted(j)' /\ Admitted(j)
    BY <1>11, <2>1, <1>0 DEF Admitted, Live, PastHook
  <2>3. HasDedup => \A i \in Arrivals : Admitted(i)' =>
          /\ Admitted(i)
          /\ KeyOf(i) \in active \ active' => KeyOf(i) \in freed'
    BY <2>1, <2>2 DEF KeysOK
  <2>4. \A i \in Arrivals : phase'[i] \in {"hooks", "new"} => phase[i] = phase'[i]
    BY <1>11, <2>1
  <2> QED  BY <1>0, <2>1, <2>2, <2>3, <2>4, KeysStay
<1>12. ASSUME NEW j \in Arrivals, Expire(j) PROVE KeysOK'
  <2>1. /\ UNCHANGED hook /\ leaked' = leaked \ {KeyOf(j)} /\ active' = active \ {KeyOf(j)}
        /\ phase'[j] = (IF phase[j] = "in" THEN "expired" ELSE phase[j])
        /\ \A i \in Arrivals \ {j} : phase'[i] = phase[i]
        /\ freed \subseteq freed'
        /\ \A k \in Arrivals : KeyOf(k) = KeyOf(j) /\ (AtTheDoor(k)' \/ Live(k)') => KeyOf(j) \in freed'
    BY <1>0, <1>12 DEF Expire, CleanUp
  <2>2. (\A i \in Arrivals \ {j} : Admitted(i)' <=> Admitted(i)) /\ (Admitted(j)' => Admitted(j))
    BY <2>1, <1>0 DEF Admitted, Live, PastHook
  <2>3. \A i \in Arrivals : Admitted(i)' => AtTheDoor(i)' \/ Live(i)'
    BY DEF Admitted, AtTheDoor
  <2>4. \A i \in Arrivals : Admitted(i)' =>
          Admitted(i) /\ (KeyOf(i) \in active \ active' => KeyOf(i) \in freed')
    BY <2>1, <2>2, <2>3
  <2>5. \A i \in Arrivals : phase'[i] \in {"hooks", "new"} => phase[i] = phase'[i]
    BY <2>1
  <2> QED  BY <1>0, <2>1, <2>2, <2>4, <2>5, KeysStay
<1>13. ASSUME NEW j \in Arrivals, Retake(j) PROVE KeysOK'
  <2>1. /\ UNCHANGED <<active, leaked, hook>> /\ freed' = freed \cup {KeyOf(j)}
        /\ phase[j] = "failed" /\ phase'[j] = "in"
        /\ \A i \in Arrivals \ {j} : phase'[i] = phase[i]
    BY <1>0, <1>13 DEF Retake, plugins
  <2>2. (\A i \in Arrivals \ {j} : Admitted(i)' <=> Admitted(i)) /\ Admitted(j)'
    BY <2>1, <1>0 DEF Admitted, Live, PastHook
  <2>3. \A i \in Arrivals : phase'[i] \in {"hooks", "new"} => phase[i] = phase'[i]
    BY <2>1
  <2> QED  BY <1>0, <2>1, <2>2, <2>3, KeysMove
<1> QED  BY <1>1, <1>2, <1>3, <1>5, <1>6, <1>7, <1>8, <1>9, <1>10, <1>11, <1>12, <1>13 DEF AdNext
-----------------------------------------------------------------------------
(* RateLimiter                                                             *)

LEMMA TogetherAtMost ==
  ASSUME NEW S \in SUBSET Arrivals, NEW U \in SUBSET Arrivals, NEW R \in SUBSET (S \cup U)
  PROVE  /\ Cardinality(S) \in Nat /\ Cardinality(U) \in Nat /\ Cardinality(R) \in Nat
         /\ Cardinality(R) <= Cardinality(S) + Cardinality(U)
<1>1. IsFiniteSet(S) /\ IsFiniteSet(U)
  BY AdmissionAssumption, FS_Subset
<1>2. IsFiniteSet(S \cup U) /\ IsFiniteSet(S \cap U)
      /\ Cardinality(S \cup U) = Cardinality(S) + Cardinality(U) - Cardinality(S \cap U)
  BY <1>1, FS_Union, FS_Subset
<1>3. IsFiniteSet(R) /\ Cardinality(R) <= Cardinality(S \cup U)
  BY <1>2, FS_Subset
<1> QED  BY <1>1, <1>2, <1>3, FS_CardinalityType

LEMMA AtMost ==
  ASSUME NEW S \in SUBSET Arrivals, NEW R \in SUBSET S
  PROVE  Cardinality(S) \in Nat /\ Cardinality(R) \in Nat /\ Cardinality(R) <= Cardinality(S)
<1>1. IsFiniteSet(S)
  BY AdmissionAssumption, FS_Subset
<1> QED  BY <1>1, FS_Subset, FS_CardinalityType

LEMMA OneMore ==
  ASSUME NEW S \in SUBSET Arrivals, NEW j \in Arrivals, NEW R \in SUBSET (S \cup {j})
  PROVE  /\ Cardinality(S) \in Nat /\ Cardinality(R) \in Nat
         /\ Cardinality(R) <= Cardinality(S) + 1
<1>1. Cardinality({j}) = 1
  BY FS_Singleton
<1> QED  BY <1>1, TogetherAtMost

\* A token taken from the window that is open.
LEMMA SameWindow ==
  ASSUME AdTypes, WindowOK, NEW j \in Arrivals, UNCHANGED clock,
         clock < bucket.resetAt, bucket.tokens # 0,
         bucket' = [bucket EXCEPT !.tokens = @ - 1],
         grants' = [k \in DOMAIN grants \cup {j} |-> IF k = j THEN clock ELSE grants[k]]
  PROVE  WindowOK'
<1> DEFINE o == Opened
           G(t, u) == Given(t, u)
           S(t) == Since(t)
           H(t, u) == {k \in DOMAIN grants' : grants'[k] >= t /\ grants'[k] <= u}
           R(t) == {k \in DOMAIN grants' : grants'[k] >= t}
<1>1. /\ clock \in Nat /\ bucket.tokens \in 0 .. Tokens /\ bucket.resetAt \in Nat
      /\ bucket'.tokens = bucket.tokens - 1 /\ bucket'.resetAt = bucket.resetAt
      /\ Tokens \in Nat \ {0} /\ RateWindow \in Nat \ {0} /\ o = bucket.resetAt - RateWindow
      /\ DOMAIN grants \subseteq Arrivals /\ \A k \in DOMAIN grants : grants[k] \in Nat
  BY AdmissionAssumption DEF AdTypes, Opened
<1>2. Opened' = o
  BY <1>1 DEF Opened
<1>3. DOMAIN grants # {} /\ o <= clock
  <2>1. IF DOMAIN grants = {} THEN bucket.resetAt = 0 ELSE o <= clock
    BY DEF WindowOK
  <2>2. bucket.resetAt # 0
    BY <1>1
  <2> QED  BY <2>1, <2>2
<1>4. /\ DOMAIN grants' = DOMAIN grants \cup {j} /\ grants'[j] = clock
      /\ \A k \in DOMAIN grants \ {j} : grants'[k] = grants[k]
  OBVIOUS
<1>5. \A t, u \in Int : G(t, u) \in SUBSET Arrivals /\ S(t) \in SUBSET Arrivals
                         /\ H(t, u) \in SUBSET Arrivals /\ R(t) \in SUBSET Arrivals
  BY <1>1, <1>4 DEF Given, Since
<1>6. \A t, u \in Int : /\ R(t) \subseteq S(t) \cup {j}
                        /\ H(t, u) \subseteq R(t)
                        /\ u < clock => H(t, u) \subseteq G(t, u)
                        /\ t <= o => H(t, u) \subseteq H(t, o - 1) \cup R(o)
  BY <1>1, <1>4 DEF Given, Since
<1> HIDE DEF o, G, S, H, R
<1>7. Cardinality(R(o)) \in Nat /\ Cardinality(R(o)) <= Tokens - (bucket.tokens - 1)
  <2>1. Cardinality(R(o)) <= Cardinality(S(o)) + 1 /\ Cardinality(R(o)) \in Nat /\ Cardinality(S(o)) \in Nat
    BY <1>1, <1>5, <1>6, OneMore
  <2>2. Cardinality(S(o)) <= Tokens - bucket.tokens
    BY DEF WindowOK, S, o
  <2> QED  BY <1>1, <2>1, <2>2
<1>8. ASSUME NEW t \in Int, t > o
      PROVE  Cardinality(R(t)) \in Nat /\ Cardinality(R(t)) <= Tokens - 1 - (bucket.tokens - 1)
  <2>1. Cardinality(R(t)) <= Cardinality(S(t)) + 1 /\ Cardinality(R(t)) \in Nat /\ Cardinality(S(t)) \in Nat
    BY <1>5, <1>6, OneMore
  <2>2. Cardinality(S(t)) <= Tokens - 1 - bucket.tokens
    BY <1>3, <1>8 DEF WindowOK, S, o
  <2> QED  BY <1>1, <2>1, <2>2
<1>9. ASSUME NEW t \in Int, t > o - RateWindow
      PROVE  Cardinality(H(t, o - 1)) \in Nat /\ Cardinality(H(t, o - 1)) <= Tokens - 1
  <2>1. o - 1 \in Int /\ o - 1 < clock
    BY <1>1, <1>3
  <2>2. Cardinality(H(t, o - 1)) <= Cardinality(G(t, o - 1)) /\ Cardinality(H(t, o - 1)) \in Nat
        /\ Cardinality(G(t, o - 1)) \in Nat
    BY <1>5, <1>6, <2>1, AtMost
  <2>3. Cardinality(G(t, o - 1)) <= Tokens - 1
    BY <1>9 DEF WindowOK, G, o
  <2> QED  BY <1>1, <2>2, <2>3
<1>10. ASSUME NEW t \in Int PROVE Cardinality(H(t, t + RateWindow - 1)) < 2 * Tokens
  <2> DEFINE u == t + RateWindow - 1
  <2>0. u \in Int
    BY <1>1
  <2>1. CASE t > o
    <3>1. Cardinality(H(t, u)) <= Cardinality(R(t)) /\ Cardinality(H(t, u)) \in Nat
      BY <2>0, <1>5, <1>6, AtMost
    <3> QED  BY <1>1, <1>8, <2>1, <3>1
  <2>2. CASE t <= o - RateWindow
    <3>1. u < clock
      BY <1>1, <1>3, <2>2
    <3>2. Cardinality(H(t, u)) <= Cardinality(G(t, u)) /\ Cardinality(H(t, u)) \in Nat
          /\ Cardinality(G(t, u)) \in Nat
      BY <2>0, <3>1, <1>5, <1>6, AtMost
    <3>3. Cardinality(G(t, u)) < 2 * Tokens
      BY DEF WindowOK, G
    <3> QED  BY <1>1, <3>2, <3>3
  <2>3. CASE t > o - RateWindow /\ t <= o
    <3>1. o - 1 \in Int
      BY <1>1
    <3>2. /\ H(t, u) \in SUBSET (H(t, o - 1) \cup R(o))
          /\ H(t, o - 1) \in SUBSET Arrivals /\ R(o) \in SUBSET Arrivals
      BY <2>0, <2>3, <3>1, <1>1, <1>5, <1>6
    <3>3. Cardinality(H(t, u)) <= Cardinality(H(t, o - 1)) + Cardinality(R(o))
          /\ Cardinality(H(t, u)) \in Nat
      BY <3>2, TogetherAtMost
    <3> QED  BY <1>1, <1>7, <1>9, <2>3, <3>3
  <2> QED  BY <1>1, <2>1, <2>2, <2>3
<1>11. \A k \in DOMAIN grants' : grants'[k] <= clock /\ grants'[k] < bucket'.resetAt
  <2>1. \A k \in DOMAIN grants : grants[k] <= clock /\ grants[k] < bucket.resetAt
    BY DEF WindowOK
  <2> QED  BY <1>1, <1>4, <2>1
<1> QED  BY <1>1, <1>2, <1>3, <1>4, <1>7, <1>8, <1>9, <1>10, <1>11
         DEF WindowOK, Since, Given, H, R

\* A token taken once the window has run out.
LEMMA NewWindow ==
  ASSUME AdTypes, WindowOK, NEW j \in Arrivals, UNCHANGED clock,
         clock >= bucket.resetAt,
         bucket' = [tokens |-> Tokens - 1, resetAt |-> clock + RateWindow],
         grants' = [k \in DOMAIN grants \cup {j} |-> IF k = j THEN clock ELSE grants[k]]
  PROVE  WindowOK'
<1> DEFINE o == Opened
           G(t, u) == Given(t, u)
           S(t) == Since(t)
           H(t, u) == {k \in DOMAIN grants' : grants'[k] >= t /\ grants'[k] <= u}
           R(t) == {k \in DOMAIN grants' : grants'[k] >= t}
<1>1. /\ clock \in Nat /\ bucket.tokens \in 0 .. Tokens /\ bucket.resetAt \in Nat
      /\ bucket'.tokens = Tokens - 1 /\ bucket'.resetAt = clock + RateWindow
      /\ Tokens \in Nat \ {0} /\ RateWindow \in Nat \ {0} /\ o = bucket.resetAt - RateWindow
      /\ DOMAIN grants \subseteq Arrivals /\ \A k \in DOMAIN grants : grants[k] \in Nat
  BY AdmissionAssumption DEF AdTypes, Opened
<1>2. Opened' = clock
  BY <1>1 DEF Opened
<1>3. \A k \in DOMAIN grants : grants[k] < clock
  <2>1. \A k \in DOMAIN grants : grants[k] < bucket.resetAt
    BY DEF WindowOK
  <2> QED  BY <1>1, <2>1
<1>4. /\ DOMAIN grants' = DOMAIN grants \cup {j} /\ grants'[j] = clock
      /\ \A k \in DOMAIN grants \ {j} : grants'[k] = grants[k]
  OBVIOUS
<1>5. \A t, u \in Int : G(t, u) \in SUBSET Arrivals /\ S(t) \in SUBSET Arrivals
                         /\ H(t, u) \in SUBSET Arrivals /\ R(t) \in SUBSET Arrivals
  BY <1>1, <1>4 DEF Given, Since
<1>6. \A t, u \in Int : /\ u < clock => H(t, u) \subseteq G(t, u)
                        /\ H(t, clock - 1) \subseteq S(t)
                        /\ t <= clock => H(t, u) \subseteq H(t, clock - 1) \cup R(clock)
                        /\ t > clock => H(t, u) = {} /\ R(t) = {}
                        /\ DOMAIN grants = {} => S(t) = {}
  BY <1>1, <1>3, <1>4 DEF Given, Since
<1>7. R(clock) = {j} /\ Cardinality(R(clock)) = 1 /\ Cardinality({}) = 0
  <2>1. R(clock) = {j}
    BY <1>1, <1>3, <1>4
  <2> QED  BY <2>1, FS_Singleton, FS_EmptySet
<1> HIDE DEF o, G, S, H, R
<1>8. \A t \in Int : t > clock => Cardinality(R(t)) = 0
  BY <1>1, <1>6, <1>7
<1>9. ASSUME NEW t \in Int, t > clock - RateWindow
      PROVE  Cardinality(H(t, clock - 1)) \in Nat /\ Cardinality(H(t, clock - 1)) <= Tokens - 1
  <2>1. Cardinality(H(t, clock - 1)) <= Cardinality(S(t)) /\ Cardinality(H(t, clock - 1)) \in Nat
        /\ Cardinality(S(t)) \in Nat
    BY <1>1, <1>5, <1>6, AtMost
  <2>2. CASE DOMAIN grants = {}
    <3>1. S(t) = {}
      BY <1>6, <2>2
    <3>2. Cardinality(S(t)) = 0
      BY <1>7, <3>1
    <3> QED  BY <1>1, <2>1, <3>2
  <2>3. CASE DOMAIN grants # {}
    <3>1. t > o
      BY <1>1, <1>9
    <3>2. Cardinality(S(t)) <= Tokens - 1 - bucket.tokens
      BY <2>3, <3>1 DEF WindowOK, S, o
    <3> QED  BY <1>1, <2>1, <3>2
  <2> QED  BY <2>2, <2>3
<1>10. ASSUME NEW t \in Int PROVE Cardinality(H(t, t + RateWindow - 1)) < 2 * Tokens
  <2> DEFINE u == t + RateWindow - 1
  <2>0. u \in Int
    BY <1>1
  <2>1. CASE t > clock
    <3>1. H(t, u) = {}
      BY <1>6, <2>0, <2>1
    <3>2. Cardinality(H(t, u)) = 0
      BY <1>7, <3>1
    <3> QED  BY <1>1, <3>2
  <2>2. CASE t <= clock - RateWindow
    <3>1. u < clock
      BY <1>1, <2>2
    <3>2. Cardinality(H(t, u)) <= Cardinality(G(t, u)) /\ Cardinality(H(t, u)) \in Nat
          /\ Cardinality(G(t, u)) \in Nat
      BY <2>0, <3>1, <1>5, <1>6, AtMost
    <3>3. Cardinality(G(t, u)) < 2 * Tokens
      BY DEF WindowOK, G
    <3> QED  BY <1>1, <3>2, <3>3
  <2>3. CASE t > clock - RateWindow /\ t <= clock
    <3>1. clock - 1 \in Int /\ clock \in Int
      BY <1>1
    <3>2. /\ H(t, u) \in SUBSET (H(t, clock - 1) \cup R(clock))
          /\ H(t, clock - 1) \in SUBSET Arrivals /\ R(clock) \in SUBSET Arrivals
      BY <2>0, <2>3, <3>1, <1>1, <1>5, <1>6
    <3>3. Cardinality(H(t, u)) <= Cardinality(H(t, clock - 1)) + Cardinality(R(clock))
          /\ Cardinality(H(t, u)) \in Nat
      BY <3>2, TogetherAtMost
    <3> QED  BY <1>1, <1>7, <1>9, <2>3, <3>3
  <2> QED  BY <1>1, <2>1, <2>2, <2>3
<1>11. \A k \in DOMAIN grants' : grants'[k] <= clock /\ grants'[k] < bucket'.resetAt
  BY <1>1, <1>3, <1>4
<1>12. /\ Cardinality(R(clock)) <= Tokens - (Tokens - 1)
       /\ \A t \in Int : t > clock => Cardinality(R(t)) <= Tokens - 1 - (Tokens - 1)
       /\ clock <= clock
  BY <1>1, <1>7, <1>8
<1> QED  BY <1>1, <1>2, <1>4, <1>9, <1>10, <1>11, <1>12
         DEF WindowOK, Since, Given, H, R

LEMMA WindowKept ==
  ASSUME AdTypes, WindowOK, AdNext
  PROVE  WindowOK'
<1>1. ASSUME NEW j \in Arrivals, Rate(j), UNCHANGED clock PROVE WindowOK'
  <2>1. Tokens \in Nat \ {0} /\ clock \in Nat /\ bucket.resetAt \in Nat /\ RateWindow \in Nat
        /\ bucket \in [tokens : 0 .. Tokens, resetAt : Nat]
    BY AdmissionAssumption DEF AdTypes
  <2>2. CASE Bucket.tokens = 0
    <3>1. UNCHANGED <<bucket, grants, clock>>
      BY <1>1, <2>1, <2>2 DEF Rate, Bucket
    <3> QED  BY <3>1 DEF WindowOK, Opened, Since, Given
  <2>3. CASE Bucket.tokens # 0
    <3>1. /\ bucket' = [Bucket EXCEPT !.tokens = @ - 1]
          /\ grants' = [k \in DOMAIN grants \cup {j} |-> IF k = j THEN clock ELSE grants[k]]
      BY <1>1, <2>3 DEF Rate
    <3>2. CASE clock >= bucket.resetAt
      <4>1. bucket' = [tokens |-> Tokens - 1, resetAt |-> clock + RateWindow]
        BY <3>1, <3>2 DEF Bucket
      <4> QED  BY <1>1, <3>1, <3>2, <4>1, NewWindow
    <3>3. CASE clock < bucket.resetAt
      <4>1. Bucket = bucket
        BY <2>1, <3>3 DEF Bucket
      <4> QED  BY <1>1, <2>3, <3>1, <3>3, <4>1, SameWindow
    <3> QED  BY <2>1, <3>2, <3>3
  <2> QED  BY <2>2, <2>3
<1>2. CASE UNCHANGED <<bucket, grants, clock>>
  BY <1>2 DEF WindowOK, Opened, Since, Given
<1>3. ASSUME NEW j \in Arrivals, RunHook(j) PROVE WindowOK'
  BY <1>1, <1>2, <1>3, HookRuns
<1>4. CASE AdClock
  <2>1. UNCHANGED <<bucket, grants>> /\ clock' = clock + 1 /\ clock \in Nat /\ Opened' = Opened
        /\ Opened \in Int /\ \A k \in DOMAIN grants : grants[k] \in Nat
    BY <1>4, AdmissionAssumption DEF AdClock, plugins, adHistory, AdTypes, Opened
  <2>2. /\ \A k \in DOMAIN grants' : grants'[k] <= clock' /\ grants'[k] < bucket'.resetAt
        /\ IF DOMAIN grants' = {} THEN bucket'.resetAt = 0 ELSE Opened' <= clock'
    <3>1. /\ \A k \in DOMAIN grants : grants[k] <= clock /\ grants[k] < bucket.resetAt
          /\ IF DOMAIN grants = {} THEN bucket.resetAt = 0 ELSE Opened <= clock
      BY DEF WindowOK
    <3> QED  BY <2>1, <3>1
  <2>3. \A t, u : Since(t)' = Since(t) /\ Given(t, u)' = Given(t, u)
    BY <2>1 DEF Since, Given
  <2> QED  BY <2>1, <2>2, <2>3 DEF WindowOK, Since, Given
<1> QED  BY <1>2, <1>3, <1>4
         DEF AdNext, Enter, EnterUntested, Through, BatchIn, TakeNext, Process, End, RetryLater,
             Due, Retake, Expire, Clear, plugins, adHistory

-----------------------------------------------------------------------------
(* The theorems                                                            *)

LEMMA AdInitKeeps == AdInit => AdInv
<1> SUFFICES ASSUME AdInit PROVE AdInv
  OBVIOUS
<1>1. AdTypes
  BY AdmissionAssumption DEF AdInit, AdTypes, AdTypeOK, Phases
<1>2. KeysOK
  BY DEF AdInit, KeysOK, Admitted, Live, PastHook, Batch
<1>3. NewestOK
  BY DEF AdInit, NewestOK, NewestNotSuperseded
<1>4. RoomOK
  BY DEF AdInit, RoomOK
<1>5. WindowOK
  <2>1. /\ Cardinality({}) = 0 /\ Tokens \in Nat \ {0}
        /\ \A t, u : Since(t) = {} /\ Given(t, u) = {}
    BY AdmissionAssumption, FS_EmptySet DEF AdInit, Since, Given
  <2>2. DOMAIN grants = {} /\ bucket.tokens = 0 /\ bucket.resetAt = 0
    BY DEF AdInit
  <2>3. \A t, u : Cardinality(Since(t)) = 0 /\ Cardinality(Given(t, u)) = 0
    BY <2>1
  <2>4. 0 <= Tokens - 0 /\ 0 <= Tokens - 1 /\ 0 < 2 * Tokens
    BY <2>1
  <2> QED  BY <2>2, <2>3, <2>4 DEF WindowOK
<1> QED  BY <1>1, <1>2, <1>3, <1>4, <1>5 DEF AdInv

AdSpec == AdInit /\ [][AdNext]_adVars

LEMMA AdInvariant == AdSpec => []AdInv
<1>1. AdInv /\ [AdNext]_adVars => AdInv'
  <2> SUFFICES ASSUME AdInv, [AdNext]_adVars PROVE AdInv'
    OBVIOUS
  <2>1. CASE AdNext
    BY <2>1, TypesKept, KeysKept, NewestKept, RoomKept, WindowKept DEF AdInv
  <2>2. CASE UNCHANGED adVars
    <3>1. UNCHANGED <<how, hooks, phase, hook, waiting, active, pending, superseded, bucket,
                      timers, clock, retakes, overlap, grants, leaked, freed>>
      BY <2>2 DEF adVars
    <3>2. AdTypes'
      BY <3>1 DEF AdInv, AdTypes, AdTypeOK
    <3>3. KeysOK'
      BY <3>1 DEF AdInv, KeysOK, Admitted, Live, PastHook, Batch, HasDedup
    <3>4. NewestOK' /\ RoomOK'
      BY <3>1 DEF AdInv, NewestOK, NewestNotSuperseded, PastHook, RoomOK
    <3>5. WindowOK'
      BY <3>1 DEF AdInv, WindowOK, Since, Given, Opened
    <3> QED  BY <3>2, <3>3, <3>4, <3>5 DEF AdInv
  <2> QED  BY <2>1, <2>2
<1> QED  BY <1>1, AdInitKeeps, PTL DEF AdSpec

\* Whatever order the hooks of concurrent calls, the timers and the retries run in, one
\* job of a key lives, a key is held for somebody, the newest is not the one put off, and
\* no stretch as long as the window sees twice the limit.
THEOREM AdmissionHolds == AdSpec => []AdmissionSound
<1>1. ASSUME AdInv PROVE AdmissionSound
  <2>1. AdTypeOK /\ NewestNotSuperseded
    BY <1>1 DEF AdInv, AdTypes, NewestOK
  <2>2. OneLiveJobPerKey
    BY <1>1 DEF AdInv, KeysOK, HasDedup, OneLiveJobPerKey, Admitted
  <2>3. KeysHeldForJobs
    BY <1>1 DEF AdInv, KeysOK, KeysHeldForJobs, Admitted, AtTheDoor
  <2>4. ASSUME NEW t \in 0 .. MaxTime
        PROVE  Cardinality({j \in DOMAIN grants : grants[j] \in t .. t + RateWindow - 1}) < 2 * Tokens
    <3>1. t \in Int /\ RateWindow \in Int /\ \A j \in DOMAIN grants : grants[j] \in Int
      BY <1>1, AdmissionAssumption DEF AdInv, AdTypes
    <3>2. Given(t, t + RateWindow - 1) = {j \in DOMAIN grants : grants[j] \in t .. t + RateWindow - 1}
      BY <3>1 DEF Given
    <3>3. Cardinality(Given(t, t + RateWindow - 1)) < 2 * Tokens
      BY <1>1, <3>1 DEF AdInv, WindowOK
    <3> QED  BY <3>2, <3>3
  <2> QED  BY <2>1, <2>2, <2>3, <2>4 DEF AdmissionSound, NeverTwiceTheLimit
<1> QED  BY <1>1, AdInvariant, PTL

\* enqueue tests the size before it awaits its hooks: only a job that another was pushed
\* past in the meantime can bring the queue over its size.
THEOREM OverfullByOverlap == AdSpec => OverfullOnlyByOverlap
<1>1. ASSUME AdInv, AdNext, NEW j \in Arrivals, phase[j] = "hooks", phase'[j] = "in",
             Cardinality(waiting') > MaxQueueSize
      PROVE  j \in overlap
  <2>0. AdTypes /\ RoomOK /\ MaxQueueSize \in Nat /\ Cardinality(waiting) \in Nat
    BY <1>1, Waits, AdmissionAssumption DEF AdInv
  <2>1. how[j] = "enqueue" /\ waiting' = waiting \cup {j}
    <3>0. phase \in [Arrivals -> Phases]
      BY <2>0 DEF AdTypes, AdTypeOK
    <3>1. ASSUME NEW i \in Arrivals, RunHook(i) PROVE phase'[j] # "in"
      <4>1. CASE Refuse(i)
        BY <1>1, <3>0, <4>1 DEF Refuse
      <4>2. CASE Passes(i)
        BY <1>1, <4>2 DEF Passes
      <4> QED  BY <2>0, <3>1, <4>1, <4>2, HookRuns DEF Dedup, Rate
    <3>2. ASSUME NEW i \in Arrivals, Through(i)
          PROVE  how[j] = "enqueue" /\ waiting' = waiting \cup {j}
      BY <1>1, <3>0, <3>2 DEF Through, Pushed
    <3>3. ASSUME NEW i \in Arrivals, Enter(i) \/ EnterUntested(i) \/ Process(i) PROVE phase'[j] # "in"
      BY <1>1, <3>0, <3>3 DEF Enter, EnterUntested, Process
    <3>4. ASSUME NEW i \in Arrivals, TakeNext(i) \/ RetryLater(i) \/ Due(i) \/ Retake(i) \/ Expire(i)
          PROVE  phase'[j] # "in"
      BY <1>1, <3>0, <3>4 DEF TakeNext, RetryLater, Due, Retake, Expire
    <3>5. ASSUME NEW i \in Arrivals, NEW end \in {"done", "failed"}, End(i, end)
          PROVE  phase'[j] # "in"
      BY <1>1, <3>0, <3>5 DEF End
    <3>6. CASE BatchIn \/ Clear \/ AdClock
      BY <1>1, <3>0, <3>6 DEF BatchIn, Clear, AdClock
    <3> QED  BY <1>1, <3>1, <3>2, <3>3, <3>4, <3>5, <3>6 DEF AdNext
  <2>2. Cardinality(waiting') <= Cardinality(waiting) + 1 /\ Cardinality(waiting') \in Nat
    BY <2>0, <2>1, Waits, OneMore
  <2>3. j \notin overlap => Cardinality(waiting) < MaxQueueSize
    BY <1>1, <2>0, <2>1 DEF RoomOK
  <2> QED  BY <1>1, <2>0, <2>2, <2>3
<1>2. AdInv /\ [AdNext]_adVars =>
        [\A j \in Arrivals :
           phase[j] = "hooks" /\ phase'[j] = "in" /\ Cardinality(waiting') > MaxQueueSize
           => j \in overlap]_adVars
  BY <1>1
<1> QED  BY <1>2, AdInvariant, PTL DEF AdSpec, OverfullOnlyByOverlap

-----------------------------------------------------------------------------
(***************************************************************************)
(* What is counted: Metrics and JobBatch.                                  *)
(***************************************************************************)

\* Promises are numbered from 1 on, and the one a job is tracked by is its own.
WatchInv ==
  /\ WatchTypeOK /\ ActiveDrifts /\ StartsOnRecord /\ PromisesSettle
  /\ promises \in [DOMAIN promises -> [job : WatchedJobs, by : {"nobody", "complete", "fail"}]]
  /\ \E n \in Nat : DOMAIN promises = 1 .. n
  /\ \A j \in WatchedJobs : promiseOf[j] # 0 => promises[promiseOf[j]].job = j
  /\ slips \in Nat /\ resets \in Nat

LEMMA HowMany ==
  ASSUME NEW n \in Nat, DOMAIN promises = 1 .. n
  PROVE  Cardinality(DOMAIN promises) = n
BY FS_Interval

\* One job less that runs, or one more.
LEMMA OneOff ==
  ASSUME NEW S \in SUBSET WatchedJobs, NEW j \in S
  PROVE  /\ Cardinality(S) \in Nat /\ Cardinality(S) > 0
         /\ Cardinality(S \ {j}) = Cardinality(S) - 1
<1>1. IsFiniteSet(S) /\ IsFiniteSet(S \ {j})
  BY WatchAssumption, FS_Subset
<1>2. Cardinality(S) \in Nat /\ Cardinality(S \ {j}) \in Nat
  BY <1>1, FS_CardinalityType
<1>3. Cardinality(S \ {j}) = Cardinality(S) - 1
  BY <1>1, FS_RemoveElement
<1> QED  BY <1>2, <1>3

LEMMA OneOn ==
  ASSUME NEW S \in SUBSET WatchedJobs, NEW j \in WatchedJobs \ S
  PROVE  Cardinality(S) \in Nat /\ Cardinality(S \cup {j}) = Cardinality(S) + 1
<1>1. IsFiniteSet(S)
  BY WatchAssumption, FS_Subset
<1> QED  BY <1>1, FS_CardinalityType, FS_AddElement

\* The counters, for a step that leaves the promises alone.
LEMMA NoPromise ==
  ASSUME WatchInv, UNCHANGED <<promises, promiseOf>>,
         WatchTypeOK', ActiveDrifts', StartsOnRecord', slips' \in Nat, resets' \in Nat,
         \A j \in WatchedJobs : watched[j] \in {"done", "failed"} => watched'[j] = watched[j]
  PROVE  WatchInv'
BY DEF WatchInv, PromisesSettle

LEMMA StartKeeps ==
  ASSUME WatchInv, NEW j \in WatchedJobs, NEW outcome \in {"running", "queued", "discarded"},
         StartCounted(j, outcome)
  PROVE  WatchInv'
<1>1. /\ watched[j] = "queued" /\ watched' = [watched EXCEPT ![j] = outcome]
      /\ metrics' = [metrics EXCEPT !["active"] = @ + 1] /\ times' = times \cup {j}
      /\ slips' = (IF outcome = "running" THEN slips ELSE slips + 1)
      /\ UNCHANGED <<promises, promiseOf, awaited, answered, resets>>
  BY DEF StartCounted, batchVars0
<1>2. WatchTypeOK /\ slips \in Nat /\ resets \in Nat /\ j \notin Running
  BY <1>1 DEF WatchInv, Running
<1>3. WatchTypeOK' /\ slips' \in Nat
  BY <1>1, <1>2 DEF WatchTypeOK
<1>4. metrics'["active"] = metrics["active"] + 1 /\ metrics["active"] \in Nat
  BY <1>1, <1>2 DEF WatchTypeOK
<1>5. Running' = (IF outcome = "running" THEN Running \cup {j} ELSE Running)
  BY <1>1, <1>2 DEF Running, WatchTypeOK
<1>6. ActiveDrifts'
  <2>1. Cardinality(Running) \in Nat /\ Cardinality(Running \cup {j}) = Cardinality(Running) + 1
    <3>1. Running \in SUBSET WatchedJobs /\ j \in WatchedJobs \ Running
      BY <1>2 DEF Running
    <3> QED  BY <3>1, OneOn
  <2>2. resets = 0 => metrics["active"] = Cardinality(Running) + slips
    BY DEF WatchInv, ActiveDrifts
  <2>3. resets = 0 => metrics'["active"] = Cardinality(Running') + slips'
    <3>1. CASE outcome = "running"
      BY <1>1, <1>2, <1>4, <1>5, <2>1, <2>2, <3>1
    <3>2. CASE outcome # "running"
      BY <1>1, <1>2, <1>4, <1>5, <2>1, <2>2, <3>2
    <3> QED  BY <3>1, <3>2
  <2> QED  BY <1>1, <2>3 DEF ActiveDrifts
<1>7. StartsOnRecord'
  BY <1>1, <1>5 DEF WatchInv, StartsOnRecord
<1> QED  BY <1>1, <1>2, <1>3, <1>6, <1>7, NoPromise DEF WatchTypeOK

LEMMA SettleKeeps ==
  ASSUME WatchInv, NEW j \in WatchedJobs, NEW end \in {"complete", "fail"}, Settle(j, end),
         watched[j] = "running",
         watched' = [watched EXCEPT ![j] = IF end = "complete" THEN "done" ELSE "failed"],
         metrics' \in [{"processed", "failed", "retried", "expired", "active"} -> Nat],
         metrics'["active"] = LessOne(metrics["active"]),
         times' = times \ {j}, UNCHANGED <<awaited, answered, slips, resets>>
  PROVE  WatchInv'
<1>0. /\ WatchTypeOK /\ PromisesSettle /\ slips \in Nat /\ resets \in Nat
      /\ watched \in [WatchedJobs -> {"queued", "running", "done", "failed", "expired", "discarded"}]
      /\ promiseOf \in [WatchedJobs -> {0} \cup DOMAIN promises] /\ 0 \notin DOMAIN promises
      /\ \A i \in WatchedJobs : promiseOf[i] # 0 => promises[promiseOf[i]].job = i
      /\ promises \in [DOMAIN promises -> [job : WatchedJobs, by : {"nobody", "complete", "fail"}]]
      /\ \A n \in DOMAIN promises : promises[n].job \in WatchedJobs
  BY DEF WatchInv, WatchTypeOK
<1>1. DOMAIN promises' = DOMAIN promises
  BY DEF Settle
<1>2. \A n \in DOMAIN promises :
        /\ promises'[n].job = promises[n].job
        /\ promises'[n].by = (IF n = promiseOf[j] THEN end ELSE promises[n].by)
  BY <1>0 DEF Settle
<1>3. promises' \in [DOMAIN promises' -> [job : WatchedJobs, by : {"nobody", "complete", "fail"}]]
  BY <1>0 DEF Settle
<1>4. /\ promiseOf'[j] = 0 /\ \A i \in WatchedJobs \ {j} : promiseOf'[i] = promiseOf[i]
      /\ promiseOf' \in [WatchedJobs -> {0} \cup DOMAIN promises]
  BY <1>0 DEF Settle
<1>5. /\ watched' \in [WatchedJobs -> {"queued", "running", "done", "failed", "expired", "discarded"}]
      /\ watched'[j] = (IF end = "complete" THEN "done" ELSE "failed")
      /\ \A i \in WatchedJobs \ {j} : watched'[i] = watched[i]
  BY <1>0
<1>6. WatchTypeOK'
  BY <1>0, <1>1, <1>3, <1>4, <1>5 DEF WatchTypeOK
<1>7. PromisesSettle'
  <2> SUFFICES ASSUME NEW n \in DOMAIN promises
               PROVE  /\ promises'[n].by = "complete" => watched'[promises'[n].job] = "done"
                      /\ promises'[n].by = "fail" => watched'[promises'[n].job] = "failed"
                      /\ promises'[n].by = "nobody" <=> promiseOf'[promises'[n].job] = n
    BY <1>1 DEF PromisesSettle
  <2>1. PICK i \in WatchedJobs : i = promises[n].job /\ i = promises'[n].job
    BY <1>0, <1>2
  <2>2. /\ promises[n].by = "complete" => watched[i] = "done"
        /\ promises[n].by = "fail" => watched[i] = "failed"
        /\ promises[n].by = "nobody" <=> promiseOf[i] = n
    <3>1. PromisesSettle
      BY <1>0
    <3> QED  BY <2>1, <3>1, ZenonT(60) DEF PromisesSettle
  <2>0. n # 0
    BY <1>0
  <2>3. CASE n = promiseOf[j]
    <3>1. i = j
      BY <1>0, <2>0, <2>1, <2>3
    <3> QED  BY <1>2, <1>4, <1>5, <2>0, <2>1, <2>2, <2>3, <3>1
  <2>4. CASE n # promiseOf[j] /\ i = j
    BY <1>2, <1>4, <2>0, <2>1, <2>2, <2>4
  <2>5. CASE n # promiseOf[j] /\ i # j
    BY <1>2, <1>4, <1>5, <2>1, <2>2, <2>5
  <2> QED  BY <2>3, <2>4, <2>5
<1>12. Running' = Running \ {j} /\ j \in Running /\ Running \in SUBSET WatchedJobs
  BY <1>0, <1>5 DEF Running
<1>8. ActiveDrifts'
  <2>1. metrics["active"] \in Nat
    BY <1>0 DEF WatchTypeOK
  <2>2. Cardinality(Running') = Cardinality(Running) - 1 /\ Cardinality(Running) \in Nat
        /\ Cardinality(Running) > 0
    BY <1>12, OneOff
  <2>3. resets = 0 => metrics["active"] = Cardinality(Running) + slips
    BY DEF WatchInv, ActiveDrifts
  <2>4. resets = 0 => metrics'["active"] = Cardinality(Running') + slips
    BY <1>0, <2>1, <2>2, <2>3 DEF LessOne
  <2> QED  BY <2>4 DEF ActiveDrifts
<1>9. StartsOnRecord'
  BY <1>12 DEF WatchInv, StartsOnRecord
<1>10. \A i \in WatchedJobs : promiseOf'[i] # 0 => promises'[promiseOf'[i]].job = i
  BY <1>0, <1>2, <1>4
<1>11. \E n \in Nat : DOMAIN promises' = 1 .. n
  BY <1>1 DEF WatchInv
<1> QED  BY <1>0, <1>3, <1>6, <1>7, <1>8, <1>9, <1>10, <1>11 DEF WatchInv

LEMMA TrackKeeps ==
  ASSUME WatchInv, NEW j \in WatchedJobs, Track(j)
  PROVE  WatchInv'
<1>1. PICK n \in Nat : DOMAIN promises = 1 .. n
  BY DEF WatchInv
<1>2. /\ DOMAIN promises' = 1 .. n + 1 /\ n + 1 \in DOMAIN promises' /\ n + 1 # 0
      /\ promises'[n + 1] = [job |-> j, by |-> "nobody"]
      /\ \A m \in DOMAIN promises : promises'[m] = promises[m] /\ m # n + 1
      /\ promiseOf' = [promiseOf EXCEPT ![j] = n + 1]
  <2>1. promises' = [m \in 1 .. n \cup {n + 1} |->
                       IF m \in 1 .. n THEN promises[m] ELSE [job |-> j, by |-> "nobody"]]
    BY <1>1, HowMany DEF Track
  <2>2. DOMAIN promises' = 1 .. n + 1
    BY <1>1, <2>1
  <2>3. Cardinality(DOMAIN promises') = n + 1
    BY <1>1, <2>2, FS_Interval
  <2>4. promiseOf' = [promiseOf EXCEPT ![j] = n + 1]
    BY <2>3 DEF Track
  <2>5. n + 1 \in 1 .. n + 1 /\ n + 1 # 0 /\ n + 1 \notin 1 .. n
    OBVIOUS
  <2> QED  BY <1>1, <2>1, <2>2, <2>4, <2>5
<1>3. /\ promiseOf[j] = 0
      /\ UNCHANGED <<watched, metrics, times, awaited, answered, slips, resets>>
  BY DEF Track
<1>4. /\ promiseOf \in [WatchedJobs -> {0} \cup DOMAIN promises]
      /\ promises \in [DOMAIN promises -> [job : WatchedJobs, by : {"nobody", "complete", "fail"}]]
      /\ \A m \in DOMAIN promises : promises[m].job \in WatchedJobs
      /\ \A i \in WatchedJobs : promiseOf[i] # 0 => promises[promiseOf[i]].job = i
  BY DEF WatchInv, WatchTypeOK
<1>5. /\ promiseOf'[j] = n + 1 /\ \A i \in WatchedJobs \ {j} : promiseOf'[i] = promiseOf[i]
      /\ promiseOf' \in [WatchedJobs -> {0} \cup DOMAIN promises']
  BY <1>1, <1>2, <1>4
<1>6. promises' \in [DOMAIN promises' -> [job : WatchedJobs, by : {"nobody", "complete", "fail"}]]
  <2>1. \A m \in DOMAIN promises' : promises'[m] \in [job : WatchedJobs, by : {"nobody", "complete", "fail"}]
    BY <1>1, <1>2, <1>4
  <2>2. promises' = [m \in DOMAIN promises' |-> promises'[m]]
    BY DEF Track
  <2> QED  BY <2>1, <2>2
<1>7. WatchTypeOK'
  BY <1>1, <1>2, <1>3, <1>5, <1>6 DEF WatchInv, WatchTypeOK
<1>8. PromisesSettle'
  <2>1. ASSUME NEW m \in DOMAIN promises
        PROVE  /\ promises'[m].by = "complete" => watched'[promises'[m].job] = "done"
               /\ promises'[m].by = "fail" => watched'[promises'[m].job] = "failed"
               /\ promises'[m].by = "nobody" <=> promiseOf'[promises'[m].job] = m
    <3>1. PICK i \in WatchedJobs : i = promises[m].job
      BY <1>4
    <3>2. /\ promises[m].by = "complete" => watched[i] = "done"
          /\ promises[m].by = "fail" => watched[i] = "failed"
          /\ promises[m].by = "nobody" <=> promiseOf[i] = m
          /\ m # 0
      BY <1>1, <3>1 DEF WatchInv, PromisesSettle
    <3>3. promiseOf'[i] = m <=> promiseOf[i] = m
      BY <1>2, <1>3, <1>5, <3>2
    <3> QED  BY <1>2, <1>3, <3>1, <3>2, <3>3
  <2>2. \A m \in DOMAIN promises' : m \in DOMAIN promises \/ m = n + 1
    BY <1>1, <1>2
  <2> QED  BY <1>2, <1>5, <2>1, <2>2 DEF PromisesSettle
<1>9. \A i \in WatchedJobs : promiseOf'[i] # 0 => promises'[promiseOf'[i]].job = i
  BY <1>2, <1>4, <1>5
<1>10. ActiveDrifts' /\ StartsOnRecord' /\ slips' \in Nat /\ resets' \in Nat
  BY <1>3 DEF WatchInv, ActiveDrifts, StartsOnRecord, Running
<1>11. n + 1 \in Nat
  OBVIOUS
<1> QED  BY <1>2, <1>6, <1>7, <1>8, <1>9, <1>10, <1>11 DEF WatchInv

LEMMA WatchStepKeeps ==
  ASSUME WatchInv, WatchNext
  PROVE  WatchInv'
<1>0. /\ WatchTypeOK /\ slips \in Nat /\ resets \in Nat
      /\ watched \in [WatchedJobs -> {"queued", "running", "done", "failed", "expired", "discarded"}]
      /\ metrics \in [{"processed", "failed", "retried", "expired", "active"} -> Nat]
      /\ promiseOf \in [WatchedJobs -> {0} \cup DOMAIN promises]
      /\ \A n : LessOne(n) = IF n > 0 THEN n - 1 ELSE 0
  BY DEF WatchInv, WatchTypeOK, LessOne
<1>1. ASSUME NEW j \in WatchedJobs, CompleteCounted(j) PROVE WatchInv'
  <2>1. metrics' \in [{"processed", "failed", "retried", "expired", "active"} -> Nat]
        /\ metrics'["active"] = LessOne(metrics["active"])
    BY <1>0, <1>1 DEF CompleteCounted
  <2> QED  BY <1>1, <2>1, SettleKeeps DEF CompleteCounted
<1>2. ASSUME NEW j \in WatchedJobs, FailCounted(j) PROVE WatchInv'
  <2>1. metrics' \in [{"processed", "failed", "retried", "expired", "active"} -> Nat]
        /\ metrics'["active"] = LessOne(metrics["active"])
    BY <1>0, <1>2 DEF FailCounted
  <2> QED  BY <1>2, <2>1, SettleKeeps DEF FailCounted
<1>3. ASSUME NEW j \in WatchedJobs, RetryCounted(j) PROVE WatchInv'
  <2>1. /\ watched[j] = "running" /\ watched' = [watched EXCEPT ![j] = "queued"] /\ j \in Running
        /\ slips' = slips + 1 /\ UNCHANGED <<promises, promiseOf, awaited, answered, times, resets>>
    BY <1>3 DEF RetryCounted, batchVars0, Running
  <2>2. WatchTypeOK' /\ metrics'["active"] = metrics["active"]
    BY <1>0, <1>3, <2>1 DEF RetryCounted, WatchTypeOK
  <2>3. Running' = Running \ {j} /\ Running \in SUBSET WatchedJobs
    BY <1>0, <2>1 DEF Running
  <2>5. Cardinality(Running') = Cardinality(Running) - 1 /\ Cardinality(Running) \in Nat
    BY <2>1, <2>3, OneOff
  <2>4. ActiveDrifts' /\ StartsOnRecord'
    BY <1>0, <2>1, <2>2, <2>3, <2>5 DEF WatchInv, ActiveDrifts, StartsOnRecord
  <2> QED  BY <1>0, <2>1, <2>2, <2>4, NoPromise
<1>4. ASSUME NEW j \in WatchedJobs, ExpireCounted(j) PROVE WatchInv'
  <2>1. /\ watched[j] = "queued" /\ watched' = [watched EXCEPT ![j] = "expired"] /\ j \notin Running
        /\ UNCHANGED <<promises, promiseOf, awaited, answered, times, slips, resets>>
    BY <1>4 DEF ExpireCounted, batchVars0, Running
  <2>2. WatchTypeOK' /\ metrics'["active"] = metrics["active"]
    BY <1>0, <1>4, <2>1 DEF ExpireCounted, WatchTypeOK
  <2>3. Running' = Running
    BY <1>0, <2>1 DEF Running
  <2>4. ActiveDrifts' /\ StartsOnRecord'
    BY <2>1, <2>2, <2>3 DEF WatchInv, ActiveDrifts, StartsOnRecord
  <2> QED  BY <1>0, <2>1, <2>2, <2>4, NoPromise
<1>5. ASSUME NEW aw \in Awaiters, AwaitAll(aw) \/ Answers(aw) PROVE WatchInv'
  <2>1. UNCHANGED <<watched, metrics, times, promises, promiseOf, slips, resets>>
    BY <1>5 DEF AwaitAll, Answers
  <2>2. awaited' \in [Awaiters -> SUBSET DOMAIN promises] /\ answered' \subseteq Awaiters
    BY <1>0, <1>5 DEF AwaitAll, Answers, WatchTypeOK
  <2>3. WatchTypeOK' /\ ActiveDrifts' /\ StartsOnRecord'
    BY <2>1, <2>2 DEF WatchInv, WatchTypeOK, ActiveDrifts, StartsOnRecord, Running
  <2> QED  BY <1>0, <2>1, <2>3, NoPromise
<1>6. CASE ResetMetrics
  <2>1. /\ UNCHANGED <<promises, promiseOf, awaited, answered, watched, slips>> /\ times' = {}
        /\ metrics' = NoMetrics /\ resets' = resets + 1 /\ resets' # 0
    BY <1>0, <1>6 DEF ResetMetrics, batchVars0
  <2>2. WatchTypeOK' /\ ActiveDrifts' /\ StartsOnRecord'
    BY <1>0, <2>1 DEF WatchTypeOK, ActiveDrifts, StartsOnRecord, NoMetrics
  <2> QED  BY <1>0, <2>1, <2>2, NoPromise
<1> QED  BY <1>1, <1>2, <1>3, <1>4, <1>5, <1>6, StartKeeps, TrackKeeps DEF WatchNext

\* The active count is what runs and every start no hook took back, a running job's start
\* is on record, and a promise is settled by the end its job came to.
THEOREM WatchHolds == WatchSpec => []WatchSound
<1>1. WatchInit => WatchInv
  <2> SUFFICES ASSUME WatchInit PROVE WatchInv
    OBVIOUS
  <2>1. DOMAIN promises = {} /\ DOMAIN promises = 1 .. 0 /\ 0 \in Nat /\ promises = [n \in {} |-> n]
    BY DEF WatchInit
  <2>2. Running = {} /\ Cardinality(Running) = 0
    BY FS_EmptySet DEF WatchInit, Running
  <2>3. WatchTypeOK /\ ActiveDrifts /\ StartsOnRecord
    BY <2>1, <2>2 DEF WatchInit, WatchTypeOK, ActiveDrifts, StartsOnRecord, NoMetrics
  <2>4. PromisesSettle /\ \A j \in WatchedJobs : promiseOf[j] = 0
    BY <2>1 DEF WatchInit, PromisesSettle
  <2>5. promises \in [DOMAIN promises -> [job : WatchedJobs, by : {"nobody", "complete", "fail"}]]
    BY <2>1
  <2> QED  BY <2>1, <2>3, <2>4, <2>5 DEF WatchInit, WatchInv
<1>2. WatchInv /\ [WatchNext]_watchVars => WatchInv'
  <2>1. ASSUME WatchInv, UNCHANGED watchVars PROVE WatchInv'
    BY <2>1 DEF WatchInv, WatchTypeOK, ActiveDrifts, StartsOnRecord, PromisesSettle, Running, watchVars
  <2> QED  BY <2>1, WatchStepKeeps
<1>3. WatchInv => WatchSound
  BY DEF WatchInv, WatchSound
<1> QED  BY <1>1, <1>2, <1>3, PTL DEF WatchSpec

-----------------------------------------------------------------------------
(***************************************************************************)
(* A batch on its way into the database, for any batch and sizes of slices *)
(* and chunks.                                                             *)
(***************************************************************************)

\* The place in the batch up to which pushMany has done its work.
Written ==
  IF upserts = <<>> THEN next ELSE next + (Len(NextSlice(next)) - Len(upserts))

\* What may be missing of the part that is written, and what was taken twice.
MayMiss(j) ==
  \E n \in SlicesWith(j) : Long(NextSlice(n)) \/ (j \in unfit /\ WrittenOneByOne(n))
MayRepeat(j) == IF refuses THEN \E n \in SlicesWith(j) : WrittenOneByOne(n) ELSE j \in known

\* Slices begin where one ended.  Behind the place reached a document is missing only
\* as MayMiss says, before it there are only those of earlier.
BatchInv ==
  /\ BatchTypeOK
  /\ told # "pushing" => upserts = <<>>
  /\ told = "returned" => next > Len(Listed)
  /\ next <= Len(Listed) => \E q \in 0 .. Len(Listed) : next = slice * q + 1
  /\ upserts # <<>> =>
       /\ next <= Len(Listed) /\ WrittenOneByOne(next)
       /\ Len(upserts) <= Len(NextSlice(next))
       /\ \A i \in 1 .. Len(upserts) :
            upserts[i] = NextSlice(next)[Len(NextSlice(next)) - Len(upserts) + i]
  /\ \A i \in 1 .. Len(Listed) :
       i < Written /\ rows[Listed[i]] = "none" => MayMiss(Listed[i])
  /\ \A i \in 1 .. Len(Listed) :
       told # "thrown" /\ rows[Listed[i]] # "none" =>
         Listed[i] \in known \/ i < next \/ (upserts # <<>> /\ i < next + slice)
  /\ \A j \in DocsOf(Listed) : rows[j] = "none" => starts[j] = 0
  /\ \A j \in DocsOf(Listed) :
       starts[j] > 1 \/ (starts[j] # 0 /\ rows[j] = "pending") => MayRepeat(j)
  /\ told = "pushing" /\ Short /\ known = {} =>
       \A i \in 1 .. Len(Listed) : i < next => rows[Listed[i]] # "none"
  /\ ThrownIsAPrefix

LEMMA ListedIs ==
  /\ Listed \in Seq(DocsOf(Listed)) /\ Len(Listed) \in Nat
  /\ \A i \in 1 .. Len(Listed) : Listed[i] \in DocsOf(Listed)
  /\ \A j \in DocsOf(Listed) : \E i \in 1 .. Len(Listed) : Listed[i] = j
BY BatchAssumption DEF DocsOf

\* The slice that begins at n.
LEMMA SliceIs ==
  ASSUME NEW n \in 1 .. Len(Listed), slice \in SliceSizes,
         NEW s, s = NextSlice(n)
  PROVE  /\ s \in Seq(DocsOf(Listed))
         /\ Len(s) \in 1 .. slice /\ n + Len(s) <= Len(Listed) + 1
         /\ Len(s) = slice \/ n + Len(s) = Len(Listed) + 1
         /\ \A k \in 1 .. Len(s) : s[k] = Listed[n + k - 1]
         /\ \A i \in 1 .. Len(Listed) : i >= n /\ i < n + Len(s) => s[i - n + 1] = Listed[i]
         /\ DocsOf(s) \subseteq DocsOf(Listed)
<1> DEFINE last == IF n + slice - 1 < Len(Listed) THEN n + slice - 1 ELSE Len(Listed)
<1>0. slice \in Nat \ {0} /\ Len(Listed) \in Nat /\ Listed \in Seq(DocsOf(Listed))
  BY BatchAssumption, ListedIs
<1>1. last \in n .. Len(Listed) /\ last - n + 1 \in 1 .. slice
      /\ (last = n + slice - 1 \/ last = Len(Listed))
  BY <1>0
<1>2. s = SubSeq(Listed, n, last)
  BY DEF NextSlice
<1> HIDE DEF last
<1>3. s \in Seq(DocsOf(Listed)) /\ Len(s) = last - n + 1
      /\ \A k \in 1 .. Len(s) : s[k] = Listed[n + k - 1]
  BY <1>0, <1>1, <1>2
<1>4. \A i \in 1 .. Len(Listed) : i >= n /\ i < n + Len(s) => s[i - n + 1] = Listed[i]
  <2> SUFFICES ASSUME NEW i \in 1 .. Len(Listed), i >= n, i < n + Len(s)
               PROVE  s[i - n + 1] = Listed[i]
    OBVIOUS
  <2>1. i - n + 1 \in 1 .. Len(s) /\ n + (i - n + 1) - 1 = i
    BY <1>1, <1>3
  <2> QED  BY <1>3, <2>1
<1>5. \A k \in 1 .. Len(s) : s[k] \in DocsOf(Listed)
  BY <1>3
<1>6. DocsOf(s) \subseteq DocsOf(Listed)
  BY <1>5 DEF DocsOf
<1>7. Len(s) \in 1 .. slice /\ n + Len(s) <= Len(Listed) + 1
      /\ (Len(s) = slice \/ n + Len(s) = Len(Listed) + 1)
  <2>1. Len(s) = last - n + 1
    BY <1>3
  <2> QED  BY <1>0, <1>1, <2>1
<1> QED  BY <1>3, <1>4, <1>6, <1>7

\* What goes in with a slice: documents of it that are not refused.
LEMMA InsertedIs ==
  ASSUME NEW S, NEW s \in Seq(S)
  PROVE  Inserted(s) \subseteq DocsOf(s) /\ \A j \in Inserted(s) : ~Fails(j)
<1>1. ASSUME NEW c PROVE \A j \in BeforeFailure(c) : ~Fails(j) /\ j \in DocsOf(c)
  <2> SUFFICES ASSUME NEW k \in 1 .. Len(c), \A m \in 1 .. k : ~Fails(c[m])
               PROVE  ~Fails(c[k]) /\ c[k] \in DocsOf(c)
    BY DEF BeforeFailure
  <2>1. k \in 1 .. k
    OBVIOUS
  <2> QED  BY <2>1 DEF DocsOf
<1>2. ASSUME NEW c \in Chunks(s) PROVE DocsOf(c) \subseteq DocsOf(s)
  <2>1. PICK i \in 1 .. Len(s) : 
          c = SubSeq(s, i, IF i + NativeChunk - 1 < Len(s) THEN i + NativeChunk - 1 ELSE Len(s))
    BY DEF Chunks
  <2>2. PICK e \in i .. Len(s) : c = SubSeq(s, i, e)
    BY <2>1, BatchAssumption
  <2>3. Len(c) = e - i + 1 /\ \A k \in 1 .. Len(c) : c[k] = s[i + k - 1]
    BY <2>2
  <2> QED  BY <2>3 DEF DocsOf
<1> QED  BY <1>1, <1>2 DEF Inserted

\* A job of a slice is at one place of it.
LEMMA InSlice ==
  ASSUME slice \in SliceSizes, NEW n \in 1 .. Len(Listed), NEW i \in 1 .. Len(Listed)
  PROVE  Listed[i] \in DocsOf(NextSlice(n)) <=> i \in n .. n + Len(NextSlice(n)) - 1
<1>0. PICK s : s = NextSlice(n)
  OBVIOUS
<1>1. /\ Len(s) \in Nat /\ n + Len(s) <= Len(Listed) + 1 /\ Len(Listed) \in Nat
      /\ \A k \in 1 .. Len(s) : s[k] = Listed[n + k - 1]
      /\ i >= n /\ i < n + Len(s) => s[i - n + 1] = Listed[i]
  <2>1. /\ Len(s) \in 1 .. slice /\ n + Len(s) <= Len(Listed) + 1
        /\ \A k \in 1 .. Len(s) : s[k] = Listed[n + k - 1]
        /\ i >= n /\ i < n + Len(s) => s[i - n + 1] = Listed[i]
    <3>1. Len(s) \in 1 .. slice /\ n + Len(s) <= Len(Listed) + 1
      BY <1>0, SliceIs
    <3>2. \A k \in 1 .. Len(s) : s[k] = Listed[n + k - 1]
      BY <1>0, SliceIs
    <3>3. i >= n /\ i < n + Len(s) => s[i - n + 1] = Listed[i]
      BY <1>0, SliceIs
    <3> QED  BY <3>1, <3>2, <3>3
  <2>2. slice \in Nat
    BY BatchAssumption
  <2>3. Len(s) \in Nat
    BY <2>1, <2>2
  <2> QED  BY <2>1, <2>3, ListedIs
<1>2. ASSUME NEW k \in 1 .. Len(s), s[k] = Listed[i] PROVE i = n + k - 1
  <2>1. n + k - 1 \in 1 .. Len(Listed)
    BY <1>1
  <2> QED  BY <1>1, <1>2, <2>1, BatchAssumption
<1>3. Listed[i] \in DocsOf(s) => i \in n .. n + Len(s) - 1
  BY <1>1, <1>2 DEF DocsOf
<1>4. i \in n .. n + Len(s) - 1 => Listed[i] \in DocsOf(s)
  <2> SUFFICES ASSUME i \in n .. n + Len(s) - 1 PROVE Listed[i] \in DocsOf(s)
    OBVIOUS
  <2>1. Len(s) \in Nat /\ i \in Nat /\ n \in Nat
    BY <1>1
  <2>2. i >= n /\ i < n + Len(s)
    BY <2>1
  <2>3. i - n + 1 \in 1 .. Len(s)
    BY <2>1, <2>2
  <2>4. s[i - n + 1] = Listed[i]
    BY <1>1, <2>2
  <2> QED  BY <2>3, <2>4 DEF DocsOf
<1> QED  BY <1>0, <1>3, <1>4

LEMMA BatchInitKeeps == BatchInit => BatchInv
<1> SUFFICES ASSUME BatchInit PROVE BatchInv
  OBVIOUS
<1> USE DEF BatchInit
<1>0. Len(Listed) \in Nat /\ slice \in Nat \ {0}
  BY BatchAssumption, ListedIs
<1>1. BatchTypeOK
  BY <1>0, BatchAssumption DEF BatchTypeOK
<1>2. next <= Len(Listed) => \E q \in 0 .. Len(Listed) : next = slice * q + 1
  <2>1. slice * 0 = 0 /\ 0 \in 0 .. Len(Listed)
    BY <1>0
  <2> QED  BY <2>1
<1>3. \A i \in 1 .. Len(Listed) : ~(i < Written) /\ ~(i < next)
  BY <1>0 DEF Written
<1>4. \A j \in DocsOf(Listed) : starts[j] = 0 /\ (rows[j] # "none" => j \in known)
  OBVIOUS
<1> QED  BY <1>1, <1>2, <1>3, <1>4, ListedIs DEF BatchInv, ThrownIsAPrefix

\* What a step that keeps the choices of the run leaves as it is.
LEMMA SlicesStay ==
  ASSUME UNCHANGED <<slice, refuses, known, unfit>>
  PROVE  /\ \A n : NextSlice(n)' = NextSlice(n) /\ WrittenOneByOne(n)' = WrittenOneByOne(n)
         /\ \A j : MayMiss(j)' = MayMiss(j) /\ MayRepeat(j)' = MayRepeat(j)
         /\ Short' = Short
<1>1. \A n : NextSlice(n)' = NextSlice(n)
  BY DEF NextSlice
<1>2. \A n : WrittenOneByOne(n)' = WrittenOneByOne(n)
  BY <1>1 DEF WrittenOneByOne, Long
<1>3. \A j : SlicesWith(j)' = SlicesWith(j)
  BY <1>1 DEF SlicesWith
<1> QED  BY <1>1, <1>2, <1>3 DEF MayMiss, MayRepeat, Long, Short

\* The slice that is written holds its jobs.
LEMMA HoldsIts ==
  ASSUME BatchInv, next <= Len(Listed), NEW j \in DocsOf(NextSlice(next))
  PROVE  next \in SlicesWith(j)
<1>1. next \in 1 .. Len(Listed)
  <2>1. next \in 1 .. Len(Listed) + slice /\ Len(Listed) \in Nat /\ slice \in Nat
    BY ListedIs, BatchAssumption DEF BatchInv, BatchTypeOK
  <2> QED  BY <2>1
<1> QED  BY <1>1 DEF SlicesWith, BatchInv

\* The next slice begins a slice further.
LEMMA NextBegins ==
  ASSUME slice \in Nat \ {0}, Len(Listed) \in Nat, next + slice <= Len(Listed),
         NEW q \in 0 .. Len(Listed), next = slice * q + 1
  PROVE  \E p \in 0 .. Len(Listed) : next + slice = slice * p + 1
<1>2. q + 1 \in Nat /\ q \in Nat /\ slice * q \in Nat /\ slice * (q + 1) = slice * q + slice
  BY Products
<1>3. q + 1 <= slice * (q + 1)
  <2>1. (q + 1) * 1 <= (q + 1) * slice /\ (q + 1) * slice = slice * (q + 1)
    BY <1>2, Products, 1 <= slice
  <2>2. (q + 1) * 1 = q + 1
    BY <1>2
  <2> QED  BY <2>1, <2>2
<1>4. slice * (q + 1) + 1 = next + slice
  BY <1>2
<1>5. slice * (q + 1) \in Nat
  BY <1>2
<1> QED  BY <1>2, <1>3, <1>4, <1>5

\* pushMany hands over a slice, and all of it is written, or it is begun again one by
\* one, or the call throws.
LEMMA PushManyKeeps ==
  ASSUME BatchInv, PushMany
  PROVE  BatchInv'
<1>0. PICK s : s = NextSlice(next)
  OBVIOUS
<1> DEFINE first == CHOOSE i \in 1 .. Len(s) : Fails(s[i]) /\ \A m \in 1 .. i - 1 : ~Fails(s[m])
<1>1. /\ told = "pushing" /\ next <= Len(Listed) /\ upserts = <<>>
      /\ rows' = [j \in DOMAIN rows |-> IF j \in Inserted(s) THEN "pending" ELSE rows[j]]
      /\ IF Long(s) \/ Inserted(s) = DocsOf(s)
         THEN next' = next + slice /\ UNCHANGED <<upserts, told>>
         ELSE IF Duplicate(s[first])
              THEN upserts' = s /\ UNCHANGED <<next, told>>
              ELSE told' = "thrown" /\ UNCHANGED <<next, upserts>>
      /\ UNCHANGED <<slice, refuses, known, unfit, starts>>
  BY <1>0 DEF PushMany
<1> HIDE DEF first
<1>2. /\ slice \in SliceSizes /\ slice \in Nat \ {0} /\ Len(Listed) \in Nat
      /\ next \in 1 .. Len(Listed)
      /\ DOMAIN rows = DocsOf(Listed)
  BY <1>1, BatchAssumption, ListedIs DEF BatchInv, BatchTypeOK
<1>3. /\ s \in Seq(DocsOf(Listed))
      /\ Len(s) \in 1 .. slice /\ next + Len(s) <= Len(Listed) + 1
      /\ Len(s) = slice \/ next + Len(s) = Len(Listed) + 1
      /\ \A k \in 1 .. Len(s) : s[k] = Listed[next + k - 1]
      /\ \A i \in 1 .. Len(Listed) : i >= next /\ i < next + Len(s) => s[i - next + 1] = Listed[i]
      /\ DocsOf(s) \subseteq DocsOf(Listed)
  BY <1>0, <1>2, SliceIs, ZenonT(60)
<1>4. Inserted(s) \subseteq DocsOf(s) /\ \A j \in Inserted(s) : ~Fails(j)
  BY <1>3, InsertedIs
<1>5. \A j \in DocsOf(Listed) : rows'[j] = IF j \in Inserted(s) THEN "pending" ELSE rows[j]
  BY <1>1, <1>2
<1>6. \A i \in 1 .. Len(Listed) : Listed[i] \in DocsOf(s) <=> i \in next .. next + Len(s) - 1
  BY <1>0, <1>2, InSlice
<1>7. /\ \A n : NextSlice(n)' = NextSlice(n) /\ WrittenOneByOne(n)' = WrittenOneByOne(n)
      /\ \A j : MayMiss(j)' = MayMiss(j) /\ MayRepeat(j)' = MayRepeat(j)
      /\ Short' = Short
  BY <1>1, SlicesStay
<1>8. \A i \in 1 .. Len(Listed) : Listed[i] \in DocsOf(Listed)
  BY ListedIs
\* A document of the slice that is there was there before the batch.
<1>9. \A j \in DocsOf(s) : rows[j] # "none" => j \in known
  <2> SUFFICES ASSUME NEW k \in 1 .. Len(s), rows[s[k]] # "none" PROVE s[k] \in known
    BY DEF DocsOf
  <2>1. next + k - 1 \in 1 .. Len(Listed) /\ ~(next + k - 1 < next) /\ s[k] = Listed[next + k - 1]
    BY <1>2, <1>3
  <2> QED  BY <1>1, <2>1 DEF BatchInv
<1>10. \A j \in DocsOf(Listed) : rows'[j] = "none" => starts'[j] = 0
  BY <1>1, <1>5 DEF BatchInv
<1>11. \A j \in DocsOf(Listed) :
         starts'[j] > 1 \/ (starts'[j] # 0 /\ rows'[j] = "pending") => MayRepeat(j)'
  <2> SUFFICES ASSUME NEW j \in DocsOf(Listed),
                      starts[j] > 1 \/ (starts[j] # 0 /\ rows'[j] = "pending")
               PROVE  MayRepeat(j)
    BY <1>1, <1>7
  <2>1. CASE j \notin Inserted(s) \/ starts[j] > 1
    BY <1>5, <2>1 DEF BatchInv
  <2>2. CASE j \in Inserted(s) /\ starts[j] # 0
    <3>1. rows[j] # "none" /\ j \in DocsOf(s)
      BY <1>4, <2>2 DEF BatchInv
    <3>2. ~refuses /\ j \in known
      BY <1>4, <1>9, <2>2, <3>1 DEF Fails, Duplicate
    <3> QED  BY <3>2 DEF MayRepeat
  <2> QED  BY <2>1, <2>2
<1>12. \A i \in 1 .. Len(Listed) :
         i < next /\ rows'[Listed[i]] = "none" => MayMiss(Listed[i])'
  BY <1>1, <1>5, <1>7, <1>8 DEF BatchInv, Written
<1>13. rows' \in [DocsOf(Listed) -> {"none", "pending", "active", "over"}]
  BY <1>1, <1>2 DEF BatchInv, BatchTypeOK
<1>14. \A i \in 1 .. Len(Listed) :
         rows'[Listed[i]] # "none" =>
           Listed[i] \in known \/ i < next \/ Listed[i] \in DocsOf(s)
  BY <1>1, <1>4, <1>5, <1>8 DEF BatchInv
<1>15. CASE Long(s) \/ Inserted(s) = DocsOf(s)
  <2>0. next' = next + slice /\ upserts' = <<>> /\ told' = "pushing"
    BY <1>1, <1>15
  <2>1. BatchTypeOK'
    BY <1>1, <1>2, <1>13, <2>0 DEF BatchInv, BatchTypeOK
  <2>2. next' <= Len(Listed) => \E q \in 0 .. Len(Listed) : next' = slice' * q + 1
    BY <1>1, <1>2, <2>0, NextBegins DEF BatchInv
  <2>3. \A i \in 1 .. Len(Listed) :
          i < Written' /\ rows'[Listed[i]] = "none" => MayMiss(Listed[i])'
    <3> SUFFICES ASSUME NEW i \in 1 .. Len(Listed), i < Written', rows'[Listed[i]] = "none"
                 PROVE  MayMiss(Listed[i])'
      OBVIOUS
    <3>1. Written' = next + slice
      BY <2>0 DEF Written
    <3>2. CASE i < next
      BY <1>12, <3>2
    <3>3. CASE ~(i < next)
      <4>1. i \in next .. next + Len(s) - 1
        BY <1>2, <1>3, <3>1, <3>3
      <4>2. Listed[i] \in DocsOf(s)
        BY <1>6, <4>1
      <4>3. Long(s)
        BY <1>5, <1>8, <1>15, <4>2
      <4>4. next \in SlicesWith(Listed[i])
        BY <1>0, <1>1, <4>2, HoldsIts
      <4>5. MayMiss(Listed[i])
        BY <1>0, <4>3, <4>4 DEF MayMiss
      <4> QED  BY <1>7, <4>5
    <3> QED  BY <3>2, <3>3
  <2>4. \A i \in 1 .. Len(Listed) :
          rows'[Listed[i]] # "none" => Listed[i] \in known' \/ i < next'
    BY <1>1, <1>2, <1>3, <1>6, <1>14, <2>0
  <2>5. ASSUME Short, known = {}, NEW i \in 1 .. Len(Listed), i < next' PROVE rows'[Listed[i]] # "none"
    <3>1. ~Long(s)
      BY <1>2, <1>3, <2>5, BatchAssumption DEF Short, Long
    <3>2. CASE i < next
      BY <1>1, <1>5, <1>8, <2>5, <3>2 DEF BatchInv
    <3>3. CASE ~(i < next)
      <4>1. i \in next .. next + Len(s) - 1
        BY <1>2, <1>3, <2>0, <2>5, <3>3
      <4> QED  BY <1>5, <1>6, <1>8, <1>15, <3>1, <4>1
    <3> QED  BY <3>2, <3>3
  <2>6. known' = known
    BY <1>1
  <2> QED  BY <1>7, <1>10, <1>11, <2>0, <2>1, <2>2, <2>3, <2>4, <2>5, <2>6
           DEF BatchInv, ThrownIsAPrefix
\* The first document that fails, and those before it, which are in.
<1>16. ASSUME ~Long(s), Inserted(s) # DocsOf(s)
       PROVE  /\ first \in 1 .. Len(s) /\ Fails(s[first])
              /\ \A k \in 1 .. Len(s) : s[k] \in Inserted(s) <=> k < first
  <2>1. Inserted(s) = BeforeFailure(s)
    BY <1>16 DEF Inserted
  <2> DEFINE bad == {k \in 1 .. Len(s) : Fails(s[k])}
  <2>2. bad # {}
    <3> SUFFICES ASSUME bad = {} PROVE FALSE
      OBVIOUS
    <3>1. \A k \in 1 .. Len(s) : ~Fails(s[k])
      OBVIOUS
    <3>2. \A k \in 1 .. Len(s) : \A m \in 1 .. k : m \in 1 .. Len(s)
      BY <1>3
    <3>3. DocsOf(s) \subseteq BeforeFailure(s)
      BY <3>1, <3>2 DEF DocsOf, BeforeFailure
    <3> QED  BY <1>4, <1>16, <2>1, <3>3
  <2>3. bad \in SUBSET Nat
    BY <1>3
  <2>4. PICK f \in bad : \A k \in bad : f <= k
    BY <2>2, <2>3, LeastOf
  <2>5. f \in 1 .. Len(s) /\ Fails(s[f]) /\ \A m \in 1 .. f - 1 : ~Fails(s[m])
    <3>1. f \in 1 .. Len(s) /\ Fails(s[f]) /\ f \in Nat /\ Len(s) \in Nat
      BY <1>2, <1>3
    <3>2. ASSUME NEW m \in 1 .. f - 1 PROVE ~Fails(s[m])
      <4>1. m \in 1 .. Len(s) /\ ~(f <= m)
        BY <3>1
      <4> QED  BY <2>4, <4>1
    <3> QED  BY <3>1, <3>2
  <2>6. first \in 1 .. Len(s) /\ Fails(s[first]) /\ \A m \in 1 .. first - 1 : ~Fails(s[m])
    BY <2>5 DEF first
  <2>7. ASSUME NEW k \in 1 .. Len(s), k < first PROVE s[k] \in Inserted(s)
    <3>1. \A m \in 1 .. k : m \in 1 .. first - 1
      BY <1>3, <2>6, <2>7
    <3> QED  BY <2>1, <2>6, <3>1 DEF BeforeFailure
  <2>8. ASSUME NEW k \in 1 .. Len(s), s[k] \in Inserted(s) PROVE k < first
    <3>1. PICK h \in 1 .. Len(s) : s[h] = s[k] /\ \A m \in 1 .. h : ~Fails(s[m])
      BY <2>1, <2>8 DEF BeforeFailure
    <3>2. h = k
      <4>1. /\ next \in Nat /\ Len(s) \in Nat /\ Len(Listed) \in Nat
            /\ next >= 1 /\ next + Len(s) <= Len(Listed) + 1
        <5>1. next \in Nat /\ next >= 1 /\ Len(Listed) \in Nat
          BY <1>2, ListedIs
        <5>2. Len(s) \in Nat /\ next + Len(s) <= Len(Listed) + 1
          BY <1>2, <1>3
        <5> QED  BY <5>1, <5>2
      <4>2. next + h - 1 \in 1 .. Len(Listed) /\ next + k - 1 \in 1 .. Len(Listed)
        BY <4>1
      <4>3. s[h] = Listed[next + h - 1] /\ s[k] = Listed[next + k - 1]
        BY <1>3
      <4>4. next + h - 1 = next + k - 1
        BY <3>1, <4>2, <4>3, BatchAssumption
      <4> QED  BY <4>1, <4>4
    <3>3. ~(first \in 1 .. k)
      BY <2>6, <3>1, <3>2
    <3> QED  BY <1>3, <2>6, <3>3
  <2> QED  BY <2>6, <2>7, <2>8
<1>17. CASE ~Long(s) /\ Inserted(s) # DocsOf(s) /\ Duplicate(s[first])
  <2>0. next' = next /\ upserts' = s /\ told' = "pushing"
    BY <1>1, <1>17
  <2>1. BatchTypeOK'
    BY <1>1, <1>2, <1>3, <1>13, <2>0 DEF BatchInv, BatchTypeOK
  <2>2. WrittenOneByOne(next)
    <3>1. refuses /\ rows[s[first]] # "none"
      BY <1>17 DEF Duplicate
    <3>2. s[first] \in DocsOf(s)
      BY <1>16, <1>17 DEF DocsOf
    <3> QED  BY <1>0, <1>9, <1>17, <3>1, <3>2 DEF WrittenOneByOne
  <2>3. Written' = next
    <3>1. upserts' # <<>>
      BY <1>3, <2>0
    <3>2. Written' = next' + (Len(NextSlice(next)') - Len(upserts'))
      BY <1>7, <2>0, <3>1 DEF Written
    <3>3. NextSlice(next)' = s
      BY <1>0, <1>7, <2>0
    <3> QED  BY <1>2, <1>3, <2>0, <3>2, <3>3
  <2>4. NextSlice(next)' = s /\ WrittenOneByOne(next)'
    BY <1>0, <1>7, <2>0, <2>2
  <2>5. \A i \in 1 .. Len(upserts') : upserts'[i] = NextSlice(next)'[Len(NextSlice(next)') - Len(upserts') + i]
    BY <1>3, <2>0, <2>4
  <2>6. \A i \in 1 .. Len(Listed) :
          rows'[Listed[i]] # "none" => Listed[i] \in known' \/ i < next' \/ (upserts' # <<>> /\ i < next' + slice')
    BY <1>1, <1>2, <1>3, <1>6, <1>14, <2>0
  <2>7. known # {} /\ known' = known
    BY <1>1, <2>2 DEF WrittenOneByOne
  <2>8. next' <= Len(Listed) => \E q \in 0 .. Len(Listed) : next' = slice' * q + 1
    BY <1>1, <2>0 DEF BatchInv
  <2>9. Len(upserts') <= Len(NextSlice(next)')
    BY <1>3, <2>0, <2>4
  <2> QED  BY <1>1, <1>10, <1>11, <1>12, <2>0, <2>1, <2>3, <2>4, <2>5, <2>6, <2>7, <2>8, <2>9
           DEF BatchInv, ThrownIsAPrefix
<1>18. CASE ~Long(s) /\ Inserted(s) # DocsOf(s) /\ ~Duplicate(s[first])
  <2>0. next' = next /\ upserts' = <<>> /\ told' = "thrown"
    BY <1>1, <1>18
  <2>1. BatchTypeOK'
    BY <1>1, <1>2, <1>13, <2>0 DEF BatchInv, BatchTypeOK
  <2>2. Written' = next
    BY <2>0 DEF Written
  <2>3. ThrownIsAPrefix'
    <3> SUFFICES ASSUME Short, known = {}
                 PROVE  \E n \in 0 .. Len(Listed) : \A i \in 1 .. Len(Listed) :
                          rows'[Listed[i]] # "none" <=> i <= n
      BY <1>1, <1>7 DEF ThrownIsAPrefix
    <3>1. first \in 1 .. Len(s) /\ \A k \in 1 .. Len(s) : s[k] \in Inserted(s) <=> k < first
      BY <1>16, <1>18
    <3>2. next + first - 2 \in 0 .. Len(Listed)
      BY <1>2, <1>3, <3>1
    <3>3. ASSUME NEW i \in 1 .. Len(Listed)
          PROVE  rows'[Listed[i]] # "none" <=> i <= next + first - 2
      <4>1. CASE i < next
        <5>1. rows[Listed[i]] # "none"
          BY <1>1, <4>1 DEF BatchInv
        <5>2. i <= next + first - 2
          BY <1>2, <1>3, <3>1, <4>1
        <5> QED  BY <1>5, <1>8, <5>1, <5>2
      <4>2. CASE i \in next .. next + Len(s) - 1
        <5>1. i - next + 1 \in 1 .. Len(s) /\ s[i - next + 1] = Listed[i]
          BY <1>2, <1>3, <4>2
        <5>2. Listed[i] \in Inserted(s) <=> i - next + 1 < first
          BY <3>1, <5>1
        <5>3. rows[Listed[i]] = "none"
          BY <1>6, <1>9, <4>2
        <5>4. rows'[Listed[i]] # "none" <=> Listed[i] \in Inserted(s)
          BY <1>5, <1>8, <5>3
        <5>5. i - next + 1 < first <=> i <= next + first - 2
          BY <1>2, <1>3, <3>1
        <5> QED  BY <5>2, <5>4, <5>5
      <4>3. CASE ~(i < next) /\ i \notin next .. next + Len(s) - 1
        <5>1. Listed[i] \notin DocsOf(s)
          BY <1>6, <4>3
        <5>2. rows'[Listed[i]] = "none"
          BY <1>14, <4>3, <5>1
        <5>3. ~(i <= next + first - 2)
          BY <1>2, <1>3, <3>1, <4>3
        <5> QED  BY <5>2, <5>3
      <4> QED  BY <4>1, <4>2, <4>3
    <3> QED  BY <3>2, <3>3
  <2>4. next' <= Len(Listed) => \E q \in 0 .. Len(Listed) : next' = slice' * q + 1
    BY <1>1, <2>0 DEF BatchInv
  <2> QED  BY <1>10, <1>11, <1>12, <2>0, <2>1, <2>2, <2>3, <2>4 DEF BatchInv
<1> QED  BY <1>15, <1>17, <1>18

LEMMA UpsertKeeps ==
  ASSUME BatchInv, Upsert
  PROVE  BatchInv'
<1>0. PICK s : s = NextSlice(next)
  OBVIOUS
<1> DEFINE j == Head(upserts)
           at == Len(s) - Len(upserts) + 1
<1>1. /\ upserts # <<>> /\ upserts' = Tail(upserts)
      /\ rows' = [rows EXCEPT ![j] = IF @ = "none" /\ j \in unfit THEN @ ELSE "pending"]
      /\ next' = IF Len(upserts) = 1 THEN next + slice ELSE next
      /\ UNCHANGED <<slice, refuses, known, unfit, told, starts>>
  BY DEF Upsert
<1>2. /\ slice \in SliceSizes /\ slice \in Nat \ {0} /\ Len(Listed) \in Nat
      /\ next \in 1 .. Len(Listed) /\ told = "pushing"
      /\ rows \in [DocsOf(Listed) -> {"none", "pending", "active", "over"}]
      /\ upserts \in Seq(DocsOf(Listed)) /\ WrittenOneByOne(next)
      /\ Len(upserts) \in 1 .. Len(s)
      /\ \A i \in 1 .. Len(upserts) : upserts[i] = s[Len(s) - Len(upserts) + i]
  <2>1. /\ slice \in SliceSizes /\ slice \in Nat \ {0} /\ Len(Listed) \in Nat
        /\ next \in 1 .. Len(Listed) /\ told = "pushing"
        /\ rows \in [DocsOf(Listed) -> {"none", "pending", "active", "over"}]
        /\ upserts \in Seq(DocsOf(Listed)) /\ WrittenOneByOne(next)
    BY <1>1, BatchAssumption, ListedIs DEF BatchInv, BatchTypeOK
  <2>2. Len(upserts) \in Nat /\ Len(upserts) # 0
    BY <1>1, <2>1
  <2>3. Len(upserts) <= Len(s) /\ \A i \in 1 .. Len(upserts) : upserts[i] = s[Len(s) - Len(upserts) + i]
    BY <1>0, <1>1 DEF BatchInv
  <2>4. Len(s) \in Nat
    BY <1>0, <2>1, SliceIs
  <2> QED  BY <2>1, <2>2, <2>3, <2>4
<1>3. /\ s \in Seq(DocsOf(Listed))
      /\ Len(s) \in 1 .. slice /\ next + Len(s) <= Len(Listed) + 1
      /\ Len(s) = slice \/ next + Len(s) = Len(Listed) + 1
      /\ \A k \in 1 .. Len(s) : s[k] = Listed[next + k - 1]
      /\ \A i \in 1 .. Len(Listed) : i >= next /\ i < next + Len(s) => s[i - next + 1] = Listed[i]
      /\ DocsOf(s) \subseteq DocsOf(Listed)
  <2>1. slice \in SliceSizes /\ next \in 1 .. Len(Listed)
    BY <1>2
  <2> QED  BY <1>0, <2>1, SliceIs, ZenonT(60)
<1>4. at \in 1 .. Len(s) /\ j = s[at] /\ j = Listed[next + at - 1] /\ next + at - 1 \in 1 .. Len(Listed)
      /\ j \in DocsOf(s) /\ j \in DocsOf(Listed)
  <2>1. at \in 1 .. Len(s) /\ j = s[at]
    <3>1. 1 \in 1 .. Len(upserts) /\ j = upserts[1] /\ Len(s) \in Nat
      BY <1>2, <1>3
    <3> QED  BY <1>2, <3>1
  <2>2. next + at - 1 \in 1 .. Len(Listed)
    BY <1>2, <1>3, <2>1
  <2>3. s[at] = Listed[next + at - 1] /\ s[at] \in DocsOf(s)
    BY <1>3, <2>1 DEF DocsOf
  <2> QED  BY <1>3, <2>1, <2>2, <2>3
<1> HIDE DEF j
<1>5. /\ upserts' \in Seq(DocsOf(Listed)) /\ Len(upserts') = Len(upserts) - 1
      /\ \A i \in 1 .. Len(upserts') : upserts'[i] = upserts[i + 1]
  BY <1>1, <1>2
<1>6. /\ \A n : NextSlice(n)' = NextSlice(n) /\ WrittenOneByOne(n)' = WrittenOneByOne(n)
      /\ \A k : MayMiss(k)' = MayMiss(k) /\ MayRepeat(k)' = MayRepeat(k)
      /\ Short' = Short
  BY <1>1, SlicesStay
<1>7. \A k \in DocsOf(Listed) :
        rows'[k] = IF k = j THEN IF rows[k] = "none" /\ k \in unfit THEN "none" ELSE "pending"
                   ELSE rows[k]
  BY <1>1, <1>2
<1>8. \A i \in 1 .. Len(Listed) : Listed[i] \in DocsOf(Listed)
  BY ListedIs
<1>9. rows' \in [DocsOf(Listed) -> {"none", "pending", "active", "over"}]
  BY <1>1, <1>2
<1>10. next \in SlicesWith(j)
  BY <1>0, <1>2, <1>4, HoldsIts
<1>11. Written = next + at - 1
  <2>1. Written = next + (Len(s) - Len(upserts))
    BY <1>0, <1>1 DEF Written
  <2> QED  BY <1>2, <1>3, <2>1
<1>12. MayRepeat(j)
  BY <1>2, <1>10 DEF MayRepeat, WrittenOneByOne
<1>13. \A k \in DocsOf(Listed) : rows'[k] = "none" => starts'[k] = 0
  BY <1>1, <1>7 DEF BatchInv
<1>14. \A k \in DocsOf(Listed) :
         starts'[k] > 1 \/ (starts'[k] # 0 /\ rows'[k] = "pending") => MayRepeat(k)'
  BY <1>1, <1>6, <1>7, <1>12 DEF BatchInv
\* What is written now has the document too.
<1>15. ASSUME NEW i \in 1 .. Len(Listed), i < next + at, rows'[Listed[i]] = "none"
       PROVE  MayMiss(Listed[i])
  <2>1. CASE i < next + at - 1
    <3>1. rows[Listed[i]] = "none"
      BY <1>7, <1>8, <1>15
    <3> QED  BY <1>11, <2>1, <3>1 DEF BatchInv
  <2>2. CASE ~(i < next + at - 1)
    <3>1. i = next + at - 1
      <4>1. Len(s) \in Nat /\ next \in Nat
        BY <1>2
      <4>2. at \in Nat /\ i \in Nat
        BY <1>4, <4>1
      <4>3. i < next + at
        BY <1>15
      <4> HIDE DEF at
      <4> QED  BY <2>2, <4>1, <4>2, <4>3
    <3>2. Listed[i] = j /\ j \in unfit
      BY <1>4, <1>7, <1>15, <3>1
    <3> QED  BY <1>2, <1>10, <3>2 DEF MayMiss
  <2> QED  BY <2>1, <2>2
<1>16. known # {} /\ known' = known /\ told' = "pushing"
  BY <1>1, <1>2 DEF WrittenOneByOne
<1>17. \A i \in 1 .. Len(Listed) :
         rows'[Listed[i]] # "none" => Listed[i] \in known \/ i < next + slice
  <2> SUFFICES ASSUME NEW i \in 1 .. Len(Listed), rows'[Listed[i]] # "none"
               PROVE  Listed[i] \in known \/ i < next + slice
    OBVIOUS
  <2>1. CASE Listed[i] = j
    <3>1. i = next + at - 1
      BY <1>4, <2>1, BatchAssumption
    <3> QED  BY <1>2, <1>3, <1>4, <3>1
  <2>2. CASE Listed[i] # j
    <3>1. rows[Listed[i]] # "none"
      BY <1>7, <1>8, <2>2
    <3>2. Listed[i] \in known \/ i < next \/ i < next + slice
      BY <1>2, <3>1 DEF BatchInv
    <3> QED  BY <1>2, <3>2
  <2> QED  BY <2>1, <2>2
<1>18. CASE Len(upserts) = 1
  <2>0. next' = next + slice /\ upserts' = <<>> /\ at = Len(s)
    <3>1. next' = next + slice
      BY <1>1, <1>18
    <3>2. upserts' = <<>>
      BY <1>5, <1>18
    <3>3. at = Len(s)
      BY <1>3, <1>18
    <3> QED  BY <3>1, <3>2, <3>3
  <2>1. BatchTypeOK'
    BY <1>1, <1>2, <1>9, <2>0 DEF BatchInv, BatchTypeOK
  <2>2. next' <= Len(Listed) => \E q \in 0 .. Len(Listed) : next' = slice' * q + 1
    BY <1>1, <1>2, <2>0, NextBegins DEF BatchInv
  <2>3. \A i \in 1 .. Len(Listed) :
          i < Written' /\ rows'[Listed[i]] = "none" => MayMiss(Listed[i])'
    <3>1. Written' = next + slice
      BY <2>0 DEF Written
    <3>2. \A i \in 1 .. Len(Listed) : i < next + slice => i < next + at
      BY <1>2, <1>3, <2>0
    <3> QED  BY <1>6, <1>15, <3>1, <3>2
  <2> QED  BY <1>6, <1>13, <1>14, <1>16, <1>17, <2>0, <2>1, <2>2, <2>3
           DEF BatchInv, ThrownIsAPrefix
<1>19. CASE Len(upserts) # 1
  <2>0. next' = next /\ upserts' # <<>>
    <3>1. next' = next
      BY <1>1, <1>19
    <3>2. Len(upserts') # 0
      BY <1>2, <1>5, <1>19
    <3>3. upserts' # <<>>
      BY <1>5, <3>2
    <3> QED  BY <3>1, <3>3
  <2>1. BatchTypeOK'
    BY <1>1, <1>2, <1>5, <1>9, <2>0 DEF BatchInv, BatchTypeOK
  <2>2. next' <= Len(Listed) => \E q \in 0 .. Len(Listed) : next' = slice' * q + 1
    BY <1>1, <2>0 DEF BatchInv
  <2>3. NextSlice(next)' = s /\ WrittenOneByOne(next)'
    BY <1>0, <1>2, <1>6, <2>0
  <2>4. Written' = next + at
    <3>1. Written' = next' + (Len(NextSlice(next)') - Len(upserts'))
      BY <1>6, <2>0 DEF Written
    <3> QED  BY <1>2, <1>3, <1>5, <2>0, <2>3, <3>1
  <2>5. Len(upserts') <= Len(NextSlice(next)')
        /\ \A i \in 1 .. Len(upserts') : upserts'[i] = NextSlice(next)'[Len(NextSlice(next)') - Len(upserts') + i]
    <3>1. ASSUME NEW i \in 1 .. Len(upserts') PROVE upserts'[i] = s[Len(s) - Len(upserts') + i]
      <4>1. i + 1 \in 1 .. Len(upserts) /\ Len(s) - Len(upserts) + (i + 1) = Len(s) - Len(upserts') + i
        BY <1>2, <1>3, <1>5
      <4>2. upserts[i + 1] = s[Len(s) - Len(upserts) + (i + 1)]
        BY <1>2, <4>1
      <4> QED  BY <1>5, <4>1, <4>2
    <3>2. Len(upserts') <= Len(s)
      BY <1>2, <1>3, <1>5
    <3> QED  BY <2>3, <3>1, <3>2
  <2>6. \A i \in 1 .. Len(Listed) :
          i < Written' /\ rows'[Listed[i]] = "none" => MayMiss(Listed[i])'
    BY <1>6, <1>15, <2>4
  <2> QED  BY <1>1, <1>2, <1>6, <1>13, <1>14, <1>16, <1>17, <2>0, <2>1, <2>2, <2>3, <2>5, <2>6
           DEF BatchInv, ThrownIsAPrefix
<1> QED  BY <1>18, <1>19

LEMMA LoopsKeep ==
  ASSUME BatchInv, NEW j \in DocsOf(Listed), BatchReturns \/ TakeRow(j) \/ EndRow(j)
  PROVE  BatchInv'
<1>0. UNCHANGED <<slice, refuses, known, unfit, next, upserts>>
  BY DEF BatchReturns, TakeRow, EndRow
<1>1. /\ \A n : NextSlice(n)' = NextSlice(n) /\ WrittenOneByOne(n)' = WrittenOneByOne(n)
      /\ \A k : MayMiss(k)' = MayMiss(k) /\ MayRepeat(k)' = MayRepeat(k)
      /\ Short' = Short
  BY <1>0, SlicesStay
<1>2. Written' = Written /\ NextSlice(next)' = NextSlice(next) /\ WrittenOneByOne(next)' = WrittenOneByOne(next)
  BY <1>0, <1>1 DEF Written
<1>3. \A i \in 1 .. Len(Listed) : Listed[i] \in DocsOf(Listed)
  BY ListedIs
<1>4. /\ rows \in [DocsOf(Listed) -> {"none", "pending", "active", "over"}]
      /\ starts \in [DocsOf(Listed) -> Nat] /\ DOMAIN rows = DocsOf(Listed)
      /\ Len(Listed) \in Nat
  BY ListedIs DEF BatchInv, BatchTypeOK
<1>5. CASE BatchReturns
  <2>1. /\ told = "pushing" /\ next > Len(Listed) /\ told' = "returned"
        /\ UNCHANGED <<rows, starts>>
    BY <1>5 DEF BatchReturns
  <2>2. upserts = <<>>
    <3>1. next \in Nat
      BY <1>4, BatchAssumption DEF BatchInv, BatchTypeOK
    <3> QED  BY <1>4, <2>1, <3>1 DEF BatchInv
  <2>3. BatchTypeOK'
    BY <1>0, <2>1 DEF BatchInv, BatchTypeOK
  <2> QED  BY <1>0, <1>1, <1>2, <2>1, <2>2, <2>3 DEF BatchInv, ThrownIsAPrefix
<1>6. CASE TakeRow(j) \/ EndRow(j)
  <2>1. /\ told' = told
        /\ rows' \in [DocsOf(Listed) -> {"none", "pending", "active", "over"}]
        /\ starts' \in [DocsOf(Listed) -> Nat]
        /\ \A k \in DocsOf(Listed) : rows'[k] = "none" <=> rows[k] = "none"
    BY <1>4, <1>6 DEF TakeRow, EndRow
  <2>2. BatchTypeOK'
    BY <1>0, <2>1 DEF BatchInv, BatchTypeOK
  <2>3. \A k \in DocsOf(Listed) : rows'[k] = "none" => starts'[k] = 0
    BY <1>4, <1>6 DEF TakeRow, EndRow, BatchInv
  <2>4. \A k \in DocsOf(Listed) :
         starts'[k] > 1 \/ (starts'[k] # 0 /\ rows'[k] = "pending") => MayRepeat(k)
    BY <1>4, <1>6 DEF TakeRow, EndRow, BatchInv
  <2>5. \A i \in 1 .. Len(Listed) : rows'[Listed[i]] = "none" <=> rows[Listed[i]] = "none"
    BY <1>3, <2>1
  <2>6. ThrownIsAPrefix'
    <3>1. ThrownIsAPrefix
      BY DEF BatchInv
    <3> QED  BY <1>0, <1>1, <2>1, <2>5, <3>1 DEF ThrownIsAPrefix
  <2>7. /\ \A i \in 1 .. Len(Listed) :
             i < Written' /\ rows'[Listed[i]] = "none" => MayMiss(Listed[i])'
        /\ \A i \in 1 .. Len(Listed) :
             told' # "thrown" /\ rows'[Listed[i]] # "none" =>
               Listed[i] \in known' \/ i < next' \/ (upserts' # <<>> /\ i < next' + slice')
        /\ told' = "pushing" /\ Short' /\ known' = {} =>
             \A i \in 1 .. Len(Listed) : i < next' => rows'[Listed[i]] # "none"
    BY <1>0, <1>1, <1>2, <2>1, <2>5 DEF BatchInv
  <2>8. /\ told' # "pushing" => upserts' = <<>>
        /\ told' = "returned" => next' > Len(Listed)
        /\ next' <= Len(Listed) => \E q \in 0 .. Len(Listed) : next' = slice' * q + 1
        /\ upserts' # <<>> =>
             /\ next' <= Len(Listed) /\ WrittenOneByOne(next)'
             /\ Len(upserts') <= Len(NextSlice(next)')
             /\ \A i \in 1 .. Len(upserts') :
                  upserts'[i] = NextSlice(next)'[Len(NextSlice(next)') - Len(upserts') + i]
    BY <1>0, <1>2, <2>1 DEF BatchInv
  <2> QED  BY <1>1, <2>2, <2>3, <2>4, <2>6, <2>7, <2>8 DEF BatchInv
<1> QED  BY <1>5, <1>6

LEMMA BatchReturnsKeeps ==
  ASSUME BatchInv, BatchReturns
  PROVE  BatchInv'
<1>1. CASE DocsOf(Listed) # {}
  BY <1>1, LoopsKeep
<1>2. CASE DocsOf(Listed) = {}
  <2>1. /\ Len(Listed) \in Nat /\ \A i \in 1 .. Len(Listed) : FALSE
    BY <1>2, ListedIs
  <2>2. /\ told = "pushing" /\ next > Len(Listed) /\ told' = "returned"
        /\ UNCHANGED <<rows, starts, slice, refuses, known, unfit, next, upserts>>
    BY DEF BatchReturns
  <2>3. upserts = <<>>
    BY <1>2, <2>1, <2>2, BatchAssumption DEF BatchInv, BatchTypeOK
  <2>4. BatchTypeOK' /\ ~(next <= Len(Listed))
    BY <2>1, <2>2, BatchAssumption DEF BatchInv, BatchTypeOK
  <2> QED  BY <1>2, <2>1, <2>2, <2>3, <2>4 DEF BatchInv, ThrownIsAPrefix
<1> QED  BY <1>1, <1>2

\* A batch whose call returned is stored but for what a passed-over chunk or a refused
\* document leaves out, one whose call threw is stored up to the document that failed,
\* and a job is taken again only as the upserts allow: BatchesSound of every behaviour,
\* for any batch and sizes of slices and chunks.
THEOREM BatchesHold == BatchSpec => []BatchesSound
<1>1. BatchInv => BatchesSound
  <2> SUFFICES ASSUME BatchInv PROVE BatchesSound
    OBVIOUS
  <2>1. /\ BatchTypeOK /\ ThrownIsAPrefix /\ DOMAIN rows = DocsOf(Listed)
        /\ \A j \in DocsOf(Listed) : starts[j] > 1 => MayRepeat(j)
    BY DEF BatchInv, BatchTypeOK
  <2>2. ASSUME told = "returned", NEW j \in DocsOf(Listed), rows[j] = "none" PROVE MayMiss(j)
    <3>1. PICK i \in 1 .. Len(Listed) : Listed[i] = j
      BY ListedIs
    <3>2. upserts = <<>> /\ next > Len(Listed) /\ next \in Nat /\ Len(Listed) \in Nat
      BY <2>2, ListedIs, BatchAssumption DEF BatchInv, BatchTypeOK
    <3>3. i < Written
      BY <3>2 DEF Written
    <3> QED  BY <2>2, <3>1, <3>3 DEF BatchInv
  <2> QED  BY <2>1, <2>2 DEF BatchesSound, ReturnedAreStored, TakenAgainOnlyByUpsert, MayMiss, MayRepeat
<1>2. BatchInv /\ [BatchNext]_batchVars => BatchInv'
  <2> SUFFICES ASSUME BatchInv, [BatchNext]_batchVars PROVE BatchInv'
    OBVIOUS
  <2>1. CASE PushMany
    BY <2>1, PushManyKeeps
  <2>2. CASE Upsert
    BY <2>2, UpsertKeeps
  <2>3. CASE BatchReturns
    BY <2>3, BatchReturnsKeeps
  <2>4. CASE \E j \in DocsOf(Listed) : TakeRow(j) \/ EndRow(j)
    BY <2>4, LoopsKeep
  <2>5. CASE UNCHANGED batchVars
    <3>1. UNCHANGED <<slice, refuses, known, unfit, rows, next, upserts, told, starts>>
      BY <2>5 DEF batchVars
    <3>2. /\ \A n : NextSlice(n)' = NextSlice(n) /\ WrittenOneByOne(n)' = WrittenOneByOne(n)
          /\ \A k : MayMiss(k)' = MayMiss(k) /\ MayRepeat(k)' = MayRepeat(k)
          /\ Short' = Short
      BY <3>1, SlicesStay
    <3>3. Written' = Written /\ NextSlice(next)' = NextSlice(next)
          /\ WrittenOneByOne(next)' = WrittenOneByOne(next)
      BY <3>1, <3>2 DEF Written
    <3>4. BatchTypeOK' /\ ThrownIsAPrefix'
      BY <3>1, <3>2 DEF BatchInv, BatchTypeOK, ThrownIsAPrefix
    <3> QED  BY <3>1, <3>2, <3>3, <3>4 DEF BatchInv
  <2> QED  BY <2>1, <2>2, <2>3, <2>4, <2>5 DEF BatchNext
<1> QED  BY <1>1, <1>2, BatchInitKeeps, PTL DEF BatchSpec
=============================================================================
