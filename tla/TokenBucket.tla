---------------------------- MODULE TokenBucket ----------------------------
(***************************************************************************)
(* The token buckets of a collection (packages/oblivinx3x/src/security/    *)
(* rate-limiter.ts).  Time is in milliseconds and tokens are in thousandths, *)
(* so that a millisecond refills rate of them and an operation costs 1000. *)
(* Reads and writes have buckets of their own: the module is about one.    *)
(***************************************************************************)
EXTENDS Integers

CONSTANTS
  Rates,        \* what configure may have been given, per second
  Moments,      \* bound: the times the clock shows
  MaxOps        \* bound: operations counted

ASSUME BucketAssumption == Rates \subseteq Nat \ {0} /\ Moments \subseteq Nat /\ MaxOps \in Nat

VARIABLES
  defaultRate,   \* for buckets to come
  exists,        \* the collection has its bucket
  rate, tokens, lastRefill,
  clock,
  watchedFrom,         \* history: some moment of the bucket's life
  allowed        \* history: operations allowed since then

bktVars == <<defaultRate, exists, rate, tokens, lastRefill, clock, watchedFrom, allowed>>

Cost == 1000

Least(x, y) == IF x <= y THEN x ELSE y

\* rate + ceil(rate * 0.5 * 0.1): the twentieth part more, rounded up.
Capacity(r) == (r + (r + 19) \div 20) * Cost

BktTypeOK ==
  /\ defaultRate \in Rates /\ rate \in Rates /\ exists \in BOOLEAN
  /\ lastRefill \in Nat /\ watchedFrom \in Nat /\ clock \in Nat
  /\ lastRefill <= clock /\ watchedFrom <= clock
  /\ tokens \in 0 .. Capacity(rate) /\ allowed \in Nat

BktInit ==
  /\ defaultRate \in Rates /\ rate = defaultRate
  /\ exists = FALSE /\ tokens = 0
  /\ clock = 0 /\ lastRefill = 0 /\ watchedFrom = 0 /\ allowed = 0

\* configure: only buckets that do not exist yet heed it.
Configure ==
  /\ \E r \in Rates : defaultRate' = r
  /\ UNCHANGED <<exists, rate, tokens, lastRefill, clock, watchedFrom, allowed>>

\* The first operation on the collection makes the bucket, full to the rate.
NewBucket ==
  /\ ~exists /\ exists' = TRUE
  /\ rate' = defaultRate /\ tokens' = defaultRate * Cost /\ lastRefill' = clock
  /\ watchedFrom' = clock /\ allowed' = 0
  /\ UNCHANGED <<defaultRate, clock>>

\* Mutant: the refill is not capped.
RefilledUncapped == tokens + rate * (clock - lastRefill)

Refilled == Least(Capacity(rate), tokens + rate * (clock - lastRefill))

\* tryConsume, for checkRead, checkWrite and assertAllowed.
Consume ==
  /\ exists
  /\ \/ /\ Refilled >= Cost
        /\ allowed < MaxOps
        /\ tokens' = Refilled - Cost /\ allowed' = allowed + 1
     \/ /\ Refilled < Cost
        /\ tokens' = Refilled /\ UNCHANGED allowed
  /\ lastRefill' = clock
  /\ UNCHANGED <<defaultRate, exists, rate, clock, watchedFrom>>

\* reset, resetAll.
ResetBucket ==
  /\ exists /\ exists' = FALSE
  /\ UNCHANGED <<defaultRate, rate, tokens, lastRefill, clock, watchedFrom, allowed>>

Pass ==
  /\ \E t \in Moments : t > clock /\ clock' = t
  /\ UNCHANGED <<defaultRate, exists, rate, tokens, lastRefill, watchedFrom, allowed>>

\* The count starts anew, at any moment.
Watch ==
  /\ exists /\ watchedFrom' = clock /\ allowed' = 0
  /\ UNCHANGED <<defaultRate, exists, rate, tokens, lastRefill, clock>>

BktNext ==
  \/ Configure
  \/ NewBucket
  \/ Consume
  \/ ResetBucket
  \/ Pass
  \/ Watch

BktSpec == BktInit /\ [][BktNext]_bktVars

\* From any moment of a bucket's life on, no more operations are allowed than a
\* full bucket and the refill of the time since then pay for: no burst and no
\* pause lets more through.
BurstIsBounded == allowed * Cost <= Capacity(rate) + rate * (clock - watchedFrom)
=============================================================================
