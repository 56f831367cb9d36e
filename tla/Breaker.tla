------------------------------ MODULE Breaker ------------------------------
(***************************************************************************)
(* CircuitBreaker (packages/queueovn/src/utils/circuitBreaker.ts): calls of*)
(* execute that overlap, and whose results come in any order.              *)
(***************************************************************************)
EXTENDS Integers, FiniteSets

CONSTANTS
  Callers,
  FailureThreshold, RecoveryTime,
  MaxMoment,       \* bound: the clock
  MaxFailures    \* bound: failures counted

ASSUME BreakerAssumption == FailureThreshold \in Nat \ {0} /\ RecoveryTime \in Nat

VARIABLES
  state,
  failureCount,
  lastOpenedAt,
  running,     \* callers whose fn is awaited
  time,
  streak       \* history: failures since the last success or reset

brVars == <<state, failureCount, lastOpenedAt, running, time, streak>>

BrTypeOK ==
  /\ state \in {"CLOSED", "OPEN", "HALF_OPEN"}
  /\ failureCount \in Nat /\ streak \in Nat /\ time \in Nat /\ lastOpenedAt \in 0 .. time
  /\ running \subseteq Callers

BrInit ==
  /\ state = "CLOSED" /\ failureCount = 0 /\ lastOpenedAt = 0
  /\ running = {} /\ time = 0 /\ streak = 0

Rested == time - lastOpenedAt >= RecoveryTime

\* execute: an open circuit fails fast until it has rested, and a call then goes
\* through half open; in the other states every call goes through.
Execute(c) ==
  /\ c \notin running
  /\ state = "OPEN" => Rested
  /\ state' = IF state = "OPEN" THEN "HALF_OPEN" ELSE state
  /\ running' = running \cup {c}
  /\ UNCHANGED <<failureCount, lastOpenedAt, time, streak>>

\* Mutant: the count outlives a success.
OnSuccessKeeps(c) ==
  /\ c \in running /\ running' = running \ {c}
  /\ state' = "CLOSED" /\ streak' = 0
  /\ UNCHANGED <<failureCount, lastOpenedAt, time>>

OnSuccess(c) ==
  /\ c \in running /\ running' = running \ {c}
  /\ failureCount' = 0 /\ state' = "CLOSED" /\ streak' = 0
  /\ UNCHANGED <<lastOpenedAt, time>>

OnFailure(c) ==
  /\ c \in running /\ failureCount < MaxFailures
  /\ running' = running \ {c}
  /\ failureCount' = failureCount + 1 /\ streak' = streak + 1
  /\ IF failureCount + 1 >= FailureThreshold
     THEN state' = "OPEN" /\ lastOpenedAt' = time
     ELSE UNCHANGED <<state, lastOpenedAt>>
  /\ UNCHANGED time

Reset ==
  /\ state' = "CLOSED" /\ failureCount' = 0 /\ lastOpenedAt' = 0 /\ streak' = 0
  /\ UNCHANGED <<running, time>>

BrClock ==
  /\ time < MaxMoment /\ time' = time + 1
  /\ UNCHANGED <<state, failureCount, lastOpenedAt, running, streak>>

BrNext ==
  \/ \E c \in Callers : Execute(c)
  \/ \E c \in Callers : OnSuccess(c)
  \/ \E c \in Callers : OnFailure(c)
  \/ Reset \/ BrClock

BrSpec == BrInit /\ [][BrNext]_brVars

\* However calls overlap and resets fall between them, the circuit is closed
\* exactly while fewer than the threshold have failed since the last success:
\* no late result leaves it open after a success or closed after the failures,
\* and a half-open circuit keeps its count, so that one more failure opens it.
ClosedBelowThreshold ==
  /\ failureCount = streak
  /\ state = "CLOSED" <=> streak < FailureThreshold
=============================================================================
