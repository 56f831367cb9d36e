-------------------------------- MODULE Ids ---------------------------------
(***************************************************************************)
(* The identifiers of packages/oblivinx3x/src/utils/id.ts: snowflakes of a *)
(* clock, a datacenter, a worker and a sequence number, the last timestamp *)
(* and the sequence kept in one variable of the module; and counters per   *)
(* collection.  An identifier is the tuple of what is packed into it.      *)
(***************************************************************************)
EXTENDS Integers, Sequences, FiniteSets

CONSTANTS
  Configs,        \* pairs of datacenter and worker that callers pass
  MaxSequence,    \* a sequence number is taken modulo MaxSequence + 1
  Collections,
  MaxMillis,      \* bound: the clock
  MaxBack,        \* bound: times the clock is set back
  MaxIds          \* bound: identifiers

ASSUME IdAssumption ==
  MaxSequence \in Nat /\ MaxMillis \in Nat /\ MaxBack \in Nat /\ MaxIds \in Nat

VARIABLES
  millis,       \* Date.now()
  backs,
  snowflake,    \* snowflakeState
  flakes,       \* snowflakes in the order they were returned
  counts,       \* incrementState
  numbers       \* history: numbers a collection was given since it was last reset

idVars == <<millis, backs, snowflake, flakes, counts, numbers>>

IdTypeOK ==
  /\ millis \in 0 .. MaxMillis /\ backs \in 0 .. MaxBack
  /\ snowflake \in [last : -1 .. MaxMillis, sequence : 0 .. MaxSequence]
  /\ flakes \in Seq((0 .. MaxMillis) \X Configs \X (0 .. MaxSequence))
  /\ counts \in [Collections -> Nat] /\ numbers \in [Collections -> Seq(Nat)]

IdInit ==
  /\ millis = 0 /\ backs = 0
  /\ snowflake = [last |-> -1, sequence |-> 0]
  /\ flakes = <<>>
  /\ counts = [c \in Collections |-> 0] /\ numbers = [c \in Collections |-> <<>>]

\* The sequence number of an identifier of a millisecond.
NextSequence(at) ==
  IF at = snowflake.last THEN (snowflake.sequence + 1) % (MaxSequence + 1) ELSE 0

\* When the sequence comes round, generateSnowflake waits for the next
\* millisecond; the identifier and the timestamp it keeps are still those of the
\* millisecond it was called in.
GenerateSnowflake(g) ==
  LET s == NextSequence(millis)
      round == millis = snowflake.last /\ s = 0
  IN
  /\ Len(flakes) < MaxIds
  /\ millis >= snowflake.last
  /\ snowflake' = [last |-> millis, sequence |-> s]
  /\ flakes' = Append(flakes, <<millis, g, s>>)
  /\ round => millis < MaxMillis
  /\ millis' = IF round THEN millis + 1 ELSE millis
  /\ UNCHANGED <<backs, counts, numbers>>

GenerateIncrement(c) ==
  /\ Len(numbers[c]) < MaxIds
  /\ counts' = [counts EXCEPT ![c] = @ + 1]
  /\ numbers' = [numbers EXCEPT ![c] = Append(@, counts'[c])]
  /\ UNCHANGED <<millis, backs, snowflake, flakes>>

\* resetIncrement and, for all collections, resetAllIncrements.
ResetIncrements(cs) ==
  /\ counts' = [c \in Collections |-> IF c \in cs THEN 0 ELSE counts[c]]
  /\ numbers' = [c \in Collections |-> IF c \in cs THEN <<>> ELSE numbers[c]]
  /\ UNCHANGED <<millis, backs, snowflake, flakes>>

\* The clock of the machine.
Advances == millis < MaxMillis /\ millis' = millis + 1 /\ UNCHANGED backs
SetBack == backs < MaxBack /\ backs' = backs + 1 /\ millis > 0 /\ millis' = millis - 1

IdNext ==
  \/ \E g \in Configs : GenerateSnowflake(g)
  \/ \E c \in Collections : GenerateIncrement(c)
  \/ \E cs \in {Collections} \cup {{c} : c \in Collections} : ResetIncrements(cs)
  \/ /\ Advances \/ SetBack
     /\ UNCHANGED <<snowflake, flakes, counts, numbers>>

IdSpec == IdInit /\ [][IdNext]_idVars

----------------------------------------------------------------------------
(* Properties.                                                             *)

\* The millisecond of the j-th snowflake has had more than it has sequence numbers.
Overdrawn(j) ==
  Cardinality({k \in 1 .. j : flakes[k][1] = flakes[j][1]}) > MaxSequence + 1

\* Two snowflakes are the same only if the later one was made in a millisecond that
\* had used up its sequence numbers, however callers with several configurations
\* take turns and whether or not the clock is set back.
FlakesRepeatOnlyOverdrawn ==
  \A i, j \in 1 .. Len(flakes) : i < j /\ flakes[i] = flakes[j] => Overdrawn(j)

\* Snowflakes come in the order of their timestamps and, within a millisecond that
\* has not used up its sequence numbers, of those.
FlakesInOrder ==
  \A i, j \in 1 .. Len(flakes) : i < j =>
    \/ flakes[i][1] < flakes[j][1]
    \/ flakes[i][1] = flakes[j][1] /\ (flakes[i][3] < flakes[j][3] \/ Overdrawn(j))

\* A collection is given 1, 2, 3 and so on since it was last reset, whatever is
\* given to and reset for the others.
NumbersWithoutGaps ==
  \A c \in Collections : \A k \in 1 .. Len(numbers[c]) : numbers[c][k] = k

IdsSound == IdTypeOK /\ FlakesRepeatOnlyOverdrawn /\ FlakesInOrder /\ NumbersWithoutGaps
=============================================================================
