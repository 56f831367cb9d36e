---------------------------- MODULE HybridClock -----------------------------
(***************************************************************************)
(* HlcClock (crates/ovn-core/src/mvcc/hlc.rs): threads that take timestamps*)
(* from one atomic word, merge remote ones into it and move it forward, each *)
(* in a loop of a load and a compare-and-exchange, while the wall clock goes *)
(* anywhere.  The word packs a physical and a logical part, so its order is*)
(* that of the pair.                                                       *)
(***************************************************************************)
EXTENDS Integers, Sequences

CONSTANTS
  Threads,
  Width,       \* a logical part is below Width, 2^16 in the code
  MaxDrift,    \* a remote timestamp further ahead of the wall clock is ignored
  Remotes,     \* timestamps that are received or advanced to
  MaxWall,     \* bound: the wall clock
  MaxIssued    \* bound: timestamps

Stamps == [physical : Nat, logical : 0 .. Width - 1]
Issues == [stamp : Stamps, over : Stamps]

ASSUME ClockAssumption ==
  /\ Width \in Nat \ {0} /\ MaxDrift \in Nat
  /\ Remotes \subseteq Stamps
  /\ MaxWall \in Nat /\ MaxIssued \in Nat

VARIABLES
  wall,      \* wall_clock_ms()
  word,      \* state
  atWork,     \* what each thread is in the middle of
  issued,    \* history: what now and recv returned, and what it has to exceed
  order      \* history: lost once a logical part came round in recv, or a restart went back

clockVars == <<wall, word, atWork, issued, order>>

Less(s, t) == s.physical < t.physical \/ (s.physical = t.physical /\ s.logical < t.logical)
Later(m, n) == IF m > n THEN m ELSE n

ZeroStamp == [physical |-> 0, logical |-> 0]
AtRest == [at |-> "idle", kind |-> "now", wall |-> 0, with |-> ZeroStamp, old |-> ZeroStamp]

ClockCalls == [at : {"idle", "load", "swap"}, kind : {"now", "recv", "advance"},
          wall : Nat, with : Stamps, old : Stamps]

ClockTypeOK ==
  /\ wall \in Nat /\ word \in Stamps
  /\ atWork \in [Threads -> ClockCalls]
  /\ issued \in Seq(Issues)
  /\ order \in {"kept", "lost"}

ClockInit ==
  /\ wall \in 0 .. MaxWall
  /\ word = [physical |-> wall, logical |-> 0]
  /\ atWork = [t \in Threads |-> AtRest] /\ issued = <<>> /\ order = "kept"

\* Mutant: the logical part comes round without a new millisecond.
AfterNowStays(c) ==
  IF c.wall > c.old.physical THEN [physical |-> c.wall, logical |-> 0]
  ELSE [physical |-> c.old.physical, logical |-> (c.old.logical + 1) % Width]

\* What now makes of the word it loaded; an overflow of the logical part moves
\* the physical part on.
AfterNow(c) ==
  IF c.wall > c.old.physical THEN [physical |-> c.wall, logical |-> 0]
  ELSE IF c.old.logical + 1 < Width THEN [c.old EXCEPT !.logical = @ + 1]
  ELSE [physical |-> c.old.physical + 1, logical |-> 0]

\* What recv makes of it: the logical part is added to as a u16, which comes round
\* in a release build.
Merged(c) ==
  LET p == Later(Later(c.old.physical, c.with.physical), c.wall) IN
  IF p = c.old.physical /\ p = c.with.physical THEN Later(c.old.logical, c.with.logical) + 1
  ELSE IF p = c.old.physical THEN c.old.logical + 1
  ELSE IF p = c.with.physical THEN c.with.logical + 1
  ELSE 0

AfterRecv(c) ==
  [physical |-> Later(Later(c.old.physical, c.with.physical), c.wall),
   logical |-> IF Merged(c) < Width THEN Merged(c) ELSE 0]

(***************************************************************************)
(* The loops.  The wall clock is read before the loop and not again.       *)
(***************************************************************************)

Enters(t, kind, s) ==
  /\ atWork[t].at = "idle" /\ Len(issued) < MaxIssued
  /\ atWork' = [atWork EXCEPT ![t] = [at |-> "load", kind |-> kind, wall |-> wall,
                                    with |-> s, old |-> ZeroStamp]]
  /\ UNCHANGED <<wall, word, issued, order>>

LoadsWord(t) ==
  LET c == atWork[t] IN
  /\ c.at = "load"
  /\ atWork' = [atWork EXCEPT ![t] =
       IF c.kind = "recv" /\ c.with.physical > c.wall + MaxDrift
       THEN [c EXCEPT !.kind = "now", !.wall = wall]
       ELSE IF c.kind = "advance" /\ ~Less(word, c.with)
       THEN AtRest
       ELSE [c EXCEPT !.at = "swap", !.old = word]]
  /\ UNCHANGED <<wall, word, issued, order>>

Swaps(t) ==
  LET c == atWork[t] IN
  /\ c.at = "swap" /\ word = c.old
  /\ atWork' = [atWork EXCEPT ![t] = AtRest]
  /\ \/ /\ c.kind = "now"
        /\ word' = AfterNow(c)
        /\ issued' = Append(issued, [stamp |-> word', over |-> c.old])
        /\ UNCHANGED order
     \/ /\ c.kind = "recv"
        /\ word' = AfterRecv(c)
        /\ issued' = Append(issued, [stamp |-> word', over |-> c.with])
        /\ order' = IF Merged(c) < Width THEN order ELSE "lost"
     \/ /\ c.kind = "advance"
        /\ word' = c.with
        /\ UNCHANGED <<issued, order>>
  /\ UNCHANGED wall

SwapFails(t) ==
  /\ atWork[t].at = "swap" /\ word # atWork[t].old
  /\ atWork' = [atWork EXCEPT ![t].at = "load"]
  /\ UNCHANGED <<wall, word, issued, order>>

\* from_persisted, with the word current() gave when it was persisted.  It compares
\* physical parts only: in the millisecond of the persisted word it starts below it.
FromPersisted ==
  /\ atWork' = [t \in Threads |-> AtRest]
  /\ word' = IF word.physical > wall THEN word ELSE [physical |-> wall, logical |-> 0]
  /\ order' = IF Less(word', word) THEN "lost" ELSE order
  /\ UNCHANGED <<wall, issued>>

SetWall == wall' \in 0 .. MaxWall /\ UNCHANGED <<word, atWork, issued, order>>

ClockNext ==
  \/ \E t \in Threads : Enters(t, "now", ZeroStamp) \/ LoadsWord(t) \/ Swaps(t) \/ SwapFails(t)
  \/ \E t \in Threads, kind \in {"recv", "advance"}, s \in Remotes : Enters(t, kind, s)
  \/ FromPersisted \/ SetWall

ClockSpec == ClockInit /\ [][ClockNext]_clockVars

----------------------------------------------------------------------------
(* Properties.                                                             *)

\* However threads interleave, clocks go back and remote timestamps come in, every
\* timestamp is greater than all before it, and one that merges a remote timestamp
\* is greater than that; except once a logical part came round in recv or a
\* restart went back within a millisecond.
StampsIncrease ==
  order = "kept" =>
    /\ \A i, j \in 1 .. Len(issued) : i < j => Less(issued[i].stamp, issued[j].stamp)
    /\ \A i \in 1 .. Len(issued) : Less(issued[i].over, issued[i].stamp)
=============================================================================
