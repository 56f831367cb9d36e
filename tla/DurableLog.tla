----------------------------- MODULE DurableLog -----------------------------
(***************************************************************************)
(* What a write-ahead log promises its callers: transactions run, are      *)
(* acknowledged, and what a crash leaves contains every acknowledged       *)
(* transaction and nothing that was not submitted for commit.              *)
(***************************************************************************)
CONSTANT TxIds

VARIABLES
  submitted,  \* transactions whose commit was handed to the log
  acked,      \* transactions whose commit was acknowledged
  recovered,  \* transactions found in the log after the crash
  up          \* the log is open

vars == <<submitted, acked, recovered, up>>

Init == submitted = {} /\ acked = {} /\ recovered = {} /\ up = TRUE

Submit(t) ==
  /\ up /\ t \notin submitted
  /\ submitted' = submitted \cup {t}
  /\ UNCHANGED <<acked, recovered, up>>

\* Transactions are acknowledged, several of them when they share a flush.
Acknowledge(ts) ==
  /\ up /\ ts \subseteq submitted \ acked
  /\ acked' = acked \cup ts
  /\ UNCHANGED <<submitted, recovered, up>>

Crash ==
  /\ up
  /\ up' = FALSE
  /\ \E found \in SUBSET submitted : acked \subseteq found /\ recovered' = found
  /\ UNCHANGED <<submitted, acked>>

Next ==
  \/ \E t \in TxIds : Submit(t)
  \/ \E ts \in SUBSET TxIds : Acknowledge(ts)
  \/ Crash

Spec == Init /\ [][Next]_vars
=============================================================================
