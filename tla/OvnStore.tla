------------------------------ MODULE OvnStore ------------------------------
(***************************************************************************)
(* OvnDbAdapter (packages/queueovn/src/adapters/OvnDbAdapter.ts): the jobs *)
(* of a queue as documents of a collection of the engine, and the calls the*)
(* process loops make of it.  A call of the adapter is a chain of calls of *)
(* the collection with an await after each, so the calls of concurrent     *)
(* enqueues, loops and ending jobs interleave.                             *)
(*                                                                         *)
(* IdMatches: a filter on _id finds the document with that id, as the      *)
(* adapter assumes.  In the engine of this repository it finds nothing: a  *)
(* filter reads a document's fields (evaluate_filter, query/filter.rs), and*)
(* the id is not one of them (ObeDocument::from_json, format/obe.rs).      *)
(***************************************************************************)
EXTENDS Integers, FiniteSets

CONSTANTS
  StoredJobs,            \* numbered by priority
  Loops,           \* process loops, of one or more queues over the file
  Candidates,      \* the limit of pop's find
  IdMatches,
  MaxPushes,       \* bound: pushes of a job
  MaxDeaths       \* bound: times the process ends and opens the file again

ASSUME OvnAssumption ==
  /\ StoredJobs \subseteq Nat \ {0} /\ IdMatches \in BOOLEAN
  /\ Candidates \in Nat \ {0} /\ MaxPushes \in Nat /\ MaxDeaths \in Nat

VARIABLES
  doc,         \* the state of the job's document
  inserting,   \* jobs whose push has updated nothing and inserts next
  pushes,      \* pushes of the job so far
  loop,        \* candidates a pop has still to try, the job a loop holds
  run,         \* how many dispatched runs of the job there are
  overlooked,  \* history: jobs a pop passed over while they were waiting
  deaths

ovnVars == <<doc, inserting, pushes, loop, run, overlooked, deaths>>

Empty == [at |-> "idle", left |-> {}, job |-> 0]

OvnTypeOK ==
  /\ doc \in [StoredJobs -> {"none", "waiting", "active", "over"}]
  /\ inserting \subseteq StoredJobs
  /\ pushes \in [StoredJobs -> 0 .. MaxPushes]
  /\ loop \in [Loops -> [at : {"idle", "claiming", "popped"}, left : SUBSET StoredJobs,
                         job : StoredJobs \cup {0}]]
  /\ run \in [StoredJobs -> Nat]
  /\ overlooked \subseteq StoredJobs /\ deaths \in 0 .. MaxDeaths

OvnInit ==
  /\ doc = [j \in StoredJobs |-> "none"] /\ inserting = {}
  /\ pushes = [j \in StoredJobs |-> 0]
  /\ loop = [p \in Loops |-> Empty] /\ run = [j \in StoredJobs |-> 0]
  /\ overlooked = {} /\ deaths = 0

\* updateOne with a filter on the id: what it matches it writes.
Finds(j) == IdMatches /\ doc[j] # "none"
Writes(j, s) == doc' = IF Finds(j) THEN [doc EXCEPT ![j] = s] ELSE doc

(***************************************************************************)
(* push: updateOne, then insertOne when it matched nothing.  An insert that*)
(* finds the id taken by then becomes an update.                           *)
(***************************************************************************)

PushUpdates(j) ==
  /\ pushes[j] < MaxPushes /\ j \notin inserting
  /\ pushes' = [pushes EXCEPT ![j] = @ + 1]
  /\ Writes(j, "waiting")
  /\ inserting' = IF Finds(j) THEN inserting ELSE inserting \cup {j}

PushInserts(j) ==
  /\ j \in inserting /\ inserting' = inserting \ {j}
  /\ doc' = [doc EXCEPT ![j] = "waiting"]
  /\ UNCHANGED <<pushes, loop, run, overlooked, deaths>>

\* enqueue of a new job.
Enqueues(j) ==
  /\ pushes[j] = 0 /\ PushUpdates(j)
  /\ UNCHANGED <<loop, run, overlooked, deaths>>

(***************************************************************************)
(* pop: find the first candidates, then claim them one after the other with*)
(* an updateOne whose filter says that the job still waits.                *)
(***************************************************************************)

Waiting == {j \in StoredJobs : doc[j] = "waiting"}
FirstOf(js) == CHOOSE j \in js : \A i \in js : j <= i
FirstFew == {j \in Waiting : Cardinality({i \in Waiting : i < j}) < Candidates}

PopFinds(p) ==
  /\ loop[p].at = "idle" /\ Waiting # {}
  /\ loop' = [loop EXCEPT ![p] = [Empty EXCEPT !.at = "claiming", !.left = FirstFew]]
  /\ UNCHANGED <<doc, inserting, pushes, run, overlooked, deaths>>

Passed(p, j) ==
  LET rest == loop[p].left \ {j} IN
  loop' = [loop EXCEPT ![p] = IF rest = {} THEN Empty ELSE [@ EXCEPT !.left = rest]]

\* Mutant: the claim's filter names the id alone.
PopClaimsById(p) ==
  LET j == FirstOf(loop[p].left) IN
  /\ loop[p].at = "claiming"
  /\ Writes(j, "active")
  /\ IF Finds(j)
     THEN /\ loop' = [loop EXCEPT ![p] = [Empty EXCEPT !.at = "popped", !.job = j]]
          /\ UNCHANGED overlooked
     ELSE Passed(p, j) /\ UNCHANGED overlooked
  /\ UNCHANGED <<inserting, pushes, run, deaths>>

PopClaims(p) ==
  LET j == FirstOf(loop[p].left) IN
  /\ loop[p].at = "claiming"
  /\ IF Finds(j) /\ doc[j] = "waiting"
     THEN /\ doc' = [doc EXCEPT ![j] = "active"]
          /\ loop' = [loop EXCEPT ![p] = [Empty EXCEPT !.at = "popped", !.job = j]]
          /\ UNCHANGED overlooked
     ELSE /\ Passed(p, j) /\ UNCHANGED doc
          /\ overlooked' = IF doc[j] = "waiting" THEN overlooked \cup {j} ELSE overlooked
  /\ UNCHANGED <<inserting, pushes, run, deaths>>

(***************************************************************************)
(* The process loop with the job it popped.                                *)
(***************************************************************************)

Takes(p, j) == loop[p].at = "popped" /\ loop[p].job = j /\ loop' = [loop EXCEPT ![p] = Empty]

\* The loop writes the active job over the document and dispatches it.
Dispatches(p, j) ==
  /\ Takes(p, j)
  /\ Writes(j, "active")
  /\ run' = [run EXCEPT ![j] = @ + 1]
  /\ UNCHANGED <<inserting, pushes, overlooked, deaths>>

\* A plugin discards the job: the loop goes on and the document stays active.
Discards(p, j) ==
  /\ Takes(p, j)
  /\ UNCHANGED <<doc, inserting, pushes, run, overlooked, deaths>>

\* A plugin throws: the job is pushed again as it was popped.
Throttles(p, j) ==
  /\ Takes(p, j) /\ PushUpdates(j)
  /\ UNCHANGED <<run, overlooked, deaths>>

(***************************************************************************)
(* A dispatched run ends; a job expires; the queue is cleared.             *)
(***************************************************************************)

Ends(j) == run[j] > 0 /\ run' = [run EXCEPT ![j] = @ - 1]

\* Success, or failure for good.
Finishes(j) ==
  /\ Ends(j) /\ Writes(j, "over")
  /\ UNCHANGED <<inserting, pushes, loop, overlooked, deaths>>

\* Failure with attempts left and no delay, or the timer of the delay.
Retries(j) ==
  /\ Ends(j) /\ PushUpdates(j)
  /\ UNCHANGED <<loop, overlooked, deaths>>

\* remove, of handleExpire.
Expires(j) ==
  /\ Finds(j) /\ doc' = [doc EXCEPT ![j] = "none"]
  /\ UNCHANGED <<inserting, pushes, loop, run, overlooked, deaths>>

Clears ==
  /\ doc' = [j \in StoredJobs |-> "none"]
  /\ UNCHANGED <<inserting, pushes, loop, run, overlooked, deaths>>

\* The process ends; the next one opens the file and, over this adapter, runs no
\* recovery of the queue's own (usesNativeWAL).
Crashes ==
  /\ deaths < MaxDeaths /\ deaths' = deaths + 1
  /\ inserting' = {} /\ loop' = [p \in Loops |-> Empty] /\ run' = [j \in StoredJobs |-> 0]
  /\ UNCHANGED <<doc, pushes, overlooked>>

OvnNext ==
  \/ \E j \in StoredJobs : Enqueues(j) \/ PushInserts(j) \/ Finishes(j) \/ Retries(j) \/ Expires(j)
  \/ \E p \in Loops : PopFinds(p) \/ PopClaims(p)
  \/ \E p \in Loops, j \in StoredJobs : Dispatches(p, j) \/ Discards(p, j) \/ Throttles(p, j)
  \/ Clears
  \/ Crashes

OvnSpec == OvnInit /\ [][OvnNext]_ovnVars

\* No job is run twice at a time, nor popped while it runs, however pops, retries,
\* expiries, clears and crashes of the calls on its document interleave.
OneRunner ==
  \A j \in StoredJobs : run[j] + Cardinality({p \in Loops : loop[p].job = j}) <= 1

\* A pop passes over a job only when another loop has taken it: it falls back to
\* the next candidate "if a concurrent worker claims the top job first"
\* (OvnDbAdapter.ts:286).
OnlyTakenPassedOver == overlooked = {}
=============================================================================
