-------------------------------- MODULE Sdk --------------------------------
(***************************************************************************)
(* Transaction (packages/oblivinx3x/src/transaction.ts), withTransaction   *)
(* and close (database.ts), findOneAndUpdate and findOneAndDelete          *)
(* (collection.ts), over the savepoint states of the engine                *)
(* (crates/ovn-core/src/engine/txn_ops.rs).                                *)
(*                                                                         *)
(* A handle keeps its own set of savepoint names, the engine a stack.  The *)
(* writes of a handle carry no transaction id: they land at once, and no   *)
(* code records them for an undo.  Between two awaits of a call any other  *)
(* call may run.                                                           *)
(***************************************************************************)
EXTENDS Integers, FiniteSets, SequencesExt

CONSTANTS
  Names,        \* names of savepoints
  Txns,         \* bound: transaction ids, 1 .. n, in the order they begin
  MaxSavepoints,     \* MAX_DEPTH of the engine's stack
  Docs,         \* bound: documents, numbered in the order of a scan
  Takers,       \* calls of findOneAndUpdate and findOneAndDelete
  Runners,      \* calls of withTransaction
  MaxRetries    \* maxRetries of withTransaction

ASSUME SdkAssumption ==
  /\ Txns = 1 .. Cardinality(Txns) /\ Docs = 1 .. Cardinality(Docs)
  /\ IsFiniteSet(Txns) /\ IsFiniteSet(Docs) /\ IsFiniteSet(Takers)
  /\ MaxSavepoints \in Nat /\ MaxRetries \in Nat

VARIABLES
  docs,         \* the documents the calls' filter finds ("open"), has found, or not there
  author,       \* history: the transaction that inserted the document, or 0
  txnState,        \* Transaction.#state, "none" before it begins
  savepoints,   \* Transaction.#savepoints, in the order they were added
  tracked,      \* the engine: transactions with a savepoint state
  stack,        \* the engine: the names on it
  closed,       \* the database handle was closed
  taker,        \* where a findOneAnd call is, and the document it read
  runner        \* where a withTransaction call is, its attempt and handle

sdkVars == <<docs, author, txnState, savepoints, tracked, stack, closed, taker, runner>>

Handles == <<txnState, savepoints, tracked, stack>>

SdkTypeOK ==
  /\ docs \in [Docs -> {"none", "open", "taken", "deleted"}]
  /\ author \in [Docs -> Txns \cup {0}]
  /\ txnState \in [Txns -> {"none", "active", "committed", "aborted"}]
  /\ \A t \in Txns :
       /\ savepoints[t] \in Seq(Names) /\ IsInjective(savepoints[t])
       /\ stack[t] \in Seq(Names) /\ Len(stack[t]) <= MaxSavepoints
  /\ tracked \subseteq Txns
  /\ closed \in BOOLEAN
  /\ taker \in [Takers -> [at : {"idle", "found", "done"}, doc : Docs \cup {0}]]
  /\ runner \in [Runners -> [at : {"idle", "fn", "backoff", "done"},
                             attempt : 0 .. MaxRetries, txn : Txns \cup {0}]]

SdkInit ==
  /\ docs = [d \in Docs |-> "none"] /\ author = [d \in Docs |-> 0]
  /\ txnState = [t \in Txns |-> "none"]
  /\ savepoints = [t \in Txns |-> <<>>]
  /\ tracked = {} /\ stack = [t \in Txns |-> <<>>]
  /\ closed = FALSE
  /\ taker = [c \in Takers |-> [at |-> "idle", doc |-> 0]]
  /\ runner = [r \in Runners |-> [at |-> "idle", attempt |-> 0, txn |-> 0]]

Active(t) == txnState[t] = "active"

(***************************************************************************)
(* The life of a handle.                                                   *)
(***************************************************************************)

\* begin_transaction: the next id, with an empty savepoint state.
Begins(t) ==
  /\ ~closed
  /\ txnState[t] = "none" /\ \A u \in 1 .. t - 1 : txnState[u] # "none"
  /\ txnState' = [txnState EXCEPT ![t] = "active"]
  /\ tracked' = tracked \cup {t}
  /\ UNCHANGED <<savepoints, stack>>

BeginTransaction(t) == Begins(t) /\ UNCHANGED <<docs, author, closed, taker, runner>>

Ends(t, s) ==
  /\ txnState' = [txnState EXCEPT ![t] = s]
  /\ savepoints' = [savepoints EXCEPT ![t] = <<>>]

\* commit: a closed engine throws and leaves the handle active.
Commits(t) ==
  /\ Active(t) /\ ~closed
  /\ Ends(t, "committed")
  /\ tracked' = tracked \ {t} /\ stack' = [stack EXCEPT ![t] = <<>>]

\* rollback: the engine forgets the transaction and undoes nothing; on a closed
\* database the binding finds no engine, does nothing and throws no error.
Rollbacks(t) ==
  /\ Active(t)
  /\ Ends(t, "aborted")
  /\ tracked' = tracked \ {t} /\ stack' = [stack EXCEPT ![t] = <<>>]

Commit(t) == Commits(t) /\ UNCHANGED <<docs, author, closed, taker, runner>>
Rollback(t) == Rollbacks(t) /\ UNCHANGED <<docs, author, closed, taker, runner>>

\* insert of a handle: the document is there for every reader from now on.
Insert(t, d) ==
  /\ Active(t) /\ ~closed /\ docs[d] = "none"
  /\ docs' = [docs EXCEPT ![d] = "open"]
  /\ author' = [author EXCEPT ![d] = t]
  /\ UNCHANGED <<Handles, closed, taker, runner>>

\* delete of a handle, by the filter: the first document it matches.
Open == {d \in Docs : docs[d] = "open"}
First == CHOOSE d \in Open : \A e \in Open : d <= e

DeleteDoc(t) ==
  /\ Active(t) /\ ~closed /\ Open # {}
  /\ docs' = [docs EXCEPT ![First] = "deleted"]
  /\ UNCHANGED <<author, Handles, closed, taker, runner>>

(***************************************************************************)
(* Savepoints: the handle's guard first, then the engine's, then the       *)
(* handle's own book-keeping.  A guard that fails throws and changes       *)
(* nothing.                                                                *)
(***************************************************************************)

Savepoint(t, n) ==
  /\ Active(t) /\ ~Contains(savepoints[t], n)
  /\ ~closed /\ Len(stack[t]) < MaxSavepoints /\ ~Contains(stack[t], n)
  /\ tracked' = tracked \cup {t}
  /\ stack' = [stack EXCEPT ![t] = Append(@, n)]
  /\ savepoints' = [savepoints EXCEPT ![t] = Append(@, n)]
  /\ UNCHANGED <<docs, author, txnState, closed, taker, runner>>

Place(s, n) == CHOOSE i \in DOMAIN s : s[i] = n

\* Mutant: the names before the savepoint are dropped instead.
RollbackToSavepointInverted(t, n) ==
  /\ Active(t) /\ Contains(savepoints[t], n)
  /\ ~closed /\ t \in tracked /\ Contains(stack[t], n)
  /\ stack' = [stack EXCEPT ![t] = SubSeq(@, 1, Place(@, n) - 1)]
  /\ savepoints' = [savepoints EXCEPT ![t] = SubSeq(@, Place(@, n), Len(@))]
  /\ UNCHANGED <<docs, author, txnState, tracked, closed, taker, runner>>

\* The engine truncates its stack below the savepoint; the handle keeps the
\* name and drops the ones after it.
RollbackToSavepoint(t, n) ==
  /\ Active(t) /\ Contains(savepoints[t], n)
  /\ ~closed /\ t \in tracked /\ Contains(stack[t], n)
  /\ stack' = [stack EXCEPT ![t] = SubSeq(@, 1, Place(@, n) - 1)]
  /\ savepoints' = [savepoints EXCEPT ![t] = SubSeq(@, 1, Place(@, n))]
  /\ UNCHANGED <<docs, author, txnState, tracked, closed, taker, runner>>

ReleaseSavepoint(t, n) ==
  /\ Active(t) /\ Contains(savepoints[t], n)
  /\ ~closed /\ t \in tracked /\ Contains(stack[t], n)
  /\ stack' = [stack EXCEPT ![t] = RemoveAt(@, Place(@, n))]
  /\ savepoints' = [savepoints EXCEPT ![t] = RemoveAt(@, Place(@, n))]
  /\ UNCHANGED <<docs, author, txnState, tracked, closed, taker, runner>>

(***************************************************************************)
(* withTransaction: an attempt begins a handle and awaits fn, which uses it*)
(* as it likes.                                                            *)
(***************************************************************************)

Goes(r, at, attempt, t) ==
  runner' = [runner EXCEPT ![r] = [at |-> at, attempt |-> attempt, txn |-> t]]

AttemptBegins(r, t) ==
  /\ runner[r].at \in {"idle", "backoff"}
  /\ Begins(t)
  /\ Goes(r, "fn", runner[r].attempt, t)
  /\ UNCHANGED <<docs, author, closed, taker>>

\* fn returns: the handle is committed unless fn ended it itself.  A commit that
\* throws is handled like an error of fn that is no conflict.
FnReturns(r) ==
  LET t == runner[r].txn IN
  /\ runner[r].at = "fn"
  /\ Goes(r, "done", runner[r].attempt, t)
  /\ IF ~Active(t) THEN UNCHANGED Handles
     ELSE IF closed THEN Rollbacks(t) ELSE Commits(t)
  /\ UNCHANGED <<docs, author, closed, taker>>

\* fn throws: the handle is rolled back, and only a conflict is tried again.
FnThrows(r, conflict) ==
  LET t == runner[r].txn IN
  /\ runner[r].at = "fn"
  /\ IF conflict /\ runner[r].attempt < MaxRetries
     THEN Goes(r, "backoff", runner[r].attempt + 1, t)
     ELSE Goes(r, "done", runner[r].attempt, t)
  /\ IF Active(t) THEN Rollbacks(t) ELSE UNCHANGED Handles
  /\ UNCHANGED <<docs, author, closed, taker>>

(***************************************************************************)
(* findOneAndUpdate, findOneAndDelete: findOne, an await, then updateOne or*)
(* deleteOne with the same filter, which the written document no longer    *)
(* matches.                                                                *)
(***************************************************************************)

TakerFinds(c) ==
  /\ taker[c].at = "idle" /\ ~closed
  /\ taker' = [taker EXCEPT ![c] = IF Open = {} THEN [at |-> "done", doc |-> 0]
                                   ELSE [at |-> "found", doc |-> First]]
  /\ UNCHANGED <<docs, author, Handles, closed, runner>>

TakerWrites(c) ==
  /\ taker[c].at = "found"
  /\ taker' = [taker EXCEPT ![c].at = "done"]
  /\ IF closed \/ Open = {} THEN UNCHANGED docs
     ELSE docs' = [docs EXCEPT ![First] = "taken"]
  /\ UNCHANGED <<author, Handles, closed, runner>>

\* close: the binding drops the engine, the handles stay as they are.
Close ==
  /\ ~closed /\ closed' = TRUE
  /\ tracked' = {} /\ stack' = [t \in Txns |-> <<>>]
  /\ UNCHANGED <<docs, author, txnState, savepoints, taker, runner>>

SdkNext ==
  \/ \E t \in Txns : BeginTransaction(t) \/ Commit(t) \/ Rollback(t) \/ DeleteDoc(t)
  \/ \E t \in Txns, d \in Docs : Insert(t, d)
  \/ \E t \in Txns, n \in Names :
       Savepoint(t, n) \/ RollbackToSavepoint(t, n) \/ ReleaseSavepoint(t, n)
  \/ \E r \in Runners, t \in Txns : AttemptBegins(r, t)
  \/ \E r \in Runners : FnReturns(r)
  \/ \E r \in Runners, conflict \in BOOLEAN : FnThrows(r, conflict)
  \/ \E c \in Takers : TakerFinds(c) \/ TakerWrites(c)
  \/ Close

SdkSpec == SdkInit /\ [][SdkNext]_sdkVars

(***************************************************************************)
(* Properties.                                                             *)
(***************************************************************************)

\* The handle and the engine agree on a handle's life: an active handle knows
\* every savepoint the engine has, in the engine's order, and a handle that has
\* ended leaves nothing in the engine, whatever order of savepoints, rollbacks
\* to them and releases came before.
LayersAgree ==
  \A t \in Txns :
    /\ ToSet(stack[t]) \subseteq ToSet(savepoints[t])
    /\ \A i, j \in DOMAIN stack[t] : i < j =>
         Place(savepoints[t], stack[t][i]) < Place(savepoints[t], stack[t][j])
    /\ ~Active(t) => savepoints[t] = <<>> /\ stack[t] = <<>> /\ t \notin tracked

\* withTransaction never waits, retries or returns with the handle of an
\* attempt still open, even when fn ended it itself or the database was closed
\* under it.
AttemptsEndTheirHandle ==
  \A r \in Runners : runner[r].at \in {"backoff", "done"} => ~Active(runner[r].txn)

\* As many calls of findOneAnd have read a document as documents were taken:
\* a call that loses the race writes at most one other document or none.
TakesAreAnswered ==
  Cardinality({d \in Docs : docs[d] = "taken"})
    <= Cardinality({c \in Takers : taker[c].doc # 0 /\ taker[c].at = "done"})

\* rollback throws away every write of its transaction, as its comment says
\* (transaction.ts:674).
RollbackDiscards ==
  \A d \in Docs : author[d] # 0 /\ txnState[author[d]] = "aborted" => docs[d] # "open"

\* A savepoint the handle still has can be rolled back to again, as the comment
\* of rollbackToSavepoint says (transaction.ts:558).
SavepointsStay ==
  \A t \in Txns : Active(t) => ToSet(savepoints[t]) \subseteq ToSet(stack[t])

\* No document is returned by two calls that find and take it "atomically"
\* (collection.ts:388).
TakenOnce ==
  \A c1, c2 \in Takers :
    c1 # c2 /\ taker[c1].at = "done" /\ taker[c2].at = "done" /\ taker[c1].doc # 0
      => taker[c1].doc # taker[c2].doc

\* Handles, runners and takers keep to each other.
SdkSound == SdkTypeOK /\ LayersAgree /\ AttemptsEndTheirHandle /\ TakesAreAnswered
=============================================================================
