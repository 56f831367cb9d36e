-------------------------------- MODULE Mvcc --------------------------------
(***************************************************************************)
(* MvccManager (crates/ovn-core/src/mvcc/mod.rs): transaction identifiers, *)
(* the table of active transactions, version chains, the GC horizon and    *)
(* the garbage collector.  Several client threads and several background   *)
(* GC workers share one manager.                                           *)
(*                                                                         *)
(* Each action is one critical section of the code: what happens between   *)
(* the acquisition and the release of one lock, or one atomic operation.   *)
(* begin_transaction is therefore four sections, a versioned write two     *)
(* (next_txid, add_version), update_horizon two (the minimum is computed   *)
(* and stored under a read guard that other readers can share).            *)
(*                                                                         *)
(* Document bytes are abstracted: a version is the identifier of the write *)
(* that made it and its tombstone flag.  The read set that commit          *)
(* validates is the one of the copy kept in the active table, which no     *)
(* operation ever extends, so the conflict branch of commit is dead code.  *)
(* record_read adds to the caller's own copy, which nobody reads: neither  *)
(* has an action here.                                                     *)
(***************************************************************************)
EXTENDS Integers, Sequences, FiniteSets

CONSTANTS
  Clients,    \* threads that call the manager
  GcWorkers,  \* background threads that run gc()
  DocKeys,    \* document keys
  MaxIssuedId \* bound: identifiers the model hands out

ASSUME MvccAssumption == MaxIssuedId \in Nat \ {0}

VARIABLES
  lastIssued, \* txid_gen: the last identifier issued (HLC current())
  txnIds,     \* history: the identifiers issued to transactions
  active,     \* active_transactions: txid -> active_txids of its snapshot
  chains,     \* version_chains: key -> sequence of versions
  horizon,    \* horizon_txid
  client,     \* per client thread: where it is in its call, and its locals
  collector,  \* per GC worker: the horizon it loaded, or Resting
  overlapped  \* history: pairs of writes, the older one still under way when
              \* the newer one took its identifier

mvccVars == <<lastIssued, txnIds, active, chains, horizon, client, collector, overlapped>>

Identifiers == 1 .. MaxIssuedId
Resting     == -1
Version     == [txid : Identifiers, tombstone : BOOLEAN]
ClientSteps == {"idle", "take", "register", "horizon", "store", "write"}

\* The transaction or write a client thread is in the middle of.
ClientState == [at : ClientSteps, txid : 0 .. MaxIssuedId,
                seen : SUBSET Identifiers, low : 0 .. MaxIssuedId]

\* Mutant: a version is hidden only from the snapshots that saw it active.
IsVisibleNoBound(v, txid, seen) == v.txid \notin seen

\* Snapshot::is_visible
IsVisible(v, txid, seen) == v.txid <= txid /\ v.txid \notin seen

\* The position read_version stops at: the first visible version, if any.
FirstVisible(chain, txid, seen) ==
  {i \in DOMAIN chain :
     /\ IsVisible(chain[i], txid, seen)
     /\ \A j \in 1 .. (i - 1) : ~IsVisible(chain[j], txid, seen)}

\* read_version: the version found, or 0 for None (a tombstone reads as None).
ReadVersion(chain, txid, seen) ==
  LET found == FirstVisible(chain, txid, seen)
      v     == chain[CHOOSE i \in found : TRUE]
  IN  IF found = {} \/ v.tombstone THEN 0 ELSE v.txid

\* Mutant: the version that shadows the older ones is purged with them.
KeepCountOneLess(chain, h, n) ==
  /\ n <= Len(chain)
  /\ \A j \in 2 .. n : chain[j].txid >= h
  /\ n < Len(chain) => n >= 1 /\ chain[n + 1].txid < h

\* gc keeps the versions up to and including the first one after the newest
\* that is below the horizon; n is how many that is.
KeepCount(chain, h, n) ==
  /\ n <= Len(chain)
  /\ \A j \in 2 .. (n - 1) : chain[j].txid >= h
  /\ n < Len(chain) => n >= 2 /\ chain[n].txid < h

IsMinimum(m, S) == m \in S /\ \A t \in S : m <= t

\* No thread is inside update_horizon with the read guard of the table, so a
\* writer of the table can take its lock.
TableUnlocked == \A c \in Clients : client[c].at # "store"

\* Threads at one step of their calls.
ClientsAt(step) == {c \in Clients : client[c].at = step}

\* The begin_transaction of t has returned, so that somebody has its identifier.
Begun(t) == t \in DOMAIN active /\ \A c \in ClientsAt("horizon") \cup ClientsAt("store") : client[c].txid # t

-----------------------------------------------------------------------------
Busy(step, txid) == [at |-> step, txid |-> txid, seen |-> {}, low |-> 0]
Free             == Busy("idle", 0)

MvccInit ==
  /\ lastIssued = 0
  /\ txnIds = {}
  /\ active = [t \in {} |-> {}]
  /\ chains = [k \in DocKeys |-> <<>>]
  /\ horizon = 0
  /\ client = [c \in Clients |-> Free]
  /\ collector = [g \in GcWorkers |-> Resting]
  /\ overlapped = {}

\* TxIdGenerator::next, for a transaction or for a write.
NextTxId(c, step) ==
  /\ client[c].at = "idle"
  /\ lastIssued < MaxIssuedId
  /\ lastIssued' = lastIssued + 1
  /\ client' = [client EXCEPT ![c] = Busy(step, lastIssued + 1)]
  /\ UNCHANGED <<active, chains, horizon, collector>>

\* begin_transaction: the identifier ...
BeginTakeId(c) ==
  /\ NextTxId(c, "take")
  /\ txnIds' = txnIds \cup {lastIssued + 1}
  /\ UNCHANGED overlapped

\* ... the keys of the active table, under a read lock ...
BeginSnapshot(c) ==
  /\ client[c].at = "take"
  /\ client' = [client EXCEPT ![c].at = "register",
                              ![c].seen = DOMAIN active]
  /\ UNCHANGED <<lastIssued, txnIds, active, chains, horizon, collector, overlapped>>

\* ... the insertion into the table; update_horizon follows.
BeginRegister(c) ==
  /\ client[c].at = "register"
  /\ TableUnlocked
  /\ active' = [t \in DOMAIN active \cup {client[c].txid} |->
                  IF t = client[c].txid THEN client[c].seen ELSE active[t]]
  /\ client' = [client EXCEPT ![c].at = "horizon"]
  /\ UNCHANGED <<lastIssued, txnIds, chains, horizon, collector, overlapped>>

\* commit and abort take t out of the active table; update_horizon follows.
FinishTxn(c, t) ==
  /\ client[c].at = "idle"
  /\ Begun(t)
  /\ TableUnlocked
  /\ active' = [u \in DOMAIN active \ {t} |-> active[u]]
  /\ client' = [client EXCEPT ![c] = Busy("horizon", 0)]
  /\ UNCHANGED <<lastIssued, txnIds, chains, horizon, collector, overlapped>>

Commit(c, t) == FinishTxn(c, t)
Abort(c, t)  == FinishTxn(c, t)

\* Mutant: the horizon is the newest active transaction.
ComputeHorizonMaximum(c) ==
  /\ client[c].at = "horizon"
  /\ \E m \in 0 .. MaxIssuedId :
       /\ IF DOMAIN active = {} THEN m = lastIssued
                                ELSE m \in DOMAIN active
                                     /\ \A t \in DOMAIN active : m >= t
       /\ client' = [client EXCEPT ![c].at = "store", ![c].low = m]
  /\ UNCHANGED <<lastIssued, txnIds, active, chains, horizon, collector, overlapped>>

\* update_horizon: the minimum of the table, or the current identifier.
ComputeHorizon(c) ==
  /\ client[c].at = "horizon"
  /\ \E m \in 0 .. MaxIssuedId :
       /\ IF DOMAIN active = {} THEN m = lastIssued
                                ELSE IsMinimum(m, DOMAIN active)
       /\ client' = [client EXCEPT ![c].at = "store", ![c].low = m]
  /\ UNCHANGED <<lastIssued, txnIds, active, chains, horizon, collector, overlapped>>

StoreHorizon(c) ==
  /\ client[c].at = "store"
  /\ horizon' = client[c].low
  /\ client' = [client EXCEPT ![c] = Free]
  /\ UNCHANGED <<lastIssued, txnIds, active, chains, collector, overlapped>>

\* A versioned write (crud.rs insert): next_txid, later add_version.
WriteTakeId(c) ==
  /\ NextTxId(c, "write")
  /\ overlapped' = overlapped \cup {<<client[d].txid, lastIssued + 1>> : d \in ClientsAt("write")}
  /\ UNCHANGED txnIds

\* Mutant: the version goes to the end of the chain.
AddVersionAtEnd(c, k, tombstone) ==
  /\ client[c].at = "write"
  /\ chains' = [chains EXCEPT ![k] =
       Append(@, [txid |-> client[c].txid, tombstone |-> tombstone])]
  /\ client' = [client EXCEPT ![c] = Free]
  /\ UNCHANGED <<lastIssued, txnIds, active, horizon, collector, overlapped>>

AddVersion(c, k, tombstone) ==
  /\ client[c].at = "write"
  /\ chains' = [chains EXCEPT ![k] =
       <<[txid |-> client[c].txid, tombstone |-> tombstone]>> \o @]
  /\ client' = [client EXCEPT ![c] = Free]
  /\ UNCHANGED <<lastIssued, txnIds, active, horizon, collector, overlapped>>

\* gc: the horizon is loaded before the chains are locked.
GcLoadHorizon(g) ==
  /\ collector[g] = Resting
  /\ collector' = [collector EXCEPT ![g] = horizon]
  /\ UNCHANGED <<lastIssued, txnIds, active, chains, horizon, client, overlapped>>

GcPurge(g) ==
  /\ collector[g] # Resting
  /\ \E keep \in [DocKeys -> 0 .. MaxIssuedId] :
       /\ \A k \in DocKeys : KeepCount(chains[k], collector[g], keep[k])
       /\ chains' = [k \in DocKeys |-> SubSeq(chains[k], 1, keep[k])]
  /\ collector' = [collector EXCEPT ![g] = Resting]
  /\ UNCHANGED <<lastIssued, txnIds, active, horizon, client, overlapped>>

ClientStep(c) ==
  \/ BeginTakeId(c) \/ BeginSnapshot(c) \/ BeginRegister(c)
  \/ \E t \in Identifiers : Commit(c, t)
  \/ \E t \in Identifiers : Abort(c, t)
  \/ ComputeHorizon(c) \/ StoreHorizon(c)
  \/ WriteTakeId(c)
  \/ \E k \in DocKeys, tombstone \in BOOLEAN : AddVersion(c, k, tombstone)

GcStep(g) == GcLoadHorizon(g) \/ GcPurge(g)

MvccNext == (\E c \in Clients : ClientStep(c)) \/ (\E g \in GcWorkers : GcStep(g))

MvccSpec == MvccInit /\ [][MvccNext]_mvccVars

-----------------------------------------------------------------------------
\* Every variable has its type; an active transaction was issued
\* its identifier.
MvccTypeOK ==
  /\ lastIssued \in 0 .. MaxIssuedId
  /\ txnIds \subseteq Identifiers
  /\ DOMAIN active \subseteq txnIds
  /\ \A t \in DOMAIN active : active[t] \in SUBSET Identifiers
  /\ chains \in [DocKeys -> Seq(Version)]
  /\ horizon \in 0 .. MaxIssuedId
  /\ client \in [Clients -> ClientState]
  /\ collector \in [GcWorkers -> {Resting} \cup (0 .. MaxIssuedId)]
  /\ overlapped \subseteq Identifiers \X Identifiers

\* The horizon is not above an active transaction (mod.rs line 174, "Horizon
\* TxID - minimum TxID of all active snapshots") from the moment its
\* begin_transaction returned.  Until then it may be: the transaction has its
\* identifier before it is in the table the minimum is taken of.
HorizonBelowActive == \A t \in DOMAIN active : Begun(t) => horizon <= t

\* Version chains are ordered newest first (mod.rs line 172), so the first
\* visible version a reader meets is the latest one it may see, except for
\* writes that overlapped: a writer takes its identifier and adds its version
\* under two locks, and one that began later can add first.
NewestFirst ==
  \A k \in DocKeys : \A i, j \in DOMAIN chains[k] :
    i < j => \/ chains[k][i].txid > chains[k][j].txid
             \/ <<chains[k][i].txid, chains[k][j].txid>> \in overlapped

\* The version chains are well formed, and so is the rest of the state.
ChainsSound == MvccTypeOK /\ NewestFirst

\* Nothing that began before the transaction t can still disturb it: no write
\* with an older identifier is to add its version, and no worker holds a
\* horizon that it loaded while that was above t.
Settled(t) ==
  /\ Begun(t)
  /\ \A c \in ClientsAt("write") : client[c].txid > t
  /\ \A g \in GcWorkers : collector[g] <= t

\* Once the writes and the collections under way at its begin are over, what a
\* transaction reads never changes while it is active, and nothing that begins
\* later can disturb it: what is left of mod.rs line 188, "Begin a new
\* transaction with a consistent snapshot", with several threads.
SnapshotStable ==
  [][\A t \in DOMAIN active \cap DOMAIN active' : Settled(t) =>
       /\ Settled(t)'
       /\ \A k \in DocKeys : ReadVersion(chains'[k], t, active[t]) =
                              ReadVersion(chains[k], t, active[t])]_mvccVars

\* Whatever the interleaving, gc changes nothing for a snapshot that is not
\* below the horizon it loaded, and never the newest version of a key ("prune
\* old document versions no longer visible to any active snapshot",
\* background/workers.rs lines 218-219).
GcSparesAboveHorizon ==
  [][\A g \in GcWorkers : GcPurge(g) =>
       \A k \in DocKeys :
         /\ chains[k] # <<>> => chains'[k] # <<>> /\ chains'[k][1] = chains[k][1]
         /\ \A t \in DOMAIN active : collector[g] <= t =>
              ReadVersion(chains'[k], t, active[t]) =
              ReadVersion(chains[k], t, active[t])]_mvccVars
=============================================================================
