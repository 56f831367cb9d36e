---------------------------- MODULE EngineProofs ----------------------------
(***************************************************************************)
(* Theorems about the storage engine: its versions (Mvcc) and its database *)
(* file (Engine).                                                          *)
(*                                                                         *)
(* Mvcc, for every number of clients, GC workers and keys: TypeOK is not   *)
(* inductive, it needs to know which identifiers a thread in the middle of *)
(* a call can hold (IdsOK).  With that, GC safety follows from one fact    *)
(* about a single chain, PurgeKeepsFirstVisible.                           *)
(*                                                                         *)
(* Engine, for every number of documents, writes, saves and lives and every*)
(* size of the log's groups and pages: a close loses nothing, a complete   *)
(* generation of pages that nothing was written over survives a kill at any*)
(* step, and the log never reaches the registry.                           *)
(* Every generation is appended, so while one is written its pages are the *)
(* last ones of the file.  The invariant follows the documents it already  *)
(* has to the end of the save, and those of the last complete generation   *)
(* through whatever is appended, overwritten and loaded after it.          *)
(***************************************************************************)
EXTENDS Engine, Mvcc, FiniteSetTheorems, SequenceTheorems, WellFoundedInduction, TLAPS

\* An identifier is issued once: to a transaction (txnIds) or to a write.
IdsOK ==
  /\ txnIds \subseteq 1 .. lastIssued
  /\ \A c \in Clients :
       /\ client[c].at \in {"take", "register"} => client[c].txid \in txnIds
       /\ client[c].at = "write" =>
            client[c].txid \in (1 .. lastIssued) \ txnIds
       /\ client[c].seen \subseteq txnIds
  /\ \A t \in DOMAIN active : active[t] \subseteq txnIds
  /\ \A k \in DocKeys : \A i \in DOMAIN chains[k] :
       chains[k][i].txid \in (1 .. lastIssued) \ txnIds

VersionsInv == MvccTypeOK /\ IdsOK

-----------------------------------------------------------------------------
\* What a purge leaves is a prefix of the chain, empty only if the chain was.
LEMMA PurgeIsPrefix ==
  ASSUME NEW chain \in Seq(Version), NEW h \in Int, NEW n \in Nat,
         KeepCount(chain, h, n)
  PROVE  /\ SubSeq(chain, 1, n) \in Seq(Version)
         /\ Len(SubSeq(chain, 1, n)) = n
         /\ DOMAIN SubSeq(chain, 1, n) = 1 .. n
         /\ \A i \in 1 .. n : i \in DOMAIN chain
                              /\ SubSeq(chain, 1, n)[i] = chain[i]
<1> DEFINE short == SubSeq(chain, 1, n)
<1>1. n <= Len(chain) /\ Len(chain) \in Nat /\ DOMAIN chain = 1 .. Len(chain)
  BY DEF KeepCount
<1>2. \A i \in 1 .. n : chain[i] \in Version
  BY <1>1, ElementOfSeq
<1> HIDE DEF short
<1>3. /\ short \in Seq(Version)
      /\ Len(short) = IF 1 <= n THEN n - 1 + 1 ELSE 0
      /\ \A i \in 1 .. n - 1 + 1 : short[i] = chain[1 + i - 1]
  BY <1>2, SubSeqProperties DEF short
<1>4. Len(short) = n /\ DOMAIN short = 1 .. Len(short)
  BY <1>3
<1>5. \A i \in 1 .. n : i \in 1 .. n - 1 + 1 /\ 1 + i - 1 = i
  OBVIOUS
<1>6. /\ short \in Seq(Version) /\ Len(short) = n /\ DOMAIN short = 1 .. n
      /\ \A i \in 1 .. n : i \in DOMAIN chain /\ short[i] = chain[i]
  BY <1>1, <1>3, <1>4, <1>5
<1> QED  BY <1>6 DEF short

\* gc never cuts a chain before the version that a snapshot at or above the
\* horizon reads, so the snapshot finds the same position afterwards.
LEMMA PurgeKeepsFirstVisible ==
  ASSUME NEW chain \in Seq(Version), NEW h \in Int, NEW t \in Int,
         NEW seen, NEW n \in Nat,
         KeepCount(chain, h, n), h <= t,
         \A i \in DOMAIN chain : chain[i].txid \notin seen
  PROVE  ReadVersion(SubSeq(chain, 1, n), t, seen) = ReadVersion(chain, t, seen)
<1> DEFINE short == SubSeq(chain, 1, n)
<1>1. n <= Len(chain) /\ Len(chain) \in Nat /\ DOMAIN chain = 1 .. Len(chain)
  BY DEF KeepCount
<1>2. \A i \in 1 .. Len(chain) : chain[i] \in Version /\ chain[i].txid \in Int
  <2>1. \A i \in 1 .. Len(chain) : chain[i] \in Version
    BY <1>1, ElementOfSeq
  <2>2. \A v \in Version : v.txid \in Int
    BY MvccAssumption DEF Version, Identifiers
  <2> QED  BY <2>1, <2>2
<1>3. /\ short \in Seq(Version)
      /\ Len(short) = n
      /\ DOMAIN short = 1 .. n
      /\ \A i \in 1 .. n : short[i] = chain[i]
  BY PurgeIsPrefix
<1> HIDE DEF short
<1>4. \A i \in FirstVisible(chain, t, seen) : i \in 1 .. n
  <2> SUFFICES ASSUME NEW i \in FirstVisible(chain, t, seen), n < i
               PROVE  FALSE
    BY <1>1 DEF FirstVisible
  <2>1. i \in 1 .. Len(chain) /\ \A j \in 1 .. (i - 1) : ~IsVisible(chain[j], t, seen)
    BY <1>1 DEF FirstVisible
  <2>2. n \in 1 .. Len(chain) /\ chain[n].txid < h
    BY <1>1, <2>1 DEF KeepCount
  <2>3. IsVisible(chain[n], t, seen)
    BY <1>1, <1>2, <2>2 DEF IsVisible
  <2> QED  BY <2>1, <2>2, <2>3
<1>5. FirstVisible(short, t, seen) = FirstVisible(chain, t, seen)
  BY <1>1, <1>3, <1>4 DEF FirstVisible
<1>6. FirstVisible(chain, t, seen) # {} =>
        LET i == CHOOSE j \in FirstVisible(chain, t, seen) : TRUE
        IN  short[i] = chain[i]
  BY <1>3, <1>4
<1>7. ReadVersion(short, t, seen) = ReadVersion(chain, t, seen)
  BY <1>5, <1>6 DEF ReadVersion
<1> QED  BY <1>7 DEF short

-----------------------------------------------------------------------------
LEMMA InitIInv == MvccInit => VersionsInv
<1> SUFFICES ASSUME MvccInit PROVE VersionsInv
  OBVIOUS
<1> USE MvccAssumption DEF MvccInit, Free, Busy, Identifiers
<1>1. MvccTypeOK
  <2>1. chains \in [DocKeys -> Seq(Version)]
    BY EmptySeq
  <2>2. client \in [Clients -> ClientState]
    BY DEF ClientState, ClientSteps
  <2> QED  BY <2>1, <2>2 DEF MvccTypeOK, Resting
<1>2. IdsOK
  BY DEF IdsOK
<1> QED  BY <1>1, <1>2 DEF VersionsInv

LEMMA NextIInv == VersionsInv /\ [MvccNext]_mvccVars => VersionsInv'
<1> SUFFICES ASSUME VersionsInv, [MvccNext]_mvccVars PROVE VersionsInv'
  OBVIOUS
<1> USE MvccAssumption DEF VersionsInv
<1>0. lastIssued \in Nat /\ \A x \in 1 .. lastIssued : x \in Identifiers
  BY DEF MvccTypeOK, Identifiers
<1>1. ASSUME NEW c \in Clients, BeginTakeId(c) PROVE VersionsInv'
  <2>1. MvccTypeOK'
    BY <1>1 DEF MvccTypeOK, BeginTakeId, NextTxId, Busy, ClientState, ClientSteps, Identifiers
  <2>2. IdsOK'
    BY <1>1 DEF MvccTypeOK, IdsOK, BeginTakeId, NextTxId, Busy, ClientState, Identifiers
  <2> QED  BY <2>1, <2>2
<1>2. ASSUME NEW c \in Clients, BeginSnapshot(c) PROVE VersionsInv'
  <2>1. MvccTypeOK'
    BY <1>2, ZenonT(60) DEF MvccTypeOK, BeginSnapshot, ClientState, ClientSteps, Identifiers
  <2>2. IdsOK'
    BY <1>2 DEF MvccTypeOK, IdsOK, BeginSnapshot, ClientState, Identifiers
  <2> QED  BY <2>1, <2>2
<1>3. ASSUME NEW c \in Clients, BeginRegister(c) PROVE VersionsInv'
  <2>1. MvccTypeOK'
    <3>1. DOMAIN active' \subseteq txnIds'
      BY <1>3 DEF MvccTypeOK, IdsOK, BeginRegister
    <3>2. \A t \in DOMAIN active' : active'[t] \in SUBSET Identifiers
      BY <1>3 DEF MvccTypeOK, BeginRegister, ClientState
    <3>3. client' \in [Clients -> ClientState]
      BY <1>3, ZenonT(60) DEF MvccTypeOK, BeginRegister, ClientState, ClientSteps
    <3> QED  BY <1>3, <3>1, <3>2, <3>3 DEF MvccTypeOK, BeginRegister
  <2>2. IdsOK'
    BY <1>3 DEF MvccTypeOK, IdsOK, BeginRegister, ClientState, Identifiers
  <2> QED  BY <2>1, <2>2
<1>4. ASSUME NEW c \in Clients, NEW t \in Identifiers, FinishTxn(c, t) PROVE VersionsInv'
  <2>1. MvccTypeOK'
    BY <1>4 DEF MvccTypeOK, FinishTxn, Busy, ClientState, ClientSteps, Identifiers
  <2>2. IdsOK'
    BY <1>4 DEF MvccTypeOK, IdsOK, FinishTxn, Busy, ClientState, Identifiers
  <2> QED  BY <2>1, <2>2
<1>5. ASSUME NEW c \in Clients, ComputeHorizon(c) PROVE VersionsInv'
  <2>1. MvccTypeOK'
    <3>1. PICK m \in 0 .. MaxIssuedId :
            client' = [client EXCEPT ![c].at = "store", ![c].low = m]
      BY <1>5 DEF ComputeHorizon
    <3>2. client' \in [Clients -> ClientState]
      BY <3>1, ZenonT(60) DEF MvccTypeOK, ClientState, ClientSteps
    <3> QED  BY <1>5, <3>2 DEF MvccTypeOK, ComputeHorizon
  <2>2. IdsOK'
    BY <1>5 DEF MvccTypeOK, IdsOK, ComputeHorizon, ClientState, Identifiers
  <2> QED  BY <2>1, <2>2
<1>6. ASSUME NEW c \in Clients, StoreHorizon(c) PROVE VersionsInv'
  <2>1. MvccTypeOK'
    BY <1>6 DEF MvccTypeOK, StoreHorizon, Free, Busy, ClientState, ClientSteps, Identifiers
  <2>2. IdsOK'
    BY <1>6 DEF MvccTypeOK, IdsOK, StoreHorizon, Free, Busy, ClientState, Identifiers
  <2> QED  BY <2>1, <2>2
<1>7. ASSUME NEW c \in Clients, WriteTakeId(c) PROVE VersionsInv'
  <2>1. MvccTypeOK'
    <3>1. lastIssued + 1 \in Identifiers
      BY <1>7, <1>0 DEF MvccTypeOK, WriteTakeId, NextTxId, Identifiers
    <3>2. \A d \in ClientsAt("write") : client[d].txid \in Identifiers
      BY <1>0 DEF ClientsAt, IdsOK
    <3>3. overlapped' \subseteq Identifiers \X Identifiers
      BY <1>7, <3>1, <3>2 DEF MvccTypeOK, WriteTakeId
    <3> QED  BY <1>7, <3>3 DEF MvccTypeOK, WriteTakeId, NextTxId, Busy, ClientState, ClientSteps, Identifiers
  <2>2. IdsOK'
    BY <1>7 DEF MvccTypeOK, IdsOK, WriteTakeId, NextTxId, Busy, ClientState, Identifiers
  <2> QED  BY <2>1, <2>2
<1>8. ASSUME NEW c \in Clients, NEW k \in DocKeys, NEW d \in BOOLEAN,
             AddVersion(c, k, d)
      PROVE  VersionsInv'
  <2> DEFINE v == [txid |-> client[c].txid, tombstone |-> d]
  <2>1. v \in Version /\ v.txid \in (1 .. lastIssued) \ txnIds
    BY <1>8, <1>0 DEF AddVersion, IdsOK, Version
  <2>2. chains[k] \in Seq(Version) /\ <<v>> \in Seq(Version)
    BY <2>1 DEF MvccTypeOK
  <2> HIDE DEF v
  <2>3. chains' = [chains EXCEPT ![k] = <<v>> \o chains[k]]
    BY <1>8 DEF AddVersion, v
  <2>4. /\ <<v>> \o chains[k] \in Seq(Version)
        /\ \A i \in DOMAIN (<<v>> \o chains[k]) :
             (<<v>> \o chains[k])[i].txid \in (1 .. lastIssued) \ txnIds
    BY <2>1, <2>2, ConcatProperties DEF IdsOK
  <2>5. MvccTypeOK'
    BY <1>8, <2>3, <2>4 DEF MvccTypeOK, AddVersion, Free, Busy, ClientState, ClientSteps
  <2>6. IdsOK'
    BY <1>8, <2>3, <2>4
       DEF MvccTypeOK, IdsOK, AddVersion, Free, Busy, ClientState
  <2> QED  BY <2>5, <2>6
<1>9. ASSUME NEW g \in GcWorkers, GcLoadHorizon(g) PROVE VersionsInv'
  BY <1>9 DEF MvccTypeOK, IdsOK, GcLoadHorizon
<1>10. ASSUME NEW g \in GcWorkers, GcPurge(g) PROVE VersionsInv'
  <2>1. PICK keep \in [DocKeys -> 0 .. MaxIssuedId] :
          /\ \A k \in DocKeys : KeepCount(chains[k], collector[g], keep[k])
          /\ chains' = [k \in DocKeys |-> SubSeq(chains[k], 1, keep[k])]
    BY <1>10 DEF GcPurge
  <2>2. ASSUME NEW k \in DocKeys
        PROVE  /\ chains'[k] \in Seq(Version)
               /\ \A i \in DOMAIN chains'[k] :
                    i \in DOMAIN chains[k] /\ chains'[k][i] = chains[k][i]
    <3>1. /\ chains[k] \in Seq(Version) /\ keep[k] \in Nat
          /\ collector[g] \in Int
          /\ KeepCount(chains[k], collector[g], keep[k])
      BY <2>1, <2>2 DEF MvccTypeOK, Resting
    <3>2. chains'[k] = SubSeq(chains[k], 1, keep[k])
      BY <2>1, <2>2
    <3>3. /\ SubSeq(chains[k], 1, keep[k]) \in Seq(Version)
          /\ DOMAIN SubSeq(chains[k], 1, keep[k]) = 1 .. keep[k]
          /\ \A i \in 1 .. keep[k] :
               /\ i \in DOMAIN chains[k]
               /\ SubSeq(chains[k], 1, keep[k])[i] = chains[k][i]
      BY <3>1, PurgeIsPrefix
    <3> QED  BY <3>2, <3>3
  <2>3. MvccTypeOK'
    BY <1>10, <2>1, <2>2 DEF MvccTypeOK, GcPurge
  <2>4. IdsOK'
    BY <1>10, <2>2 DEF MvccTypeOK, IdsOK, GcPurge
  <2> QED  BY <2>3, <2>4
<1>11. CASE UNCHANGED mvccVars
  BY <1>11 DEF mvccVars, MvccTypeOK, IdsOK
<1> QED
  BY <1>1, <1>2, <1>3, <1>4, <1>5, <1>6, <1>7, <1>8, <1>9, <1>10, <1>11
     DEF MvccNext, ClientStep, GcStep, Commit, Abort

\* The type invariant of Mvcc holds for any number of threads.
THEOREM TypeCorrect == MvccSpec => []MvccTypeOK
<1>1. VersionsInv => MvccTypeOK
  BY DEF VersionsInv
<1> QED  BY InitIInv, NextIInv, <1>1, PTL DEF MvccSpec

\* One purge: the newest version survives, and so does whatever a snapshot at
\* or above the horizon reads.
LEMMA PurgeSpares ==
  ASSUME VersionsInv, NEW g \in GcWorkers, GcPurge(g), NEW k \in DocKeys
  PROVE  /\ chains[k] # <<>> => chains'[k] # <<>> /\ chains'[k][1] = chains[k][1]
         /\ \A t \in DOMAIN active : collector[g] <= t =>
              ReadVersion(chains'[k], t, active[t]) =
              ReadVersion(chains[k], t, active[t])
<1>1. PICK keep \in [DocKeys -> 0 .. MaxIssuedId] :
        /\ \A x \in DocKeys : KeepCount(chains[x], collector[g], keep[x])
        /\ chains' = [x \in DocKeys |-> SubSeq(chains[x], 1, keep[x])]
  BY DEF GcPurge
<1>2. /\ chains[k] \in Seq(Version) /\ keep[k] \in Nat /\ collector[g] \in Int
      /\ KeepCount(chains[k], collector[g], keep[k])
      /\ chains'[k] = SubSeq(chains[k], 1, keep[k])
  BY <1>1, MvccAssumption DEF VersionsInv, MvccTypeOK, Resting
<1>3. chains[k] # <<>> => chains'[k] # <<>> /\ chains'[k][1] = chains[k][1]
  BY <1>2, PurgeIsPrefix, EmptySeq DEF KeepCount
<1>4. ASSUME NEW t \in DOMAIN active, collector[g] <= t
      PROVE  ReadVersion(chains'[k], t, active[t]) =
             ReadVersion(chains[k], t, active[t])
  <2>1. \A i \in DOMAIN chains[k] : chains[k][i].txid \notin active[t]
    <3>1. \A i \in DOMAIN chains[k] : chains[k][i].txid \notin txnIds
      BY DEF VersionsInv, IdsOK
    <3>2. active[t] \subseteq txnIds
      BY <1>4 DEF VersionsInv, IdsOK
    <3> QED  BY <3>1, <3>2
  <2>2. t \in Int
    <3>1. t \in Identifiers
      BY <1>4 DEF VersionsInv, MvccTypeOK
    <3> QED  BY <3>1, MvccAssumption DEF Identifiers
  <2>3. ReadVersion(SubSeq(chains[k], 1, keep[k]), t, active[t]) =
        ReadVersion(chains[k], t, active[t])
    <3> DEFINE chain == chains[k]
               seen  == active[t]
               h     == collector[g]
               n     == keep[k]
    <3>1. /\ chain \in Seq(Version) /\ h \in Int /\ n \in Nat
          /\ KeepCount(chain, h, n) /\ h <= t
          /\ \A i \in DOMAIN chain : chain[i].txid \notin seen
      BY <1>2, <1>4, <2>1
    <3> HIDE DEF chain, seen, h, n
    <3>2. ReadVersion(SubSeq(chain, 1, n), t, seen) = ReadVersion(chain, t, seen)
      BY <2>2, <3>1, PurgeKeepsFirstVisible
    <3> QED  BY <3>2 DEF chain, seen, h, n
  <2> QED  BY <1>2, <2>3
<1> QED  BY <1>3, <1>4

\* Whatever the threads do, a purge changes nothing that a snapshot at or
\* above the horizon it used can read, and never the newest version of a key.
THEOREM GcIsSafe == MvccSpec => GcSparesAboveHorizon
<1>1. VersionsInv => \A g \in GcWorkers : GcPurge(g) =>
       \A k \in DocKeys :
         /\ chains[k] # <<>> => chains'[k] # <<>> /\ chains'[k][1] = chains[k][1]
         /\ \A t \in DOMAIN active : collector[g] <= t =>
              ReadVersion(chains'[k], t, active[t]) =
              ReadVersion(chains[k], t, active[t])
  BY PurgeSpares
<1> QED
  BY InitIInv, NextIInv, <1>1, PTL DEF MvccSpec, GcSparesAboveHorizon

-----------------------------------------------------------------------------
(* The horizon                                                             *)

\* A thread that is about to store a horizon holds the table, so that what it
\* computed is still below every transaction in it.
HorizonInv ==
  /\ HorizonBelowActive
  /\ \A c \in ClientsAt("store") : \A t \in DOMAIN active : client[c].low <= t

LEMMA InitHorizonInv == MvccInit => HorizonInv
BY DEF MvccInit, HorizonInv, HorizonBelowActive, ClientsAt, Free, Busy

\* A transaction has begun after a step of c if it had before, or if the step
\* ended its begin.
LEMMA BegunBefore ==
  ASSUME VersionsInv, NEW c \in Clients, NEW t,
         \A d \in Clients \ {c} : client'[d] = client[d],
         client[c].at \in {"horizon", "store"} /\ client[c].txid = t =>
           client'[c].at \in {"horizon", "store"} /\ client'[c].txid = t,
         t \in DOMAIN active, Begun(t)'
  PROVE  Begun(t)
BY DEF Begun, ClientsAt

\* What the steps that only move one thread along leave it at.
LEMMA ThreadMoves ==
  ASSUME VersionsInv, NEW c \in Clients
  PROVE  /\ BeginTakeId(c) => client' = [client EXCEPT ![c] = Busy("take", lastIssued + 1)]
         /\ WriteTakeId(c) => client' = [client EXCEPT ![c] = Busy("write", lastIssued + 1)]
         /\ \A k \in DocKeys, d \in BOOLEAN : AddVersion(c, k, d) =>
              /\ client' = [client EXCEPT ![c] = Free] /\ client[c].at = "write"
              /\ UNCHANGED <<active, horizon, collector>>
BY DEF BeginTakeId, WriteTakeId, NextTxId, AddVersion

LEMMA NextHorizonInv ==
  ASSUME VersionsInv, HorizonInv, [MvccNext]_mvccVars
  PROVE  HorizonInv'
<1>0. /\ lastIssued \in Nat /\ horizon \in Nat
      /\ \A t \in DOMAIN active : t \in Nat /\ t <= lastIssued
      /\ client \in [Clients -> ClientState]
  <2>1. lastIssued \in Nat /\ horizon \in Nat /\ client \in [Clients -> ClientState]
    BY MvccAssumption DEF VersionsInv, MvccTypeOK
  <2>2. \A t \in DOMAIN active : t \in 1 .. lastIssued
    BY DEF VersionsInv, MvccTypeOK, IdsOK
  <2> QED  BY <2>1, <2>2
<1>1. ASSUME NEW c \in Clients, NEW at \in ClientSteps \ {"store"},
             UNCHANGED <<active, horizon>>,
             \A d \in Clients \ {c} : client'[d] = client[d],
             client[c].at \notin {"horizon", "store"}, client'[c].at # "store"
      PROVE  HorizonInv'
  BY <1>0, <1>1 DEF HorizonInv, HorizonBelowActive, Begun, ClientsAt
<1>2. ASSUME NEW c \in Clients,
             BeginTakeId(c) \/ BeginSnapshot(c) \/ WriteTakeId(c)
             \/ \E k \in DocKeys, d \in BOOLEAN : AddVersion(c, k, d)
      PROVE  HorizonInv'
  <2> DEFINE Moved == /\ UNCHANGED <<active, horizon>>
                      /\ \A d \in Clients \ {c} : client'[d] = client[d]
                      /\ client[c].at \notin {"horizon", "store"} /\ client'[c].at # "store"
  <2>a. ASSUME BeginTakeId(c) \/ WriteTakeId(c) PROVE Moved
    <3>1. UNCHANGED <<active, horizon>> /\ client[c].at = "idle"
      BY <2>a DEF BeginTakeId, WriteTakeId, NextTxId
    <3> QED  BY <1>0, <2>a, <3>1, ThreadMoves DEF Busy
  <2>b. ASSUME BeginSnapshot(c) PROVE Moved
    BY <1>0, <2>b DEF BeginSnapshot, ClientState
  <2>c. ASSUME NEW k \in DocKeys, NEW d \in BOOLEAN, AddVersion(c, k, d) PROVE Moved
    BY <1>0, <2>c, ThreadMoves DEF Free, Busy
  <2>1. Moved
    BY <1>2, <2>a, <2>b, <2>c
  <2> QED  BY <1>1, <2>1 DEF ClientSteps
<1>3. ASSUME NEW c \in Clients, BeginRegister(c) PROVE HorizonInv'
  <2>1. /\ DOMAIN active' = DOMAIN active \cup {client[c].txid}
        /\ horizon' = horizon
        /\ \A d \in Clients \ {c} : client'[d] = client[d]
        /\ client'[c].at = "horizon" /\ client'[c].txid = client[c].txid
        /\ client[c].at = "register" /\ ClientsAt("store") = {}
    BY <1>0, <1>3 DEF BeginRegister, TableUnlocked, ClientsAt, ClientState
  <2>2. ClientsAt("store")' = {}
    BY <2>1 DEF ClientsAt
  <2>3. ASSUME NEW t \in DOMAIN active', Begun(t)' PROVE horizon' <= t
    <3>1. t # client[c].txid
      BY <2>1, <2>3 DEF Begun, ClientsAt
    <3>2. t \in DOMAIN active /\ Begun(t)
      BY <2>1, <2>3, <3>1, BegunBefore
    <3> QED  BY <2>1, <3>2 DEF HorizonInv, HorizonBelowActive
  <2> QED  BY <2>2, <2>3 DEF HorizonInv, HorizonBelowActive
<1>4. ASSUME NEW c \in Clients, NEW t \in Identifiers, FinishTxn(c, t)
      PROVE  HorizonInv'
  <2>1. /\ DOMAIN active' = DOMAIN active \ {t}
        /\ horizon' = horizon
        /\ \A d \in Clients \ {c} : client'[d] = client[d]
        /\ client'[c].at = "horizon" /\ client[c].at = "idle" /\ ClientsAt("store") = {}
    BY <1>0, <1>4 DEF FinishTxn, TableUnlocked, ClientsAt, Busy
  <2>2. ClientsAt("store")' = {}
    BY <2>1 DEF ClientsAt
  <2>3. ASSUME NEW u \in DOMAIN active', Begun(u)' PROVE horizon' <= u
    <3>1. u \in DOMAIN active /\ Begun(u)
      BY <2>1, <2>3, BegunBefore
    <3> QED  BY <2>1, <3>1 DEF HorizonInv, HorizonBelowActive
  <2> QED  BY <2>2, <2>3 DEF HorizonInv, HorizonBelowActive
<1>5. ASSUME NEW c \in Clients, ComputeHorizon(c) PROVE HorizonInv'
  <2>1. PICK m \in 0 .. MaxIssuedId :
          /\ IF DOMAIN active = {} THEN m = lastIssued
                                   ELSE IsMinimum(m, DOMAIN active)
          /\ client' = [client EXCEPT ![c].at = "store", ![c].low = m]
    BY <1>5 DEF ComputeHorizon
  <2>2. \A t \in DOMAIN active : m <= t
    BY <1>0, <2>1 DEF IsMinimum
  <2>3. /\ UNCHANGED <<active, horizon>>
        /\ \A d \in Clients \ {c} : client'[d] = client[d]
        /\ client[c].at = "horizon"
        /\ client'[c].at = "store" /\ client'[c].low = m /\ client'[c].txid = client[c].txid
    BY <1>0, <1>5, <2>1 DEF ComputeHorizon, ClientState
  <2>4. \A t \in DOMAIN active : Begun(t)' => Begun(t)
    BY <2>3, BegunBefore
  <2> QED  BY <2>2, <2>3, <2>4 DEF HorizonInv, HorizonBelowActive, ClientsAt
<1>6. ASSUME NEW c \in Clients, StoreHorizon(c) PROVE HorizonInv'
  <2>1. /\ UNCHANGED active /\ horizon' = client[c].low /\ c \in ClientsAt("store")
        /\ \A d \in Clients \ {c} : client'[d] = client[d]
        /\ client'[c].at = "idle"
    BY <1>0, <1>6 DEF StoreHorizon, ClientsAt, Free, Busy
  <2> QED  BY <2>1 DEF HorizonInv, HorizonBelowActive, ClientsAt
<1>7. ASSUME UNCHANGED <<active, horizon, client>> PROVE HorizonInv'
  BY <1>7 DEF HorizonInv, HorizonBelowActive, Begun, ClientsAt
<1>8. ASSUME NEW g \in GcWorkers, GcStep(g) PROVE HorizonInv'
  BY <1>7, <1>8 DEF GcStep, GcLoadHorizon, GcPurge
<1>9. CASE UNCHANGED mvccVars
  BY <1>7, <1>9 DEF mvccVars
<1> QED
  BY <1>2, <1>3, <1>4, <1>5, <1>6, <1>8, <1>9 DEF MvccNext, ClientStep, Commit, Abort

\* With any number of threads the horizon is at or below every transaction
\* whose begin has returned.
THEOREM HorizonIsSafe == MvccSpec => []HorizonBelowActive
<1>1. HorizonInv => HorizonBelowActive
  BY DEF HorizonInv
<1>2. VersionsInv /\ HorizonInv /\ [MvccNext]_mvccVars => (VersionsInv /\ HorizonInv)'
  BY NextIInv, NextHorizonInv
<1> QED  BY InitIInv, InitHorizonInv, <1>1, <1>2, PTL DEF MvccSpec

\* A version pushed in front moves the others one place down the chain.
LEMMA PushedInFront ==
  ASSUME NEW chain \in Seq(Version), NEW v \in Version
  PROVE  LET long == <<v>> \o chain
         IN  /\ DOMAIN long = 1 .. Len(chain) + 1
             /\ long[1] = v
             /\ \A i \in 1 .. Len(chain) : long[i + 1] = chain[i]
<1>1. Len(chain) \in Nat /\ <<v>> \in Seq(Version) /\ Len(<<v>>) = 1 /\ <<v>>[1] = v
  OBVIOUS
<1> DEFINE one == <<v>>
<1> HIDE DEF one
<1>2. /\ one \o chain \in Seq(Version)
      /\ Len(one \o chain) = Len(one) + Len(chain)
      /\ \A i \in 1 .. Len(one) + Len(chain) : (one \o chain)[i] =
           IF i <= Len(one) THEN one[i] ELSE chain[i - Len(one)]
  BY <1>1, ConcatProperties DEF one
<1>3. Len(one) = 1 /\ one[1] = v
  BY <1>1 DEF one
<1>4. \A i \in 1 .. Len(chain) :
        i + 1 \in 1 .. 1 + Len(chain) /\ ~(i + 1 <= 1) /\ (i + 1) - 1 = i
  BY <1>1
<1> QED  BY <1>1, <1>2, <1>3, <1>4 DEF one

\* A version no snapshot at t sees moves the others one place down a chain.
LEMMA InvisibleHead ==
  ASSUME NEW chain \in Seq(Version), NEW v \in Version, NEW t, NEW seen,
         ~IsVisible(v, t, seen)
  PROVE  ReadVersion(<<v>> \o chain, t, seen) = ReadVersion(chain, t, seen)
<1> DEFINE long == <<v>> \o chain
           F    == FirstVisible(chain, t, seen)
           G    == FirstVisible(long, t, seen)
<1>1. Len(chain) \in Nat /\ DOMAIN chain = 1 .. Len(chain)
  OBVIOUS
<1>2. /\ DOMAIN long = 1 .. Len(chain) + 1
      /\ long[1] = v
      /\ \A i \in 1 .. Len(chain) : long[i + 1] = chain[i]
  BY PushedInFront
<1> HIDE DEF long
<1>3. \A i \in F : i + 1 \in G
  <2> SUFFICES ASSUME NEW i \in F PROVE i + 1 \in G
    OBVIOUS
  <2>1. i \in 1 .. Len(chain) /\ long[i + 1] = chain[i]
    BY <1>1, <1>2 DEF FirstVisible
  <2>2. \A j \in 1 .. i : ~IsVisible(long[j], t, seen)
    <3> SUFFICES ASSUME NEW j \in 1 .. i PROVE ~IsVisible(long[j], t, seen)
      OBVIOUS
    <3>1. CASE j = 1
      BY <1>2, <3>1
    <3>2. CASE j # 1
      <4>1. j - 1 \in 1 .. (i - 1) /\ j - 1 \in 1 .. Len(chain)
            /\ (j - 1) + 1 = j
        BY <2>1, <3>2
      <4>2. long[j] = chain[j - 1]
        BY <1>2, <4>1
      <4> QED  BY <4>1, <4>2 DEF FirstVisible
    <3> QED  BY <3>1, <3>2
  <2>3. (i + 1) - 1 = i /\ i + 1 \in DOMAIN long
    BY <1>2, <2>1
  <2> QED  BY <2>1, <2>2, <2>3 DEF FirstVisible
<1>4. \A i \in G : i - 1 \in F /\ i \in 2 .. Len(chain) + 1
  <2> SUFFICES ASSUME NEW i \in G
               PROVE  i - 1 \in F /\ i \in 2 .. Len(chain) + 1
    OBVIOUS
  <2>1. /\ i \in 1 .. Len(chain) + 1
        /\ IsVisible(long[i], t, seen)
        /\ \A j \in 1 .. (i - 1) : ~IsVisible(long[j], t, seen)
    BY <1>2 DEF FirstVisible
  <2>2. i # 1
    BY <1>2, <2>1
  <2>3. i - 1 \in 1 .. Len(chain) /\ (i - 1) + 1 = i
    BY <1>1, <2>1, <2>2
  <2>4. \A j \in 1 .. (i - 1) - 1 : ~IsVisible(chain[j], t, seen)
    <3> SUFFICES ASSUME NEW j \in 1 .. (i - 1) - 1
                 PROVE  ~IsVisible(chain[j], t, seen)
      OBVIOUS
    <3>1. j \in 1 .. Len(chain) /\ j + 1 \in 1 .. (i - 1)
      BY <2>3
    <3> QED  BY <1>2, <2>1, <3>1
  <2> QED  BY <1>1, <1>2, <2>1, <2>3, <2>4 DEF FirstVisible
<1>5. \A i, j \in F : i = j
  <2> SUFFICES ASSUME NEW i \in F, NEW j \in F, i < j PROVE FALSE
    BY <1>1 DEF FirstVisible
  <2> QED  BY <1>1 DEF FirstVisible
<1>6. \A i, j \in G : i = j
  BY <1>4, <1>5
<1>7. CASE F = {}
  BY <1>4, <1>7 DEF ReadVersion, long
<1>8. CASE F # {}
  <2> DEFINE f == CHOOSE j \in F : TRUE
             g == CHOOSE j \in G : TRUE
  <2>1. f \in F /\ f + 1 \in G /\ g \in G
    BY <1>3, <1>8
  <2>2. g = f + 1
    BY <2>1, <1>6
  <2>3. f \in 1 .. Len(chain)
    BY <2>1, <1>1 DEF FirstVisible
  <2>4. long[g] = chain[f]
    BY <2>2, <2>3, <1>2
  <2>5. G # {}
    BY <2>1
  <2> QED  BY <1>8, <2>4, <2>5 DEF ReadVersion, long
<1> QED  BY <1>7, <1>8

\* No step changes what a settled transaction reads.
LEMMA StableStep ==
  ASSUME VersionsInv, [MvccNext]_mvccVars,
         NEW t \in DOMAIN active, Settled(t), NEW k \in DocKeys
  PROVE  ReadVersion(chains'[k], t, active[t]) =
         ReadVersion(chains[k], t, active[t])
<1>1. ASSUME NEW c \in Clients, NEW x \in DocKeys, NEW d \in BOOLEAN,
             AddVersion(c, x, d)
      PROVE  ReadVersion(chains'[k], t, active[t]) =
             ReadVersion(chains[k], t, active[t])
  <2> DEFINE v == [txid |-> client[c].txid, tombstone |-> d]
  <2>1. CASE x # k
    BY <1>1, <2>1 DEF AddVersion, VersionsInv, MvccTypeOK
  <2>2. CASE x = k
    <3>1. /\ client[c].at = "write" /\ chains \in [DocKeys -> Seq(Version)]
          /\ chains' = [chains EXCEPT ![k] = <<v>> \o chains[k]]
      BY <1>1, <2>2 DEF AddVersion, VersionsInv, MvccTypeOK
    <3>2. client[c].txid \in Identifiers /\ t \in Identifiers /\ Identifiers \subseteq Int
      <4>1. client[c].txid \in 1 .. lastIssued /\ lastIssued \in 0 .. MaxIssuedId
        BY <3>1 DEF VersionsInv, IdsOK, MvccTypeOK
      <4>2. t \in Identifiers
        BY DEF VersionsInv, MvccTypeOK
      <4> QED  BY <4>1, <4>2, MvccAssumption DEF Identifiers
    <3>3. v \in Version /\ ~(v.txid <= t)
      BY <3>1, <3>2 DEF Version, Settled, ClientsAt
    <3> HIDE DEF v
    <3>4. ~IsVisible(v, t, active[t])
      BY <3>3 DEF IsVisible
    <3>5. chains[k] \in Seq(Version) /\ chains'[k] = <<v>> \o chains[k]
      BY <3>1
    <3> DEFINE chain == chains[k]
               seen  == active[t]
    <3>6. chain \in Seq(Version) /\ ~IsVisible(v, t, seen)
      BY <3>4, <3>5
    <3> HIDE DEF chain, seen
    <3>7. ReadVersion(<<v>> \o chain, t, seen) = ReadVersion(chain, t, seen)
      BY <3>3, <3>6, InvisibleHead
    <3> QED  BY <3>5, <3>7 DEF chain, seen
  <2> QED  BY <2>1, <2>2
<1>2. ASSUME NEW g \in GcWorkers, GcPurge(g)
      PROVE  ReadVersion(chains'[k], t, active[t]) =
             ReadVersion(chains[k], t, active[t])
  <2>1. collector[g] <= t
    BY DEF Settled
  <2> QED  BY <1>2, <2>1, PurgeSpares
<1>3. CASE UNCHANGED chains
  BY <1>3
<1>4. ASSUME NEW c \in Clients, ClientStep(c)
      PROVE  \/ UNCHANGED chains
             \/ \E x \in DocKeys, d \in BOOLEAN : AddVersion(c, x, d)
  BY <1>4 DEF ClientStep, BeginTakeId, WriteTakeId, NextTxId, BeginSnapshot,
              BeginRegister, Commit, Abort, FinishTxn, ComputeHorizon,
              StoreHorizon
<1>5. ASSUME NEW g \in GcWorkers, GcStep(g)
      PROVE  UNCHANGED chains \/ GcPurge(g)
  BY <1>5 DEF GcStep, GcLoadHorizon
<1> QED
  BY <1>1, <1>2, <1>3, <1>4, <1>5 DEF MvccNext, mvccVars

\* An identifier that is not yet in the table is of one thread alone.
FreshIds ==
  \A c, d \in ClientsAt("take") \cup ClientsAt("register") :
    /\ client[c].txid \notin DOMAIN active
    /\ c # d => client[c].txid # client[d].txid

LEMMA InitFreshIds == MvccInit => FreshIds
BY DEF MvccInit, FreshIds, ClientsAt, Free, Busy

LEMMA NextFreshIds ==
  ASSUME VersionsInv, FreshIds, [MvccNext]_mvccVars
  PROVE  FreshIds'
<1>0. /\ lastIssued \in Nat /\ lastIssued + 1 \notin txnIds
      /\ DOMAIN active \subseteq txnIds
      /\ client \in [Clients -> ClientState]
      /\ \A c \in ClientsAt("take") \cup ClientsAt("register") : client[c].txid \in txnIds
  <2>1. lastIssued \in Nat /\ client \in [Clients -> ClientState] /\ DOMAIN active \subseteq txnIds
    BY MvccAssumption DEF VersionsInv, MvccTypeOK
  <2>2. txnIds \subseteq 1 .. lastIssued
    BY DEF VersionsInv, IdsOK
  <2>3. lastIssued + 1 \notin txnIds
    BY <2>1, <2>2
  <2>4. \A c \in ClientsAt("take") \cup ClientsAt("register") : client[c].txid \in txnIds
    BY DEF VersionsInv, IdsOK, ClientsAt
  <2> QED  BY <2>1, <2>3, <2>4
<1>1. ASSUME NEW c \in Clients, \A d \in Clients \ {c} : client'[d] = client[d],
             client'[c].at \notin {"take", "register"},
             DOMAIN active' \subseteq DOMAIN active
      PROVE  FreshIds'
  BY <1>1 DEF FreshIds, ClientsAt
<1>2. ASSUME NEW c \in Clients, BeginTakeId(c) PROVE FreshIds'
  <2>1. /\ UNCHANGED active
        /\ \A d \in Clients \ {c} : client'[d] = client[d]
        /\ client'[c].at = "take" /\ client'[c].txid = lastIssued + 1
    BY <1>0, <1>2 DEF BeginTakeId, NextTxId, Busy
  <2> QED  BY <1>0, <2>1 DEF FreshIds, ClientsAt
<1>3. ASSUME NEW c \in Clients, BeginSnapshot(c) PROVE FreshIds'
  <2>1. /\ UNCHANGED active /\ client[c].at = "take"
        /\ \A d \in Clients \ {c} : client'[d] = client[d]
        /\ client'[c].at = "register" /\ client'[c].txid = client[c].txid
    BY <1>0, <1>3 DEF BeginSnapshot, ClientState
  <2> QED  BY <2>1 DEF FreshIds, ClientsAt
<1>4. ASSUME NEW c \in Clients, BeginRegister(c) PROVE FreshIds'
  <2>1. /\ DOMAIN active' = DOMAIN active \cup {client[c].txid} /\ client[c].at = "register"
        /\ \A d \in Clients \ {c} : client'[d] = client[d]
        /\ client'[c].at = "horizon"
    BY <1>0, <1>4 DEF BeginRegister, ClientState
  <2> QED  BY <2>1 DEF FreshIds, ClientsAt
<1>5. ASSUME NEW c \in Clients, NEW t \in Identifiers, FinishTxn(c, t) PROVE FreshIds'
  <2>1. /\ DOMAIN active' \subseteq DOMAIN active
        /\ \A d \in Clients \ {c} : client'[d] = client[d]
        /\ client'[c].at = "horizon"
    BY <1>0, <1>5 DEF FinishTxn, Busy
  <2> QED  BY <1>1, <2>1
<1>6. ASSUME NEW c \in Clients,
             ComputeHorizon(c) \/ StoreHorizon(c) \/ WriteTakeId(c)
             \/ \E k \in DocKeys, d \in BOOLEAN : AddVersion(c, k, d)
      PROVE  FreshIds'
  <2> DEFINE Moved == /\ UNCHANGED active
                      /\ \A d \in Clients \ {c} : client'[d] = client[d]
                      /\ client'[c].at \notin {"take", "register"}
  <2>a. ASSUME ComputeHorizon(c) PROVE Moved
    BY <1>0, <2>a DEF ComputeHorizon, ClientState
  <2>b. ASSUME StoreHorizon(c) PROVE Moved
    BY <1>0, <2>b DEF StoreHorizon, Free, Busy
  <2>c. ASSUME WriteTakeId(c) PROVE Moved
    <3>1. UNCHANGED active
      BY <2>c DEF WriteTakeId, NextTxId
    <3> QED  BY <1>0, <2>c, <3>1, ThreadMoves DEF Busy
  <2>d. ASSUME NEW k \in DocKeys, NEW d \in BOOLEAN, AddVersion(c, k, d) PROVE Moved
    BY <1>0, <2>d, ThreadMoves DEF Free, Busy
  <2>1. Moved
    BY <1>6, <2>a, <2>b, <2>c, <2>d
  <2> QED  BY <1>1, <2>1
<1>7. ASSUME UNCHANGED <<active, client>> PROVE FreshIds'
  BY <1>7 DEF FreshIds, ClientsAt
<1>8. ASSUME NEW g \in GcWorkers, GcStep(g) PROVE FreshIds'
  BY <1>7, <1>8 DEF GcStep, GcLoadHorizon, GcPurge
<1>9. CASE UNCHANGED mvccVars
  BY <1>7, <1>9 DEF mvccVars
<1> QED
  BY <1>2, <1>3, <1>4, <1>5, <1>6, <1>8, <1>9 DEF MvccNext, ClientStep, Commit, Abort

\* Nothing that begins later unsettles a transaction: a new identifier is
\* above its own, and the horizon is not.
LEMMA SettledStep ==
  ASSUME VersionsInv, HorizonInv, FreshIds, [MvccNext]_mvccVars,
         NEW t \in DOMAIN active, t \in DOMAIN active', Settled(t)
  PROVE  Settled(t)'
<1>0. /\ lastIssued \in Nat /\ t \in Nat /\ t <= lastIssued /\ horizon <= t
      /\ client \in [Clients -> ClientState]
      /\ \A g \in GcWorkers : collector[g] <= t
      /\ \A c \in Clients : client[c].at \in {"horizon", "store"} => client[c].txid # t
      /\ \A c \in Clients : client[c].at = "write" => client[c].txid > t
  <2>1. lastIssued \in Nat /\ client \in [Clients -> ClientState]
    BY MvccAssumption DEF VersionsInv, MvccTypeOK
  <2>2. t \in 1 .. lastIssued
    BY DEF VersionsInv, MvccTypeOK, IdsOK
  <2>3. horizon <= t
    BY DEF HorizonInv, HorizonBelowActive, Settled
  <2> QED  BY <2>1, <2>2, <2>3 DEF Settled, Begun, ClientsAt
<1>1. ASSUME NEW c \in Clients, UNCHANGED collector,
             \A d \in Clients \ {c} : client'[d] = client[d],
             client'[c].at \in {"horizon", "store"} => client'[c].txid # t,
             client'[c].at = "write" => client'[c].txid > t
      PROVE  Settled(t)'
  BY <1>0, <1>1 DEF Settled, Begun, ClientsAt
<1>2. ASSUME NEW c \in Clients, ClientStep(c)
      PROVE  Settled(t)'
  <2> DEFINE Calm == /\ UNCHANGED collector
                     /\ \A d \in Clients \ {c} : client'[d] = client[d]
                     /\ client'[c].at \in {"horizon", "store"} => client'[c].txid # t
                     /\ client'[c].at = "write" => client'[c].txid > t
  <2>1. ASSUME BeginTakeId(c) \/ WriteTakeId(c) PROVE Calm
    <3>1. PICK step \in {"take", "write"} :
            client' = [client EXCEPT ![c] = Busy(step, lastIssued + 1)]
      BY <2>1 DEF BeginTakeId, WriteTakeId, NextTxId
    <3>2. UNCHANGED collector
      BY <2>1 DEF BeginTakeId, WriteTakeId, NextTxId
    <3> QED  BY <1>0, <3>1, <3>2 DEF Busy
  <2>2. ASSUME BeginSnapshot(c) PROVE Calm
    BY <1>0, <2>2 DEF BeginSnapshot, ClientState
  <2>3. ASSUME BeginRegister(c) PROVE Calm
    <3>1. client[c].txid # t
      BY <2>3 DEF FreshIds, ClientsAt, BeginRegister
    <3> QED  BY <1>0, <2>3, <3>1 DEF BeginRegister, ClientState
  <2>4. ASSUME NEW u \in Identifiers, FinishTxn(c, u) PROVE Calm
    <3>1. UNCHANGED collector /\ client' = [client EXCEPT ![c] = Busy("horizon", 0)]
      BY <2>4 DEF FinishTxn
    <3>2. t # 0
      BY DEF VersionsInv, MvccTypeOK, Identifiers
    <3> QED  BY <1>0, <3>1, <3>2 DEF Busy
  <2>5. ASSUME ComputeHorizon(c) PROVE Calm
    <3>1. PICK m \in 0 .. MaxIssuedId :
            client' = [client EXCEPT ![c].at = "store", ![c].low = m]
      BY <2>5 DEF ComputeHorizon
    <3>2. UNCHANGED collector /\ client[c].at = "horizon"
      BY <2>5 DEF ComputeHorizon
    <3> QED  BY <1>0, <3>1, <3>2 DEF ClientState
  <2>6. ASSUME StoreHorizon(c) \/ \E k \in DocKeys, d \in BOOLEAN : AddVersion(c, k, d)
        PROVE  Calm
    <3>1. CASE StoreHorizon(c)
      BY <1>0, <3>1 DEF StoreHorizon, Free, Busy
    <3>2. ASSUME NEW k \in DocKeys, NEW d \in BOOLEAN, AddVersion(c, k, d) PROVE Calm
      BY <1>0, <3>2, ThreadMoves DEF Free, Busy
    <3> QED  BY <2>6, <3>1, <3>2
  <2>7. Calm
    BY <1>2, <2>1, <2>2, <2>3, <2>4, <2>5, <2>6 DEF ClientStep, Commit, Abort
  <2> QED  BY <1>1, <2>7
<1>3. ASSUME NEW g \in GcWorkers, GcStep(g) PROVE Settled(t)'
  <2>1. UNCHANGED <<active, client>> /\ \A h \in GcWorkers : collector'[h] <= t
    <3>1. CASE GcLoadHorizon(g)
      BY <1>0, <3>1 DEF GcLoadHorizon, VersionsInv, MvccTypeOK
    <3>2. CASE GcPurge(g)
      BY <1>0, <3>2 DEF GcPurge, Resting, VersionsInv, MvccTypeOK
    <3> QED  BY <1>3, <3>1, <3>2 DEF GcStep
  <2> QED  BY <2>1 DEF Settled, Begun, ClientsAt
<1>4. CASE UNCHANGED mvccVars
  BY <1>4 DEF mvccVars, Settled, Begun, ClientsAt
<1> QED  BY <1>2, <1>3, <1>4 DEF MvccNext

\* With any number of threads and workers, what a transaction reads is the
\* same from the moment it is settled to its end, and it stays settled.
THEOREM SnapshotsAreStable == MvccSpec => SnapshotStable
<1> DEFINE Inv == VersionsInv /\ HorizonInv /\ FreshIds
<1>1. MvccInit => Inv
  BY InitIInv, InitHorizonInv, InitFreshIds
<1>2. Inv /\ [MvccNext]_mvccVars => Inv'
  BY NextIInv, NextHorizonInv, NextFreshIds
<1>3. Inv /\ [MvccNext]_mvccVars =>
        \A t \in DOMAIN active \cap DOMAIN active' : Settled(t) =>
          /\ Settled(t)'
          /\ \A k \in DocKeys : ReadVersion(chains'[k], t, active[t]) =
                                 ReadVersion(chains[k], t, active[t])
  BY StableStep, SettledStep
<1> HIDE DEF Inv
<1> QED  BY <1>1, <1>2, <1>3, PTL DEF MvccSpec, SnapshotStable

-----------------------------------------------------------------------------
(* Versions enter a chain in the order of their ids, or overlapped.        *)

\* The write w took its identifier after v, or before it and was under way
\* still.
NewerThan(w, v) == w > v \/ <<w, v>> \in overlapped

OrderInv ==
  /\ NewestFirst
  /\ \A c \in ClientsAt("write") : \A k \in DocKeys : \A i \in DOMAIN chains[k] :
       NewerThan(client[c].txid, chains[k][i].txid)
  /\ \A c, d \in ClientsAt("write") : c # d => NewerThan(client[c].txid, client[d].txid)

LEMMA NextOrderInv ==
  ASSUME VersionsInv, OrderInv, [MvccNext]_mvccVars
  PROVE  OrderInv'
<1> USE MvccAssumption DEF VersionsInv
<1>0. /\ lastIssued \in Nat /\ client \in [Clients -> ClientState]
      /\ chains \in [DocKeys -> Seq(Version)]
      /\ \A k \in DocKeys : \A i \in DOMAIN chains[k] :
           chains[k][i].txid \in Nat /\ chains[k][i].txid <= lastIssued
      /\ \A c \in ClientsAt("write") : client[c].txid \in Nat /\ client[c].txid <= lastIssued
  BY DEF MvccTypeOK, IdsOK, ClientsAt
<1>1. ASSUME NEW c \in Clients, WriteTakeId(c) PROVE OrderInv'
  <2> DEFINE new == lastIssued + 1
             W == ClientsAt("write")
  <2>1. /\ UNCHANGED chains
        /\ \A d \in Clients \ {c} : client'[d] = client[d]
        /\ client'[c].at = "write" /\ client'[c].txid = new
        /\ c \notin W /\ W' = W \cup {c}
    BY <1>0, <1>1 DEF WriteTakeId, NextTxId, Busy, ClientsAt
  <2>2. /\ overlapped \subseteq overlapped'
        /\ \A d \in W : <<client[d].txid, new>> \in overlapped'
    BY <1>1 DEF WriteTakeId
  <2>3. \A x \in Nat : x <= lastIssued => new > x
    BY <1>0
  <2> HIDE DEF new, W
  <2>4. NewestFirst'
    BY <2>1, <2>2 DEF OrderInv, NewestFirst
  <2>5. \A d \in W' : \A k \in DocKeys : \A i \in DOMAIN chains'[k] :
          NewerThan(client[d].txid, chains[k][i].txid)' 
    BY <1>0, <2>1, <2>2, <2>3 DEF OrderInv, NewerThan, W, ClientsAt
  <2>6. \A d, e \in W' : d # e => NewerThan(client[d].txid, client[e].txid)'
    BY <1>0, <2>1, <2>2, <2>3 DEF OrderInv, NewerThan, W, ClientsAt
  <2> QED  BY <2>4, <2>5, <2>6 DEF OrderInv, W
<1>2. ASSUME NEW c \in Clients, NEW k \in DocKeys, NEW d \in BOOLEAN, AddVersion(c, k, d)
      PROVE  OrderInv'
  <2> DEFINE v == [txid |-> client[c].txid, tombstone |-> d]
             long == <<v>> \o chains[k]
  <2>1. /\ c \in ClientsAt("write") /\ v \in Version /\ overlapped' = overlapped
        /\ chains' = [chains EXCEPT ![k] = long]
        /\ ClientsAt("write")' = ClientsAt("write") \ {c}
        /\ \A e \in Clients \ {c} : client'[e] = client[e]
    BY <1>0, <1>2 DEF AddVersion, Version, MvccTypeOK, IdsOK, Identifiers, Free, Busy, ClientsAt
  <2>2. v.txid = client[c].txid
    OBVIOUS
  <2>3. /\ DOMAIN long = 1 .. Len(chains[k]) + 1
        /\ long[1] = v
        /\ \A i \in 1 .. Len(chains[k]) : long[i + 1] = chains[k][i]
    BY <1>0, <2>1, PushedInFront
  <2>4. /\ Len(chains[k]) \in Nat /\ DOMAIN chains[k] = 1 .. Len(chains[k])
        /\ \A i \in DOMAIN chains[k] : NewerThan(v.txid, chains[k][i].txid)
    BY <1>0, <2>1 DEF OrderInv
  <2> HIDE DEF v, long
  <2>5. \A i, j \in DOMAIN long : i < j => NewerThan(long[i].txid, long[j].txid)
    <3> SUFFICES ASSUME NEW i \in DOMAIN long, NEW j \in DOMAIN long, i < j
                 PROVE  NewerThan(long[i].txid, long[j].txid)
      OBVIOUS
    <3>1. j - 1 \in 1 .. Len(chains[k]) /\ (j - 1) + 1 = j
      BY <2>3, <2>4
    <3>2. long[j] = chains[k][j - 1]
      BY <2>3, <3>1
    <3>3. CASE i = 1
      BY <2>3, <2>4, <3>1, <3>2, <3>3
    <3>4. CASE i # 1
      <4>1. i - 1 \in 1 .. Len(chains[k]) /\ (i - 1) + 1 = i /\ i - 1 < j - 1
        BY <2>3, <2>4, <3>4
      <4>2. long[i] = chains[k][i - 1]
        BY <2>3, <4>1
      <4> QED  BY <2>4, <3>1, <3>2, <4>1, <4>2 DEF OrderInv, NewestFirst, NewerThan
    <3> QED  BY <3>3, <3>4
  <2>6. NewestFirst'
    BY <1>0, <2>1, <2>5 DEF OrderInv, NewestFirst, NewerThan
  <2>7. \A i \in DOMAIN long : long[i] = v \/ \E j \in DOMAIN chains[k] : long[i] = chains[k][j]
    <3> SUFFICES ASSUME NEW i \in DOMAIN long, i # 1
                 PROVE  \E j \in DOMAIN chains[k] : long[i] = chains[k][j]
      BY <2>3
    <3>1. i - 1 \in 1 .. Len(chains[k]) /\ (i - 1) + 1 = i
      BY <2>3, <2>4
    <3> QED  BY <2>3, <2>4, <3>1
  <2>8. ASSUME NEW e \in ClientsAt("write")', NEW x \in DocKeys, NEW i \in DOMAIN chains'[x]
        PROVE  NewerThan(client'[e].txid, chains'[x][i].txid)
    <3>1. e \in ClientsAt("write") /\ e # c /\ client'[e] = client[e]
      BY <2>1 DEF ClientsAt
    <3>2. CASE x # k
      BY <1>0, <2>1, <2>8, <3>1, <3>2 DEF OrderInv
    <3>3. CASE x = k
      BY <1>0, <2>1, <2>2, <2>7, <2>8, <3>1, <3>3 DEF OrderInv
    <3> QED  BY <3>2, <3>3
  <2>9. \A e, f \in ClientsAt("write")' : e # f => NewerThan(client'[e].txid, client'[f].txid)
    BY <2>1 DEF OrderInv, ClientsAt
  <2> QED  BY <2>1, <2>6, <2>8, <2>9 DEF OrderInv, NewerThan
<1>3. ASSUME NEW g \in GcWorkers, GcPurge(g) PROVE OrderInv'
  <2>1. PICK keep \in [DocKeys -> 0 .. MaxIssuedId] :
          /\ \A k \in DocKeys : KeepCount(chains[k], collector[g], keep[k])
          /\ chains' = [k \in DocKeys |-> SubSeq(chains[k], 1, keep[k])]
    BY <1>3 DEF GcPurge
  <2>2. collector[g] \in Int
    BY DEF MvccTypeOK, Resting
  <2>3. \A k \in DocKeys : \A i \in DOMAIN chains'[k] :
          i \in DOMAIN chains[k] /\ chains'[k][i] = chains[k][i]
    <3> SUFFICES ASSUME NEW k \in DocKeys
                 PROVE  \A i \in DOMAIN chains'[k] :
                          i \in DOMAIN chains[k] /\ chains'[k][i] = chains[k][i]
      OBVIOUS
    <3>1. keep[k] \in Nat /\ chains[k] \in Seq(Version) /\ KeepCount(chains[k], collector[g], keep[k])
      BY <1>0, <2>1
    <3>2. chains'[k] = SubSeq(chains[k], 1, keep[k])
      BY <2>1
    <3>3. PICK chain, h, n : chain = chains[k] /\ h = collector[g] /\ n = keep[k]
      OBVIOUS
    <3>4. chain \in Seq(Version) /\ h \in Int /\ n \in Nat /\ KeepCount(chain, h, n)
      BY <2>2, <3>1, <3>3
    <3>5. /\ DOMAIN SubSeq(chain, 1, n) = 1 .. n
          /\ \A i \in 1 .. n : i \in DOMAIN chain /\ SubSeq(chain, 1, n)[i] = chain[i]
      BY <3>4, PurgeIsPrefix
    <3> QED  BY <3>2, <3>3, <3>5
  <2>4. UNCHANGED <<client, overlapped>>
    BY <1>3 DEF GcPurge
  <2> QED  BY <2>3, <2>4 DEF OrderInv, NewestFirst, NewerThan, ClientsAt
<1>4. ASSUME UNCHANGED <<chains, overlapped>>,
             \A c \in ClientsAt("write")' : c \in ClientsAt("write") /\ client'[c] = client[c]
      PROVE  OrderInv'
  BY <1>4 DEF OrderInv, NewestFirst, NewerThan
<1>5. ASSUME NEW c \in Clients,
             \/ BeginTakeId(c) \/ BeginSnapshot(c) \/ BeginRegister(c)
             \/ \E t \in Identifiers : FinishTxn(c, t)
             \/ ComputeHorizon(c) \/ StoreHorizon(c)
      PROVE  OrderInv'
  <2>1. UNCHANGED <<chains, overlapped>>
    BY <1>5 DEF BeginTakeId, NextTxId, BeginSnapshot, BeginRegister, FinishTxn,
                ComputeHorizon, StoreHorizon
  <2> DEFINE Gone == /\ \A d \in Clients \ {c} : client'[d] = client[d]
                     /\ client'[c].at # "write"
  <2>2. ASSUME BeginTakeId(c) PROVE Gone
    BY <1>0, <2>2 DEF BeginTakeId, NextTxId, Busy
  <2>3. ASSUME BeginSnapshot(c) PROVE Gone
    BY <1>0, <2>3 DEF BeginSnapshot, ClientState
  <2>4. ASSUME BeginRegister(c) PROVE Gone
    BY <1>0, <2>4 DEF BeginRegister, ClientState
  <2>5. ASSUME NEW t \in Identifiers, FinishTxn(c, t) PROVE Gone
    <3>1. client' = [client EXCEPT ![c] = Busy("horizon", 0)]
      BY <2>5 DEF FinishTxn
    <3> QED  BY <1>0, <3>1 DEF Busy
  <2>6. ASSUME ComputeHorizon(c) PROVE Gone
    <3>1. PICK m \in 0 .. MaxIssuedId :
            client' = [client EXCEPT ![c].at = "store", ![c].low = m]
      BY <2>6 DEF ComputeHorizon
    <3> QED  BY <1>0, <3>1 DEF ClientState
  <2>7. ASSUME StoreHorizon(c) PROVE Gone
    BY <1>0, <2>7 DEF StoreHorizon, Free, Busy
  <2>8. Gone
    BY <1>5, <2>2, <2>3, <2>4, <2>5, <2>6, <2>7
  <2>9. \A d \in ClientsAt("write")' : d \in ClientsAt("write") /\ client'[d] = client[d]
    BY <2>8 DEF ClientsAt
  <2> QED  BY <1>4, <2>1, <2>9
<1>6. ASSUME UNCHANGED <<chains, overlapped, client>> PROVE OrderInv'
  BY <1>6 DEF OrderInv, NewestFirst, NewerThan, ClientsAt
<1>7. ASSUME NEW g \in GcWorkers, GcLoadHorizon(g) PROVE OrderInv'
  BY <1>6, <1>7 DEF GcLoadHorizon
<1>8. CASE UNCHANGED mvccVars
  BY <1>6, <1>8 DEF mvccVars
<1> QED
  BY <1>1, <1>2, <1>3, <1>5, <1>7, <1>8 DEF MvccNext, ClientStep, GcStep, Commit, Abort

\* With any number of threads and workers the version chains stay well formed
\* and, but for writes that overlapped, ordered newest first.
THEOREM ChainsStaySound == MvccSpec => []ChainsSound
<1>1. MvccInit => OrderInv
  BY DEF MvccInit, OrderInv, NewestFirst, ClientsAt, Free, Busy
<1>2. VersionsInv /\ OrderInv /\ [MvccNext]_mvccVars => (VersionsInv /\ OrderInv)'
  BY NextIInv, NextOrderInv
<1>3. VersionsInv /\ OrderInv => ChainsSound
  BY DEF VersionsInv, OrderInv, ChainsSound
<1> QED  BY InitIInv, <1>1, <1>2, <1>3, PTL DEF MvccSpec

-----------------------------------------------------------------------------
(* The database file: the inductive invariant                              *)

Present == {k \in Keys : tree[k] # Absent}

\* The steps a save can have left.
StepsLeft(call) ==
  IF call = "checkpoint"
  THEN {<<"tree", "registry", "wal", "header">>, <<"registry", "wal", "header">>,
        <<"wal", "header">>, <<"header">>}
  ELSE {<<"wal", "marker", "tree", "registry", "header">>,
        <<"marker", "tree", "registry", "header">>, <<"tree", "registry", "header">>,
        <<"registry", "header">>, <<"header">>}

OpOK ==
  \/ op = Idle
  \/ /\ up = "open"
     /\ \E call \in {"checkpoint", "close"}, todo \in SUBSET Present, start \in Nat :
          \E steps \in StepsLeft(call) :
            op = [steps |-> steps, call |-> call, todo |-> todo, start |-> start]

\* The file has no gap, its pages are of their kinds, and no entry in it or in the
\* tree is newer than the last write.
FileOK ==
  /\ \E n \in Nat : n >= 1 /\ DOMAIN pages = 2 .. n
  /\ \A p \in DOMAIN pages :
       pages[p] \in PageKinds /\ (pages[p].kind = "doc" => pages[p].entry.txid <= lastWrite)

Types ==
  /\ up \in {"open", "closed", "dead"}
  /\ tree \in [Keys -> Entry] /\ \A k \in Keys : tree[k].txid <= lastWrite
  /\ lastWrite \in 0 .. MaxWrites
  /\ unflushed \in 0 .. FlushLimit - 1 /\ written \in Nat /\ wrote \in BOOLEAN
  /\ lives \in 1 .. MaxLives /\ saves \in 0 .. MaxSaves
  /\ saved \in [Keys -> 0 .. MaxWrites] /\ \A k \in Keys : saved[k] <= lastWrite
  /\ from \in Nat /\ overrun \in BOOLEAN

\* The last page of the document, and where it may be first.
LastPage(k, e, first) ==
  \E p \in DOMAIN pages :
    /\ p >= first /\ pages[p] = Doc(k, e)
    /\ \A q \in DOMAIN pages : q > p /\ pages[q].kind = "doc" => pages[q].key # k

\* A session that has documents wrote them or found them in the file.
WroteOK ==
  /\ Present # {} => wrote \/ 2 \in DOMAIN pages
  /\ op.call = "close" /\ At("tree") /\ Present # {} => 2 \in DOMAIN pages

\* A generation being written is the end of the file; it begins on the registry's
\* page only in a checkpoint of a file that has no pages.
GenerationOK ==
  op.todo # {} =>
    /\ At("tree") /\ op.start >= 2
    /\ DOMAIN pages = 2 .. op.start + (Cardinality(Present) - Cardinality(op.todo)) - 1
    /\ op.start = 2 => op.call = "checkpoint" /\ \A p \in DOMAIN pages : pages[p].kind = "doc"
    /\ \A k \in Present \ op.todo : LastPage(k, tree[k], op.start)

CloseOK ==
  up = "closed" \/ (op.call = "close" /\ (At("registry") \/ At("header"))) =>
    \A k \in Keys : Live(tree[k]) => LastPage(k, tree[k], 3)

LiveDoc(p, k) == pages[p].kind = "doc" /\ pages[p].key = k /\ Live(pages[p].entry)

\* The newest complete generation has the document, what follows has it no older,
\* and so has memory.
SavedOK ==
  ~overrun =>
    \A k \in Keys : saved[k] > 0 =>
      /\ from >= 3 /\ tree[k].txid >= saved[k]
      /\ \E p \in DOMAIN pages :
           /\ p >= from /\ LiveDoc(p, k) /\ pages[p].entry.txid = saved[k]
           /\ \A q \in DOMAIN pages :
                q > p /\ LiveDoc(q, k) => pages[q].entry.txid >= saved[k]

IInv ==
  /\ Types /\ OpOK /\ FileOK /\ WroteOK /\ GenerationOK /\ CloseOK /\ SavedOK

-----------------------------------------------------------------------------
(* Files, and the loader                                                   *)

LEMMA MaxIsIn ==
  ASSUME NEW n \in Nat, NEW S \in SUBSET (0 .. n), S # {}
  PROVE  Max(S) \in S /\ \A y \in S : Max(S) >= y
<1> DEFINE less == OpToRel(<, Nat)
           T == {n - x : x \in S}
<1>1. T \subseteq Nat /\ T # {}
  <2>1. \A x \in S : n - x \in Nat /\ n - x \in T
    OBVIOUS
  <2> QED  BY <2>1
<1>2. IsWellFoundedOn(less, Nat)
  BY NatLessThanWellFounded
<1>3. \A i, j \in Nat : i < j => <<i, j>> \in less
  BY DEF OpToRel
<1> HIDE DEF less, T
<1>4. PICK m \in T : \A e \in T : ~ (<<e, m>> \in less)
  BY <1>1, <1>2, WFMin
<1>5. PICK x \in S : m = n - x
  BY DEF T
<1>6. ASSUME NEW y \in S PROVE x >= y
  <2>1. n - y \in T /\ n - y \in Nat /\ m \in Nat
    BY <1>1 DEF T
  <2>2. ~(n - y < m)
    BY <1>3, <1>4, <2>1
  <2> QED  BY <1>5, <2>2
<1> QED  BY <1>5, <1>6 DEF Max

LEMMA EndOfFile ==
  ASSUME NEW f, NEW n \in Nat, n >= 1, DOMAIN f = 2 .. n
  PROVE  EndOf(f) = n + 1
<1>1. Cardinality(2 .. n) = IF 2 > n THEN 0 ELSE n - 2 + 1
  BY FS_Interval
<1> QED  BY <1>1 DEF EndOf

\* write_at of a file with the pages 2 .. n: the pages ps have the page, the others
\* what they had, and between the old end and the new there are holes.
IsWrite(w, f, n, ps, page) ==
  /\ \E e \in Nat : e >= n /\ e \in {n} \cup ps /\ DOMAIN w = 2 .. e
  /\ ps \subseteq DOMAIN w /\ 2 .. n \subseteq DOMAIN w
  /\ \A p \in DOMAIN w : w[p] = IF p \in ps THEN page
                                ELSE IF p \in 2 .. n THEN f[p] ELSE Hole

LEMMA WrittenFile ==
  ASSUME NEW f, NEW n \in Nat, n >= 1, DOMAIN f = 2 .. n,
         NEW m \in Nat, NEW ps \in SUBSET (2 .. m), ps # {}, NEW page
  PROVE  IsWrite(Written(f, ps, page), f, n, ps, page)
<1> DEFINE w == Written(f, ps, page)
<1> DEFINE S == {EndOf(f) - 1} \cup ps
           e == Max(S)
<1>1. EndOf(f) - 1 = n
  BY EndOfFile
<1>2. PICK k \in Nat : k >= n /\ k >= m
  OBVIOUS
<1>3. S = {n} \cup ps
  BY <1>1
<1> HIDE DEF S
<1>4. S \in SUBSET (0 .. k) /\ S # {}
  <2>1. \A p \in ps : p \in 0 .. k
    BY <1>2
  <2> QED  BY <1>2, <1>3, <2>1
<1>5. e \in S /\ \A y \in S : e >= y
  BY <1>2, <1>4, MaxIsIn
<1> HIDE DEF e
<1>6. e \in Nat /\ e >= n /\ e \in {n} \cup ps /\ \A p \in ps : p \in 2 .. e
  <2>1. e \in 0 .. k /\ n \in S
    BY <1>3, <1>4, <1>5
  <2>2. ASSUME NEW p \in ps PROVE p \in 2 .. e
    <3>1. p \in S /\ p \in 2 .. m
      BY <1>3
    <3> QED  BY <1>5, <2>1, <3>1
  <2> QED  BY <1>3, <1>5, <2>1, <2>2
<1>7. w = [p \in 2 .. e |->
        IF p \in ps THEN page ELSE IF p \in DOMAIN f THEN f[p] ELSE Hole]
  BY DEF Written, S, e
<1> HIDE DEF w
<1>8. IsWrite(w, f, n, ps, page)
  BY <1>6, <1>7 DEF IsWrite
<1> QED  BY <1>8 DEF w

IsAppend(w, f, n, page) ==
  /\ DOMAIN w = 2 .. n + 1 /\ w[n + 1] = page
  /\ \A p \in 2 .. n : w[p] = f[p]

LEMMA AppendedFile ==
  ASSUME NEW f, NEW n \in Nat, n >= 1, DOMAIN f = 2 .. n, NEW page
  PROVE  IsAppend(Written(f, {n + 1}, page), f, n, page)
<1>1. PICK ps : ps = {n + 1}
  OBVIOUS
<1>2. PICK m \in Nat : m = n + 1 /\ ps \in SUBSET (2 .. m) /\ ps # {}
  BY <1>1
<1>3. PICK w : w = Written(f, ps, page)
  OBVIOUS
<1>4. IsWrite(w, f, n, ps, page)
  BY <1>2, <1>3, WrittenFile
<1>5. PICK e \in Nat : e \in {n} \cup ps /\ DOMAIN w = 2 .. e
  BY <1>4 DEF IsWrite
<1>6. n + 1 \in 2 .. e
  BY <1>1, <1>4, <1>5 DEF IsWrite
<1>7. e = n + 1
  BY <1>1, <1>5, <1>6
<1>8. \A p \in 2 .. n : p \in 2 .. n + 1 /\ p \notin ps
  BY <1>1
<1>9. w[n + 1] = page
  BY <1>1, <1>4, <1>5, <1>6 DEF IsWrite
<1>10. \A p \in 2 .. n : w[p] = f[p]
  BY <1>4, <1>5, <1>7, <1>8 DEF IsWrite
<1>11. IsAppend(w, f, n, page)
  BY <1>5, <1>7, <1>9, <1>10 DEF IsAppend
<1> QED  BY <1>1, <1>3, <1>11

\* The document a page has.
LEMMA PageOfDoc ==
  ASSUME NEW page \in PageKinds, page.kind = "doc"
  PROVE  /\ page.key \in Keys /\ page.entry \in Entry
         /\ page = Doc(page.key, page.entry)
  BY DEF PageKinds, Hole, Wal, Marker, Registry, Doc

LEMMA OtherPages ==
  /\ Hole.kind # "doc" /\ Wal.kind # "doc" /\ Marker.kind # "doc" /\ Registry.kind # "doc"
  /\ {Hole, Wal, Marker, Registry} \subseteq PageKinds
  BY DEF Hole, Wal, Marker, Registry, PageKinds

LEMMA DocPage ==
  ASSUME NEW k \in Keys, NEW e \in Entry
  PROVE  /\ Doc(k, e) \in PageKinds /\ Doc(k, e).kind = "doc" /\ Doc(k, e).key = k
         /\ Doc(k, e).entry = e /\ Doc(k, e) # Registry
  BY DEF Doc, PageKinds, Registry

\* What open() finds of a document: its last live page, if it has one behind the
\* registry's.
LEMMA LoadedPage ==
  ASSUME FileOK, NEW k \in Keys
  PROVE  /\ Loaded(pages, k) \in 0 .. MaxWrites
         /\ Loaded(pages, k) > 0 => 2 \in DOMAIN pages /\ Loaded(pages, k) <= lastWrite
         /\ \A p \in DOMAIN pages : p >= 3 /\ LiveDoc(p, k) =>
              \E r \in DOMAIN pages : r >= p /\ LiveDoc(r, k)
                                       /\ Loaded(pages, k) = pages[r].entry.txid
                                       /\ \A q \in DOMAIN pages : LiveDoc(q, k) => q <= r
<1>1. PICK n \in Nat : n >= 1 /\ DOMAIN pages = 2 .. n
  BY DEF FileOK
<1> DEFINE ps == {p \in DOMAIN pages : p >= 3 /\ pages[p].kind = "doc" /\ pages[p].key = k
                                         /\ Live(pages[p].entry)}
<1>2. CASE ps = {}
  <2>1. Loaded(pages, k) = 0
    BY <1>2 DEF Loaded
  <2> QED  BY <1>2, <2>1, EngineAssumption DEF LiveDoc
<1>3. CASE ps # {}
  <2> DEFINE r == Max(ps)
  <2>1. r \in ps /\ \A y \in ps : r >= y
    <3>1. ps \in SUBSET (0 .. n)
      BY <1>1
    <3> QED  BY <1>3, <3>1, MaxIsIn
  <2>2. Loaded(pages, k) = pages[r].entry.txid
    BY <1>3 DEF Loaded
  <2> HIDE DEF r
  <2>3. r \in DOMAIN pages /\ r >= 3 /\ LiveDoc(r, k)
    BY <2>1 DEF LiveDoc
  <2>4. pages[r].entry \in Entry /\ pages[r].entry.txid <= lastWrite
    BY <2>3, PageOfDoc DEF FileOK, LiveDoc
  <2>5. Loaded(pages, k) \in 0 .. MaxWrites /\ Loaded(pages, k) <= lastWrite
    BY <2>2, <2>4 DEF Entry
  <2>6. 2 \in DOMAIN pages
    BY <1>1, <2>3
  <2>7. ASSUME NEW q \in DOMAIN pages, LiveDoc(q, k) PROVE q <= r
    <3>1. q >= 3 => q \in ps
      BY <2>7 DEF LiveDoc
    <3> QED  BY <1>1, <2>1, <2>3, <3>1
  <2>8. ASSUME NEW p \in DOMAIN pages, p >= 3, LiveDoc(p, k) PROVE r >= p
    BY <1>1, <2>3, <2>7, <2>8
  <2> HIDE DEF ps
  <2> QED  BY <2>2, <2>3, <2>5, <2>6, <2>7, <2>8
<1> QED  BY <1>2, <1>3

-----------------------------------------------------------------------------
(* The steps of a save                                                     *)

\* The step after s.
Follows(call, s) ==
  IF call = "checkpoint"
  THEN IF s = "tree" THEN "registry" ELSE IF s = "registry" THEN "wal" ELSE "header"
  ELSE IF s = "wal" THEN "marker" ELSE IF s = "marker" THEN "tree"
       ELSE IF s = "tree" THEN "registry" ELSE "header"

LEMMA StepsGoOn ==
  ASSUME NEW call \in {"checkpoint", "close"}, NEW steps \in StepsLeft(call)
  PROVE  /\ steps # <<>>
         /\ Head(steps) \in {"tree", "registry", "wal", "header", "marker"}
         /\ Head(steps) # "header" =>
              Tail(steps) \in StepsLeft(call) /\ Head(Tail(steps)) = Follows(call, Head(steps))
<1>1. CASE call = "checkpoint"
  <2>1. /\ Tail(<<"tree", "registry", "wal", "header">>) = <<"registry", "wal", "header">>
        /\ Tail(<<"registry", "wal", "header">>) = <<"wal", "header">>
        /\ Tail(<<"wal", "header">>) = <<"header">>
    OBVIOUS
  <2>2. /\ Head(<<"tree", "registry", "wal", "header">>) = "tree"
        /\ Head(<<"registry", "wal", "header">>) = "registry"
        /\ Head(<<"wal", "header">>) = "wal"
        /\ Head(<<"header">>) = "header"
    OBVIOUS
  <2>3. /\ <<"tree", "registry", "wal", "header">> # <<>>
        /\ <<"registry", "wal", "header">> # <<>>
        /\ <<"wal", "header">> # <<>>
        /\ <<"header">> # <<>>
    OBVIOUS
  <2>4. steps \in {<<"tree", "registry", "wal", "header">>, <<"registry", "wal", "header">>,
                   <<"wal", "header">>, <<"header">>}
    BY <1>1 DEF StepsLeft
  <2> QED  BY <1>1, <2>1, <2>2, <2>3, <2>4 DEF StepsLeft, Follows
<1>2. CASE call = "close"
  <2>1. /\ Tail(<<"wal", "marker", "tree", "registry", "header">>) =
             <<"marker", "tree", "registry", "header">>
        /\ Tail(<<"marker", "tree", "registry", "header">>) = <<"tree", "registry", "header">>
        /\ Tail(<<"tree", "registry", "header">>) = <<"registry", "header">>
        /\ Tail(<<"registry", "header">>) = <<"header">>
    OBVIOUS
  <2>2. /\ Head(<<"wal", "marker", "tree", "registry", "header">>) = "wal"
        /\ Head(<<"marker", "tree", "registry", "header">>) = "marker"
        /\ Head(<<"tree", "registry", "header">>) = "tree"
        /\ Head(<<"registry", "header">>) = "registry"
        /\ Head(<<"header">>) = "header"
    OBVIOUS
  <2>3. /\ <<"wal", "marker", "tree", "registry", "header">> # <<>>
        /\ <<"marker", "tree", "registry", "header">> # <<>>
        /\ <<"tree", "registry", "header">> # <<>>
        /\ <<"registry", "header">> # <<>>
        /\ <<"header">> # <<>>
    OBVIOUS
  <2>4. steps \in {<<"wal", "marker", "tree", "registry", "header">>,
                   <<"marker", "tree", "registry", "header">>,
                   <<"tree", "registry", "header">>,
                   <<"registry", "header">>, <<"header">>}
    BY <1>2 DEF StepsLeft
  <2> QED  BY <1>2, <2>1, <2>2, <2>3, <2>4 DEF StepsLeft, Follows
<1> QED  BY <1>1, <1>2

LEMMA NothingLeftIsIdle == ASSUME OpOK, op.steps = <<>> PROVE op = Idle
<1>1. ASSUME op # Idle PROVE FALSE
  <2>1. PICK call \in {"checkpoint", "close"}, todo \in SUBSET Present, start \in Nat :
          \E steps \in StepsLeft(call) :
            op = [steps |-> steps, call |-> call, todo |-> todo, start |-> start]
    BY <1>1 DEF OpOK
  <2>2. PICK steps \in StepsLeft(call) :
          op = [steps |-> steps, call |-> call, todo |-> todo, start |-> start]
    BY <2>1
  <2>3. op.steps = steps
    BY <2>2
  <2> QED  BY <2>3, StepsGoOn
<1> QED  BY <1>1

LEMMA IdleIs == Idle.steps = <<>> /\ Idle.call = "none" /\ Idle.todo = {} /\ Idle.start = 0
  BY DEF Idle

\* A save that is at the step s.
LEMMA OpAt ==
  ASSUME OpOK, NEW s, At(s)
  PROVE  /\ up = "open" /\ op.call \in {"checkpoint", "close"}
         /\ op.steps \in StepsLeft(op.call) /\ Head(op.steps) = s
         /\ op.todo \in SUBSET Present /\ op.start \in Nat
         /\ op = [steps |-> op.steps, call |-> op.call, todo |-> op.todo, start |-> op.start]
<1>1. op.steps # <<>> /\ Head(op.steps) = s
  BY DEF At
<1>2. op # Idle
  BY <1>1, IdleIs
<1>3. PICK call \in {"checkpoint", "close"}, todo \in SUBSET Present, start \in Nat :
          \E steps \in StepsLeft(call) :
            op = [steps |-> steps, call |-> call, todo |-> todo, start |-> start]
  BY <1>2 DEF OpOK
<1>4. PICK steps \in StepsLeft(call) :
          op = [steps |-> steps, call |-> call, todo |-> todo, start |-> start]
  BY <1>3
<1>5. op.steps = steps /\ op.call = call /\ op.todo = todo /\ op.start = start
  BY <1>4
<1>6. up = "open"
  BY <1>2 DEF OpOK
<1> QED  BY <1>1, <1>4, <1>5, <1>6

\* A save goes on to the step that follows s.
LEMMA NextOpOK ==
  ASSUME OpOK, NEW s, At(s), s # "header", UNCHANGED <<tree, up>>,
         op' = NextOp \/ op' = [NextOp EXCEPT !.todo = {}]
  PROVE  /\ OpOK' /\ op'.call = op.call /\ op'.start = op.start
         /\ op'.todo \in {op.todo, {}} /\ \A x : At(x)' <=> x = Follows(op.call, s)
<1>1. /\ up = "open" /\ op.call \in {"checkpoint", "close"}
      /\ op.steps \in StepsLeft(op.call) /\ Head(op.steps) = s
      /\ op.todo \in SUBSET Present /\ op.start \in Nat
      /\ op = [steps |-> op.steps, call |-> op.call, todo |-> op.todo, start |-> op.start]
  BY OpAt
<1>2. PICK steps \in StepsLeft(op.call) :
        steps = Tail(op.steps) /\ Head(steps) = Follows(op.call, s) /\ steps # <<>>
  BY <1>1, StepsGoOn
<1>3. PICK todo \in {op.todo, {}} :
        op' = [steps |-> steps, call |-> op.call, todo |-> todo, start |-> op.start]
  <2>1. PICK left, call, todo, start :
          /\ op = [steps |-> left, call |-> call, todo |-> todo, start |-> start]
          /\ left = op.steps
    BY <1>1
  <2>2. \A x : [op EXCEPT !.steps = x] =
                [steps |-> x, call |-> call, todo |-> todo, start |-> start]
    BY <2>1
  <2>3. NextOp = [op EXCEPT !.steps = steps]
    BY <1>2 DEF NextOp
  <2>4. NextOp = [steps |-> steps, call |-> op.call, todo |-> op.todo, start |-> op.start]
    BY <2>1, <2>2, <2>3
  <2>5. [NextOp EXCEPT !.todo = {}] =
          [steps |-> steps, call |-> op.call, todo |-> {}, start |-> op.start]
    BY <2>4
  <2> QED  BY <2>4, <2>5
<1>4. /\ op'.steps = steps /\ op'.call = op.call /\ op'.todo = todo /\ op'.start = op.start
  BY <1>3
<1>5. Present' = Present
  BY DEF Present
<1>6. OpOK'
  BY <1>1, <1>2, <1>3, <1>5 DEF OpOK
<1>7. \A x : At(x)' <=> x = Follows(op.call, s)
  BY <1>2, <1>4 DEF At
<1> QED  BY <1>4, <1>6, <1>7

-----------------------------------------------------------------------------
(* What steps do to the file and to what was saved in it                   *)

\* What a step that only writes log pages does: behind the registry, and past the
\* beginning of the newest generation only if that counts as overrun.
OnlyLog ==
  /\ written' \in Nat /\ overrun' \in BOOLEAN
  /\ \E m \in Nat : m >= 1 /\ DOMAIN pages' = 2 .. m
  /\ \A p \in DOMAIN pages : p \in DOMAIN pages'
  /\ \A p \in DOMAIN pages' :
       pages'[p] \in {Hole, Wal} \/ (p \in DOMAIN pages /\ pages'[p] = pages[p])
  /\ 2 \in DOMAIN pages => pages'[2] = pages[2]
  /\ overrun => overrun'
  /\ ~overrun' /\ from # 0 =>
       \A p \in DOMAIN pages' : p >= from => p \in DOMAIN pages /\ pages'[p] = pages[p]

LEMMA LogPages ==
  ASSUME IInv, NEW n \in Nat, FlushWal(n)
  PROVE  OnlyLog /\ unflushed' = 0
<1>1. /\ written \in Nat /\ from \in Nat /\ overrun \in BOOLEAN
      /\ RecordsPerPage \in Nat \ {0}
  BY EngineAssumption DEF IInv, Types
<1>2. written' \in Nat /\ unflushed' = 0
  BY <1>1 DEF FlushWal
<1>3. PICK e \in Nat : e >= 1 /\ DOMAIN pages = 2 .. e
  BY DEF IInv, FileOK
<1>4. CASE n = 0
  <2>1. pages' = pages /\ overrun' = overrun
    BY <1>4 DEF FlushWal
  <2> QED  BY <1>1, <1>2, <1>3, <2>1 DEF OnlyLog
<1>5. CASE n # 0
  <2>1. WalStart = 3
    <3>1. {2, 3} \in SUBSET (0 .. 3) /\ {2, 3} # {}
      OBVIOUS
    <3>2. Max({2, 3}) \in {2, 3} /\ Max({2, 3}) >= 3
      BY <3>1, MaxIsIn
    <3> QED  BY <3>2 DEF WalStart
  <2> DEFINE a == 3 + written \div RecordsPerPage
             b == 3 + (written + n - 1) \div RecordsPerPage
             ps == a .. b
  <2>2. /\ pages' = Written(pages, ps, Wal)
        /\ overrun' = (overrun \/ (from # 0 /\ Max(ps) >= from))
    BY <1>5, <2>1 DEF FlushWal
  <2>3. a \in Nat /\ b \in Nat /\ a >= 3 /\ a <= b
    <3>1. written \div RecordsPerPage \in Nat
      BY <1>1
    <3>2. written + n - 1 \in Nat /\ written + n - 1 >= written
      BY <1>1, <1>5
    <3>3. \A x, y \in Nat : x <= y => x \div RecordsPerPage <= y \div RecordsPerPage
      BY <1>1
    <3>4. (written + n - 1) \div RecordsPerPage \in Nat
      BY <1>1, <3>2
    <3> QED  BY <1>1, <3>1, <3>2, <3>3, <3>4
  <2> HIDE DEF a, b
  <2>4. PICK qs : qs = ps
    OBVIOUS
  <2>5. qs \in SUBSET (2 .. b) /\ qs \in SUBSET (0 .. b) /\ qs # {} /\ \A p \in qs : p >= 3
    BY <2>3, <2>4
  <2>6. Max(qs) \in qs /\ \A y \in qs : Max(qs) >= y
    BY <2>3, <2>5, MaxIsIn
  <2>7. IsWrite(pages', pages, e, qs, Wal)
    BY <1>3, <2>2, <2>3, <2>4, <2>5, WrittenFile
  <2> HIDE DEF ps
  <2>8. PICK m \in Nat : m >= e /\ m \in {e} \cup qs /\ DOMAIN pages' = 2 .. m
    BY <2>7 DEF IsWrite
  <2>9. \A p \in DOMAIN pages' : pages'[p] = IF p \in qs THEN Wal
                                             ELSE IF p \in 2 .. e THEN pages[p] ELSE Hole
    BY <2>7 DEF IsWrite
  <2>10. \A p \in DOMAIN pages : p \in DOMAIN pages'
    BY <1>3, <2>8
  <2>11. 2 \in DOMAIN pages => pages'[2] = pages[2]
    BY <1>3, <2>5, <2>9, <2>10
  <2>12. ASSUME ~overrun', from # 0, NEW p \in DOMAIN pages', p >= from
         PROVE  p \in DOMAIN pages /\ pages'[p] = pages[p]
    <3>1. ~(Max(qs) >= from)
      BY <2>2, <2>4, <2>12
    <3>2. Max(qs) \in Nat /\ p \in Nat
      <4>1. \A x \in qs : x \in Nat
        BY <2>3, <2>5
      <4>2. \A x \in 2 .. m : x \in Nat
        BY <2>8
      <4> QED  BY <2>6, <2>8, <4>1, <4>2
    <3>3. p \notin qs
      BY <1>1, <2>6, <2>12, <3>1, <3>2
    <3>4. m \notin qs
      BY <1>1, <2>6, <2>8, <2>12, <3>1, <3>2
    <3> QED  BY <1>3, <2>8, <2>9, <3>3, <3>4
  <2>13. overrun' \in BOOLEAN /\ (overrun => overrun')
    BY <1>1, <2>2
  <2> QED  BY <1>2, <1>3, <2>8, <2>9, <2>10, <2>11, <2>12, <2>13 DEF OnlyLog
<1> QED  BY <1>4, <1>5

\* What was saved in the newest generation stays known: its pages are left alone,
\* and what is appended is as new.
LEMMA SavedStays ==
  ASSUME IInv, saved' = saved, from' = from, overrun => overrun', DOMAIN pages' \subseteq Nat,
         \A k \in Keys : ~overrun' /\ saved[k] > 0 => tree'[k].txid >= saved[k],
         ~overrun' /\ from >= 3 =>
           /\ \A p \in DOMAIN pages : p >= from => p \in DOMAIN pages' /\ pages'[p] = pages[p]
           /\ \A p \in DOMAIN pages' : p >= from =>
                \/ p \in DOMAIN pages /\ pages'[p] = pages[p]
                \/ pages'[p].kind # "doc"
                \/ pages'[p].entry.txid >= saved[pages'[p].key]
  PROVE  SavedOK'
<1> SUFFICES ASSUME ~overrun', NEW k \in Keys, saved[k] > 0
             PROVE  /\ from >= 3 /\ tree'[k].txid >= saved[k]
                    /\ \E p \in DOMAIN pages' :
                         /\ p >= from /\ LiveDoc(p, k)' /\ pages'[p].entry.txid = saved[k]
                         /\ \A q \in DOMAIN pages' :
                              q > p /\ LiveDoc(q, k)' => pages'[q].entry.txid >= saved[k]
  BY DEF SavedOK
<1>1. from >= 3 /\ from \in Nat
  BY DEF IInv, SavedOK, Types
<1>2. PICK p \in DOMAIN pages :
        /\ p >= from /\ LiveDoc(p, k) /\ pages[p].entry.txid = saved[k]
        /\ \A q \in DOMAIN pages : q > p /\ LiveDoc(q, k) => pages[q].entry.txid >= saved[k]
  BY DEF IInv, SavedOK
<1>3. p \in DOMAIN pages' /\ pages'[p] = pages[p] /\ LiveDoc(p, k)'
  BY <1>1, <1>2 DEF LiveDoc
<1>4. ASSUME NEW q \in DOMAIN pages', q > p, LiveDoc(q, k)'
      PROVE  pages'[q].entry.txid >= saved[k]
  <2>1. p \in Nat /\ q \in Nat
    BY DEF IInv, FileOK
  <2>2. q >= from
    BY <1>1, <1>2, <1>4, <2>1
  <2>3. pages'[q].kind = "doc" /\ pages'[q].key = k
    BY <1>4 DEF LiveDoc
  <2>4. CASE q \in DOMAIN pages /\ pages'[q] = pages[q]
    <3>1. LiveDoc(q, k)
      BY <1>4, <2>4 DEF LiveDoc
    <3> QED  BY <1>2, <1>4, <2>4, <3>1
  <2>5. CASE pages'[q].entry.txid >= saved[pages'[q].key]
    BY <2>3, <2>5
  <2> QED  BY <1>1, <2>2, <2>3, <2>4, <2>5
<1> QED  BY <1>1, <1>2, <1>3, <1>4

LEMMA LogKeepsFile ==
  ASSUME IInv, OnlyLog, lastWrite' \in Nat, lastWrite' >= lastWrite
  PROVE  FileOK' /\ (2 \in DOMAIN pages => 2 \in DOMAIN pages') /\ DOMAIN pages' \subseteq Nat
<1>1. \E m \in Nat : m >= 1 /\ DOMAIN pages' = 2 .. m
  BY DEF OnlyLog
<1>2. ASSUME NEW p \in DOMAIN pages'
      PROVE  /\ pages'[p] \in PageKinds
             /\ pages'[p].kind = "doc" => pages'[p].entry.txid <= lastWrite'
  <2>1. CASE pages'[p] \in {Hole, Wal}
    BY <2>1, OtherPages
  <2>2. CASE p \in DOMAIN pages /\ pages'[p] = pages[p]
    <3>1. pages[p] \in PageKinds /\ (pages[p].kind = "doc" => pages[p].entry.txid <= lastWrite)
      BY <2>2 DEF IInv, FileOK
    <3>2. pages[p].kind = "doc" => pages[p].entry.txid \in Nat
      BY <3>1, PageOfDoc, EngineAssumption DEF Entry
    <3>3. lastWrite \in Nat
      BY EngineAssumption DEF IInv, Types
    <3> QED  BY <2>2, <3>1, <3>2, <3>3
  <2> QED  BY <2>1, <2>2 DEF OnlyLog
<1> QED  BY <1>1, <1>2 DEF FileOK, OnlyLog

LEMMA LogKeepsSaved ==
  ASSUME IInv, OnlyLog, saved' = saved, from' = from,
         \A k \in Keys : tree'[k].txid >= tree[k].txid, tree' \in [Keys -> Entry]
  PROVE  SavedOK'
<1>1. DOMAIN pages' \subseteq Nat
  BY DEF OnlyLog
<1>2. \A k \in Keys : ~overrun' /\ saved[k] > 0 => tree'[k].txid >= saved[k]
  <2>1. ASSUME NEW k \in Keys, ~overrun', saved[k] > 0 PROVE tree'[k].txid >= saved[k]
    <3>1. tree[k].txid >= saved[k]
      BY <2>1 DEF OnlyLog, IInv, SavedOK
    <3>2. tree[k].txid \in Nat /\ tree'[k].txid \in Nat /\ saved[k] \in Nat
      BY EngineAssumption DEF IInv, Types, Entry
    <3> QED  BY <2>1, <3>1, <3>2
  <2> QED  BY <2>1
<1>3. \A p \in DOMAIN pages : p \in DOMAIN pages'
  BY DEF OnlyLog
<1>4. from >= 3 /\ from \in Nat => from # 0
  OBVIOUS
<1>5. from \in Nat
  BY DEF IInv, Types
<1>6. ASSUME ~overrun', from >= 3
      PROVE  \A p \in DOMAIN pages' : p >= from => p \in DOMAIN pages /\ pages'[p] = pages[p]
  BY <1>4, <1>5, <1>6 DEF OnlyLog
<1> QED  BY <1>1, <1>2, <1>3, <1>6, SavedStays DEF OnlyLog

LEMMA PutKeeps ==
  ASSUME IInv, NEW k \in Keys, NEW tombstone \in BOOLEAN, Put(k, tombstone)
  PROVE  IInv'
<1>1. /\ up = "open" /\ op.steps = <<>> /\ lastWrite < MaxWrites
      /\ lastWrite' = lastWrite + 1
      /\ tree' = [tree EXCEPT ![k] = [txid |-> lastWrite + 1, tombstone |-> tombstone]]
      /\ wrote' = TRUE /\ AppendRecord
      /\ UNCHANGED <<up, op, lives, saves, saved, from>>
  BY DEF Put
<1>2. op = Idle /\ op' = Idle
  BY <1>1, NothingLeftIsIdle DEF IInv
<1>3. /\ lastWrite' \in 0 .. MaxWrites /\ lastWrite \in Nat /\ lastWrite' >= lastWrite
      /\ lastWrite' \in Nat
  BY <1>1, EngineAssumption DEF IInv, Types
<1>4. /\ tree' \in [Keys -> Entry] /\ tree'[k].txid = lastWrite + 1
      /\ \A j \in Keys \ {k} : tree'[j] = tree[j]
  <2>1. [txid |-> lastWrite + 1, tombstone |-> tombstone] \in Entry
    BY <1>1, <1>3 DEF Entry
  <2> QED  BY <1>1, <2>1 DEF IInv, Types
<1>5. \A j \in Keys : tree'[j].txid <= lastWrite' /\ tree'[j].txid >= tree[j].txid
  <2>1. \A j \in Keys : tree[j].txid \in Nat /\ tree[j].txid <= lastWrite
    BY EngineAssumption DEF IInv, Types, Entry
  <2> QED  BY <1>1, <1>3, <1>4, <2>1
<1>6. OnlyLog /\ unflushed' \in 0 .. FlushLimit - 1
  <2>1. unflushed \in Nat /\ FlushLimit \in Nat \ {0} /\ unflushed < FlushLimit
    BY EngineAssumption DEF IInv, Types
  <2>2. CASE FlushWal(unflushed + 1)
    BY <2>1, <2>2, LogPages
  <2>3. CASE /\ unflushed + 1 < FlushLimit /\ unflushed' = unflushed + 1
             /\ UNCHANGED <<written, pages, overrun>>
    <3>1. OnlyLog
      BY <2>3 DEF OnlyLog, IInv, Types, FileOK
    <3> QED  BY <2>1, <2>3, <3>1
  <2> QED  BY <1>1, <2>1, <2>2, <2>3 DEF AppendRecord
<1>7. Types'
  <2>1. saved' \in [Keys -> 0 .. MaxWrites] /\ \A j \in Keys : saved'[j] <= lastWrite'
    <3>1. \A j \in Keys : saved[j] \in Nat /\ saved[j] <= lastWrite
      BY EngineAssumption DEF IInv, Types
    <3> QED  BY <1>1, <1>3, <3>1 DEF IInv, Types
  <2>2. written' \in Nat /\ overrun' \in BOOLEAN
    BY <1>6 DEF OnlyLog
  <2> QED  BY <1>1, <1>3, <1>4, <1>5, <1>6, <2>1, <2>2 DEF IInv, Types
<1>8. FileOK'
  BY <1>3, <1>6, LogKeepsFile
<1>9. OpOK' /\ WroteOK' /\ GenerationOK' /\ CloseOK'
  <2>1. ~At("tree")' /\ op'.todo = {} /\ op'.call = "none" /\ up' = "open"
    BY <1>1, <1>2, IdleIs DEF At
  <2> QED  BY <1>1, <1>2, <2>1 DEF OpOK, WroteOK, GenerationOK, CloseOK
<1>10. SavedOK'
  BY <1>1, <1>4, <1>5, <1>6, LogKeepsSaved
<1> QED  BY <1>7, <1>8, <1>9, <1>10 DEF IInv

\* A step that leaves memory and file alone.
LEMMA NothingWritten ==
  ASSUME IInv, UNCHANGED <<memory, lastWrite, pages, lives, saved, from, overrun>>,
         saves' \in 0 .. MaxSaves, up' \in {"open", "closed", "dead"}
  PROVE  Types' /\ FileOK' /\ SavedOK' /\ Present' = Present
<1>1. Types'
  BY DEF IInv, Types, memory
<1>2. FileOK'
  BY DEF IInv, FileOK
<1>3. SavedOK'
  BY DEF IInv, SavedOK, LiveDoc, memory
<1> QED  BY <1>1, <1>2, <1>3 DEF Present, memory

LEMMA SaveKeeps ==
  ASSUME IInv, NEW call \in {"checkpoint", "close"}, Save(call)
  PROVE  IInv'
<1>1. /\ up = "open" /\ saves' \in 0 .. MaxSaves
      /\ op' = [Idle EXCEPT !.steps = SaveSteps(call), !.call = call]
      /\ UNCHANGED <<up, memory, lastWrite, pages, lives, saved, from, overrun>>
  BY EngineAssumption DEF Save, engHistory, IInv, Types
<1>2. Types' /\ FileOK' /\ SavedOK' /\ Present' = Present
  BY <1>1, NothingWritten DEF IInv, Types
<1>3. PICK steps \in StepsLeft(call) : steps = SaveSteps(call)
  BY DEF StepsLeft, SaveSteps
<1>4. op' = [steps |-> steps, call |-> call, todo |-> {}, start |-> 0]
  <2>1. op' = [Idle EXCEPT !.steps = steps, !.call = call]
    BY <1>1, <1>3
  <2> QED  BY <2>1 DEF Idle
<1>5. OpOK'
  BY <1>1, <1>4 DEF OpOK
<1>6. op'.todo = {} /\ op'.steps = steps /\ op'.call = call
  BY <1>4
<1>7. call = "close" => Head(steps) = "wal"
  BY <1>3 DEF SaveSteps
<1>8. WroteOK' /\ GenerationOK' /\ CloseOK'
  <2>1. Present # {} => wrote' \/ 2 \in DOMAIN pages'
    BY <1>1 DEF IInv, WroteOK, memory
  <2>2. op'.call = "close" => ~At("tree")' /\ ~At("registry")' /\ ~At("header")'
    BY <1>6, <1>7 DEF At
  <2> QED  BY <1>1, <1>2, <1>6, <2>1, <2>2 DEF WroteOK, GenerationOK, CloseOK
<1> QED  BY <1>2, <1>5, <1>8 DEF IInv

\* No generation is being written but at its step.
LEMMA NoGeneration ==
  ASSUME IInv, NEW s, At(s), s # "tree"
  PROVE  op.todo = {}
  BY DEF IInv, GenerationOK, At

LEMMA SaveWalKeeps ==
  ASSUME IInv, SaveWal
  PROVE  IInv'
<1>1. /\ At("wal") /\ FlushWal(unflushed) /\ op' = NextOp
      /\ UNCHANGED <<up, tree, lastWrite, wrote, lives, saves, saved, from>>
  BY DEF SaveWal
<1>2. /\ OpOK' /\ op'.call = op.call /\ op'.todo \in {op.todo, {}}
      /\ \A x : At(x)' <=> x = Follows(op.call, "wal")
  BY <1>1, NextOpOK DEF IInv
<1>3. op.todo = {} /\ op'.todo = {} /\ up' = "open"
  BY <1>1, <1>2, NoGeneration, OpAt DEF IInv
<1>4. OnlyLog /\ unflushed' = 0
  BY <1>1, LogPages, EngineAssumption DEF IInv, Types
<1>5. FileOK' /\ (2 \in DOMAIN pages => 2 \in DOMAIN pages')
  BY <1>1, <1>4, LogKeepsFile, EngineAssumption DEF IInv, Types
<1>6. SavedOK'
  <2>1. \A k \in Keys : tree[k].txid \in Nat
    BY EngineAssumption DEF IInv, Types, Entry
  <2>2. tree' \in [Keys -> Entry] /\ \A k \in Keys : tree'[k].txid >= tree[k].txid
    BY <1>1, <2>1 DEF IInv, Types
  <2> QED  BY <1>1, <1>4, <2>2, LogKeepsSaved
<1>7. Types'
  <2>1. written' \in Nat /\ overrun' \in BOOLEAN /\ unflushed' \in 0 .. FlushLimit - 1
    BY <1>4, EngineAssumption DEF OnlyLog
  <2> QED  BY <1>1, <2>1 DEF IInv, Types
<1>8. op'.call = "close" => ~At("tree")' /\ ~At("registry")' /\ ~At("header")'
  BY <1>2 DEF Follows
<1>9. WroteOK'
  BY <1>1, <1>5, <1>8 DEF IInv, WroteOK, Present
<1>10. GenerationOK' /\ CloseOK'
  BY <1>3, <1>8 DEF GenerationOK, CloseOK
<1> QED  BY <1>2, <1>5, <1>6, <1>7, <1>9, <1>10 DEF IInv

\* A page is appended: the file grows by one.
LEMMA AppendKeeps ==
  ASSUME IInv, NEW n \in Nat, n >= 1, DOMAIN pages = 2 .. n, NEW page \in PageKinds,
         pages' = Written(pages, {n + 1}, page),
         page.kind = "doc" => page.entry.txid <= lastWrite, lastWrite' = lastWrite
  PROVE  /\ FileOK' /\ DOMAIN pages' = 2 .. n + 1 /\ pages'[n + 1] = page
         /\ \A p \in DOMAIN pages : p \in DOMAIN pages' /\ pages'[p] = pages[p] /\ p # n + 1
         /\ \A p \in DOMAIN pages' : p = n + 1 \/ p \in DOMAIN pages
<1>1. PICK w : w = pages'
  OBVIOUS
<1>2. /\ DOMAIN w = 2 .. n + 1 /\ w[n + 1] = page
      /\ \A p \in 2 .. n : w[p] = pages[p]
  <2>1. IsAppend(w, pages, n, page)
    BY <1>1, AppendedFile
  <2> QED  BY <2>1 DEF IsAppend
<1>3. /\ \A p \in DOMAIN pages : p \in DOMAIN w /\ w[p] = pages[p] /\ p # n + 1
      /\ \A p \in DOMAIN w : p = n + 1 \/ p \in DOMAIN pages
  BY <1>2
<1>4. \A p \in DOMAIN w :
        w[p] \in PageKinds /\ (w[p].kind = "doc" => w[p].entry.txid <= lastWrite)
  BY <1>2, <1>3 DEF IInv, FileOK
<1>5. n + 1 \in Nat /\ n + 1 >= 1
  OBVIOUS
<1> QED  BY <1>1, <1>2, <1>3, <1>4, <1>5 DEF FileOK

LEMMA SaveMarkerKeeps ==
  ASSUME IInv, SaveMarker
  PROVE  IInv'
<1>1. /\ At("marker") /\ op' = NextOp
      /\ pages' = IF wrote THEN Written(pages, {EndOf(pages)}, Marker) ELSE pages
      /\ UNCHANGED <<up, tree, unflushed, written, wrote, lastWrite, lives, saves>>
      /\ UNCHANGED <<saved, from, overrun>>
  BY DEF SaveMarker, memory, engHistory
<1>2. /\ OpOK' /\ op'.call = op.call /\ op'.todo \in {op.todo, {}}
      /\ \A x : At(x)' <=> x = Follows(op.call, "marker")
  BY <1>1, NextOpOK DEF IInv
<1>3. op.todo = {} /\ op'.todo = {} /\ up' = "open"
  BY <1>1, <1>2, NoGeneration, OpAt DEF IInv
<1>4. PICK n \in Nat : n >= 1 /\ DOMAIN pages = 2 .. n
  BY DEF IInv, FileOK
<1>5. /\ FileOK' /\ DOMAIN pages' \subseteq Nat
      /\ wrote \/ 2 \in DOMAIN pages => 2 \in DOMAIN pages'
      /\ \A p \in DOMAIN pages : p \in DOMAIN pages' /\ pages'[p] = pages[p]
      /\ \A p \in DOMAIN pages' :
           (p \in DOMAIN pages /\ pages'[p] = pages[p]) \/ pages'[p].kind # "doc"
  <2>1. CASE wrote
    <3>1. pages' = Written(pages, {n + 1}, Marker)
      BY <1>1, <1>4, <2>1, EndOfFile
    <3>2. /\ FileOK' /\ DOMAIN pages' = 2 .. n + 1 /\ pages'[n + 1] = Marker
          /\ \A p \in DOMAIN pages : p \in DOMAIN pages' /\ pages'[p] = pages[p] /\ p # n + 1
          /\ \A p \in DOMAIN pages' : p = n + 1 \/ p \in DOMAIN pages
      BY <1>1, <1>4, <3>1, OtherPages, AppendKeeps
    <3>3. 2 \in DOMAIN pages' /\ DOMAIN pages' \subseteq Nat
      BY <1>4, <3>2
    <3> QED  BY <3>2, <3>3, OtherPages
  <2>2. CASE ~wrote
    BY <1>1, <1>4, <2>2 DEF IInv, FileOK
  <2> QED  BY <2>1, <2>2 DEF IInv, Types
<1>6. Types'
  BY <1>1 DEF IInv, Types
<1>7. SavedOK'
  <2>1. \A k \in Keys : ~overrun' /\ saved[k] > 0 => tree'[k].txid >= saved[k]
    BY <1>1 DEF IInv, SavedOK
  <2> QED  BY <1>1, <1>5, <2>1, SavedStays
<1>8. WroteOK'
  BY <1>1, <1>5 DEF IInv, WroteOK, Present
<1>9. op'.call = "close" => ~At("registry")' /\ ~At("header")'
  BY <1>2 DEF Follows
<1>10. GenerationOK' /\ CloseOK'
  BY <1>3, <1>9 DEF GenerationOK, CloseOK
<1> QED  BY <1>2, <1>5, <1>6, <1>7, <1>8, <1>10 DEF IInv

LEMMA SaveTreeKeeps ==
  ASSUME IInv, SaveTree
  PROVE  IInv'
<1>1. /\ At("tree") /\ op.todo = {}
      /\ op' = IF Present = {} THEN NextOp
               ELSE [op EXCEPT !.todo = Present, !.start = EndOf(pages)]
      /\ UNCHANGED <<up, memory, lastWrite, pages, lives, saves, saved, from, overrun>>
  BY DEF SaveTree, Present, GenerationStart, engHistory
<1>2. Types' /\ FileOK' /\ SavedOK' /\ Present' = Present
  BY <1>1, NothingWritten DEF IInv, Types
<1>3. /\ up = "open" /\ op.call \in {"checkpoint", "close"} /\ op.steps \in StepsLeft(op.call)
      /\ op = [steps |-> op.steps, call |-> op.call, todo |-> op.todo, start |-> op.start]
  BY <1>1, OpAt DEF IInv
<1>4. Present # {} => wrote' \/ 2 \in DOMAIN pages'
  BY <1>1 DEF IInv, WroteOK, memory
<1>5. CASE Present = {}
  <2>1. /\ OpOK' /\ op'.call = op.call /\ op'.todo \in {op.todo, {}}
    BY <1>1, <1>5, NextOpOK DEF IInv, memory
  <2>2. \A k \in Keys : ~Live(tree[k])
    BY <1>5 DEF Present, Live, Absent
  <2> QED  BY <1>1, <1>2, <1>4, <1>5, <2>1, <2>2
           DEF IInv, WroteOK, GenerationOK, CloseOK, memory
<1>6. CASE Present # {}
  <2>1. PICK n \in Nat : n >= 1 /\ DOMAIN pages = 2 .. n
    BY DEF IInv, FileOK
  <2>2. EndOf(pages) = n + 1
    BY <2>1, EndOfFile
  <2>3. PICK steps, call : steps = op.steps /\ call = op.call
    OBVIOUS
  <2>4. op' = [steps |-> steps, call |-> call, todo |-> Present, start |-> n + 1]
    BY <1>1, <1>3, <1>6, <2>2, <2>3
  <2>5. OpOK'
    <3>1. up' = "open" /\ call \in {"checkpoint", "close"} /\ steps \in StepsLeft(call)
      BY <1>1, <1>3, <2>3
    <3>2. Present \in SUBSET Present' /\ n + 1 \in Nat
      BY <1>2, <2>1
    <3>3. PICK todo, start : todo = Present /\ start = n + 1
      OBVIOUS
    <3>4. todo \in SUBSET Present' /\ start \in Nat
      BY <3>2, <3>3
    <3>5. op' = [steps |-> steps, call |-> call, todo |-> todo, start |-> start]
      BY <2>4, <3>3
    <3> QED  BY <3>1, <3>4, <3>5 DEF OpOK
  <2>6. /\ op'.todo = Present /\ op'.start = n + 1 /\ op'.call = op.call
        /\ op'.steps = op.steps
    BY <2>3, <2>4
  <2>7. \A x : At(x)' <=> At(x)
    BY <2>6 DEF At
  <2>8. WroteOK'
    BY <1>1, <1>2, <1>4, <2>6, <2>7 DEF IInv, WroteOK
  <2>9. GenerationOK'
    <3>1. Cardinality(Present) \in Nat
      <4>1. Present \subseteq Keys /\ IsFiniteSet(Keys)
        BY EngineAssumption DEF Present
      <4>2. IsFiniteSet(Present)
        BY <4>1, FS_Subset
      <4> QED  BY <4>2, FS_CardinalityType
    <3>2. n + 1 + (Cardinality(Present) - Cardinality(Present)) - 1 = n /\ n + 1 >= 2
      BY <2>1, <3>1
    <3>3. n + 1 = 2 => op.call = "checkpoint" /\ DOMAIN pages = {}
      <4>1. ASSUME n + 1 = 2 PROVE DOMAIN pages = {}
        BY <2>1, <4>1
      <4>2. ASSUME op.call = "close" PROVE 2 \in DOMAIN pages
        BY <1>1, <1>6, <4>2 DEF IInv, WroteOK
      <4> QED  BY <1>3, <4>1, <4>2
    <3> QED  BY <1>1, <1>2, <2>1, <2>6, <2>7, <3>2, <3>3 DEF GenerationOK
  <2>10. CloseOK'
    <3>1. ~At("registry")' /\ ~At("header")' /\ up' = "open"
      BY <1>1, <1>3, <2>7 DEF At
    <3> QED  BY <3>1 DEF CloseOK
  <2> QED  BY <1>2, <2>5, <2>8, <2>9, <2>10 DEF IInv
<1> QED  BY <1>5, <1>6

\* The pages of a generation so far: those of the file's end.
LEMMA SaveEntryAppends ==
  ASSUME IInv, NEW k \in Keys, SaveEntry(k)
  PROVE  \E n \in Nat :
           /\ n = op.start + (Cardinality(Present) - Cardinality(op.todo)) - 1
           /\ n >= 1 /\ op.start \in Nat /\ op.start >= 2 /\ op.start <= n + 1
           /\ DOMAIN pages = 2 .. n /\ pages' = Written(pages, {n + 1}, Doc(k, tree[k]))
           /\ Cardinality(op.todo \ {k}) = Cardinality(op.todo) - 1
           /\ Cardinality(op.todo) \in Nat /\ Cardinality(Present) \in Nat
<1> DEFINE c == Cardinality(Present)
           d == Cardinality(op.todo)
           n == op.start + (c - d) - 1
<1>1. /\ At("tree") /\ k \in op.todo
      /\ pages' = Written(pages, {op.start + (c - d)}, Doc(k, tree[k]))
  BY DEF SaveEntry, Present
<1>2. op.todo \in SUBSET Present /\ op.start \in Nat /\ op.start >= 2
      /\ DOMAIN pages = 2 .. n
  BY <1>1, OpAt DEF IInv, GenerationOK
<1>3. IsFiniteSet(Present)
  <2>1. Present \subseteq Keys /\ IsFiniteSet(Keys)
    BY EngineAssumption DEF Present
  <2> QED  BY <2>1, FS_Subset
<1>4. IsFiniteSet(op.todo) /\ d <= c
  BY <1>2, <1>3, FS_Subset
<1>5. c \in Nat /\ d \in Nat
  BY <1>3, <1>4, FS_CardinalityType
<1>6. Cardinality(op.todo \ {k}) = d - 1
  BY <1>1, <1>4, FS_RemoveElement
<1> HIDE DEF c, d
<1>7. n \in Nat /\ n >= 1 /\ op.start <= n + 1 /\ n + 1 = op.start + (c - d)
  BY <1>2, <1>4, <1>5
<1> QED  BY <1>1, <1>2, <1>5, <1>6, <1>7 DEF c, d

LEMMA SaveEntryKeeps ==
  ASSUME IInv, NEW k \in Keys, SaveEntry(k)
  PROVE  IInv'
<1>1. /\ At("tree") /\ k \in op.todo
      /\ UNCHANGED <<up, tree, unflushed, written, wrote, lastWrite, lives, saves>>
  BY DEF SaveEntry, memory
<1>2. /\ op.todo \in SUBSET Present /\ up = "open" /\ op.call \in {"checkpoint", "close"}
      /\ op.steps \in StepsLeft(op.call)
      /\ op = [steps |-> op.steps, call |-> op.call, todo |-> op.todo, start |-> op.start]
  BY <1>1, OpAt DEF IInv
<1>3. PICK n \in Nat :
        /\ n = op.start + (Cardinality(Present) - Cardinality(op.todo)) - 1
        /\ n >= 1 /\ op.start \in Nat /\ op.start >= 2 /\ op.start <= n + 1
        /\ DOMAIN pages = 2 .. n /\ pages' = Written(pages, {n + 1}, Doc(k, tree[k]))
        /\ Cardinality(op.todo \ {k}) = Cardinality(op.todo) - 1
        /\ Cardinality(op.todo) \in Nat /\ Cardinality(Present) \in Nat
  BY SaveEntryAppends
<1>4. tree[k] \in Entry /\ tree[k].txid <= lastWrite
  BY DEF IInv, Types
<1>5. /\ Doc(k, tree[k]) \in PageKinds /\ Doc(k, tree[k]).kind = "doc"
      /\ Doc(k, tree[k]).key = k /\ Doc(k, tree[k]).entry = tree[k]
  BY <1>4, DocPage
<1>6. /\ FileOK' /\ DOMAIN pages' = 2 .. n + 1 /\ pages'[n + 1] = Doc(k, tree[k])
      /\ \A p \in DOMAIN pages : p \in DOMAIN pages' /\ pages'[p] = pages[p] /\ p # n + 1
      /\ \A p \in DOMAIN pages' : p = n + 1 \/ p \in DOMAIN pages
  BY <1>1, <1>3, <1>4, <1>5, AppendKeeps
<1>7. Present' = Present
  BY <1>1 DEF Present
<1>8. PICK start \in Nat : start = op.start
  BY <1>3
<1>9. GenerationOK
  BY DEF IInv
\* What of the generation was there stays the last page, for other documents follow.
<1>10. ASSUME NEW j \in Present \ (op.todo \ {k})
       PROVE  \E p \in DOMAIN pages' :
                /\ p >= start /\ pages'[p] = Doc(j, tree[j])
                /\ \A q \in DOMAIN pages' : q > p /\ pages'[q].kind = "doc" => pages'[q].key # j
  <2>1. CASE j = k
    <3>1. n + 1 \in DOMAIN pages' /\ n + 1 >= start
      BY <1>3, <1>6, <1>8
    <3>2. \A q \in DOMAIN pages' : ~(q > n + 1)
      BY <1>6
    <3> QED  BY <1>6, <2>1, <3>1, <3>2
  <2>2. CASE j # k
    <3>1. j \in Present \ op.todo
      BY <2>2
    <3>2. PICK p \in DOMAIN pages :
            /\ p >= start /\ pages[p] = Doc(j, tree[j])
            /\ \A q \in DOMAIN pages : q > p /\ pages[q].kind = "doc" => pages[q].key # j
      BY <1>1, <1>8, <1>9, <3>1 DEF GenerationOK, LastPage
    <3>3. p \in DOMAIN pages' /\ pages'[p] = pages[p]
      BY <1>6
    <3>4. ASSUME NEW q \in DOMAIN pages', q > p, pages'[q].kind = "doc"
          PROVE  pages'[q].key # j
      <4>1. CASE q = n + 1
        BY <1>5, <1>6, <2>2, <4>1
      <4>2. CASE q \in DOMAIN pages
        BY <1>6, <3>2, <3>4, <4>2
      <4> QED  BY <1>6, <4>1, <4>2
    <3> QED  BY <3>2, <3>3, <3>4
  <2> QED  BY <2>1, <2>2
<1>11. WroteOK'
  <2>1. 2 \in DOMAIN pages'
    BY <1>3, <1>6
  <2> QED  BY <2>1 DEF WroteOK
<1>12. CASE op.todo # {k}
  <2>1. op' = [op EXCEPT !.todo = @ \ {k}] /\ UNCHANGED <<saved, from, overrun>>
    BY <1>12 DEF SaveEntry, engHistory
  <2>2. PICK steps, call, todo :
          steps = op.steps /\ call = op.call /\ todo = op.todo \ {k}
    OBVIOUS
  <2>3. op' = [steps |-> steps, call |-> call, todo |-> todo, start |-> start]
    <3>1. op' = [op EXCEPT !.todo = todo]
      BY <2>1, <2>2
    <3>2. \A x : [op EXCEPT !.todo = x] =
                   [steps |-> steps, call |-> call, todo |-> x, start |-> start]
      BY <1>2, <1>8, <2>2
    <3> QED  BY <3>1, <3>2
  <2>4. /\ op'.steps = op.steps /\ op'.call = op.call /\ op'.todo = op.todo \ {k}
        /\ op'.start = start
    BY <2>2, <2>3
  <2>5. OpOK'
    <3>1. todo \in SUBSET Present'
      BY <1>2, <1>7, <2>2
    <3> QED  BY <1>1, <1>2, <2>2, <2>3, <3>1 DEF OpOK
  <2>6. \A x : At(x)' <=> At(x)
    BY <2>4 DEF At
  <2>7. GenerationOK'
    <3>1. DOMAIN pages' =
            2 .. start + (Cardinality(Present) - Cardinality(op.todo \ {k})) - 1
      <4>1. start + (Cardinality(Present) - Cardinality(op.todo \ {k})) - 1 = n + 1
        BY <1>3, <1>8
      <4> QED  BY <1>6, <4>1
    <3>2. start = 2 =>
            op.call = "checkpoint" /\ \A p \in DOMAIN pages' : pages'[p].kind = "doc"
      BY <1>1, <1>5, <1>6, <1>8, <1>9 DEF GenerationOK
    <3>3. \A j \in Present' \ op'.todo : LastPage(j, tree[j], op.start)'
      BY <1>1, <1>7, <1>10, <2>4 DEF LastPage
    <3> QED  BY <1>1, <1>3, <1>7, <1>8, <2>4, <2>6, <3>1, <3>2, <3>3 DEF GenerationOK
  <2>8. CloseOK'
    <3>1. ~At("registry")' /\ ~At("header")' /\ up' = "open"
      BY <1>1, <1>2, <2>6 DEF At
    <3> QED  BY <3>1 DEF CloseOK
  <2>9. SavedOK'
    <3>1. \A j \in Keys : ~overrun' /\ saved[j] > 0 => tree'[j].txid >= saved[j]
      BY <1>1, <2>1 DEF IInv, SavedOK
    <3>2. DOMAIN pages' \subseteq Nat
      BY <1>6
    <3>3. ASSUME ~overrun', NEW p \in DOMAIN pages'
          PROVE  \/ p \in DOMAIN pages /\ pages'[p] = pages[p]
                 \/ pages'[p].entry.txid >= saved[pages'[p].key]
      <4>1. CASE p = n + 1
        <5>1. pages'[p].entry.txid = tree[k].txid /\ pages'[p].key = k
          BY <1>5, <1>6, <4>1
        <5>2. saved[k] \in Nat /\ tree[k].txid \in Nat
          BY <1>4, EngineAssumption DEF IInv, Types, Entry
        <5>3. saved[k] > 0 => tree[k].txid >= saved[k]
          BY <1>1, <3>1, <3>3
        <5> QED  BY <5>1, <5>2, <5>3
      <4> QED  BY <1>6, <4>1
    <3> QED  BY <1>6, <2>1, <3>1, <3>2, <3>3, SavedStays
  <2>10. Types'
    BY <1>1, <2>1 DEF IInv, Types
  <2> QED  BY <1>6, <1>11, <2>5, <2>7, <2>8, <2>9, <2>10 DEF IInv
<1>13. CASE op.todo = {k}
  <2>1. /\ op' = [NextOp EXCEPT !.todo = {}]
        /\ saved' = [j \in Keys |-> IF Live(tree[j]) THEN tree[j].txid ELSE 0]
        /\ from' = op.start /\ overrun' = (op.start = 2)
    BY <1>13 DEF SaveEntry, RegistryPage
  <2>2. op'.todo = {}
    <3>1. op' = [NextOp EXCEPT !.todo = {}] /\ NextOp = [op EXCEPT !.steps = Tail(op.steps)]
      BY <2>1 DEF NextOp
    <3>2. PICK rest, steps, call, todo, first :
            /\ rest = Tail(op.steps)
            /\ op = [steps |-> steps, call |-> call, todo |-> todo, start |-> first]
      BY <1>2
    <3>3. op' = [[op EXCEPT !.steps = rest] EXCEPT !.todo = {}]
      BY <3>1, <3>2
    <3> QED  BY <3>2, <3>3
  <2>3. /\ OpOK' /\ op'.call = op.call /\ \A x : At(x)' <=> x = Follows(op.call, "tree")
    BY <1>1, <2>1, NextOpOK DEF IInv
  <2>4. GenerationOK'
    BY <2>2 DEF GenerationOK
  <2>5. \A j \in Keys : Live(tree[j]) => j \in Present \ (op.todo \ {k})
    BY <1>13 DEF Present, Live, Absent
  <2>6. CloseOK'
    <3>1. ASSUME op.call = "close" PROVE start >= 3
      BY <1>1, <1>3, <1>8, <1>9, <3>1, SMTT(60) DEF GenerationOK
    <3>2. ASSUME op.call = "close", NEW j \in Keys, Live(tree[j])
          PROVE  LastPage(j, tree[j], 3)'
      <4>1. PICK p \in DOMAIN pages' :
              /\ p >= start /\ pages'[p] = Doc(j, tree[j])
              /\ \A q \in DOMAIN pages' : q > p /\ pages'[q].kind = "doc" => pages'[q].key # j
        BY <1>10, <2>5, <3>2
      <4>2. p \in Nat
        BY <1>6
      <4>3. p >= 3
        BY <1>8, <3>1, <3>2, <4>1, <4>2
      <4> QED  BY <1>1, <4>1, <4>3 DEF LastPage
    <3>3. up' = "open"
      BY <1>1, <1>2
    <3> QED  BY <1>1, <2>3, <3>2, <3>3 DEF CloseOK
  <2>7. SavedOK'
    <3> SUFFICES ASSUME ~overrun', NEW j \in Keys, saved'[j] > 0
                 PROVE  /\ from' >= 3 /\ tree'[j].txid >= saved'[j]
                        /\ \E p \in DOMAIN pages' :
                             /\ p >= from' /\ LiveDoc(p, j)' /\ pages'[p].entry.txid = saved'[j]
                             /\ \A q \in DOMAIN pages' :
                                  q > p /\ LiveDoc(q, j)' => pages'[q].entry.txid >= saved'[j]
      BY DEF SavedOK
    <3>1. Live(tree[j]) /\ saved'[j] = tree[j].txid /\ tree[j] \in Entry
      BY <2>1 DEF IInv, Types
    <3>2. from' = start /\ start >= 3
      <4>1. op.start # 2
        BY <2>1
      <4>2. op.start >= 3
        BY <1>3, <4>1
      <4> QED  BY <1>8, <2>1, <4>2
    <3>3. PICK p \in DOMAIN pages' :
            /\ p >= start /\ pages'[p] = Doc(j, tree[j])
            /\ \A q \in DOMAIN pages' : q > p /\ pages'[q].kind = "doc" => pages'[q].key # j
      BY <1>10, <2>5, <3>1
    <3>4. /\ pages'[p].kind = "doc" /\ pages'[p].key = j /\ pages'[p].entry = tree[j]
      BY <3>1, <3>3, DocPage
    <3>5. LiveDoc(p, j)' /\ pages'[p].entry.txid = saved'[j]
      BY <3>1, <3>4 DEF LiveDoc
    <3>6. \A q \in DOMAIN pages' : q > p => ~LiveDoc(q, j)'
      BY <3>3 DEF LiveDoc
    <3>7. tree'[j].txid >= saved'[j]
      <4>1. tree[j].txid \in Nat
        BY <3>1, EngineAssumption DEF Entry
      <4> QED  BY <1>1, <3>1, <4>1
    <3> QED  BY <3>2, <3>3, <3>5, <3>6, <3>7
  <2>8. Types'
    <3>1. 0 <= lastWrite /\ 0 \in 0 .. MaxWrites
      BY EngineAssumption DEF IInv, Types
    <3>2. \A j \in Keys : tree[j].txid \in 0 .. MaxWrites /\ tree[j].txid <= lastWrite
      BY DEF IInv, Types, Entry
    <3>3. saved' \in [Keys -> 0 .. MaxWrites] /\ \A j \in Keys : saved'[j] <= lastWrite
      BY <2>1, <3>1, <3>2
    <3>4. from' \in Nat /\ overrun' \in BOOLEAN
      BY <1>3, <2>1
    <3> QED  BY <1>1, <3>3, <3>4 DEF IInv, Types
  <2> QED  BY <1>6, <1>11, <2>3, <2>4, <2>6, <2>7, <2>8 DEF IInv
<1> QED  BY <1>12, <1>13

LEMMA SaveRegistryKeeps ==
  ASSUME IInv, SaveRegistry
  PROVE  IInv'
<1>1. /\ At("registry") /\ op' = NextOp /\ pages' = Written(pages, {2}, Registry)
      /\ UNCHANGED <<up, tree, unflushed, written, wrote, lastWrite, lives, saves>>
      /\ UNCHANGED <<saved, from, overrun>>
  BY DEF SaveRegistry, RegistryPage, memory, engHistory
<1>2. /\ OpOK' /\ op'.call = op.call /\ op'.todo \in {op.todo, {}}
      /\ \A x : At(x)' <=> x = Follows(op.call, "registry")
  BY <1>1, NextOpOK DEF IInv
<1>3. op.todo = {} /\ op'.todo = {} /\ up' = "open"
  BY <1>1, <1>2, NoGeneration, OpAt DEF IInv
<1>4. PICK n \in Nat : n >= 1 /\ DOMAIN pages = 2 .. n
  BY DEF IInv, FileOK
<1>5. PICK ps : ps = {2}
  OBVIOUS
<1>6. PICK m \in Nat : m = 2 /\ ps \in SUBSET (2 .. m) /\ ps # {}
  BY <1>5
<1>7. IsWrite(pages', pages, n, ps, Registry)
  BY <1>1, <1>4, <1>5, <1>6, WrittenFile
<1>8. PICK e \in Nat : e >= n /\ e \in {n} \cup ps /\ DOMAIN pages' = 2 .. e
  BY <1>7 DEF IsWrite
<1>9. \A p \in DOMAIN pages : p \in DOMAIN pages'
  BY <1>4, <1>8
<1>10. \A p \in DOMAIN pages' : IF p = 2 THEN pages'[p] = Registry
                                ELSE p \in DOMAIN pages /\ pages'[p] = pages[p]
  <2>1. ASSUME NEW p \in DOMAIN pages', p # 2 PROVE p \in DOMAIN pages
    BY <1>4, <1>5, <1>8, <2>1
  <2> QED  BY <1>4, <1>5, <1>7, <2>1 DEF IsWrite
<1>11. FileOK'
  <2>1. e >= 1
    BY <1>4, <1>8
  <2>2. ASSUME NEW p \in DOMAIN pages'
        PROVE  /\ pages'[p] \in PageKinds
               /\ pages'[p].kind = "doc" => pages'[p].entry.txid <= lastWrite'
    BY <1>1, <1>10, OtherPages DEF IInv, FileOK
  <2> QED  BY <1>8, <2>1, <2>2 DEF FileOK
<1>12. DOMAIN pages' \subseteq Nat /\ DOMAIN pages \subseteq Nat
  BY <1>4, <1>8
<1>13. SavedOK'
  <2>1. \A k \in Keys : ~overrun' /\ saved[k] > 0 => tree'[k].txid >= saved[k]
    BY <1>1 DEF IInv, SavedOK
  <2>2. ASSUME from >= 3
        PROVE  /\ \A p \in DOMAIN pages : p >= from => p # 2
               /\ \A p \in DOMAIN pages' : p >= from => p # 2
    <3>1. from \in Nat
      BY DEF IInv, Types
    <3> QED  BY <1>12, <2>2, <3>1
  <2> QED  BY <1>1, <1>9, <1>10, <1>12, <2>1, <2>2, SavedStays
<1>14. Types'
  BY <1>1 DEF IInv, Types
<1>15. WroteOK'
  <2>1. ~At("tree")'
    BY <1>2 DEF Follows
  <2> QED  BY <1>1, <1>9, <2>1 DEF IInv, WroteOK, Present
<1>16. GenerationOK'
  BY <1>3 DEF GenerationOK
<1>17. CloseOK'
  <2> SUFFICES ASSUME op.call = "close", NEW k \in Keys, Live(tree[k])
               PROVE  LastPage(k, tree[k], 3)'
    BY <1>1, <1>2, <1>3 DEF CloseOK
  <2>1. PICK p \in DOMAIN pages :
          /\ p >= 3 /\ pages[p] = Doc(k, tree[k])
          /\ \A q \in DOMAIN pages : q > p /\ pages[q].kind = "doc" => pages[q].key # k
    BY <1>1 DEF IInv, CloseOK, LastPage
  <2>2. p # 2 /\ p \in DOMAIN pages' /\ pages'[p] = pages[p]
    BY <1>9, <1>10, <1>12, <2>1
  <2>3. ASSUME NEW q \in DOMAIN pages', q > p PROVE q \in DOMAIN pages /\ pages'[q] = pages[q]
    <3>1. q # 2
      BY <1>12, <2>1, <2>3
    <3> QED  BY <1>10, <3>1
  <2> QED  BY <1>1, <2>1, <2>2, <2>3 DEF LastPage
<1> QED  BY <1>2, <1>11, <1>13, <1>14, <1>15, <1>16, <1>17 DEF IInv

LEMMA SaveHeaderKeeps ==
  ASSUME IInv, SaveHeader
  PROVE  IInv'
<1>1. /\ At("header") /\ op' = Idle
      /\ up' = IF op.call = "close" THEN "closed" ELSE up
      /\ UNCHANGED <<memory, lastWrite, pages, lives, saves, saved, from, overrun>>
  BY DEF SaveHeader, engHistory
<1>2. up = "open"
  BY <1>1, OpAt DEF IInv
<1>3. Types' /\ FileOK' /\ SavedOK' /\ Present' = Present
  BY <1>1, NothingWritten DEF IInv, Types
<1>4. op'.todo = {} /\ op'.call = "none"
  BY <1>1, IdleIs
<1>5. OpOK' /\ WroteOK' /\ GenerationOK'
  BY <1>1, <1>3, <1>4 DEF IInv, OpOK, WroteOK, GenerationOK, memory
<1>6. CloseOK'
  <2>1. op.call = "close" => \A k \in Keys : Live(tree[k]) => LastPage(k, tree[k], 3)
    BY <1>1 DEF IInv, CloseOK
  <2>2. up' = "closed" => op.call = "close"
    BY <1>1, <1>2
  <2> QED  BY <1>1, <1>4, <2>1, <2>2 DEF CloseOK, LastPage, memory
<1> QED  BY <1>3, <1>5, <1>6 DEF IInv

LEMMA CrashKeeps ==
  ASSUME IInv, Crash
  PROVE  IInv'
<1>1. /\ up' = "dead" /\ op' = Idle
      /\ UNCHANGED <<memory, lastWrite, pages, lives, saves, saved, from, overrun>>
  BY DEF Crash, engHistory
<1>2. Types' /\ FileOK' /\ SavedOK' /\ Present' = Present
  BY <1>1, NothingWritten DEF IInv, Types
<1>3. op'.todo = {} /\ op'.call = "none"
  BY <1>1, IdleIs
<1> QED  BY <1>1, <1>2, <1>3
         DEF IInv, OpOK, WroteOK, GenerationOK, CloseOK, memory

\* The loader finds what was saved, or later.
LEMMA SavedIsLoaded ==
  ASSUME IInv, ~overrun, NEW k \in Keys, saved[k] > 0
  PROVE  Loaded(pages, k) >= saved[k]
<1>1. PICK p \in DOMAIN pages :
        /\ p >= from /\ from >= 3 /\ LiveDoc(p, k) /\ pages[p].entry.txid = saved[k]
        /\ \A q \in DOMAIN pages : q > p /\ LiveDoc(q, k) => pages[q].entry.txid >= saved[k]
  BY DEF IInv, SavedOK
<1>2. DOMAIN pages \subseteq Nat /\ from \in Nat
  BY DEF IInv, FileOK, Types
<1>3. p >= 3
  BY <1>1, <1>2
<1>4. PICK r \in DOMAIN pages :
        r >= p /\ LiveDoc(r, k) /\ Loaded(pages, k) = pages[r].entry.txid
  BY <1>1, <1>3, LoadedPage DEF IInv
<1>5. CASE r = p
  <2>1. saved[k] \in Nat
    BY EngineAssumption DEF IInv, Types
  <2> QED  BY <1>1, <1>4, <1>5, <2>1
<1>6. CASE r # p
  <2>1. r > p
    BY <1>2, <1>4, <1>6
  <2> QED  BY <1>1, <1>4, <2>1
<1> QED  BY <1>5, <1>6

LEMMA OpenKeeps ==
  ASSUME IInv, Open
  PROVE  IInv'
<1>1. /\ up # "open" /\ lives < MaxLives /\ up' = "open" /\ lives' = lives + 1
      /\ tree' = [k \in Keys |-> [txid |-> Loaded(pages, k), tombstone |-> FALSE]]
      /\ unflushed' = 0 /\ written' = 0 /\ wrote' = FALSE
      /\ UNCHANGED <<lastWrite, pages, op, saves, saved, from, overrun>>
  BY DEF Open, engHistory
<1>2. op = Idle
  BY <1>1 DEF IInv, OpOK
<1>3. \A k \in Keys : /\ Loaded(pages, k) \in 0 .. MaxWrites
                      /\ Loaded(pages, k) > 0 =>
                           2 \in DOMAIN pages /\ Loaded(pages, k) <= lastWrite
  BY LoadedPage DEF IInv
<1>4. /\ tree' \in [Keys -> Entry]
      /\ \A k \in Keys : tree'[k] = [txid |-> Loaded(pages, k), tombstone |-> FALSE]
  BY <1>1, <1>3 DEF Entry
<1>5. \A k \in Keys : tree'[k].txid = Loaded(pages, k) /\ tree'[k].txid <= lastWrite
  <2>1. lastWrite \in Nat
    BY EngineAssumption DEF IInv, Types
  <2> QED  BY <1>3, <1>4, <2>1
<1>6. Types'
  <2>1. lives' \in 1 .. MaxLives /\ unflushed' \in 0 .. FlushLimit - 1
    BY <1>1, EngineAssumption DEF IInv, Types
  <2> QED  BY <1>1, <1>4, <1>5, <2>1 DEF IInv, Types
<1>7. FileOK'
  BY <1>1 DEF IInv, FileOK
<1>8. op'.todo = {} /\ op'.call = "none"
  BY <1>1, <1>2, IdleIs
<1>9. WroteOK'
  <2>1. ASSUME NEW k \in Keys, tree'[k] # Absent PROVE 2 \in DOMAIN pages
    <3>1. Loaded(pages, k) # 0
      BY <1>4, <2>1 DEF Absent
    <3> QED  BY <1>3, <3>1
  <2> QED  BY <1>1, <1>8, <2>1 DEF WroteOK, Present
<1>10. OpOK' /\ GenerationOK' /\ CloseOK'
  BY <1>1, <1>2, <1>8 DEF OpOK, GenerationOK, CloseOK
<1>11. SavedOK'
  <2>1. ASSUME ~overrun, NEW k \in Keys, saved[k] > 0 PROVE tree'[k].txid >= saved[k]
    BY <1>5, <2>1, SavedIsLoaded
  <2> QED  BY <1>1, <2>1 DEF IInv, SavedOK, LiveDoc
<1> QED  BY <1>6, <1>7, <1>9, <1>10, <1>11 DEF IInv

-----------------------------------------------------------------------------
(* The theorems                                                            *)

LEMMA InitKeeps == EngInit => IInv
<1> SUFFICES ASSUME EngInit PROVE IInv
  OBVIOUS
<1>1. /\ up = "open" /\ lives = 1 /\ saves = 0 /\ tree = [k \in Keys |-> Absent]
      /\ lastWrite = 0 /\ unflushed = 0 /\ written = 0 /\ wrote = FALSE
      /\ pages = [p \in {} |-> Hole] /\ op = Idle
      /\ saved = [k \in Keys |-> 0] /\ from = 0 /\ overrun = FALSE
  BY DEF EngInit
<1>2. Types
  <2>1. Absent \in Entry /\ Absent.txid = 0
    BY EngineAssumption DEF Absent, Entry
  <2>2. tree \in [Keys -> Entry] /\ \A k \in Keys : tree[k].txid <= lastWrite
    BY <1>1, <2>1
  <2>3. saved \in [Keys -> 0 .. MaxWrites] /\ \A k \in Keys : saved[k] <= lastWrite
    BY <1>1, EngineAssumption
  <2>4. /\ 0 \in 0 .. MaxWrites /\ 0 \in 0 .. FlushLimit - 1 /\ 1 \in 1 .. MaxLives
        /\ 0 \in 0 .. MaxSaves /\ 0 \in Nat
    BY EngineAssumption
  <2> QED  BY <1>1, <2>2, <2>3, <2>4 DEF Types
<1>3. FileOK
  <2>1. DOMAIN pages = {} /\ 2 .. 1 = {} /\ 1 \in Nat /\ 1 >= 1
    BY <1>1
  <2> QED  BY <2>1 DEF FileOK
<1>4. Present = {} /\ op.todo = {} /\ op.call = "none" /\ \A k \in Keys : saved[k] = 0
  BY <1>1, IdleIs DEF Present
<1> QED  BY <1>1, <1>2, <1>3, <1>4 DEF IInv, OpOK, WroteOK, GenerationOK, CloseOK, SavedOK

LEMMA StepKeeps == IInv /\ [EngNext]_engVars => IInv'
<1> SUFFICES ASSUME IInv, [EngNext]_engVars PROVE IInv'
  OBVIOUS
<1>1. ASSUME NEW k \in Keys, Insert(k) \/ Update(k) \/ Delete(k) PROVE IInv'
  BY <1>1, PutKeeps DEF Insert, Update, Delete
<1>2. ASSUME NEW k \in Keys, SaveEntry(k) PROVE IInv'
  BY <1>2, SaveEntryKeeps
<1>3. CASE Checkpoint \/ Close
  BY <1>3, SaveKeeps DEF Checkpoint, Close
<1>4. CASE SaveWal \/ SaveMarker \/ SaveTree \/ SaveRegistry \/ SaveHeader
  BY <1>4, SaveWalKeeps, SaveMarkerKeeps, SaveTreeKeeps, SaveRegistryKeeps, SaveHeaderKeeps
<1>5. CASE Crash \/ Open
  BY <1>5, CrashKeeps, OpenKeeps
<1>6. CASE UNCHANGED engVars
  <2>1. /\ UNCHANGED <<memory, lastWrite, pages, lives, saved, from, overrun>>
        /\ UNCHANGED <<up, op, saves>>
    BY <1>6 DEF engVars, memory
  <2>2. Types' /\ FileOK' /\ SavedOK' /\ Present' = Present
    BY <2>1, NothingWritten DEF IInv, Types
  <2>3. \A x : At(x)' <=> At(x)
    BY <2>1 DEF At
  <2>4. OpOK' /\ WroteOK' /\ GenerationOK' /\ CloseOK'
    BY <2>1, <2>2, <2>3 DEF IInv, OpOK, WroteOK, GenerationOK, CloseOK, LastPage, memory
  <2> QED  BY <2>2, <2>4 DEF IInv
<1> QED  BY <1>1, <1>2, <1>3, <1>4, <1>5, <1>6 DEF EngNext

LEMMA EngineInvariant == EngSpec => []IInv
  BY InitKeeps, StepKeeps, PTL DEF EngSpec

\* Every variable has its type, the file has no gap, and no write goes past its end
\* but to append.
THEOREM FileWellFormed == EngSpec => []EngTypeOK
<1>1. ASSUME IInv PROVE EngTypeOK
  <2>1. PICK n \in Nat : n >= 1 /\ DOMAIN pages = 2 .. n
    BY <1>1 DEF IInv, FileOK
  <2>2. DOMAIN pages = 2 .. EndOf(pages) - 1
    BY <2>1, EndOfFile
  <2>3. \A p \in DOMAIN pages : pages[p] \in PageKinds
    BY <1>1 DEF IInv, FileOK
  <2>4. op.call \in {"none", "checkpoint", "close"} /\ op.todo \subseteq Keys
    <3>1. CASE op = Idle
      BY <3>1, IdleIs
    <3>2. CASE op # Idle
      <4>1. PICK call \in {"checkpoint", "close"}, todo \in SUBSET Present, start \in Nat :
              \E steps \in StepsLeft(call) :
                op = [steps |-> steps, call |-> call, todo |-> todo, start |-> start]
        BY <1>1, <3>2 DEF IInv, OpOK
      <4>2. op.call = call /\ op.todo = todo
        BY <4>1
      <4> QED  BY <4>1, <4>2 DEF Present
    <3> QED  BY <3>1, <3>2
  <2> QED  BY <1>1, <2>2, <2>3, <2>4 DEF IInv, Types, EngTypeOK
<1> QED  BY <1>1, EngineInvariant, PTL

\* After close() the file has every live document in its last version, for any
\* number of documents, writes, saves and crashes before.
THEOREM CloseLosesNothing == EngSpec => []CloseKeepsLive
<1>1. ASSUME IInv PROVE CloseKeepsLive
  <2> SUFFICES ASSUME up = "closed", NEW k \in Keys, Live(tree[k])
               PROVE  Loaded(pages, k) = tree[k].txid
    BY DEF CloseKeepsLive
  <2>1. PICK p \in DOMAIN pages :
          /\ p >= 3 /\ pages[p] = Doc(k, tree[k])
          /\ \A q \in DOMAIN pages : q > p /\ pages[q].kind = "doc" => pages[q].key # k
    BY <1>1 DEF IInv, CloseOK, LastPage
  <2>2. pages[p].kind = "doc" /\ pages[p].key = k /\ pages[p].entry = tree[k]
    BY <1>1, <2>1, DocPage DEF IInv, Types
  <2>3. LiveDoc(p, k)
    BY <2>2 DEF LiveDoc
  <2>4. PICK r \in DOMAIN pages :
          r >= p /\ LiveDoc(r, k) /\ Loaded(pages, k) = pages[r].entry.txid
    BY <1>1, <2>1, <2>3, LoadedPage DEF IInv
  <2>5. ~(r > p)
    BY <2>1, <2>4 DEF LiveDoc
  <2>6. r = p
    <3>1. DOMAIN pages \subseteq Nat
      BY <1>1 DEF IInv, FileOK
    <3> QED  BY <2>4, <2>5, <3>1
  <2> QED  BY <2>2, <2>4, <2>6
<1> QED  BY <1>1, EngineInvariant, PTL

\* Killed at any step of any call, the database comes back with what the newest
\* complete generation had or later, unless something was written over that.
THEOREM SavesSurvive == EngSpec => []UnspoiltSaveSurvives
<1>1. ASSUME IInv PROVE UnspoiltSaveSurvives
  BY <1>1, SavedIsLoaded DEF UnspoiltSaveSurvives
<1> QED  BY <1>1, EngineInvariant, PTL

\* No step overwrites the registry with anything else.
LEMMA RegistryStep ==
  ASSUME IInv, [EngNext]_engVars, 2 \in DOMAIN pages, pages[2] = Registry
  PROVE  pages'[2] = Registry
<1>1. ASSUME NEW k \in Keys, Insert(k) \/ Update(k) \/ Delete(k) PROVE pages'[2] = Registry
  <2>1. FlushWal(unflushed + 1) \/ UNCHANGED pages
    BY <1>1 DEF Insert, Update, Delete, Put, AppendRecord
  <2>2. unflushed + 1 \in Nat
    BY EngineAssumption DEF IInv, Types
  <2> QED  BY <2>1, <2>2, LogPages DEF OnlyLog
<1>2. CASE SaveWal
  <2>1. unflushed \in Nat /\ FlushWal(unflushed)
    BY <1>2, EngineAssumption DEF SaveWal, IInv, Types
  <2> QED  BY <2>1, LogPages DEF OnlyLog
<1>3. PICK n \in Nat : n >= 1 /\ DOMAIN pages = 2 .. n
  BY DEF IInv, FileOK
<1>4. ASSUME NEW page, pages' = Written(pages, {n + 1}, page) PROVE pages'[2] = pages[2]
  <2>1. PICK w : w = pages'
    OBVIOUS
  <2>2. IsAppend(w, pages, n, page)
    BY <1>3, <1>4, <2>1, AppendedFile
  <2> QED  BY <1>3, <2>1, <2>2 DEF IsAppend
<1>5. CASE SaveMarker
  BY <1>3, <1>4, <1>5, EndOfFile DEF SaveMarker
<1>6. ASSUME NEW k \in Keys, SaveEntry(k) PROVE pages'[2] = Registry
  <2>1. PICK m \in Nat : m >= 1 /\ DOMAIN pages = 2 .. m
                          /\ pages' = Written(pages, {m + 1}, Doc(k, tree[k]))
    BY <1>6, SaveEntryAppends
  <2>2. m = n
    BY <1>3, <2>1
  <2> QED  BY <1>4, <2>1, <2>2
<1>7. CASE SaveRegistry
  <2>1. pages' = Written(pages, {2}, Registry)
    BY <1>7 DEF SaveRegistry, RegistryPage
  <2>2. PICK ps, m : ps = {2} /\ m = 2
    OBVIOUS
  <2>3. m \in Nat /\ ps \in SUBSET (2 .. m) /\ ps # {}
    BY <2>2
  <2>4. IsWrite(pages', pages, n, ps, Registry)
    BY <1>3, <2>1, <2>2, <2>3, WrittenFile
  <2> QED  BY <2>2, <2>4 DEF IsWrite
<1>8. CASE Checkpoint \/ Close \/ SaveTree \/ SaveHeader \/ Crash \/ Open \/ UNCHANGED engVars
  BY <1>8 DEF Checkpoint, Close, Save, SaveTree, SaveHeader, Crash, Open, engVars
<1> QED  BY <1>1, <1>2, <1>5, <1>6, <1>7, <1>8 DEF EngNext

\* Log, generations and markers never come to lie on the registry, however long
\* the log gets before a save.
THEOREM RegistryStays == EngSpec => RegistryKept
<1>1. IInv /\ [EngNext]_engVars =>
        [2 \in DOMAIN pages /\ pages[2] = Registry => pages'[2] = Registry]_engVars
  BY RegistryStep
<1> QED  BY <1>1, EngineInvariant, PTL DEF EngSpec, RegistryKept
=============================================================================
