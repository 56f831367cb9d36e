----------------------------- MODULE MCStorage ------------------------------
(***************************************************************************)
(* The parts that store data, each by itself: the MVCC manager with two    *)
(* clients and a GC worker, what finds see of documents and their index,   *)
(* and what outlives a crash - Wal under its own concurrency, Engine with  *)
(* the pages it writes, and the persistence of the queue.  They share no   *)
(* state; a behaviour is of one of them, chosen in the initial state.      *)
(***************************************************************************)
EXTENDS MCWal, Engine, QueueRecovery, Mvcc, Documents

CONSTANT MaxMishaps   \* bound: crashes and snapshots of the queue's log together

VARIABLE part

storageVars == <<vars, engVars, recVars, mvccVars, docVars, part>>

StorageInit ==
  /\ part \in {"wal", "engine", "queue", "mvcc", "documents"}
  /\ Init /\ (part # "wal" => setup = CHOOSE s \in Setups : TRUE)
  /\ EngInit /\ RecInit /\ MvccInit
  /\ DocInit /\ (part # "documents" => ~indexed)

StorageNext ==
  /\ UNCHANGED part
  /\ \/ part = "wal" /\ Next /\ UNCHANGED <<engVars, recVars, mvccVars, docVars>>
     \/ part = "engine" /\ EngNext /\ UNCHANGED <<vars, recVars, mvccVars, docVars>>
     \/ part = "queue" /\ RecNext /\ crashes' + snaps' <= MaxMishaps /\ UNCHANGED <<vars, engVars, mvccVars, docVars>>
     \/ part = "mvcc" /\ MvccNext /\ UNCHANGED <<vars, engVars, recVars, docVars>>
     \/ part = "documents" /\ DocNext /\ UNCHANGED <<vars, engVars, recVars, mvccVars>>

StorageSpec == StorageInit /\ [][StorageNext]_storageVars
=============================================================================
