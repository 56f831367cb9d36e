-------------------------------- MODULE Ipc --------------------------------
(***************************************************************************)
(* IpcRouter and IpcWorker (packages/queueovn/src/ipc): calls routed to    *)
(* child processes, a bounded number of requests under way per shard,      *)
(* answers, timeouts, send errors, and children that go away or are        *)
(* replaced.                                                               *)
(*                                                                         *)
(* The router runs on one JavaScript thread.  A slot that is granted is a  *)
(* resolved promise whose continuation (Send) runs before any timer or I/O *)
(* event; Quiet is the guard of those events.  An entry of the shards map  *)
(* is named by the child it was registered for.                            *)
(***************************************************************************)
EXTENDS Integers, FiniteSets, Sequences

CONSTANTS
  Keys,      \* shard keys; the shutdown call for a key is named by the key
  Children,  \* child processes, each registered at most once
  Calls,     \* enqueue() calls
  NoChild,   \* no entry
  MaxConcurrentPerShard,
  MaxFaults  \* bound: closes, exits, deregistrations and failing sends

ASSUME IpcAssumption ==
  /\ NoChild \notin Children \cup Keys
  /\ Calls \cap Keys = {}
  /\ IsFiniteSet(Calls) /\ IsFiniteSet(Keys)
  /\ MaxConcurrentPerShard \in Nat \ {0}
  /\ MaxFaults \in Nat

VARIABLES
  shards,      \* the shards map: key -> entry
  keyOf,       \* the key a child was registered under
  inflight,    \* per entry: the counter
  waitQueue,   \* per entry: the calls waiting for a slot
  at,          \* per call: where it is
  entryOf,     \* per call: the entry it looked up
  sendErrors,  \* calls whose send() failed, the callback not run yet
  connected,   \* children whose channel is open
  exited,      \* children whose exit event has been seen
  work,        \* messages a child has not handled: <<child, call>>
  replies,     \* answers not delivered: <<child, call, TRUE or FALSE>>
  accepted,    \* calls whose job a child's queue took
  stopped,     \* children whose queue was shut down
  replaced,    \* history: entries overwritten by registerShard
  reset,       \* history: entries _rejectShardPending was run on
  faults       \* closes, exits, deregistrations and failing sends so far

router == <<shards, keyOf, inflight, waitQueue, at, entryOf, sendErrors,
            replaced, reset, faults>>
worker == <<accepted, stopped>>
vars == <<shards, keyOf, inflight, waitQueue, at, entryOf, sendErrors,
          connected, exited, work, replies, accepted, stopped, replaced, reset,
          faults>>

Ids        == Calls \cup Keys
Settled    == {"resolved", "rejected"}
CallStates == {"idle", "waiting", "granted", "pending"} \cup Settled
Registered == {c \in Children : keyOf[c] \in Keys}

Quiet == sendErrors = {} /\ \A i \in Ids : at[i] # "granted"

Holders(c) == {i \in Ids : entryOf[i] = c /\ at[i] \in {"granted", "pending"}}

TypeOK ==
  /\ shards \in [Keys -> Children \cup {NoChild}]
  /\ keyOf \in [Children -> Keys \cup {NoChild}]
  /\ inflight \in [Children -> Int]
  /\ waitQueue \in [Children -> Seq(Ids)]
  /\ at \in [Ids -> CallStates]
  /\ entryOf \in [Ids -> Children \cup {NoChild}]
  /\ sendErrors \subseteq Ids
  /\ connected \subseteq Children /\ exited \subseteq Children
  /\ work \subseteq Children \X Ids
  /\ replies \subseteq Children \X Ids \X BOOLEAN
  /\ accepted \subseteq Calls /\ stopped \subseteq Children
  /\ replaced \subseteq Children /\ reset \subseteq Children
  /\ faults \in 0 .. MaxFaults

Init ==
  /\ shards = [k \in Keys |-> NoChild]
  /\ keyOf = [c \in Children |-> NoChild]
  /\ inflight = [c \in Children |-> 0]
  /\ waitQueue = [c \in Children |-> <<>>]
  /\ at = [i \in Ids |-> "idle"]
  /\ entryOf = [i \in Ids |-> NoChild]
  /\ sendErrors = {} /\ connected = {} /\ exited = {}
  /\ work = {} /\ replies = {} /\ accepted = {} /\ stopped = {}
  /\ replaced = {} /\ reset = {} /\ faults = 0

Fault == faults < MaxFaults /\ faults' = faults + 1

----------------------------------------------------------------------------
(* Slots.                                                                  *)

\* Every call of set S asks its entry entry[i] for a slot; no two ask the same.
AcquireSlots(S, entry) ==
  LET full(c) == inflight[c] >= MaxConcurrentPerShard
      asked   == {entry[i] : i \in S}
      of(c)   == CHOOSE i \in S : entry[i] = c
  IN /\ at' = [i \in Ids |-> IF i \notin S THEN at[i]
                             ELSE IF full(entry[i]) THEN "waiting" ELSE "granted"]
     /\ entryOf' = [i \in Ids |-> IF i \in S THEN entry[i] ELSE entryOf[i]]
     /\ inflight' = [c \in Children |->
                       inflight[c] + (IF c \in asked /\ ~full(c) THEN 1 ELSE 0)]
     /\ waitQueue' = [c \in Children |->
                        IF c \in asked /\ full(c) THEN Append(waitQueue[c], of(c))
                        ELSE waitQueue[c]]

\* Mutant: the counter goes down even when the slot is handed on.
ReleaseSlotTwice(i, outcome) ==
  LET c == entryOf[i]
      ended == [at EXCEPT ![i] = outcome]
  IN /\ inflight' = [inflight EXCEPT ![c] = @ - 1]
     /\ IF waitQueue[c] # <<>>
        THEN /\ at' = [ended EXCEPT ![Head(waitQueue[c])] = "granted"]
             /\ waitQueue' = [waitQueue EXCEPT ![c] = Tail(@)]
        ELSE at' = ended /\ UNCHANGED waitQueue

\* The slot of call i, which ends with the outcome, goes to the next waiter.
ReleaseSlot(i, outcome) ==
  LET c == entryOf[i]
      ended == [at EXCEPT ![i] = outcome]
  IN IF waitQueue[c] # <<>>
     THEN /\ at' = [ended EXCEPT ![Head(waitQueue[c])] = "granted"]
          /\ waitQueue' = [waitQueue EXCEPT ![c] = Tail(@)]
          /\ UNCHANGED inflight
     ELSE /\ at' = ended
          /\ inflight' = [inflight EXCEPT ![c] = @ - 1]
          /\ UNCHANGED waitQueue

\* Mutant: every pending request is rejected, whatever its shard.
RejectPendingOfAll(k) ==
  LET c == shards[k]
      woken == IF c = NoChild THEN {}
               ELSE {waitQueue[c][n] : n \in 1 .. Len(waitQueue[c])}
  IN /\ at' = [i \in Ids |-> IF at[i] = "pending" THEN "rejected"
                             ELSE IF i \in woken THEN "granted" ELSE at[i]]
     /\ inflight' = [e \in Children |-> IF e = c THEN 0 ELSE inflight[e]]
     /\ waitQueue' = [e \in Children |-> IF e = c THEN <<>> ELSE waitQueue[e]]
     /\ reset' = reset \cup ({c} \ {NoChild})

\* Mutant: only requests sent through the entry the key has now are rejected.
RejectPendingOfEntry(k) ==
  LET c == shards[k]
      woken == IF c = NoChild THEN {}
               ELSE {waitQueue[c][n] : n \in 1 .. Len(waitQueue[c])}
  IN /\ at' = [i \in Ids |-> IF at[i] = "pending" /\ entryOf[i] = c THEN "rejected"
                             ELSE IF i \in woken THEN "granted" ELSE at[i]]
     /\ inflight' = [e \in Children |-> IF e = c THEN 0 ELSE inflight[e]]
     /\ waitQueue' = [e \in Children |-> IF e = c THEN <<>> ELSE waitQueue[e]]
     /\ reset' = reset \cup ({c} \ {NoChild})

\* Mutant: the waiting callers are left where they are.
RejectPendingKeepsWaiters(k) ==
  LET c == shards[k]
  IN /\ at' = [i \in Ids |-> IF at[i] = "pending" /\ keyOf[entryOf[i]] = k
                             THEN "rejected" ELSE at[i]]
     /\ inflight' = [e \in Children |-> IF e = c THEN 0 ELSE inflight[e]]
     /\ reset' = reset \cup ({c} \ {NoChild})
     /\ UNCHANGED waitQueue

\* _rejectShardPending: the requests pending under the key are rejected, the
\* waiters of the entry the key has NOW are woken without a slot.
RejectShardPending(k) ==
  LET c == shards[k]
      woken == IF c = NoChild THEN {}
               ELSE {waitQueue[c][n] : n \in 1 .. Len(waitQueue[c])}
  IN /\ at' = [i \in Ids |->
                 IF at[i] = "pending" /\ keyOf[entryOf[i]] = k THEN "rejected"
                 ELSE IF i \in woken THEN "granted" ELSE at[i]]
     /\ inflight' = [e \in Children |-> IF e = c THEN 0 ELSE inflight[e]]
     /\ waitQueue' = [e \in Children |-> IF e = c THEN <<>> ELSE waitQueue[e]]
     /\ reset' = reset \cup ({c} \ {NoChild})

----------------------------------------------------------------------------
(* The application's calls.                                                *)

RegisterShard(k, c) ==
  /\ c \notin Registered
  /\ shards' = [shards EXCEPT ![k] = c]
  /\ keyOf' = [keyOf EXCEPT ![c] = k]
  /\ connected' = connected \cup {c}
  /\ replaced' = replaced \cup ({shards[k]} \ {NoChild})
  /\ UNCHANGED <<inflight, waitQueue, at, entryOf, sendErrors, exited, work,
                 replies, worker, reset, faults>>

DeregisterShard(k) ==
  /\ Fault /\ shards[k] # NoChild
  /\ RejectShardPending(k)
  /\ shards' = [shards EXCEPT ![k] = NoChild]
  /\ UNCHANGED <<keyOf, entryOf, sendErrors, connected, exited, work, replies,
                 worker, replaced>>

\* With no shard for the key it throws and changes nothing.
Enqueue(i, k) ==
  /\ at[i] = "idle" /\ shards[k] # NoChild
  /\ AcquireSlots({i}, [j \in {i} |-> shards[k]])
  /\ UNCHANGED <<shards, keyOf, sendErrors, connected, exited, work, replies,
                 worker, replaced, reset, faults>>

\* shutdown(): one call per shard whose child is connected.
Shutdown ==
  LET S == {k \in Keys : shards[k] \in connected}
  IN /\ \A k \in Keys : at[k] = "idle"
     /\ S # {}
     /\ AcquireSlots(S, shards)
     /\ UNCHANGED <<shards, keyOf, sendErrors, connected, exited, work, replies,
                    worker, replaced, reset, faults>>

----------------------------------------------------------------------------
(* Continuations, and the callback of a send() that failed.                *)

\* _sendRequest: the write succeeds, or fails while the channel looks open.
SendRequest(i) ==
  LET c == entryOf[i]
  IN /\ at[i] = "granted"
     /\ IF c \notin connected
        THEN ReleaseSlot(i, "rejected") /\ UNCHANGED <<sendErrors, work, faults>>
        ELSE /\ at' = [at EXCEPT ![i] = "pending"]
             /\ \/ work' = work \cup {<<c, i>>} /\ UNCHANGED <<sendErrors, faults>>
                \/ sendErrors' = sendErrors \cup {i} /\ Fault /\ UNCHANGED work
             /\ UNCHANGED <<inflight, waitQueue>>
     /\ UNCHANGED <<shards, keyOf, entryOf, connected, exited, replies, worker,
                    replaced, reset>>

\* The callback releases a slot whether or not the request is still pending.
SendFailed(i) ==
  /\ i \in sendErrors
  /\ sendErrors' = sendErrors \ {i}
  /\ ReleaseSlot(i, "rejected")
  /\ UNCHANGED <<shards, keyOf, entryOf, connected, exited, work, replies,
                 worker, replaced, reset, faults>>

----------------------------------------------------------------------------
(* Timers and I/O events.                                                  *)

Timeout(i) ==
  /\ Quiet /\ at[i] = "pending"
  /\ ReleaseSlot(i, "rejected")
  /\ UNCHANGED <<shards, keyOf, entryOf, sendErrors, connected, exited, work,
                 replies, worker, replaced, reset, faults>>

\* The 'message' listener: an answer to a request no longer pending is dropped.
Answer(c, i, ok) ==
  /\ Quiet /\ c \in connected /\ <<c, i, ok>> \in replies
  /\ replies' = replies \ {<<c, i, ok>>}
  /\ IF at[i] = "pending"
     THEN ReleaseSlot(i, IF ok THEN "resolved" ELSE "rejected")
     ELSE UNCHANGED <<at, inflight, waitQueue>>
  /\ UNCHANGED <<shards, keyOf, entryOf, sendErrors, connected, exited, work,
                 worker, replaced, reset, faults>>

\* The channel closes; what was on it is lost.
Disconnect(c) ==
  /\ Fault /\ Quiet /\ c \in connected
  /\ connected' = connected \ {c}
  /\ RejectShardPending(keyOf[c])
  /\ work' = {m \in work : m[1] # c}
  /\ replies' = {m \in replies : m[1] # c}
  /\ UNCHANGED <<shards, keyOf, entryOf, sendErrors, exited, worker, replaced>>

\* The exit event: before or after the channel is seen closed.
Exit(c) ==
  /\ Fault /\ Quiet /\ c \in Registered \ exited
  /\ exited' = exited \cup {c}
  /\ RejectShardPending(keyOf[c])
  /\ work' = {m \in work : m[1] # c}
  /\ UNCHANGED <<shards, keyOf, entryOf, sendErrors, connected, replies,
                 worker, replaced>>

\* IpcWorker.handleMessage in the child: handlers may end in any order.
HandleMessage(c, i) ==
  /\ c \notin exited /\ <<c, i>> \in work
  /\ work' = work \ {<<c, i>>}
  /\ IF i \in Keys
     THEN /\ stopped' = stopped \cup {c}
          /\ replies' = replies \cup {<<c, i, TRUE>>}
          /\ UNCHANGED accepted
     ELSE \E ok \in IF c \in stopped THEN {FALSE} ELSE BOOLEAN :
            /\ accepted' = IF ok THEN accepted \cup {i} ELSE accepted
            /\ replies' = replies \cup {<<c, i, ok>>}
            /\ UNCHANGED stopped
  /\ UNCHANGED <<router, connected, exited>>

----------------------------------------------------------------------------
Next ==
  \/ \E k \in Keys, c \in Children : RegisterShard(k, c)
  \/ \E k \in Keys : DeregisterShard(k)
  \/ \E i \in Calls, k \in Keys : Enqueue(i, k)
  \/ Shutdown
  \/ \E i \in Ids : SendRequest(i)
  \/ \E i \in Ids : SendFailed(i)
  \/ \E i \in Ids : Timeout(i)
  \/ \E c \in Children, i \in Ids, ok \in BOOLEAN : Answer(c, i, ok)
  \/ \E c \in Children : Disconnect(c)
  \/ \E c \in Children : Exit(c)
  \/ \E c \in Children, i \in Ids : HandleMessage(c, i)

Spec == Init /\ [][Next]_vars

\* The event loop runs what is ready and a timer fires; nothing is assumed of
\* the child, of its channel or of the application.
Fairness ==
  /\ \A i \in Ids : WF_vars(SendRequest(i))
  /\ \A i \in Ids : WF_vars(SendFailed(i))
  /\ \A i \in Ids : WF_vars(Timeout(i))

FairSpec == Spec /\ Fairness

----------------------------------------------------------------------------
(* Properties.                                                             *)

\* While no close event or deregistration has touched an entry, its counter is
\* the number of calls that hold a slot, at most the maximum, and callers wait
\* only when all slots are taken (acquire, release, timeout, send error).
SlotsCounted ==
  \A c \in Registered \ (reset \cup replaced) :
    /\ Cardinality(Holders(c)) = inflight[c]
    /\ inflight[c] <= MaxConcurrentPerShard
    /\ waitQueue[c] # <<>> => inflight[c] = MaxConcurrentPerShard

\* No slot leaks, even after closes: an entry that was not overwritten counts no
\* slot that no call holds, and somebody who waits waits for a holder.
NoSlotLeaks ==
  \A c \in Registered \ replaced :
    /\ inflight[c] <= Cardinality(Holders(c))
    /\ waitQueue[c] # <<>> => Holders(c) # {}

\* A call is in exactly one place: in the wait queue of its entry, once, if it
\* waits, and in none otherwise.
WaitersQueuedOnce ==
  \A c \in Children :
    LET waiting == {i \in Ids : entryOf[i] = c /\ at[i] = "waiting"}
    IN /\ {waitQueue[c][n] : n \in 1 .. Len(waitQueue[c])} = waiting
       /\ Len(waitQueue[c]) = Cardinality(waiting)

\* An enqueue that resolves was taken by the queue of a child, whatever timed
\* out, closed or was replaced meanwhile.
ResolvedWasAccepted == \A i \in Calls : at[i] = "resolved" => i \in accepted

\* After the close of its channel nothing is pending on a child, unless the send
\* is the one whose error callback is due.
NothingPendsOnClosed ==
  \A i \in Ids : at[i] = "pending" /\ i \notin sendErrors => entryOf[i] \in connected

\* Slots and waiters are accounted for, whatever closes, exits or is replaced.
RouterSound == TypeOK /\ SlotsCounted /\ NoSlotLeaks /\ WaitersQueuedOnce

\* What a caller is told is what happened, and it is told something.
AnswersSound == ResolvedWasAccepted /\ NothingPendsOnClosed

\* A channel that closes rejects no request of another shard key.
CloseSparesOtherKeys ==
  [][\A c \in connected \ connected', i \in Ids :
       at[i] = "pending" /\ at'[i] = "rejected" => keyOf[entryOf[i]] = keyOf[c]]_vars

\* Every call settles: a caller with a request or in a wait queue is answered,
\* timed out or rejected, unless its entry was overwritten by registerShard.
EveryCallSettles ==
  \A i \in Ids :
    at[i] \in {"waiting", "granted", "pending"} ~>
      at[i] \in Settled \/ entryOf[i] \in replaced

=============================================================================
