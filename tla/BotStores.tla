----------------------------- MODULE BotStores -----------------------------
(***************************************************************************)
(* What a bot keeps in one KvStore (packages/queueovn/src): the locks of   *)
(* WaBotContext, the sessions of SessionStore, the counters and cooldowns of *)
(* the WhatsApp plugins, and data of its own; the store's cleanup and      *)
(* snapshot timers, and what a restart finds.                              *)
(*                                                                         *)
(* Each use has a key of its own and they meet only where the store is full: *)
(* a behaviour uses the keys inUse.  Every call is synchronous except ifStep,*)
(* which awaits its function.                                              *)
(***************************************************************************)
EXTENDS KvStore

CONSTANTS
  Lock,        \* the key of lock() and unlock()
  Cooldown,    \* the key of CommandCooldownPlugin, one user and command
  Session,     \* the key of a session
  Spam,        \* the key of AntiSpamPlugin, one user and group
  PerSecond,   \* the keys of WaRateLimiterPlugin
  PerMinute,
  Data,        \* a hash or a list
  Counter,     \* a counter without a window
  Lockers,    \* handlers that take the lock
  Calls,       \* calls of ifStep
  Steps,       \* steps of a session
  Ttl0(_),     \* ttlMs or windowMs of a key
  Limit(_),    \* calls allowed in a window
  Uses,        \* the sets of keys that are used together
  MaxTime,     \* bound: the clock
  MaxStarts,   \* bound: sessions started
  MaxCount,    \* bound: a counter
  MaxRestarts  \* bound: restarts

Claims == {Lock, Cooldown}
RateKeys  == {Spam, PerSecond, PerMinute}
Keys   == Claims \cup RateKeys \cup {Session, Data, Counter}

ASSUME BotAssumption ==
  /\ Uses \subseteq SUBSET Keys
  /\ \A k \in Keys : Ttl0(k) \in Nat \ {0}
  /\ \A k \in RateKeys : Limit(k) \in Nat \ {0}
  /\ Steps \in Nat \ {0} /\ MaxTime \in Nat /\ MaxStarts \in Nat
  /\ MaxCount \in Nat /\ MaxRestarts \in Nat

VARIABLES
  kv,        \* the store
  now,       \* Date.now()
  inUse,     \* the keys this behaviour uses
  holders,   \* handlers that got the lock and did not give it back
  calls,     \* per ifStep call: the next step it was given, when fn runs
  starts,    \* sessions started; the last one's number
  restarts,
  file,      \* the snapshot
  since,     \* history: when a lock or cooldown was taken (a command let through
             \* without: not ok), a call of a limiter let through or refused, for as
             \* long as that matters
  fileSince  \* history: since at the snapshot

kvVars == <<kv, now, inUse, holders, calls, starts, restarts, file, since, fileSince>>

NoCall == -1
EndSession == 0    \* nextStep = null

KvTypeOK ==
  /\ DOMAIN kv.map \subseteq inUse /\ inUse \subseteq Keys
  /\ \A k \in DOMAIN kv.map : kv.map[k].expiresAt \in {Never} \cup (0 .. MaxTime + Ttl0(k))
  /\ now \in 0 .. MaxTime
  /\ holders \subseteq Lockers
  /\ calls \in [Calls -> {NoCall, EndSession} \cup (1 .. Steps)]
  /\ starts \in 0 .. MaxStarts /\ restarts \in 0 .. MaxRestarts
  /\ \A k \in DOMAIN kv.map \cap RateKeys : kv.map[k].value \in 1 .. MaxCount

KvInit ==
  /\ kv = EmptyStore /\ file = EmptyStore /\ now = 0
  /\ inUse \in Uses
  /\ holders = {} /\ calls = [c \in Calls |-> NoCall]
  /\ starts = 0 /\ restarts = 0
  /\ since = [k \in Keys |-> <<>>] /\ fileSince = since

Event(t, ok) == [at |-> t, ok |-> ok]

\* The store becomes S; what was evicted on the way is forgotten, and the keys
\* asked for are noted with the answer ok.
Becomes(S, evicted, asked, ok) ==
  /\ kv' = S
  /\ since' = [k \in Keys |-> (IF k \in evicted THEN <<>> ELSE since[k])
                              \o (IF k \in asked THEN <<Event(now, ok)>> ELSE <<>>)]
  /\ UNCHANGED <<now, inUse, restarts, file, fileSince>>

\* One set of key k.
Stored(S, k, asked, ok) == Becomes(S, Evicted(Look(kv, k, now), k), asked, ok)

\* Key k is deleted by its user.
Removed(k) ==
  /\ kv' = Delete(kv, k)
  /\ since' = [since EXCEPT ![k] = <<>>]
  /\ UNCHANGED <<now, inUse, restarts, file, fileSince>>

----------------------------------------------------------------------------
(* Locks and cooldowns.                                                    *)

LockTake(h) ==
  LET r == SetNx(kv, Lock, 1, Ttl0(Lock), now)
  IN /\ Lock \in inUse /\ h \notin holders
     /\ r.ok
     /\ Stored(r.store, Lock, {Lock}, TRUE)
     /\ holders' = holders \cup {h}
     /\ UNCHANGED <<calls, starts>>

\* unlock deletes the key, whoever holds the lock by now.
Unlock(h) ==
  /\ h \in holders
  /\ Removed(Lock)
  /\ holders' = holders \ {h}
  /\ UNCHANGED <<calls, starts>>

\* CommandCooldownPlugin.onEnqueue lets the command through.  In the cooldown's last
\* millisecond ttl is 0, and the setnx of kv.cooldown finds the key still there: the
\* command passes as well, and the cooldown is not renewed.
Command ==
  LET r == SetNx(kv, Cooldown, 1, Ttl0(Cooldown), now)
  IN /\ Cooldown \in inUse
     /\ Ttl(kv, Cooldown, now) <= 0
     /\ Len(since[Cooldown]) < MaxCount
     /\ IF r.ok THEN Stored(r.store, Cooldown, {Cooldown}, TRUE)
                ELSE Becomes(kv, {}, {Cooldown}, FALSE)
     /\ UNCHANGED <<holders, calls, starts>>

ClearCooldown ==
  /\ Has(kv, Cooldown)
  /\ Removed(Cooldown)
  /\ UNCHANGED <<holders, calls, starts>>

----------------------------------------------------------------------------
(* Rate limits: a call that is refused counts as well.                     *)

\* AntiSpamPlugin.onEnqueue
AntiSpam ==
  LET r == RateCheck(kv, Spam, Limit(Spam), Ttl0(Spam), now)
  IN /\ Spam \in inUse /\ r.count <= MaxCount
     /\ Stored(r.store, Spam, {Spam}, r.allowed)
     /\ UNCHANGED <<holders, calls, starts>>

\* WaRateLimiterPlugin.onEnqueue: both counters are raised before either is
\* looked at.
SendMessage ==
  LET sec == RateCheck(kv, PerSecond, Limit(PerSecond), Ttl0(PerSecond), now)
      min == RateCheck(sec.store, PerMinute, Limit(PerMinute), Ttl0(PerMinute), now)
  IN /\ {PerSecond, PerMinute} \subseteq inUse
     /\ sec.count <= MaxCount /\ min.count <= MaxCount
     /\ Becomes(min.store,
                Evicted(Look(kv, PerSecond, now), PerSecond)
                  \cup Evicted(Look(sec.store, PerMinute, now), PerMinute),
                {PerSecond, PerMinute}, sec.allowed /\ min.allowed)
     /\ UNCHANGED <<holders, calls, starts>>

----------------------------------------------------------------------------
(* Sessions.                                                               *)

SessionData(n, step) == [start |-> n, step |-> step]

StartSession ==
  /\ Session \in inUse /\ starts < MaxStarts
  /\ starts' = starts + 1
  /\ Stored(Set(kv, Session, SessionData(starts + 1, 1), Ttl0(Session), now), Session, {}, TRUE)
  /\ UNCHANGED <<holders, calls>>

\* Mutant: the session is written as the last start left it.
AdvanceBlindly(next) ==
  Stored(Set(kv, Session, SessionData(starts, next), Ttl0(Session), now), Session, {}, TRUE)

\* advance, and patch with the present step: read, then write with a new expiry.
Advance(next) ==
  IF IsLive(kv, Session, now)
  THEN Stored(Set(kv, Session, SessionData(kv.map[Session].value.start, next),
                  Ttl0(Session), now), Session, {}, TRUE)
  ELSE Becomes(Look(kv, Session, now), {}, {}, TRUE)

AdvanceCall(next) ==
  /\ Session \in inUse /\ starts > 0
  /\ Advance(next)
  /\ UNCHANGED <<holders, calls, starts>>

\* end, clearGroup and endAll.
End ==
  /\ Has(kv, Session)
  /\ Removed(Session)
  /\ UNCHANGED <<holders, calls, starts>>

\* touch
TouchSession ==
  /\ IsLive(kv, Session, now)
  /\ Becomes(Expire(kv, Session, Ttl0(Session), now), {}, {}, TRUE)
  /\ UNCHANGED <<holders, calls, starts>>

\* ifStep up to its await.
IfStep(c, step, next) ==
  /\ calls[c] = NoCall
  /\ IsLive(kv, Session, now) /\ kv.map[Session].value.step = step
  /\ calls' = [calls EXCEPT ![c] = next]
  /\ UNCHANGED <<kv, now, inUse, holders, starts, restarts, file, since, fileSince>>

\* fn returned: what is there now is ended or advanced.
IfStepReturn(c) ==
  /\ calls[c] # NoCall
  /\ calls' = [calls EXCEPT ![c] = NoCall]
  /\ IF calls[c] = EndSession THEN Removed(Session) ELSE Advance(calls[c])
  /\ UNCHANGED <<holders, starts>>

IfStepThrow(c) ==
  /\ calls[c] # NoCall
  /\ calls' = [calls EXCEPT ![c] = NoCall]
  /\ UNCHANGED <<kv, now, inUse, holders, starts, restarts, file, since, fileSince>>

----------------------------------------------------------------------------
(* The bot's own data.                                                     *)

\* set, mset and getset, with a TTL or without.
DataSet(k, ttl) ==
  /\ k \in {Data, Counter} \cap inUse
  /\ Stored(Set(kv, k, 1, ttl, now), k, {}, TRUE)
  /\ UNCHANGED <<holders, calls, starts>>

\* hset, hdel, lpush, rpush, lpop, rpop: some new content v.
DataUpdate(v) ==
  /\ Data \in inUse
  /\ Stored(Update(kv, Data, v, now), Data, {}, TRUE)
  /\ UNCHANGED <<holders, calls, starts>>

Count ==
  LET r == Incr(kv, Counter, 1, Never, now)
  IN /\ Counter \in inUse /\ r.count <= MaxCount
     /\ Stored(r.store, Counter, {}, TRUE)
     /\ UNCHANGED <<holders, calls, starts>>

\* expire, and persist without a ttl.
DataExpire(k, ttl) ==
  /\ k \in {Data, Counter} /\ IsLive(kv, k, now)
  /\ Becomes(Expire(kv, k, ttl, now), {}, {}, TRUE)
  /\ UNCHANGED <<holders, calls, starts>>

DataDel(k) ==
  /\ k \in {Data, Counter} /\ Has(kv, k)
  /\ Removed(k)
  /\ UNCHANGED <<holders, calls, starts>>

----------------------------------------------------------------------------
(* Time, timers and restarts.                                              *)

\* Time passes; what was taken longer ago than its TTL no longer matters.
Still(h, t) == [k \in Keys |-> SelectSeq(h[k], LAMBDA e : e.at + Ttl0(k) >= t)]

Tick ==
  /\ now < MaxTime
  /\ now' = now + 1
  /\ since' = Still(since, now + 1)
  /\ UNCHANGED <<kv, inUse, holders, calls, starts, restarts, file, fileSince>>

CleanupTimer ==
  /\ Cleanup(kv, now) # kv
  /\ kv' = Cleanup(kv, now)
  /\ UNCHANGED <<now, inUse, holders, calls, starts, restarts, file, since, fileSince>>

SnapshotTimer ==
  /\ restarts < MaxRestarts
  /\ file' = Saved(kv, now) /\ fileSince' = since
  /\ UNCHANGED <<kv, now, inUse, holders, calls, starts, restarts, since>>

\* The process ends, with a last snapshot when it is shut down, and a new one
\* loads the file.
Restart(graceful) ==
  LET disk == IF graceful THEN Saved(kv, now) ELSE file
      past == IF graceful THEN since ELSE fileSince
  IN /\ restarts < MaxRestarts
     /\ restarts' = restarts + 1
     /\ kv' = Loaded(disk, now) /\ file' = EmptyStore
     /\ since' = Still(past, now)
     /\ fileSince' = [k \in Keys |-> <<>>]
     /\ holders' = {} /\ calls' = [c \in Calls |-> NoCall]
     /\ UNCHANGED <<now, inUse, starts>>

----------------------------------------------------------------------------
KvNext ==
  \/ \E h \in Lockers : LockTake(h)
  \/ \E h \in Lockers : Unlock(h)
  \/ Command
  \/ ClearCooldown
  \/ AntiSpam
  \/ SendMessage
  \/ StartSession
  \/ \E next \in 1 .. Steps : AdvanceCall(next)
  \/ End
  \/ TouchSession
  \/ \E c \in Calls, step \in 1 .. Steps, next \in 0 .. Steps : IfStep(c, step, next)
  \/ \E c \in Calls : IfStepReturn(c)
  \/ \E c \in Calls : IfStepThrow(c)
  \/ \E k \in {Data, Counter} : DataSet(k, Never)
  \/ \E k \in {Data, Counter} : DataSet(k, Ttl0(k))
  \/ \E v \in 1 .. 2 : DataUpdate(v)
  \/ Count
  \/ \E k \in {Data, Counter} : DataExpire(k, Never)
  \/ \E k \in {Data, Counter} : DataExpire(k, Ttl0(k))
  \/ \E k \in {Data, Counter} : DataDel(k)
  \/ Tick
  \/ CleanupTimer
  \/ SnapshotTimer
  \/ \E graceful \in BOOLEAN : Restart(graceful)

KvSpec == KvInit /\ [][KvNext]_kvVars

----------------------------------------------------------------------------
(* Properties.                                                             *)

\* insertOrder lists the keys of the store, each once, and they are no more than
\* maxKeys: eviction always finds its key, also after expiries and a restart.
OrderListsStore ==
  /\ ToSet(kv.order) = DOMAIN kv.map
  /\ Len(kv.order) = Cardinality(DOMAIN kv.map)
  /\ Len(kv.order) <= MaxKeys

\* A lock or a cooldown that was taken is taken by nobody else until its TTL is
\* over: the key stays in the store with that expiry, through cleanups, evictions
\* of other keys, and restarts from a snapshot that has it; only unlock, clear and
\* its own eviction end it.  Commands pass a cooldown in its last millisecond only.
ClaimsHold ==
  \A k \in Claims : \A i \in DOMAIN since[k] : since[k][i].ok =>
    /\ IsLive(kv, k, now) /\ kv.map[k].expiresAt = since[k][i].at + Ttl0(k)
    /\ \A j \in DOMAIN since[k] : j > i =>
         k = Cooldown /\ ~since[k][j].ok /\ since[k][j].at = since[k][i].at + Ttl0(k)

\* No more calls than the limit are let through within a window, the two limits
\* of WaRateLimiter taken together, unless the counter was evicted.
RatesHold ==
  \A k \in RateKeys : Len(SelectSeq(since[k], LAMBDA e : e.ok)) <= Limit(k)

\* rateCheck refuses a call only when it exceeds the limit of its sliding window:
\* more calls than that, this one included, were made within the window.
RefusesOnlyAboveLimit ==
  \A k \in {Spam} : since[k] # <<>> /\ Last(since[k]) = Event(now, FALSE) =>
     Len(since[k]) > Limit(k)

\* A session that ended, expired or was evicted comes back only by start(), or a
\* restart, also when an ifStep was waiting for its function meanwhile.
SessionNotRevived ==
  [][IsLive(kv', Session, now') =>
       \/ /\ IsLive(kv, Session, now)
          /\ kv.map[Session].value.start = kv'.map[Session].value.start
       \/ kv'.map[Session].value.start = starts' /\ starts' > starts
       \/ restarts' > restarts]_kvVars

\* An update of a hash, a list or a counter leaves the key's expiry as it was,
\* a counter's last millisecond aside.
ExpiryKept ==
  [][\A k \in {Data, Counter} :
       IsLive(kv, k, now) /\ IsLive(kv', k, now') /\ restarts' = restarts
         /\ kv'.map[k].expiresAt # kv.map[k].expiresAt =>
            \/ \E ttl \in {Never, Ttl0(k)} : DataSet(k, ttl) \/ DataExpire(k, ttl)
            \/ k = Counter /\ kv.map[k].expiresAt = now /\ Count]_kvVars

\* Under every interleaving of callers, cleanups, evictions and restarts the store
\* keeps its order list, its claims and its rates, and refuses nobody too early.
StoresSound ==
  KvTypeOK /\ OrderListsStore /\ ClaimsHold /\ RatesHold /\ RefusesOnlyAboveLimit

\* No step revives a session that ended or moves an expiry it should keep.
EndsAndExpiriesKept == SessionNotRevived /\ ExpiryKept

-----------------------------------------------------------------------------
(***************************************************************************)
(* SessionStore's sessions of many users and groups in one KvStore         *)
(* (packages/queueovn/src/stores/SessionStore.ts), which another caller    *)
(* uses as well: keys made of identifiers that are escaped, what is done   *)
(* to all sessions of a group, and to all of them.  The steps of one       *)
(* session are above.                                                      *)
(***************************************************************************)

CONSTANTS
  Users, Groups,
  EscapedJid(_),    \* _escapeJid, which may write two alike
  SessionTtl,       \* defaultTtlMs
  MaxTurns,         \* bound: calls
  MaxHours          \* bound: the clock

ASSUME GroupSessionsAssumption == SessionTtl \in Nat /\ MaxTurns \in Nat /\ MaxHours \in Nat

VARIABLES
  room,      \* the KvStore
  hour,      \* Date.now()
  turns,
  opened,    \* history: the sessions there should be, and until when, by their keys
  told       \* history: every call returned what it should have

sessionVars == <<room, hour, turns, opened, told>>

\* _key, and the key of the other caller, which does not begin with "session:".
SessionKey(u, g) == <<"session", EscapedJid(u), EscapedJid(g)>>
OtherKey == <<"other">>

NewSession(u, g) == [user |-> u, group |-> g, data |-> 0]

\* keys('session:*') and keys('session:*:' and the group): escaped identifiers have
\* no colon.
AllKeys == SelectSeq(room.order, LAMBDA k : IsLive(room, k, hour) /\ k # OtherKey)
GroupKeys(g) == SelectSeq(AllKeys, LAMBDA k : k[3] = EscapedJid(g))

SessionsAt(keys) == [i \in DOMAIN keys |-> Get(room, keys[i], hour)]

\* forGroup, listAll, count and ttl.
ForGroup(g) == SessionsAt(GroupKeys(g))
ListAll == SessionsAt(AllKeys)
CountSessions == Len(AllKeys)
SessionTtlOf(u, g) == Ttl(room, SessionKey(u, g), hour)

----------------------------------------------------------------------------

GroupSessionsInit ==
  room = EmptyStore /\ hour = 0 /\ turns = 0 /\ opened = <<>> /\ told = TRUE

\* A call that leaves the store S, where there should be the sessions T, and that
\* returns got, where it should return want.
Takes(S, T, got, want) ==
  /\ turns < MaxTurns /\ turns' = turns + 1
  /\ room' = S /\ opened' = T /\ told' = (told /\ got = want)
  /\ UNCHANGED hour

\* The sessions there should be when k is set, for which the store may evict one.
OpenedWith(k, s) ==
  LET stay == DOMAIN opened \ Evicted(Look(room, k, hour), k)
  IN [x \in stay \cup {k} |-> IF x = k THEN [session |-> s, until |-> hour + SessionTtl]
                              ELSE opened[x]]

OpenedBut(ks) == Restrict(opened, DOMAIN opened \ ks)

StartOne(u, g) ==
  LET k == SessionKey(u, g) IN
  Takes(Set(room, k, NewSession(u, g), SessionTtl, hour), OpenedWith(k, NewSession(u, g)), 0, 0)

\* patch, and advance but for the step: null when there is no session.
PatchOne(u, g) ==
  LET k == SessionKey(u, g)
      was == Get(room, k, hour)
      next == [was EXCEPT !.data = turns + 1]
  IN IF was = NoValue
     THEN Takes(Look(room, k, hour), opened, NoValue, IF k \in DOMAIN opened THEN opened[k].session
                                                     ELSE NoValue)
     ELSE Takes(Set(room, k, next, SessionTtl, hour), OpenedWith(k, next), was, opened[k].session)

\* end: an expired session that is still in the store counts as ended.
EndOne(u, g) ==
  LET k == SessionKey(u, g) IN
  Takes(Delete(room, k), OpenedBut({k}), Has(room, k), k \in DOMAIN opened \/ Has(room, k))

\* touch
TouchOne(u, g) ==
  LET k == SessionKey(u, g) IN
  Takes(Expire(Look(room, k, hour), k, SessionTtl, hour),
       IF k \in DOMAIN opened THEN [opened EXCEPT ![k].until = hour + SessionTtl] ELSE opened,
       IsLive(room, k, hour), k \in DOMAIN opened)

\* clearGroup: the number of sessions it ended.
InGroup(g) == {k \in DOMAIN opened : EscapedJid(opened[k].session.group) = EscapedJid(g)}

ClearGroup(g) ==
  Takes(DeleteAll(room, ToSet(GroupKeys(g))), OpenedBut(InGroup(g)), Len(GroupKeys(g)),
       Cardinality(InGroup(g)))

EndAll ==
  Takes(DeleteAll(room, ToSet(AllKeys)), <<>>, Len(AllKeys), Cardinality(DOMAIN opened))

\* The other caller of the store sets its key.
SetOther ==
  /\ turns < MaxTurns /\ turns' = turns + 1
  /\ room' = Set(room, OtherKey, 0, Never, hour)
  /\ opened' = OpenedBut(Evicted(Look(room, OtherKey, hour), OtherKey))
  /\ UNCHANGED <<hour, told>>

\* The store's cleanup timer.
CleanRoom ==
  /\ Cleanup(room, hour) # room /\ room' = Cleanup(room, hour)
  /\ UNCHANGED <<hour, turns, opened, told>>

HourPasses ==
  /\ hour < MaxHours /\ hour' = hour + 1
  /\ opened' = OpenedBut({k \in DOMAIN opened : opened[k].until = hour})
  /\ UNCHANGED <<room, turns, told>>

GroupSessionsNext ==
  \/ \E u \in Users, g \in Groups : StartOne(u, g)
  \/ \E u \in Users, g \in Groups : PatchOne(u, g)
  \/ \E u \in Users, g \in Groups : EndOne(u, g)
  \/ \E u \in Users, g \in Groups : TouchOne(u, g)
  \/ \E g \in Groups : ClearGroup(g)
  \/ EndAll
  \/ SetOther
  \/ CleanRoom
  \/ HourPasses

GroupSessionsSpec == GroupSessionsInit /\ [][GroupSessionsNext]_sessionVars

----------------------------------------------------------------------------

\* The sessions that are listed, counted, found and ended are those that were started
\* and neither ended nor expired, each in the list of its group and of no group that
\* is written otherwise, whatever another caller keeps in the store; a user finds
\* the session of a user whose identifier is written alike, and of no other.
GroupSessionsSound ==
  /\ told /\ turns \in 0 .. MaxTurns /\ hour \in 0 .. MaxHours
  /\ ToSet(ListAll) = {opened[k].session : k \in DOMAIN opened}
  /\ CountSessions = Cardinality(DOMAIN opened)
  /\ \A g \in Groups : ToSet(ForGroup(g)) = {opened[k].session : k \in InGroup(g)}
  /\ \A u \in Users, g \in Groups :
       LET s == Get(room, SessionKey(u, g), hour) IN
       /\ s # NoValue =>
            EscapedJid(s.user) = EscapedJid(u) /\ EscapedJid(s.group) = EscapedJid(g)
       /\ SessionTtlOf(u, g) =
            IF s = NoValue THEN -2 ELSE opened[SessionKey(u, g)].until - hour
=============================================================================
