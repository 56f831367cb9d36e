------------------------------ MODULE KvStore ------------------------------
(***************************************************************************)
(* The data of KvStore (packages/queueovn/src/stores/KvStore.ts): entries  *)
(* with an expiry, the insertion order that eviction follows, lazy deletion, *)
(* the updates that read before they write.  A store is a record and an    *)
(* operation a function of it, of the key and of the time t = Date.now();  *)
(* the callers and the timers are in BotStores.                            *)
(***************************************************************************)
EXTENDS Integers, FiniteSets, Sequences, SequencesExt

CONSTANT MaxKeys   \* maxKeys

ASSUME KvAssumption == MaxKeys \in Nat \ {0}

Never == -1        \* expiresAt = null, and an absent ttlMs
NoValue == <<>>    \* null

\* store and insertOrder.
EmptyStore == [map |-> <<>>, order |-> <<>>]

Has(S, k) == k \in DOMAIN S.map

IsExpired(e, t) == e.expiresAt # Never /\ t > e.expiresAt

IsLive(S, k, t) == Has(S, k) /\ ~IsExpired(S.map[k], t)

LiveKeys(S, t) == {k \in DOMAIN S.map : IsLive(S, k, t)}

\* _delete
Delete(S, k) ==
  IF Has(S, k)
  THEN [map |-> Restrict(S.map, DOMAIN S.map \ {k}), order |-> RemoveFirst(S.order, k)]
  ELSE S

DeleteAll(S, ks) == FoldSet(LAMBDA k, T : Delete(T, k), S, ks)

\* _isAlive and get delete what they find expired.
Look(S, k, t) == IF Has(S, k) /\ ~IsLive(S, k, t) THEN Delete(S, k) ELSE S

\* Mutant: an entry that has not expired is cleaned in its last millisecond.
CleanupEarly(S, t) == DeleteAll(S, {k \in DOMAIN S.map : S.map[k].expiresAt \in 0 .. t})

\* _cleanupExpired
Cleanup(S, t) == DeleteAll(S, DOMAIN S.map \ LiveKeys(S, t))

\* What _evictIfNeeded takes out before k is stored.
Evicted(S, k) ==
  IF Cardinality(DOMAIN S.map) < MaxKeys \/ Has(S, k) \/ S.order = <<>>
  THEN {} ELSE {Head(S.order)}

\* _evictIfNeeded
EvictIfNeeded(S, k) ==
  IF Evicted(S, k) = {} THEN S
  ELSE [map |-> Restrict(S.map, DOMAIN S.map \ {Head(S.order)}), order |-> Tail(S.order)]

ExpiresAt(ttl, t) == IF ttl = Never THEN Never ELSE t + ttl

\* set without nx and xx.
Set(S, k, v, ttl, t) ==
  LET room == EvictIfNeeded(Look(S, k, t), k)
  IN [map   |-> [x \in DOMAIN room.map \cup {k} |->
                   IF x = k THEN [value |-> v, expiresAt |-> ExpiresAt(ttl, t)]
                   ELSE room.map[x]],
      order |-> IF k \in ToSet(room.order) THEN room.order ELSE Append(room.order, k)]

\* setnx: the store, and whether the key was set.
SetNx(S, k, v, ttl, t) ==
  IF IsLive(S, k, t) THEN [store |-> S, ok |-> FALSE]
  ELSE [store |-> Set(S, k, v, ttl, t), ok |-> TRUE]

\* get, null for none.
Get(S, k, t) == IF IsLive(S, k, t) THEN S.map[k].value ELSE NoValue

\* ttl: -2 for no key, -1 for no expiry.
Ttl(S, k, t) ==
  IF ~IsLive(S, k, t) THEN -2
  ELSE IF S.map[k].expiresAt = Never THEN -1 ELSE S.map[k].expiresAt - t

\* expire and persist, on a live key.
Expire(S, k, ttl, t) ==
  IF IsLive(S, k, t) THEN [S EXCEPT !.map[k].expiresAt = ExpiresAt(ttl, t)] ELSE S

\* hset, hdel, lpush, rpush, lpop and rpop: the value is written back with what
\* is left of its expiry.
Update(S, k, v, t) ==
  Set(S, k, v, IF Ttl(S, k, t) < 0 THEN Never ELSE Ttl(S, k, t), t)

\* incr: the expiry restarts with ttl when one is given, is kept when some of it
\* is left, and is dropped in its last millisecond.
Incr(S, k, by, ttl, t) ==
  LET next == (IF IsLive(S, k, t) THEN S.map[k].value ELSE 0) + by
      kept == IF ttl # Never THEN ttl
              ELSE IF Ttl(S, k, t) > 0 THEN Ttl(S, k, t) ELSE Never
  IN [store |-> Set(S, k, next, kept, t), count |-> next]

\* rateCheck
RateCheck(S, k, limit, window, t) ==
  LET r == Incr(S, k, 1, window, t)
  IN [store |-> r.store, count |-> r.count, allowed |-> r.count <= limit]

\* _saveSnapshot and _loadSnapshot; the order of a Map is the order in which its
\* keys were inserted.
Saved(S, t) == DeleteAll(S, DOMAIN S.map \ LiveKeys(S, t))
Loaded(file, t) == DeleteAll(file, DOMAIN file.map \ LiveKeys(file, t))

-----------------------------------------------------------------------------
(***************************************************************************)
(* The hashes, lists and plain values of KvStore and the scan of its keys  *)
(* (packages/queueovn/src/stores/KvStore.ts:236-594), with one caller.     *)
(* Each call is compared with what it would do to a store without lazy     *)
(* deletion, whose keys vanish at their expiry: truth.                     *)
(***************************************************************************)

CONSTANTS
  HashKeys, ListKeys, PlainKeys,   \* a key is used for values of one kind
  HashFields,
  Lifetimes,     \* the ttlMs of expire, getset and mset, when given
  MaxLen,        \* the maxLen of a push that gives one
  MaxChanges,    \* bound: calls that change values
  MaxClock       \* bound: the milliseconds that pass

ASSUME KvValuesAssumption ==
  /\ Lifetimes \subseteq Nat /\ MaxLen \in Nat \ {0}
  /\ MaxChanges \in Nat /\ MaxClock \in Nat

VARIABLES
  values,      \* the KvStore
  moment,      \* Date.now()
  changes,
  ends,        \* the ends at which a list is pushed and popped
  truth,       \* history: what each key should hold, and until when, while it does
  agreed,      \* history: each call returned what it should have
  scan,        \* of a scan: its pattern, cursor, keys returned
  steady       \* history: the keys there from its start, and whether one has gone

valVars == <<values, moment, changes, ends, truth, agreed, scan, steady>>

ValueKeys == HashKeys \cup ListKeys \cup PlainKeys
NoScan == [cursor |-> -1, pattern |-> {}, keys |-> <<>>]
Patterns == {ValueKeys, HashKeys \cup ListKeys}

\* What get finds, by its type.
HashAt(S, k, t) == IF IsLive(S, k, t) THEN S.map[k].value ELSE <<>>
ListAt(S, k, t) == IF IsLive(S, k, t) THEN S.map[k].value ELSE <<>>

WithField(h, f, v) == [x \in DOMAIN h \cup {f} |-> IF x = f THEN v ELSE h[x]]
WithoutFields(h, fs) == Restrict(h, DOMAIN h \ fs)

\* lpush: the values in front, trimmed from the right.
Unshifted(list, v, max) ==
  LET longer == <<v>> \o list
  IN IF max # Never /\ Len(longer) > max THEN SubSeq(longer, 1, max) ELSE longer

\* rpush: trimmed from the left.
Pushed(list, v, max) ==
  LET longer == Append(list, v)
  IN IF max # Never /\ Len(longer) > max
     THEN SubSeq(longer, Len(longer) - max + 1, Len(longer)) ELSE longer

\* lrange, with places counted from 0; slice counts a negative end from the back again.
LRange(list, start, stop) ==
  LET len == Len(list)
      s == IF start < 0 THEN (IF len + start > 0 THEN len + start ELSE 0) ELSE start
      e == IF stop < 0 THEN len + stop ELSE IF stop < len - 1 THEN stop ELSE len - 1
      to == IF e + 1 < 0 THEN len + e + 1 ELSE e + 1
  IN SubSeq(list, s + 1, to)

\* keys: of the live ones, in the order of the Map, those the pattern matches.
KeysLike(S, pattern, t) == SelectSeq(S.order, LAMBDA k : IsLive(S, k, t) /\ k \in pattern)

DbSize(S, t) == Len(KeysLike(S, ValueKeys, t))

\* scan: the page from the cursor on, and the cursor after it.
ScanPage(S, cursor, pattern, count, t) ==
  LET all == KeysLike(S, pattern, t)
      end == IF cursor + count < Len(all) THEN cursor + count ELSE Len(all)
  IN [keys |-> SubSeq(all, cursor + 1, end),
      cursor |-> IF cursor + count >= Len(all) THEN 0 ELSE cursor + count]

----------------------------------------------------------------------------
(* What a call should do.                                                  *)

Alive(k) == k \in DOMAIN truth
TrueValue(k) == IF Alive(k) THEN truth[k].value ELSE NoValue
TrueUntil(k) == IF Alive(k) THEN truth[k].until ELSE Never

\* The key set to a value, without those the store evicts for it.
TruthWith(S, T, k, v, until) ==
  LET stay == DOMAIN T \ Evicted(Look(S, k, moment), k)
  IN [x \in stay \cup {k} |-> IF x = k THEN [value |-> v, until |-> until] ELSE T[x]]

Without(ks) == Restrict(truth, DOMAIN truth \ ks)

\* The store and the truth after a call, what it returns and what it should.
Makes(S, T, got, want) ==
  /\ changes < MaxChanges /\ changes' = changes + 1
  /\ values' = S /\ truth' = T /\ agreed' = (agreed /\ got = want)
  /\ steady' = [steady EXCEPT !.gone = @ \/ ~((LiveKeys(values, moment) \cap scan.pattern)
                                               \subseteq LiveKeys(S, moment))]
  /\ UNCHANGED <<moment, ends, scan>>

\* A new value, kept as long as the old one.
Rewrites(k, v, got, want, wanted) ==
  Makes(Update(values, k, v, moment), TruthWith(values, truth, k, wanted, TrueUntil(k)),
          got, want)

\* A call that changes nothing, but for what get deletes.
OnlyLooks(k, got, want) == Makes(Look(values, k, moment), truth, got, want)

ValuesInit ==
  /\ values = EmptyStore /\ moment = 0 /\ changes = 0
  /\ ends \in [push : {"left", "right"}, pop : {"left", "right"}]
  /\ truth = <<>> /\ agreed = TRUE
  /\ scan = NoScan /\ steady = [keys |-> {}, gone |-> FALSE]

HSet(k, f, v) ==
  Rewrites(k, WithField(HashAt(values, k, moment), f, v), 0, 0,
           WithField(TrueValue(k), f, v))

HIncrBy(k, f, by) ==
  LET h == HashAt(values, k, moment)
      next == (IF f \in DOMAIN h THEN h[f] ELSE 0) + by
      want == (IF f \in DOMAIN TrueValue(k) THEN TrueValue(k)[f] ELSE 0) + by
  IN Rewrites(k, WithField(h, f, next), next, want, WithField(TrueValue(k), f, want))

\* hdel, of one field: the hash stays when it is left empty.
HDel(k, f) ==
  LET h == HashAt(values, k, moment)
      want == Cardinality(DOMAIN TrueValue(k) \cap {f})
  IN IF f \in DOMAIN h
     THEN Rewrites(k, WithoutFields(h, {f}), 1, want, WithoutFields(TrueValue(k), {f}))
     ELSE OnlyLooks(k, 0, want)

\* lpush or rpush; the value tells when it was pushed.
Push(k, max) ==
  LET v == changes + 1
      list == ListAt(values, k, moment)
      longer == IF ends.push = "left" THEN Unshifted(list, v, max) ELSE Pushed(list, v, max)
      wanted == IF ends.push = "left" THEN Unshifted(TrueValue(k), v, max)
                ELSE Pushed(TrueValue(k), v, max)
      length == Len(TrueValue(k)) + 1
  IN Rewrites(k, longer, <<Len(longer), IF ends.push = "left" THEN Head(longer) ELSE Last(longer)>>,
              <<IF max # Never /\ length > max THEN max ELSE length, v>>, wanted)

\* lpop or rpop.
Pop(k) ==
  LET list == ListAt(values, k, moment)
      at(l) == IF ends.pop = "left" THEN Head(l) ELSE Last(l)
      rest(l) == IF ends.pop = "left" THEN Tail(l) ELSE Front(l)
  IN IF list # <<>>
     THEN /\ TrueValue(k) # <<>>
          /\ Rewrites(k, rest(list), at(list), at(TrueValue(k)), rest(TrueValue(k)))
     ELSE OnlyLooks(k, 0, Len(TrueValue(k)))

GetSet(k, v, ttl) ==
  Makes(Set(Look(values, k, moment), k, v, ttl, moment),
          TruthWith(values, truth, k, v, ExpiresAt(ttl, moment)),
          <<Get(values, k, moment)>>, <<TrueValue(k)>>)

\* mset of two keys: one set after another.
MSet(k, l, v, ttl) ==
  LET first == Set(values, k, v, ttl, moment) IN
  Makes(Set(first, l, v, ttl, moment),
          TruthWith(first, TruthWith(values, truth, k, v, ExpiresAt(ttl, moment)),
                    l, v, ExpiresAt(ttl, moment)), 0, 0)

ExpireValue(k, ttl) ==
  Makes(Expire(Look(values, k, moment), k, ttl, moment),
          IF Alive(k) THEN [truth EXCEPT ![k].until = ExpiresAt(ttl, moment)] ELSE truth,
          IsLive(values, k, moment), Alive(k))

DelValue(k) == Makes(Delete(values, k), Without({k}), 0, 0)

Flush == Makes(EmptyStore, <<>>, 0, 0)

\* The cleanup timer.
CleanValues ==
  /\ Cleanup(values, moment) # values /\ values' = Cleanup(values, moment)
  /\ UNCHANGED <<moment, changes, ends, truth, agreed, scan, steady>>

MomentPasses ==
  /\ moment < MaxClock /\ moment' = moment + 1
  /\ steady' = [steady EXCEPT !.gone = @ \/ ~((LiveKeys(values, moment) \cap scan.pattern)
                                               \subseteq LiveKeys(values, moment'))]
  /\ truth' = Without({k \in DOMAIN truth : truth[k].until = moment})
  /\ UNCHANGED <<values, changes, ends, agreed, scan>>

\* A caller begins a scan, and asks for a page of one key after another until
\* the cursor is 0 again.
ScanFrom(pattern) ==
  LET page == ScanPage(values, 0, pattern, 1, moment) IN
  /\ scan = NoScan /\ LiveKeys(values, moment) # {}
  /\ scan' = [cursor |-> page.cursor, pattern |-> pattern, keys |-> page.keys]
  /\ steady' = [keys |-> LiveKeys(values, moment) \cap pattern, gone |-> FALSE]
  /\ UNCHANGED <<values, moment, changes, ends, truth, agreed>>

ScanOn ==
  LET page == ScanPage(values, scan.cursor, scan.pattern, 1, moment) IN
  /\ scan.cursor > 0
  /\ scan' = [scan EXCEPT !.cursor = page.cursor, !.keys = @ \o page.keys]
  /\ UNCHANGED <<values, moment, changes, ends, truth, agreed, steady>>

ValuesNext ==
  \/ \E k \in HashKeys, f \in HashFields : HSet(k, f, 1)
  \/ \E k \in HashKeys, f \in HashFields : HIncrBy(k, f, 1)
  \/ \E k \in HashKeys, f \in HashFields : HDel(k, f)
  \/ \E k \in ListKeys, max \in {Never, MaxLen} : Push(k, max)
  \/ \E k \in ListKeys : Pop(k)
  \/ \E k \in PlainKeys, ttl \in Lifetimes \cup {Never} : GetSet(k, <<changes + 1>>, ttl)
  \/ \E k, l \in PlainKeys, ttl \in Lifetimes \cup {Never} : k # l /\ MSet(k, l, <<changes + 1>>, ttl)
  \/ \E k \in ValueKeys, ttl \in Lifetimes \cup {Never} : ExpireValue(k, ttl)
  \/ \E k \in ValueKeys : DelValue(k)
  \/ Flush
  \/ CleanValues
  \/ MomentPasses
  \/ \E pattern \in Patterns : ScanFrom(pattern)
  \/ ScanOn

ValuesSpec == ValuesInit /\ [][ValuesNext]_valVars

----------------------------------------------------------------------------

ValuesTypeOK ==
  /\ DOMAIN values.map \subseteq ValueKeys /\ DOMAIN values.map = ToSet(values.order)
  /\ IsInjective(values.order) /\ Cardinality(DOMAIN values.map) <= MaxKeys
  /\ agreed \in BOOLEAN /\ moment \in 0 .. MaxClock /\ changes \in 0 .. MaxChanges

\* Every call returns what it would from a store whose keys vanish at their expiry
\* and no earlier: a field or an element that is written keeps the key's
\* expiry, and an expired value never shines through a later one.
ValuesAreTrue ==
  /\ agreed
  /\ \A k \in ValueKeys :
       /\ Get(values, k, moment) = TrueValue(k)
       /\ IsLive(values, k, moment) = Alive(k)
       /\ Alive(k) => values.map[k].expiresAt = truth[k].until
  /\ DbSize(values, moment) = Cardinality(DOMAIN truth)

\* A list holds its elements in the order they were pushed, the newest at the end
\* at which it is pushed; of a range that lrange can be asked for by places from
\* either end, it returns the elements there, if the stop is not left of the list.
ListsInOrder ==
  \A k \in ListKeys :
    LET list == ListAt(values, k, moment) IN
    /\ \A i, j \in DOMAIN list : i < j => (list[i] < list[j]) = (ends.push = "right")
    /\ \A start \in -3 .. 3, stop \in -(Len(list) + 1) .. 3 :
         LET from == IF start < 0 THEN Len(list) + start ELSE start
             to == IF stop < 0 THEN Len(list) + stop ELSE stop
         IN LRange(list, start, stop) =
              FlattenSeq([i \in DOMAIN list |->
                IF i - 1 >= from /\ i - 1 <= to THEN <<list[i]>> ELSE <<>>])

\* A scan that ended returned every key that was there from its start, and none
\* twice, unless a key went meanwhile: the cursor is a place in what is left.
ScanIsComplete ==
  scan.cursor = 0 /\ ~steady.gone =>
    steady.keys \subseteq ToSet(scan.keys) /\ IsInjective(scan.keys)

ValuesSound == ValuesTypeOK /\ ValuesAreTrue /\ ListsInOrder /\ ScanIsComplete
=============================================================================
