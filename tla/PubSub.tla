------------------------------- MODULE PubSub -------------------------------
(***************************************************************************)
(* PubSub (packages/queueovn/src/stores/PubSub.ts): one channel and one    *)
(* pattern that matches it.  publish calls the handlers one after another  *)
(* and synchronously, straight from their Set, and a handler may itself    *)
(* subscribe, unsubscribe and publish; only a timeout of waitFor waits for *)
(* the stack to be empty.                                                  *)
(*                                                                         *)
(* A Set is a sequence of places: add appends one, delete empties it, and an *)
(* iterator is at a place.  When the last handler goes the Map drops the Set *)
(* and the next subscription makes a new one, while a publish that is under*)
(* way goes on with the old.                                               *)
(***************************************************************************)
EXTENDS Integers, FiniteSets, Sequences, SequencesExt

CONSTANTS
  Plain,       \* handlers given to subscribe and psubscribe
  Onces,       \* calls of subscribeOnce
  Waiters,     \* calls of waitFor without a timeout
  TimedWaiters, \* calls of waitFor with one
  MaxSets,     \* bound: Sets made
  MaxPlaces,   \* bound: places of a Set
  MaxPublish,  \* bound: calls of publish
  MaxDepth     \* bound: nested calls of publish

Subscribers == Plain \cup Onces \cup Waiters \cup TimedWaiters
Single    == Subscribers \ Plain
Topics    == {"channel", "pattern"}

Gone == "gone"    \* an emptied place

\* Each call of subscribeOnce and waitFor makes a function of its own.
ASSUME PubSubAssumption ==
  /\ MaxSets \in Nat /\ MaxPlaces \in Nat /\ MaxPublish \in Nat /\ MaxDepth \in Nat
  /\ Plain \cap (Onces \cup Waiters \cup TimedWaiters) = {} /\ Gone \notin Subscribers

VARIABLES
  sets,       \* the Sets made: sequences of places
  topic,      \* the Set of the channel and of the pattern, 0 for none
  frames,     \* calls of publish under way, the innermost last
  waiting,    \* per once handler and waiter: new, waiting, heard or timed out
  published,
  fired,      \* history: times a once handler or waiter was called
  cut         \* history: handlers whose whole Set was dropped by unsubscribe(channel)

psVars == <<sets, topic, frames, waiting, published, fired, cut>>

Members(s) == IF s = 0 THEN {} ELSE ToSet(sets[s]) \ {Gone}

PsTypeOK ==
  /\ Len(sets) <= MaxSets
  /\ \A s \in DOMAIN sets : ToSet(sets[s]) \subseteq Subscribers \cup {Gone}
  /\ topic \in [Topics -> 0 .. Len(sets)]
  /\ \A i \in DOMAIN frames : /\ frames[i].set \in 0 .. Len(sets)
                              /\ frames[i].owed \subseteq Subscribers
  /\ waiting \in [Single -> {"new", "waiting", "heard", "timed out"}]
  /\ cut \subseteq Subscribers

PsInit ==
  /\ sets = <<>> /\ topic = [t \in Topics |-> 0] /\ frames = <<>>
  /\ waiting = [h \in Single |-> "new"]
  /\ published = 0 /\ fired = [h \in Single |-> 0] /\ cut = {}

----------------------------------------------------------------------------
(* Sets.                                                                   *)

\* Set.add, in a new Set when the Map has none.
Add(t, h) ==
  IF topic[t] = 0
  THEN /\ Len(sets) < MaxSets
       /\ sets' = Append(sets, <<h>>)
       /\ topic' = [topic EXCEPT ![t] = Len(sets) + 1]
  ELSE /\ IF h \in Members(topic[t]) THEN UNCHANGED sets
          ELSE /\ Len(sets[topic[t]]) < MaxPlaces
               /\ sets' = [sets EXCEPT ![topic[t]] = Append(@, h)]
       /\ UNCHANGED topic

\* unsubscribe(channel, handler): from the Set that is there now.
Drop(t, h) ==
  IF topic[t] = 0 THEN UNCHANGED <<sets, topic>>
  ELSE /\ sets' = [sets EXCEPT ![topic[t]] =
                     [i \in DOMAIN @ |-> IF @[i] = h THEN Gone ELSE @[i]]]
       /\ topic' = IF Members(topic[t]) \subseteq {h} THEN [topic EXCEPT ![t] = 0] ELSE topic

\* History: no publish under way owes h its message any more.
Excused(fs, hs) == [i \in DOMAIN fs |-> [fs[i] EXCEPT !.owed = @ \ hs]]

Subscribe(t, h) ==
  /\ h \in Plain
  /\ Add(t, h)
  /\ UNCHANGED <<frames, waiting, published, fired, cut>>

\* subscribeOnce and waitFor.
SubscribeOnce(h) ==
  /\ waiting[h] = "new"
  /\ Add("channel", h)
  /\ waiting' = [waiting EXCEPT ![h] = "waiting"]
  /\ UNCHANGED <<frames, published, fired, cut>>

Unsubscribe(t, h) ==
  /\ h \in Plain /\ h \in Members(topic[t])
  /\ Drop(t, h)
  /\ frames' = Excused(frames, {h})
  /\ UNCHANGED <<waiting, published, fired, cut>>

\* unsubscribe(channel) and punsubscribe(pattern), of all.
UnsubscribeAll(t) ==
  /\ topic[t] # 0
  /\ topic' = [topic EXCEPT ![t] = 0]
  /\ cut' = cut \cup Members(topic[t])
  /\ frames' = Excused(frames, Members(topic[t]))
  /\ UNCHANGED <<sets, waiting, published, fired>>

----------------------------------------------------------------------------
(* Publishing.                                                             *)

\* The exact handlers are looked up at the start, the pattern's when it is reached.
Publish ==
  /\ published < MaxPublish /\ Len(frames) < MaxDepth
  /\ published' = published + 1
  /\ frames' = Append(frames, [set |-> topic["channel"], place |-> 0, visited |-> {},
                               owed |-> Members(topic["channel"]) \cup Members(topic["pattern"])])
  /\ UNCHANGED <<sets, topic, waiting, fired, cut>>

Top == frames[Len(frames)]

\* The places of the innermost publish that are still ahead of it.
Ahead == IF frames = <<>> \/ Top.set = 0 THEN {}
         ELSE {i \in (Top.place + 1) .. Len(sets[Top.set]) : sets[Top.set][i] # Gone}

\* The handler h is called; the wrapper of subscribeOnce unsubscribes first.
Call(h) ==
  IF h \in Single
  THEN /\ Drop("channel", h)
       /\ waiting' = [waiting EXCEPT ![h] = IF @ = "waiting" THEN "heard" ELSE @]
       /\ fired' = [fired EXCEPT ![h] = IF @ > 1 THEN @ ELSE @ + 1]
  ELSE UNCHANGED <<sets, topic, waiting, fired>>

Deliver ==
  LET i == CHOOSE k \in Ahead : \A l \in Ahead : k <= l
      h == sets[Top.set][i]
      excused == IF h \in Single THEN Excused(frames, {h}) ELSE frames
  IN /\ Ahead # {}
     /\ Call(h)
     /\ frames' = [excused EXCEPT ![Len(frames)].place = i, ![Len(frames)].owed = @ \ {h}]
     /\ UNCHANGED <<published, cut>>

\* The innermost publish goes on to the pattern, or to one that came in its place.
NextSet ==
  /\ frames # <<>> /\ Ahead = {}
  /\ topic["pattern"] \notin Top.visited \cup {0}
  /\ frames' = [frames EXCEPT ![Len(frames)].set = topic["pattern"],
                              ![Len(frames)].place = 0,
                              ![Len(frames)].visited = @ \cup {topic["pattern"]}]
  /\ UNCHANGED <<sets, topic, waiting, published, fired, cut>>

\* publish has been through both.
Done == /\ frames # <<>> /\ Ahead = {}
        /\ topic["pattern"] \in Top.visited \cup {0}

Return ==
  /\ Done
  /\ frames' = Front(frames)
  /\ UNCHANGED <<sets, topic, waiting, published, fired, cut>>

\* waitFor's timer.
Timeout(w) ==
  /\ frames = <<>>
  /\ waiting[w] = "waiting"
  /\ waiting' = [waiting EXCEPT ![w] = "timed out"]
  /\ Drop("channel", w)
  /\ UNCHANGED <<frames, published, fired, cut>>

----------------------------------------------------------------------------
PsNext ==
  \/ \E t \in Topics, h \in Plain : Subscribe(t, h)
  \/ \E h \in Single : SubscribeOnce(h)
  \/ \E t \in Topics, h \in Plain : Unsubscribe(t, h)
  \/ \E t \in Topics : UnsubscribeAll(t)
  \/ Publish
  \/ Deliver
  \/ NextSet
  \/ Return
  \/ \E w \in TimedWaiters : Timeout(w)

PsSpec == PsInit /\ [][PsNext]_psVars

----------------------------------------------------------------------------
(* Properties.                                                             *)

\* A handler that was subscribed when publish began and was not unsubscribed in
\* between has been called when publish returns, whatever other handlers did to
\* the Set that is being walked.
NobodyMissed == Done => Top.owed = {}

\* A handler of subscribeOnce, and a waiter, is called for one message only, also
\* when a handler publishes to the same channel again, unless the channel was
\* unsubscribed as a whole meanwhile.
OnceIsOnce == \A h \in Single \ cut : fired[h] <= 1

\* A waiter hears the next message or times out: while it waits it is in the
\* channel's Set, and once it is settled it is not, so that none is left behind;
\* one whose whole channel was unsubscribed is the exception.
WaitersListen ==
  \A w \in Single \ cut :
    waiting[w] = "waiting" <=> w \in Members(topic["channel"])

\* Delivery reaches all who listened and no one twice who asked for one message,
\* whatever handlers subscribe and unsubscribe meanwhile.
DeliverySound == PsTypeOK /\ NobodyMissed /\ OnceIsOnce /\ WaitersListen

-----------------------------------------------------------------------------
(***************************************************************************)
(* MessageBufferPlugin (packages/queueovn/src/plugins/WhatsAppPlugins.ts): *)
(* the messages for a target are held back until a timer fires, the buffer *)
(* is full or the plugin is shut down, and are then given to onFlush.      *)
(***************************************************************************)

CONSTANTS
  Targets,
  MaxBuffer,    \* maxBuffer
  MaxMessages   \* bound: messages to a target

ASSUME BufferAssumption == MaxBuffer \in Nat \ {0} /\ MaxMessages \in Nat

VARIABLES
  buffers,   \* messages held, in order
  timers,    \* targets in the Map of timers
  armed,     \* targets whose timer will fire
  sent,      \* history: messages offered to a target so far; the last's number
  flushed    \* history: what onFlush got

bufVars == <<buffers, timers, armed, sent, flushed>>

BufTypeOK ==
  /\ \A t \in Targets : Len(buffers[t]) < MaxBuffer
  /\ timers \subseteq Targets /\ armed \subseteq Targets
  /\ sent \in [Targets -> 0 .. MaxMessages]

BufInit ==
  /\ buffers = [t \in Targets |-> <<>>] /\ timers = {} /\ armed = {}
  /\ sent = [t \in Targets |-> 0] /\ flushed = [t \in Targets |-> <<>>]

\* _doFlush, of the messages in held.
DoFlush(t, held) ==
  /\ buffers' = [buffers EXCEPT ![t] = <<>>]
  /\ timers' = timers \ {t}
  /\ flushed' = [flushed EXCEPT ![t] = @ \o held]

\* The message is held, the old timer cancelled and a new one set.
Buffer(t, held) ==
  /\ buffers' = [buffers EXCEPT ![t] = held]
  /\ timers' = timers \cup {t}
  /\ armed' = armed \cup {t}
  /\ UNCHANGED flushed

\* onEnqueue: a full buffer is flushed at once.
BufferMessage(t) ==
  LET held == Append(buffers[t], sent[t] + 1)
  IN /\ sent[t] < MaxMessages
     /\ sent' = [sent EXCEPT ![t] = @ + 1]
     /\ IF Len(held) >= MaxBuffer
        THEN DoFlush(t, held) /\ armed' = armed \ {t}
        ELSE Buffer(t, held)

\* Mutant: the buffer is emptied after the callback, into which it goes again.
FlushTimerKeeps(t) ==
  /\ t \in armed
  /\ armed' = armed \ {t}
  /\ timers' = timers \ {t}
  /\ flushed' = [flushed EXCEPT ![t] = @ \o buffers[t]]
  /\ UNCHANGED <<buffers, sent>>

FlushTimer(t) ==
  /\ t \in armed
  /\ armed' = armed \ {t}
  /\ IF buffers[t] = <<>> THEN UNCHANGED <<buffers, timers, flushed>>
     ELSE DoFlush(t, buffers[t])
  /\ UNCHANGED sent

\* shutdown: what has a timer is flushed, all else thrown away.
BufferShutdown ==
  /\ timers # {}
  /\ armed' = armed \ timers
  /\ flushed' = [t \in Targets |-> IF t \in timers THEN flushed[t] \o buffers[t]
                                  ELSE flushed[t]]
  /\ timers' = {} /\ buffers' = [t \in Targets |-> <<>>]
  /\ UNCHANGED sent

BufNext ==
  \/ \E t \in Targets : BufferMessage(t)
  \/ \E t \in Targets : FlushTimer(t)
  \/ BufferShutdown

BufSpec == BufInit /\ [][BufNext]_bufVars

\* Messages are never stuck: a target with messages held has a timer that fires.
HeldUntilTimer == \A t \in Targets : buffers[t] # <<>> => t \in armed \cap timers

\* What onFlush got and what is held are the messages offered, each once and in
\* order, whatever timers, full buffers and shutdowns came between.
FlushedInOrder ==
  \A t \in Targets : flushed[t] \o buffers[t] = [i \in 1 .. sent[t] |-> i]

\* Messages: a published one reaches those who are subscribed; a buffered one is held
\* while its timer runs and flushed in the order it came.
MessagesSound == DeliverySound /\ BufTypeOK /\ HeldUntilTimer /\ FlushedInOrder
=============================================================================
