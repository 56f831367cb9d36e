-------------------------------- MODULE Cron --------------------------------
(***************************************************************************)
(* CronScheduler (packages/queueovn/src/scheduler/CronScheduler.ts) with its *)
(* file: a timer starts ticks, a tick visits the schedules in the order of *)
(* the Map and awaits the enqueue of each that is due, other ticks and calls *)
(* run meanwhile, and the process may die at any moment.  The last part has *)
(* how an expression is read and the next run found.                       *)
(***************************************************************************)
EXTENDS Integers, FiniteSets

CONSTANTS
  Schedules,
  Loaded(_),     \* the place of a schedule in the file at the start
  Period(_),     \* what _computeNext adds, in units of the clock
  MaxRuns(_),    \* maxRuns; 0: no limit
  Ticks,         \* bound: runs of _tick at once
  RunNows,       \* calls of runNow
  MaxClock,      \* bound: the clock
  Budgets        \* bounds, of which a behaviour has one: the ticks it may have, calls
                 \* of add, calls of runNow (a subset of RunNows), restarts, its clock,
                 \* and when _computeNext finds no next run for a schedule: dateless

ASSUME CronAssumption ==
  /\ IsFiniteSet(Schedules) /\ IsFiniteSet(RunNows) /\ Ticks \cap RunNows = {}
  /\ \A i \in Schedules : /\ Loaded(i) \in 1 .. Cardinality(Schedules)
                          /\ Period(i) \in Nat \ {0} /\ MaxRuns(i) \in Nat
  /\ MaxClock \in Nat
  /\ Budgets \subseteq [ticks : SUBSET Ticks, adds : Nat, calls : SUBSET RunNows,
                         restarts : Nat, clock : 0 .. MaxClock,
                         dateless : SUBSET (Schedules \X Nat)]

VARIABLES
  budget,     \* one of Budgets
  entries,    \* the Map: id -> entry; ins is its place in the Map's order
  inFlight,
  paused,
  timerOn,    \* the interval runs
  ticks,      \* of a tick: off, or the clock and the place it read last; awaiting a fire
  fires,      \* runs of _fire, by the tick or the runNow that called it
  saved,       \* the saved entries
  now,
  adds, restarts,
  calls,      \* runNow calls not made yet
  lastTick,   \* history: when a tick last fired this entry since add or start; -1: never
  ticked,     \* history: jobs the ticks queued for this entry since add
  lost,       \* history: runs counted in memory that a restart forgot, since add
  overlapped, \* history: schedules one of whose fires settled during another
  unfound     \* history: schedules for which _computeNext threw since the start

cronVars == <<budget, entries, inFlight, paused, timerOn, ticks, fires, saved, now, adds,
              restarts, calls, lastTick, ticked, lost, overlapped, unfound>>
counters == <<budget, now, adds, restarts>>
history == <<lastTick, ticked, lost>>

Off == [on |-> FALSE, at |-> 0, last |-> 0, awaiting |-> FALSE]
Entered == DOMAIN entries
FiresOf(i) == {f \in fires : f.id = i}
Exhausted(i) == MaxRuns(i) > 0 /\ entries[i].runs >= MaxRuns(i)

CronTypeOK ==
  /\ Entered \subseteq Schedules /\ DOMAIN saved \subseteq Schedules
  /\ \A i \in Entered : /\ entries[i].enabled \in BOOLEAN
                    /\ entries[i].next \in 0 .. MaxClock + Period(i)
                    /\ entries[i].runs \in Nat
                    /\ entries[i].ins \in 1 .. Cardinality(Schedules) + adds
  /\ inFlight \cup unfound \subseteq Schedules
  /\ \A t \in Ticks : ticks[t].awaiting => ticks[t].on
  /\ \A f \in fires : f.by \in Ticks \cup RunNows /\ f.stage \in {"asked", "queued"}
  /\ \A f, g \in fires : f.by = g.by => f = g
  /\ \A t \in Ticks : ticks[t].awaiting <=> \E f \in fires : f.by = t

CronInit ==
  /\ entries = [i \in Schedules |-> [enabled |-> TRUE, next |-> Period(i), runs |-> 0,
                                     ins |-> Loaded(i)]]
  /\ saved = entries /\ inFlight = {} /\ fires = {}
  /\ paused = FALSE /\ timerOn = TRUE
  /\ ticks = [t \in Ticks |-> Off]
  /\ now = 0 /\ adds = 0 /\ restarts = 0
  /\ budget \in Budgets /\ calls = budget.calls
  /\ lastTick = [i \in Schedules |-> -1]
  /\ ticked = [i \in Schedules |-> 0] /\ lost = [i \in Schedules |-> 0]
  /\ overlapped = {} /\ unfound = {}

\* ------------------------------------------------------------- firing

\* _computeNext throws: the expression names no minute of the year to come.
Dateless(i) == <<i, now>> \in budget.dateless

\* Mutant: the next time is counted from the missed one.
StartedLate(e, i) == [e EXCEPT !.runs = @ + 1, !.next = @ + Period(i)]

\* The entry as _fire leaves it before its await.
Started(e, i) == [e EXCEPT !.runs = @ + 1, !.next = now + Period(i)]

\* _fire up to its await.
Fire(i, caller, kept) ==
  /\ ~Dateless(i)
  /\ entries' = [kept EXCEPT ![i] = Started(kept[i], i)]
  /\ inFlight' = inFlight \cup {i}
  /\ fires' = fires \cup {[id |-> i, by |-> caller, stage |-> "asked", old |-> FALSE]}
  /\ UNCHANGED unfound

\* _fire where _computeNext throws, before the try: nothing is queued, and the run it
\* counted and its mark stay.
FireThrows(i, kept) ==
  /\ Dateless(i)
  /\ entries' = [kept EXCEPT ![i].runs = @ + 1]
  /\ inFlight' = inFlight \cup {i} /\ unfound' = unfound \cup {i}
  /\ UNCHANGED fires

\* Mutant: no inFlight test.
ReadyAgain(i, at) ==
  entries[i].enabled /\ at >= entries[i].next /\ ~Exhausted(i)

ReadyToFire(i, at) ==
  entries[i].enabled /\ at >= entries[i].next /\ i \notin inFlight /\ ~Exhausted(i)

\* What a tick disables as it passes.
Spent(i, at) ==
  entries[i].enabled /\ at >= entries[i].next /\ i \notin inFlight /\ Exhausted(i)

\* A tick goes on from the place it read last to the next entry it fires, or
\* to the end; it still has the time it read at its start.  A throw ends it: the
\* entries after that one are not visited.
Visit(t, tick) ==
  LET ahead == {i \in Entered : entries[i].ins > tick.last}
      ready == {i \in ahead : ReadyToFire(i, tick.at)}
      first == CHOOSE i \in ready : \A k \in ready : entries[i].ins <= entries[k].ins
      passed == IF ready = {} THEN ahead
                ELSE {i \in ahead : entries[i].ins < entries[first].ins}
      kept == [i \in Entered |-> IF i \in passed /\ Spent(i, tick.at)
                             THEN [entries[i] EXCEPT !.enabled = FALSE] ELSE entries[i]]
  IN IF ready = {}
     THEN /\ entries' = kept
          /\ ticks' = [ticks EXCEPT ![t] = Off]
          /\ UNCHANGED <<inFlight, fires, lastTick, unfound>>
     ELSE \/ /\ Fire(first, t, kept)
             /\ ticks' = [ticks EXCEPT ![t] = [tick EXCEPT !.last = entries[first].ins,
                                                          !.awaiting = TRUE]]
             /\ lastTick' = [lastTick EXCEPT ![first] = now]
          \/ /\ FireThrows(first, kept)
             /\ ticks' = [ticks EXCEPT ![t] = Off]
             /\ UNCHANGED lastTick

\* The interval calls _tick.
TickStart(t) ==
  /\ t \in budget.ticks /\ timerOn /\ ~paused /\ ~ticks[t].on
  /\ Visit(t, [on |-> TRUE, at |-> now, last |-> 0, awaiting |-> FALSE])
  /\ UNCHANGED <<paused, timerOn, saved, counters, calls, ticked, lost, overlapped>>

\* The fire it awaited has settled.
TickResumes(t) ==
  /\ ticks[t].on /\ ~ticks[t].awaiting
  /\ Visit(t, ticks[t])
  /\ UNCHANGED <<paused, timerOn, saved, counters, calls, ticked, lost, overlapped>>

RunNow(c) ==
  /\ c \in calls
  /\ calls' = calls \ {c}
  /\ \E i \in Entered : Fire(i, c, entries) \/ FireThrows(i, entries)
  /\ UNCHANGED <<paused, timerOn, ticks, saved, counters, history, overlapped>>

\* The queue has the job; the awaiting _fire has not run yet.
JobQueued(f) ==
  /\ f.stage = "asked"
  /\ fires' = (fires \ {f}) \cup {[f EXCEPT !.stage = "queued"]}
  /\ ticked' = IF f.by \in Ticks /\ ~f.old THEN [ticked EXCEPT ![f.id] = @ + 1] ELSE ticked
  /\ UNCHANGED <<entries, inFlight, paused, timerOn, ticks, saved, counters, calls,
                 lastTick, lost, overlapped, unfound>>

\* The rest of _fire: a save if the enqueue went well, and the finally.
Settled(f, ok) ==
  /\ inFlight' = inFlight \ {f.id}
  /\ saved' = IF ok THEN entries ELSE saved

FireSettles(f, ok) ==
  /\ f.stage = (IF ok THEN "queued" ELSE "asked")
  /\ Settled(f, ok)
  /\ fires' = fires \ {f}
  /\ ticks' = IF f.by \in Ticks THEN [ticks EXCEPT ![f.by].awaiting = FALSE] ELSE ticks
  /\ overlapped' = IF FiresOf(f.id) = {f} THEN overlapped \ {f.id}
                   ELSE overlapped \cup {f.id}
  /\ UNCHANGED <<entries, paused, timerOn, counters, calls, history, unfound>>

\* -------------------------------------------------------------- calls

\* add: a new entry, in the place of an old one with the id if there is one; it throws
\* before it changes anything.
Add(i) ==
  /\ adds < budget.adds /\ ~Dateless(i)
  /\ adds' = adds + 1
  /\ LET e == [enabled |-> TRUE, next |-> now + Period(i), runs |-> 0,
               ins |-> IF i \in Entered THEN entries[i].ins ELSE Cardinality(Schedules) + adds + 1]
     IN entries' = [k \in Entered \cup {i} |-> IF k = i THEN e ELSE entries[k]]
  /\ saved' = entries'
  /\ fires' = {IF f.id = i THEN [f EXCEPT !.old = TRUE] ELSE f : f \in fires}
  /\ lastTick' = [lastTick EXCEPT ![i] = -1]
  /\ ticked' = [ticked EXCEPT ![i] = 0] /\ lost' = [lost EXCEPT ![i] = 0]
  /\ UNCHANGED <<budget, inFlight, paused, timerOn, ticks, now, restarts, calls, overlapped,
                 unfound>>

RemoveSchedule(i) ==
  /\ i \in Entered
  /\ entries' = [k \in Entered \ {i} |-> entries[k]]
  /\ saved' = entries'
  /\ UNCHANGED <<inFlight, paused, timerOn, ticks, fires, counters, calls, history,
                 overlapped, unfound>>

SetEnabled(i, on) ==
  /\ i \in Entered /\ ~(on /\ Dateless(i))
  /\ LET e == entries[i]
     IN  entries' = [entries EXCEPT ![i] =
           [e EXCEPT !.enabled = on, !.next = IF on THEN now + Period(i) ELSE e.next]]
  /\ saved' = entries'
  /\ UNCHANGED <<inFlight, paused, timerOn, ticks, fires, counters, calls, history,
                 overlapped, unfound>>

\* setEnabled(id, true) where _computeNext throws: enabled, and not saved.
EnableThrows(i) ==
  /\ i \in Entered /\ Dateless(i)
  /\ entries' = [entries EXCEPT ![i].enabled = TRUE]
  /\ unfound' = unfound \cup {i}
  /\ UNCHANGED <<inFlight, paused, timerOn, ticks, fires, saved, counters, calls, history,
                 overlapped>>

Pause ==
  /\ paused' = ~paused   \* pause, or resume
  /\ UNCHANGED <<entries, inFlight, timerOn, ticks, fires, saved, counters, calls,
                 history, overlapped, unfound>>

CronShutdown ==
  /\ timerOn /\ timerOn' = FALSE
  /\ saved' = entries
  /\ UNCHANGED <<entries, inFlight, paused, ticks, fires, counters, calls, history,
                 overlapped, unfound>>

\* The process ends, by itself, at the rejection of a tick nobody awaits or otherwise,
\* and starts again some time later: initialize loads the file.  Its first _tick is a
\* TickStart.
Restart ==
  /\ restarts < budget.restarts
  /\ restarts' = restarts + 1
  /\ now' \in now .. budget.clock
  /\ entries' = saved
  /\ inFlight' = {} /\ paused' = FALSE /\ timerOn' = TRUE /\ fires' = {}
  /\ ticks' = [t \in Ticks |-> Off]
  /\ lastTick' = [i \in Schedules |-> -1]
  /\ lost' = [i \in Schedules |->
                IF i \in Entered \cap DOMAIN saved
                THEN lost[i] + entries[i].runs - saved[i].runs ELSE lost[i]]
  /\ overlapped' = {} /\ unfound' = {}
  /\ UNCHANGED <<budget, saved, adds, calls, ticked>>

Clock ==
  /\ now < budget.clock /\ now' = now + 1
  /\ UNCHANGED <<budget, entries, inFlight, paused, timerOn, ticks, fires, saved, adds,
                 restarts, calls, history, overlapped, unfound>>

CronNext ==
  \/ \E t \in Ticks : TickStart(t)
  \/ \E t \in Ticks : TickResumes(t)
  \/ \E f \in fires, ok \in BOOLEAN : FireSettles(f, ok)
  \/ \E c \in RunNows : RunNow(c)
  \/ \E f \in fires : JobQueued(f)
  \/ \E i \in Schedules : Add(i)
  \/ \E i \in Schedules : RemoveSchedule(i)
  \/ \E i \in Schedules, on \in BOOLEAN : SetEnabled(i, on)
  \/ \E i \in Schedules : EnableThrows(i)
  \/ Pause \/ CronShutdown \/ Restart \/ Clock

CronSpec == CronInit /\ [][CronNext]_cronVars

\* --------------------------------------------------------- properties

\* A schedule is marked as firing only while a call of _fire for it is under way,
\* whatever failed, was removed or replaced: of all errors only that of _computeNext
\* leaves a mark, and with it a schedule that the ticks skip until a restart.
MarkedWhileFiring == inFlight \subseteq {f.id : f \in fires} \cup unfound

\* Two ticks never have the same schedule in the queue's hands at once, unless
\* another call for it (runNow) ended in between and took the mark away.
NoDoubleFire ==
  \A i \in Schedules :
    Cardinality({f \in FiresOf(i) : f.by \in Ticks}) > 1 => i \in overlapped

\* Ticks queue at most maxRuns jobs for an entry, and after a restart at most
\* one more for each run that was counted but not saved when the process died.
RunsBounded ==
  \A i \in Entered : MaxRuns(i) > 0 => ticked[i] <= MaxRuns(i) + lost[i]

\* What a restart loads are the schedules that were there: added, replaced and
\* removed ones as the calls left them; only runs may be missing, the mark that a
\* schedule has had all its runs, and what a call that threw had enabled.
RestartKeepsSchedules ==
  /\ DOMAIN saved = Entered
  /\ \A i \in Entered : /\ saved[i].runs <= entries[i].runs
                    /\ saved[i].enabled # entries[i].enabled => Exhausted(i) \/ i \in unfound

\* However long the ticks were held up, paused or down, a schedule's runs are at
\* least a period apart: missed runs are not made up for one by one.
MissedRunsCoalesce ==
  [][\A t \in Ticks :
       ~ticks[t].awaiting /\ ticks'[t].awaiting =>
         \A f \in fires' : f.by = t /\ lastTick[f.id] >= 0 => now >= lastTick[f.id] + Period(f.id)]_cronVars

-----------------------------------------------------------------------------
(***************************************************************************)
(* When a schedule runs (packages/queueovn/src/scheduler/CronScheduler.ts: *)
(* 40-103, 373-417): the expressions parseCron reads, the search for the   *)
(* next run, and the ticks that find it due, late or in time.  Above, the  *)
(* schedules run beside each other and the next run is a sum.              *)
(***************************************************************************)

CONSTANTS
  CronExpressions,
  DateAt(_),       \* what the getters of Date say of a minute
  MinuteLength,    \* milliseconds of a minute
  SearchLimit,     \* minutes parseCron tries
  Gaps,            \* milliseconds between two ticks
  MaxMoments       \* bound: the clock

\* "every 0 seconds" is read like any other interval.
ASSUME CronTimesAssumption ==
  /\ \A e \in CronExpressions : e.kind = "every" => e.length \in Nat
  /\ MinuteLength \in Nat \ {0} /\ SearchLimit \in Nat
  /\ Gaps \subseteq Nat \ {0} /\ MaxMoments \in Nat /\ MinuteLength <= MaxMoments

VARIABLES
  expression,
  startedAt,     \* Date.now() of add
  marked,        \* a search that found no date left the schedule in inFlight
  wallClock,     \* Date.now() of the last tick or call
  nextRunAt,
  lastRun,       \* history: when it last ran or was added, and by whom
  runBefore,     \* history: when it ran, or was added, before that
  heldUp         \* history: a tick came later than a minute after the one before

timesVars == <<expression, startedAt, marked, wallClock, nextRunAt, lastRun, runBefore, heldUp>>

NoDate == -1
MinuteOf(t) == t \div MinuteLength

\* _matchField: a step counts from 0, whatever stands before it.
MatchField(field, value) ==
  CASE field.kind = "any"   -> TRUE
    [] field.kind = "step"  -> field.n > 0 /\ value % field.n = 0
    [] field.kind = "list"  -> value \in field.values
    [] field.kind = "range" -> value >= field.lo /\ value <= field.hi
    [] field.kind = "one"   -> value = field.n

MatchesAt(e, m) ==
  \A f \in DOMAIN e.fields : MatchField(e.fields[f], DateAt(m)[f])

\* parseCron; NoDate where it throws.
ParseCron(e, from) ==
  IF e.kind = "every" THEN from + e.length
  ELSE LET tried == MinuteOf(from) + 1 .. MinuteOf(from) + SearchLimit
           found == {m \in tried : MatchesAt(e, m)}
       IN IF found = {} THEN NoDate
          ELSE MinuteLength * CHOOSE m \in found : \A k \in found : m <= k

\* add succeeds.
TimesInit ==
  /\ expression \in CronExpressions
  /\ startedAt \in 0 .. MinuteLength - 1 /\ wallClock = startedAt
  /\ nextRunAt = ParseCron(expression, startedAt) /\ nextRunAt # NoDate
  /\ lastRun = [at |-> startedAt, by |-> "add"] /\ runBefore = startedAt /\ heldUp = FALSE
  /\ marked = FALSE

\* _fire at t, with the enqueue it awaits.
FireAt(t, by) ==
  /\ ParseCron(expression, t) # NoDate
  /\ lastRun' = [at |-> t, by |-> by] /\ runBefore' = lastRun.at
  /\ nextRunAt' = ParseCron(expression, t)
  /\ marked' = FALSE

\* _fire at t where parseCron throws: nothing is queued, and the mark stays.
NoDateAt(t) ==
  /\ ParseCron(expression, t) = NoDate
  /\ marked' = TRUE
  /\ UNCHANGED <<lastRun, runBefore, nextRunAt>>

TickAfter(gap) ==
  LET t == wallClock + gap IN
  /\ t <= MaxMoments
  /\ wallClock' = t /\ heldUp' = (heldUp \/ gap > MinuteLength)
  /\ IF ~marked /\ t >= nextRunAt THEN FireAt(t, "tick") \/ NoDateAt(t)
     ELSE UNCHANGED <<lastRun, runBefore, nextRunAt, marked>>
  /\ UNCHANGED <<expression, startedAt>>

\* runNow, just after a tick.
RunNowAt ==
  /\ FireAt(wallClock, "call") \/ NoDateAt(wallClock)
  /\ UNCHANGED <<expression, startedAt, wallClock, heldUp>>

TimesNext ==
  \/ \E gap \in Gaps : TickAfter(gap)
  \/ RunNowAt

TimesSpec == TimesInit /\ [][TimesNext]_timesVars

----------------------------------------------------------------------------

\* The minutes that match, after add's own.
DueMinutes ==
  {m \in MinuteOf(startedAt) + 1 .. MinuteOf(MaxMoments) : MatchesAt(expression, m)}

\* A schedule runs when its expression says: every minute that matches has a run by
\* the next tick, none is run twice by ticks, a tick runs only for a minute that began
\* since the run before, and in that minute if no tick was late; and an interval's
\* runs are apart by its length and come by the first tick after it, at every tick if
\* it is 0.  Only a search that ends without a date stops an expression, and takes with
\* it the run it was made for, until a call of runNow finds a date again.
RunsWhenItSays ==
  IF expression.kind = "every"
  THEN /\ ~marked
       /\ lastRun.by = "tick" => lastRun.at - runBefore >= expression.length
       /\ wallClock < lastRun.at + expression.length \/ wallClock = lastRun.at
  ELSE /\ ~marked =>
            \A m \in DueMinutes : m * MinuteLength <= wallClock => lastRun.at >= m * MinuteLength
       /\ lastRun.by = "tick" =>
            /\ \E m \in DueMinutes : m > MinuteOf(runBefore) /\ m <= MinuteOf(lastRun.at)
            /\ ~heldUp => MinuteOf(lastRun.at) \in DueMinutes

TimesTypeOK ==
  /\ wallClock \in 0 .. MaxMoments /\ nextRunAt \in Nat /\ marked \in BOOLEAN
  /\ ~marked => nextRunAt > wallClock \/ nextRunAt = lastRun.at

TimesSound == TimesTypeOK /\ RunsWhenItSays

\* Ticks, runNow, add, remove, pause and restarts, interleaved at every await,
\* neither block a schedule that has a next run, fire it twice at once, exceed its runs nor lose it;
\* and it runs when its expression says.
SchedulesSound ==
  /\ CronTypeOK /\ MarkedWhileFiring /\ NoDoubleFire /\ RunsBounded
  /\ RestartKeepsSchedules /\ TimesSound
=============================================================================
