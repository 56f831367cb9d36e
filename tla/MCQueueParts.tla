---------------------------- MODULE MCQueueParts ----------------------------
(***************************************************************************)
(* The parts of the queue package around the process loop, side by side:   *)
(* flows and dead letters, the cron scheduler and its expressions,         *)
(* admission through plugins, the heap under MemoryAdapter, the documents  *)
(* under OvnDbAdapter, the jobs of FileAdapter and SqliteAdapter, batches  *)
(* on their way into the database, and what watches jobs from outside.     *)
(* They share no state, so a behaviour of all of them is a merge of        *)
(* behaviours of each: a behaviour is of one part, chosen in the initial   *)
(* state.                                                                  *)
(***************************************************************************)
EXTENDS Flows, Cron, Admission, Heap, OvnStore, StoredJobs, JobBatches, JobWatch

VARIABLE part

Parts == {"flows", "cron", "times", "admission", "heap", "documents", "stored", "batches",
          "watch"}

partsVars == <<flowVars, cronVars, timesVars, adVars, heapVars, ovnVars, storedVars, batchVars,
               watchVars, part>>

\* "every 3 seconds"
Interval == [kind |-> "every", length |-> 3]

\* A part that a behaviour is not of keeps one of its initial states.
PartsInit ==
  /\ part \in Parts
  /\ FlowInit /\ (part # "flows" => flowBudget = CHOOSE g \in FlowBudgets : TRUE)
  /\ CronInit /\ (part # "cron" => budget = CHOOSE g \in Budgets : TRUE)
  /\ TimesInit
  /\ part # "times" => expression = Interval /\ startedAt = 0
  /\ AdInit
  /\ part # "admission" =>
       /\ how = CHOOSE w \in Ways : TRUE
       /\ hooks = CHOOSE h \in PluginLists : TRUE
  /\ HeapInit /\ OvnInit
  /\ StoredInit /\ (part # "stored" => medium = "file")
  /\ BatchInit
  /\ part # "batches" => slice = 1 /\ refuses /\ known = {} /\ unfit = {}
  /\ WatchInit

RestStays(p) ==
  /\ IF p = "flows" THEN TRUE ELSE UNCHANGED flowVars
  /\ IF p = "cron" THEN TRUE ELSE UNCHANGED cronVars
  /\ IF p = "times" THEN TRUE ELSE UNCHANGED timesVars
  /\ IF p = "admission" THEN TRUE ELSE UNCHANGED adVars
  /\ IF p = "heap" THEN TRUE ELSE UNCHANGED heapVars
  /\ IF p = "documents" THEN TRUE ELSE UNCHANGED ovnVars
  /\ IF p = "stored" THEN TRUE ELSE UNCHANGED storedVars
  /\ IF p = "batches" THEN TRUE ELSE UNCHANGED batchVars
  /\ IF p = "watch" THEN TRUE ELSE UNCHANGED watchVars

PartsNext ==
  /\ UNCHANGED part
  /\ \/ part = "flows" /\ FlowNext /\ RestStays("flows")
     \/ part = "cron" /\ CronNext /\ RestStays("cron")
     \/ part = "times" /\ TimesNext /\ RestStays("times")
     \/ part = "admission" /\ AdNext /\ RestStays("admission")
     \/ part = "heap" /\ HeapNext /\ RestStays("heap")
     \/ part = "documents" /\ OvnNext /\ RestStays("documents")
     \/ part = "stored" /\ StoredNext /\ RestStays("stored")
     \/ part = "batches" /\ BatchNext /\ RestStays("batches")
     \/ part = "watch" /\ WatchNext /\ RestStays("watch")

PartsSpec == PartsInit /\ [][PartsNext]_partsVars

----------------------------------------------------------------------------
(* Values.                                                                 *)

CONSTANTS f1, join, cycle, a, b, joined, x, y, r1, r2, s1, s2, t1, j1, j2, j3

\* In one graph a node joins a and b, in the other two nodes wait for each other.
MCNodesOf(d) == IF d = join THEN <<joined, a, b>> ELSE <<x, y>>
MCDeps(n) == CASE n = joined -> {a, b} [] n = x -> {y} [] n = y -> {x} [] OTHER -> {}

\* The first step of a chain may be tried twice, all other jobs once.
MCMaxAttempts(j) == IF j[2] = 1 THEN 2 ELSE 1

\* A crash or a dropped job beside one retry call, two retry calls that overlap, or a
\* snapshot and a crash.
FlowBudget(k, n, rs, m, ss) ==
  [crashes |-> k, snaps |-> n, calls |-> rs, drops |-> m, starts |-> ss]
MCFlowBudgets ==
  {FlowBudget(1, 0, {r1}, 0, Chains \cup Dags), FlowBudget(0, 0, {r1}, 1, Chains \cup Dags),
   FlowBudget(0, 0, {r1, r2}, 0, Chains \cup Dags),
   FlowBudget(2, 1, {r1}, 0, Chains), FlowBudget(1, 1, {}, 0, Dags)}

\* s1 fires without end, s2 once; in the last of the behaviours s1 has no next run after
\* the first tick.
MCPeriod(s) == 1
MCMaxRuns(s) == IF s = s1 THEN 0 ELSE 1
MCLoaded(s) == IF s = s1 THEN 1 ELSE 2
MCBudgets ==
  {[ticks |-> Ticks, adds |-> 0, calls |-> {}, restarts |-> 0, clock |-> MaxClock,
    dateless |-> {}],
   [ticks |-> {t1}, adds |-> 1, calls |-> {}, restarts |-> 0, clock |-> 1, dateless |-> {}],
   [ticks |-> {t1}, adds |-> 0, calls |-> {}, restarts |-> 1, clock |-> MaxClock,
    dateless |-> {}],
   [ticks |-> {t1}, adds |-> 0, calls |-> RunNows, restarts |-> 0, clock |-> 1,
    dateless |-> {}],
   [ticks |-> {t1}, adds |-> 0, calls |-> RunNows, restarts |-> 1, clock |-> 1,
    dateless |-> {<<s1, 1>>}]}

\* A calendar of four minutes to the hour, two hours to the day, two days to the month,
\* two months to the year and three days to the week.
MCDateAt(m) ==
  [minute |-> m % 4, hour |-> (m \div 4) % 2, dom |-> 1 + ((m \div 8) % 2),
   month |-> 1 + ((m \div 16) % 2), dow |-> (m \div 8) % 3]

\* An interval and one of length 0; expressions of one field each; one of two; and a day that does not come
\* again within the minutes that are tried, like February 29.
Anytime == [f \in {"minute", "hour", "dom", "month", "dow"} |-> [kind |-> "any"]]
Exactly(n) == [kind |-> "one", n |-> n]
CronFields ==
  {[Anytime EXCEPT !["minute"] = [kind |-> "step", n |-> 2]],
   [Anytime EXCEPT !["minute"] = [kind |-> "list", values |-> {1, 2}]],
   [Anytime EXCEPT !["minute"] = [kind |-> "range", lo |-> 2, hi |-> 3]],
   [Anytime EXCEPT !["minute"] = Exactly(3), !["hour"] = Exactly(1)],
   [Anytime EXCEPT !["minute"] = Exactly(0), !["hour"] = Exactly(0), !["dom"] = Exactly(2),
                   !["month"] = Exactly(1)]}
MCCronExpressions ==
  {Interval, [kind |-> "every", length |-> 0]} \cup
  {[kind |-> "cron", fields |-> fs] : fs \in CronFields}

\* All jobs have one key; two come in a batch, or one by one beside one that runs.
MCKeyOf(j) == "k"
MCWays ==
  {[j \in Arrivals |-> IF j = j1 THEN "enqueue" ELSE "batch"],
   [j \in Arrivals |-> IF j = j1 THEN "inProcess" ELSE "enqueue"]}
MCPluginLists == {<<"ttl", "dedup">>, <<"debounce", "rate">>}

\* The one that comes first may run last.
MCUrgencies == {<<1, 1>>, <<2, 0>>}

MCListed == <<1, 2, 3, 4, 5>>

\* All four adapters keep what they tell the queue true: the index of the heap lists
\* its jobs; a job in a document, a row or the file is with one process loop at a time,
\* is lost only in the gaps of FileAdapter and is not run after it ended; and a batch
\* whose call returned is stored.  What watches jobs from outside, the counters and the
\* promises, says what became of them.
AdaptersSound ==
  /\ part = "heap" => HeapTypeOK /\ IndexIsHeap
  /\ part = "documents" => OvnTypeOK /\ OneRunner
  /\ part = "stored" =>
       StoredTypeOK /\ OneRunnerStored /\ StoredJobsKept /\ RowsKept /\ EndedStaysEnded
  /\ part = "batches" => BatchesSound
  /\ part = "watch" => WatchSound
=============================================================================
