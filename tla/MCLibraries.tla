---------------------------- MODULE MCLibraries -----------------------------
(***************************************************************************)
(* What needs neither the queue nor the engine's writes to be checked, side*)
(* by side: the stores and messages of WaBotContext, the circuit breaker,  *)
(* the SDK's handles, cursors, filters, versions, token buckets, SQL-like  *)
(* compiler, identifiers, backups and relations, and the engine's hybrid   *)
(* clock and blob store.  They share no state, so a behaviour of all of them *)
(* is a merge of behaviours of each: a behaviour is of one part, chosen in *)
(* the initial state.                                                      *)
(***************************************************************************)
EXTENDS BotStores, PubSub, SortedSet, Breaker, Sdk, Cursor,
        Versions, TokenBucket, Sql, Ids, Backups, Relations,
        HybridClock, Blobs, Queries, Updates

VARIABLE part

Parts == {"stores", "pubsub", "boards", "buffer", "breaker", "handles", "takes",
          "cursor", "filters", "versions", "bucket", "sql", "ids", "backups",
          "relations", "clock", "blobs", "values", "sessions", "queries",
          "updates"}

libVars == <<kvVars, psVars, zVars, bufVars, brVars, sdkVars, curVars, filterVars,
             verVars, bktVars, sqlVars, idVars, backupVars, relVars, clockVars,
             blobVars, valVars, sessionVars, queryVars, updVars, part>>

AnyQuery == [where |-> CHOOSE e \in Expressions : TRUE,
             order |-> FALSE, limit |-> FALSE, skip |-> FALSE]

\* A part that a behaviour is not of keeps one of its initial states.
LibInit ==
  /\ part \in Parts
  /\ KvInit /\ (part # "stores" => inUse = CHOOSE ks \in Uses : TRUE)
  /\ PsInit /\ ZInit /\ BufInit /\ BrInit /\ SdkInit
  /\ CurInit
  /\ part # "cursor" =>
       /\ matching = {}
       /\ options = [limit |-> CHOOSE l \in Limits : TRUE, skip |-> CHOOSE s \in Skips : TRUE]
  /\ FilterInit /\ (part # "filters" => class = "query")
  /\ VerInit /\ (part # "versions" => shown = CHOOSE d \in Documents : TRUE)
  /\ BktInit /\ (part # "bucket" => rate = CHOOSE r \in Rates : TRUE)
  /\ \/ part = "sql" /\ SqlInit
     \/ part # "sql" /\ query = AnyQuery /\ compiled = NoResult
  /\ IdInit /\ BackupInit
  /\ RelInit /\ (part # "relations" => rule = CHOOSE r \in Rules : TRUE)
  /\ ClockInit /\ (part # "clock" => wall = 0)
  /\ BlobInit /\ GroupSessionsInit /\ QueriesInit /\ UpdatesInit
  /\ ValuesInit /\ (part # "values" => ends = [push |-> "left", pop |-> "right"])

RestStays(p) ==
  /\ IF p = "stores" THEN TRUE ELSE UNCHANGED kvVars
  /\ IF p = "pubsub" THEN TRUE ELSE UNCHANGED psVars
  /\ IF p = "boards" THEN TRUE ELSE UNCHANGED zVars
  /\ IF p = "buffer" THEN TRUE ELSE UNCHANGED bufVars
  /\ IF p = "breaker" THEN TRUE ELSE UNCHANGED brVars
  /\ IF p = "cursor" THEN TRUE ELSE UNCHANGED curVars
  /\ IF p = "filters" THEN TRUE ELSE UNCHANGED filterVars
  /\ IF p = "versions" THEN TRUE ELSE UNCHANGED verVars
  /\ IF p = "bucket" THEN TRUE ELSE UNCHANGED bktVars
  /\ IF p = "sql" THEN TRUE ELSE UNCHANGED sqlVars
  /\ IF p = "ids" THEN TRUE ELSE UNCHANGED idVars
  /\ IF p = "backups" THEN TRUE ELSE UNCHANGED backupVars
  /\ IF p = "relations" THEN TRUE ELSE UNCHANGED relVars
  /\ IF p = "clock" THEN TRUE ELSE UNCHANGED clockVars
  /\ IF p = "blobs" THEN TRUE ELSE UNCHANGED blobVars
  /\ IF p = "values" THEN TRUE ELSE UNCHANGED valVars
  /\ IF p = "sessions" THEN TRUE ELSE UNCHANGED sessionVars
  /\ IF p = "queries" THEN TRUE ELSE UNCHANGED queryVars
  /\ IF p = "updates" THEN TRUE ELSE UNCHANGED updVars
  /\ IF p \in {"handles", "takes"} THEN TRUE ELSE UNCHANGED sdkVars

LibNext ==
  /\ UNCHANGED part
  /\ \/ part = "stores" /\ KvNext /\ RestStays("stores")
     \/ part = "pubsub" /\ PsNext /\ RestStays("pubsub")
     \/ part = "boards" /\ ZNext /\ RestStays("boards")
     \/ part = "buffer" /\ BufNext /\ RestStays("buffer")
     \/ part = "breaker" /\ BrNext /\ RestStays("breaker")
     \/ part = "handles" /\ UNCHANGED taker /\ SdkNext /\ RestStays("handles")
     \/ part = "takes" /\ UNCHANGED <<runner, stack>> /\ SdkNext /\ RestStays("takes")
     \/ part = "cursor" /\ CurNext /\ RestStays("cursor")
     \/ part = "filters" /\ FilterNext /\ RestStays("filters")
     \/ part = "versions" /\ VerNext /\ RestStays("versions")
     \/ part = "bucket" /\ BktNext /\ RestStays("bucket")
     \/ part = "sql" /\ SqlNext /\ RestStays("sql")
     \/ part = "ids" /\ IdNext /\ RestStays("ids")
     \/ part = "backups" /\ BackupNext /\ RestStays("backups")
     \/ part = "relations" /\ RelNext /\ RestStays("relations")
     \/ part = "clock" /\ ClockNext /\ RestStays("clock")
     \/ part = "blobs" /\ BlobNext /\ RestStays("blobs")
     \/ part = "values" /\ ValuesNext /\ RestStays("values")
     \/ part = "sessions" /\ GroupSessionsNext /\ RestStays("sessions")
     \/ part = "queries" /\ QueriesNext /\ RestStays("queries")
     \/ part = "updates" /\ UpdatesNext /\ RestStays("updates")

LibSpec == LibInit /\ [][LibNext]_libVars

----------------------------------------------------------------------------
(* Values.                                                                 *)

CONSTANTS m1, m2, m3, co1, co2, sp1, sp2, bd1, bd2

MCTtl(k) == IF k = PerMinute THEN 2 ELSE 1
MCLimit(k) == IF k = PerMinute THEN 2 ELSE 1
MCSpamLimit(k) == 2
MCMembers(b) == IF b = bd2 THEN <<m2>> ELSE <<m1, m2, m3>>

\* Two users whose identifiers are written alike.
MCEscapedJid(j) == IF j = "u:2" THEN "u_2" ELSE j

\* A condition: its field, its operator, the documents it holds of.
MCField(c) == c[1]
MCOperator(c) == c[2]
MCSelects(c) == c[3]
MCConditions ==
  {<<"x", "$gte", {1, 2, 3}>>, <<"x", "$gte", {2, 3}>>,
   <<"x", "$lte", {1, 2}>>, <<"y", "$eq", {1, 3}>>}

\* Two values that are written alike, and one that is not equal to itself.
MCDeepEqual(u, v) == (u = v /\ u # "nan") \/ {u, v} = {"o", "p"}

MCTruth(k) ==
  CASE k = "equal" -> {1, 2, 3, 4}
    [] k = "between" -> {1, 2, 5, 6}
    [] k = "in" -> {1, 3, 5, 7}
    [] k = "not in" -> {2, 4, 6, 8}
    [] k = "like" -> {3, 6}
    [] k = "not like" -> {1, 2, 4, 5, 7}
    [] k = "null" -> {8}
    [] k = "not null" -> 1 .. 7

MCCols == <<co1, co2>>
MCPolicies ==
  {[maxCount |-> 1, maxAge |-> -1], [maxCount |-> -1, maxAge |-> 1],
   [maxCount |-> 2, maxAge |-> 0]}

MCRules ==
  {[check |-> "strict", follow |-> "cascade", single |-> FALSE],
   [check |-> "soft", follow |-> "set-null", single |-> TRUE],
   [check |-> "off", follow |-> "restrict", single |-> FALSE]}

\* One remote timestamp within the drift, at the end of its millisecond, one beyond.
MCRemotes == {[physical |-> 1, logical |-> 1], [physical |-> 3, logical |-> 0]}

\* A blob of two pages and one of a single page.
MCChunksOf == [s \in Storers |-> IF s = sp1 THEN 2 ELSE 1]

\* Documents that agree in one of the two fields they are sorted by.
MCSortFields == <<"age", "name">>
MCValueIn(d, f) == IF (f = "age" /\ d < 3) \/ (f = "name" /\ d > 1) THEN 1 ELSE 2

\* A document that every update suits, one with a number for its list, one without
\* the number.
MCOriginals == <<[n |-> Num(1), l |-> List(<<1>>)], [n |-> Num(2), l |-> Num(1)],
                 [l |-> List(<<2, 1>>), m |-> Now]>>
MCUpdateCalls ==
  {[op |-> "$set", field |-> "n", arg |-> Num(0)], [op |-> "$set", field |-> "l", arg |-> List(<<>>)],
   [op |-> "$unset", field |-> "n", arg |-> 0], [op |-> "$inc", field |-> "n", arg |-> 1],
   [op |-> "$inc", field |-> "n", arg |-> 2], [op |-> "$inc", field |-> "m", arg |-> 1],
   [op |-> "$mul", field |-> "n", arg |-> 3], [op |-> "$min", field |-> "n", arg |-> 1],
   [op |-> "$max", field |-> "n", arg |-> 2], [op |-> "$rename", field |-> "n", arg |-> "m"],
   [op |-> "$currentDate", field |-> "m", arg |-> TRUE],
   [op |-> "$push", field |-> "l", arg |-> <<1>>], [op |-> "$push", field |-> "l", arg |-> <<2, 3>>],
   [op |-> "$pull", field |-> "l", arg |-> 1], [op |-> "$addToSet", field |-> "l", arg |-> 2],
   [op |-> "$pop", field |-> "l", arg |-> 1], [op |-> "$pop", field |-> "l", arg |-> -1]}

----------------------------------------------------------------------------
(* Properties of more than one module.                                     *)

\* The stores of WaBotContext: keys live, expire and are claimed as their callers
\* were told, a value is what was written and is not there after its expiry, a
\* group's sessions are listed and ended and nobody else's, and a leaderboard's ranks
\* are those of the scores it holds now.
StoresAndBoardsSound ==
  /\ part = "stores" => StoresSound
  /\ part = "values" => ValuesSound
  /\ part = "sessions" => GroupSessionsSound
  /\ part = "boards" => ZTypeOK /\ RanksAreFresh /\ ListsAreTheRanks

\* What the query builders hand to the engine says what their caller said - filters
\* put together by calls, and filters compiled from statements, options and pages,
\* update expressions - and a cursor that ends has returned all that the query asks
\* for, if not no more.
QueriesSayWhatTheyDo ==
  /\ part = "queries" => QueriesSound
  /\ part = "updates" => UpdatesSound
  /\ part = "filters" => FilterTypeOK /\ FilterSaysTheCalls
  /\ part = "sql" => CompiledSaysTheStatement
  /\ part = "cursor" => CursorIsComplete

\* Data the SDK and the engine keep beside the documents: identifiers are not given
\* twice, backups hold and bring back what was written, orders name users, and a
\* blob is read as it was stored.
DataSound ==
  /\ part = "ids" => IdsSound
  /\ part = "backups" => BackupsSound
  /\ part = "relations" => RelationsSound
  /\ part = "blobs" => BlobsSound
=============================================================================
