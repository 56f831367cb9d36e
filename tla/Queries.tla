------------------------------ MODULE Queries ------------------------------
(***************************************************************************)
(* QueryBuilder's options, filters and AggregateBuilder                    *)
(* (packages/oblivinx3x/src/query/builder.ts:478-1128), with what the      *)
(* engine's find and pipeline make of them.  A QueryBuilder never changes: *)
(* each call gives another one.  An AggregateBuilder grows in place under  *)
(* everyone who holds it.  A query's filter is kept as the documents it    *)
(* selects; the last part has how it is put together.                      *)
(***************************************************************************)
EXTENDS Integers, FiniteSets, Sequences, SequencesExt

CONSTANTS
  Corpus,          \* the documents, by their place in the scan
  SortFields,      \* the fields to sort by, a sequence in alphabetical order
  ValueIn(_, _),   \* what a document has in a field
  Predicates,      \* the documents a condition selects
  Sizes,           \* what limit and skip are given
  MaxChain         \* bound: calls of builders

ASSUME QueriesAssumption ==
  /\ Corpus \subseteq Nat /\ Predicates \subseteq SUBSET Corpus
  /\ Sizes \subseteq Nat /\ MaxChain \in Nat

VARIABLES
  builders,    \* the QueryBuilders made so far
  requests,    \* history: of each, the calls that led to it
  pipelines,   \* the stages of the AggregateBuilders
  present      \* the documents there are

queryVars == <<builders, requests, pipelines, present>>

Absent == -1
SortKeys == ToSet(SortFields)
Directions == {1, -1}

NewPipeline == <<>>

NewQuery == [selects |-> Corpus, sort |-> <<>>, limit |-> Absent, skip |-> Absent,
             fields |-> {}, mode |-> "all", explain |-> FALSE]

\* The object of sort keys with f set to dir: a key that is there keeps its place.
WithSortKey(s, f, dir) ==
  IF \E k \in DOMAIN s : s[k].field = f
  THEN [k \in DOMAIN s |-> IF s[k].field = f THEN [field |-> f, dir |-> dir] ELSE s[k]]
  ELSE Append(s, [field |-> f, dir |-> dir])

----------------------------------------------------------------------------
(* The engine.                                                             *)

\* The options come as JSON objects, whose keys the binding reads in alphabetical order.
EngineSort(s) ==
  FlattenSeq([i \in DOMAIN SortFields |-> SelectSeq(s, LAMBDA k : k.field = SortFields[i])])

\* The comparison of sort_by, for documents that have the fields.
KeyedBefore(s, d, e) ==
  LET differ == {k \in DOMAIN s : ValueIn(d, s[k].field) # ValueIn(e, s[k].field)}
      first == CHOOSE k \in differ : \A j \in differ : k <= j
  IN /\ differ # {}
     /\ IF s[first].dir < 0 THEN ValueIn(d, s[first].field) > ValueIn(e, s[first].field)
        ELSE ValueIn(d, s[first].field) < ValueIn(e, s[first].field)

\* sort_by, which is stable.
StablySorted(docs, s) ==
  LET at == SetToSortSeq(DOMAIN docs, LAMBDA i, j :
              KeyedBefore(s, docs[i], docs[j]) \/ (~KeyedBefore(s, docs[j], docs[i]) /\ i < j))
  IN [k \in DOMAIN docs |-> docs[at[k]]]

ScanOf(docs) == SetToSortSeq(docs, <)

\* A number below zero is not read as one.
Skipped(seq, n) == SubSeq(seq, (IF n < 0 THEN 0 ELSE n) + 1, Len(seq))
Limited(seq, n) == IF n < 0 \/ n > Len(seq) THEN seq ELSE SubSeq(seq, 1, n)

\* #buildOptions: the timeout is not among them.
BuildOptions(q) == [sort |-> EngineSort(q.sort), skip |-> q.skip, limit |-> q.limit]

\* find with options: sort, skip, limit.
FindWith(docs, options) == Limited(Skipped(StablySorted(docs, options.sort), options.skip), options.limit)

FindBy(docs, q) == FindWith(ScanOf(docs \cap q.selects), BuildOptions(q))

\* The fields of a document that find leaves: _id stays when some are named to stay.
Projected(q, fields) ==
  IF q.fields = {} \/ q.mode = "all" THEN fields
  ELSE IF q.mode = "only" THEN fields \cap (q.fields \cup {"_id"})
  ELSE fields \ q.fields

\* One stage of a pipeline.
StageOf(docs, st) ==
  CASE st.op = "match" -> SelectSeq(docs, LAMBDA d : d \in st.docs)
    [] st.op = "project" -> docs    \* the same documents, with fewer fields
    [] st.op = "sort"  -> StablySorted(docs, st.keys)
    [] st.op = "skip"  -> Skipped(docs, st.n)
    [] st.op = "limit" -> Limited(docs, st.n)

Run(docs, stages) ==
  FoldLeft(LAMBDA acc, st : StageOf(acc, st), ScanOf(docs), stages)

----------------------------------------------------------------------------
(* QueryBuilder's methods that return what the caller waits for.           *)

Plan == <<"plan">>

Results(q) == IF q.explain THEN Plan ELSE FindBy(present, q)

\* first: null when there is none.
FirstResult(q) == LET results == Results([q EXCEPT !.limit = 1]) IN
            IF results = <<>> THEN Absent ELSE results[1]

\* countDocuments
CountMatching(q) == Cardinality(present \cap q.selects)

Exists(q) == CountMatching(q) > 0

PageOf(q, number, size) == [q EXCEPT !.skip = (number - 1) * size, !.limit = size]

\* batch: arrays of size documents, and of those that are left.
Batches(results, size) ==
  [n \in 1 .. (Len(results) + size - 1) \div size |->
     Limited(Skipped(results, (n - 1) * size), size)]

----------------------------------------------------------------------------

QueriesInit ==
  /\ builders = <<NewQuery>> /\ requests = <<(<<>>)>>
  /\ pipelines = <<>> /\ present = Corpus

\* The calls there were, and one.
CallsMade == Len(builders) + Len(FlattenSeq(pipelines)) + IF present = Corpus THEN 0 ELSE 1
Chained == CallsMade <= MaxChain

\* A call of builder b that gives the builder q.
Gives(b, q, call) ==
  /\ Chained
  /\ builders' = Append(builders, q)
  /\ requests' = Append(requests, Append(requests[b], call))
  /\ UNCHANGED <<pipelines, present>>

WhereSelects(b, docs) ==
  Gives(b, [builders[b] EXCEPT !.selects = @ \cap docs], [op |-> "where", docs |-> docs])

SortBuilder(b, f, dir) ==
  Gives(b, [builders[b] EXCEPT !.sort = WithSortKey(@, f, dir)],
        [op |-> "sort", key |-> [field |-> f, dir |-> dir]])

SortBy(b, s) == Gives(b, [builders[b] EXCEPT !.sort = s], [op |-> "sortBy", keys |-> s])

LimitBuilder(b, n) == Gives(b, [builders[b] EXCEPT !.limit = n], [op |-> "limit", n |-> n])

SkipBuilder(b, n) == Gives(b, [builders[b] EXCEPT !.skip = n], [op |-> "skip", n |-> n])

PageBuilder(b, number, size) ==
  Gives(b, PageOf(builders[b], number, size), [op |-> "page", number |-> number, size |-> size])

\* select and exclude, and project with a specification of either kind.
SelectFields(b, fields, mode) ==
  Gives(b, [builders[b] EXCEPT !.fields = fields, !.mode = mode],
        [op |-> "project", fields |-> fields, mode |-> mode])

\* hint and timeout: neither changes what the query gives.
Hint(b) == Gives(b, builders[b], [op |-> "hint"])

ExplainMode(b) == Gives(b, [builders[b] EXCEPT !.explain = TRUE], [op |-> "explainMode"])

\* match and group hand the filter on, and nothing of the options.
MatchBuilder(b) ==
  /\ Chained
  /\ pipelines' = Append(pipelines, Append(NewPipeline, [op |-> "match", docs |-> builders[b].selects]))
  /\ UNCHANGED <<builders, requests, present>>

\* AggregateBuilder's methods push a stage, as addStage does with any.
PushStage(a, st) ==
  /\ CallsMade <= MaxChain + 1
  /\ pipelines' = [pipelines EXCEPT ![a] = Append(@, st)]
  /\ UNCHANGED <<builders, requests, present>>

AddMatch(a, docs) == PushStage(a, [op |-> "match", docs |-> docs])
AddProject(a) == PushStage(a, [op |-> "project"])
AddSort(a, f, dir) == PushStage(a, [op |-> "sort", keys |-> <<[field |-> f, dir |-> dir]>>])
AddSkip(a, n) == PushStage(a, [op |-> "skip", n |-> n])
AddLimit(a, n) == PushStage(a, [op |-> "limit", n |-> n])

\* deleteAll, by the filter alone.
DeleteMatching(b) ==
  /\ Chained /\ CountMatching(builders[b]) > 0
  /\ present' = present \ builders[b].selects
  /\ UNCHANGED <<builders, requests, pipelines>>

QueriesNext ==
  \/ \E b \in DOMAIN builders, docs \in Predicates : WhereSelects(b, docs)
  \/ \E b \in DOMAIN builders, f \in SortKeys, dir \in Directions : SortBuilder(b, f, dir)
  \/ \E b \in DOMAIN builders, f \in {SortFields[1]} : SortBy(b, <<[field |-> f, dir |-> -1]>>)
  \/ \E b \in DOMAIN builders, n \in Sizes : LimitBuilder(b, n)
  \/ \E b \in DOMAIN builders, n \in Sizes \ {0} : SkipBuilder(b, n)
  \/ \E b \in DOMAIN builders, number \in {0, 2} : PageBuilder(b, number, 2)
  \/ \E b \in DOMAIN builders, mode \in {"only", "without"} : SelectFields(b, {SortFields[1]}, mode)
  \/ \E b \in DOMAIN builders : Hint(b)
  \/ \E b \in DOMAIN builders : ExplainMode(b)
  \/ \E b \in DOMAIN builders : MatchBuilder(b)
  \/ \E a \in DOMAIN pipelines, docs \in Predicates : AddMatch(a, docs)
  \/ \E a \in DOMAIN pipelines : AddProject(a)
  \/ \E a \in DOMAIN pipelines, f \in SortKeys, dir \in Directions : AddSort(a, f, dir)
  \/ \E a \in DOMAIN pipelines, n \in Sizes \ {0} : AddSkip(a, n)
  \/ \E a \in DOMAIN pipelines, n \in Sizes \ {0} : AddLimit(a, n)
  \/ \E b \in DOMAIN builders : DeleteMatching(b)

QueriesSpec == QueriesInit /\ [][QueriesNext]_queryVars

----------------------------------------------------------------------------

\* The last of the calls that are one of ops, or the call none.
LastOf(calls, ops, none) ==
  LET given == {k \in DOMAIN calls : calls[k].op \in ops} IN
  IF given = {} THEN none ELSE calls[CHOOSE k \in given : \A j \in given : j <= k]

\* The direction of the last call that names f, or 0.
AskedDirection(calls, f) ==
  LET named == {k \in DOMAIN calls : \/ calls[k].op = "sort" /\ calls[k].key.field = f
                                     \/ calls[k].op = "sortBy"}
      last == calls[CHOOSE k \in named : \A j \in named : j <= k]
  IN IF named = {} THEN 0
     ELSE IF last.op = "sort" THEN last.key.dir
     ELSE IF last.keys[1].field = f THEN last.keys[1].dir ELSE 0

\* A builder asks for what the calls on its own path asked for, the last call of a
\* kind winning, whatever its siblings were asked: sort keys accumulate, a sortBy
\* starts them anew, and page, limit and skip take each other's place.
BuildersKeepTheirPath ==
  \A b \in DOMAIN builders :
    LET calls == requests[b]
        l == LastOf(calls, {"limit", "page"}, [op |-> "none"])
        s == LastOf(calls, {"skip", "page"}, [op |-> "none"])
    IN /\ builders[b].limit = CASE l.op = "limit" -> l.n [] l.op = "page" -> l.size
                                [] OTHER -> Absent
       /\ builders[b].skip = CASE s.op = "skip" -> s.n
                               [] s.op = "page" -> (s.number - 1) * s.size [] OTHER -> Absent
       /\ \A f \in SortKeys :
            AskedDirection(calls, f) =
              LET at == {k \in DOMAIN builders[b].sort : builders[b].sort[k].field = f}
              IN IF at = {} THEN 0 ELSE builders[b].sort[CHOOSE k \in at : TRUE].dir

\* The answers of one builder agree: its pages are the query without them, cut into
\* pieces, with the first page for every number below one; first is the first of
\* what execute gives without the limit, which it replaces, also a limit of 0;
\* count and exists are of what execute gives without limit and skip, which deleteAll
\* deletes; and batches are the pages.
AnswersAgree ==
  \A b \in DOMAIN builders :
    LET q == builders[b]
        whole == [q EXCEPT !.limit = Absent, !.skip = Absent]
        pages == [n \in 1 .. Cardinality(Corpus) |-> Results(PageOf(q, n, 2))]
    IN IF q.explain THEN FirstResult(q) = Plan[1]
       ELSE /\ FlattenSeq(pages) = Results(whole)
            /\ Results(PageOf(q, 0, 2)) = pages[1]
            /\ Batches(Results(whole), 2) = SelectSeq(pages, LAMBDA page : page # <<>>)
            /\ CountMatching(q) = Len(Results(whole)) /\ Exists(q) = (FirstResult(whole) # Absent)
            /\ LET all == Results([q EXCEPT !.limit = Absent])
               IN FirstResult(q) = IF all = <<>> THEN Absent ELSE Head(all)
            /\ "_id" \in Projected(q, SortKeys \cup {"_id"})

\* What comes first by the first key the caller gave comes first, if the keys were
\* given in alphabetical order: the binding reads them in that order.
SortedAsAsked ==
  \A b \in DOMAIN builders :
    LET q == builders[b] IN
    ~q.explain /\ EngineSort(q.sort) = q.sort =>
      \A i, j \in DOMAIN Results(q) :
        i < j => ~KeyedBefore(q.sort, Results(q)[j], Results(q)[i])

\* The options that stages ask for.
AsQuery(stages) ==
  LET none == [op |-> "none"] IN
  LET of(op) == LastOf(stages, {op}, none) IN
  [NewQuery EXCEPT !.selects = stages[1].docs,
                   !.sort = IF of("sort") = none THEN <<>> ELSE of("sort").keys,
                   !.skip = IF of("skip") = none THEN Absent ELSE of("skip").n,
                   !.limit = IF of("limit") = none THEN Absent ELSE of("limit").n]

\* A pipeline that matches, sorts, skips, limits and projects, in this order, gives
\* what a builder with these options gives, and one that matches twice what is
\* selected by both; one that matches what a builder does and no more gives what
\* the builder gives without options, those it had set included.
PipelinesAgree ==
  \A a \in DOMAIN pipelines :
    LET ops == [k \in DOMAIN pipelines[a] |-> pipelines[a][k].op] IN
    /\ (\E kept \in SUBSET {"sort", "skip", "limit", "project"} :
          ops = SelectSeq(<<"match", "sort", "skip", "limit", "project">>,
                          LAMBDA o : o \in kept \cup {"match"}))
       => Run(present, pipelines[a]) = FindBy(present, AsQuery(pipelines[a]))
    /\ ops = <<"match", "match">> =>
         Run(present, pipelines[a]) =
           FindBy(present, [NewQuery EXCEPT !.selects = pipelines[a][1].docs \cap pipelines[a][2].docs])
    /\ Len(ops) = 1 => \E b \in DOMAIN builders :
         Len(Run(present, pipelines[a])) = CountMatching(builders[b])

QueriesSound ==
  /\ BuildersKeepTheirPath /\ AnswersAgree /\ SortedAsAsked /\ PipelinesAgree

-----------------------------------------------------------------------------
(***************************************************************************)
(* The filters that QueryBuilder and FilterBuilder put together            *)
(* (packages/oblivinx3x/src/query/builder.ts, FilterBuilder.ts).  A filter *)
(* is an object: a key per field, with an object of conditions by operator,*)
(* and the keys $and, $or, $not and $nor.  Giving a key again replaces its *)
(* value.  Of a condition or a nested filter the model keeps the documents *)
(* that it selects in the engine.                                          *)
(***************************************************************************)

CONSTANTS
  Population,
  Conditions,   \* a field, an operator and a value
  FieldOf(_), OperatorOf(_),
  Selects(_),   \* the documents a condition holds of
  MaxCalls      \* bound: calls of the builder

ASSUME FiltersAssumption ==
  /\ \A c \in Conditions : Selects(c) \subseteq Population
  /\ MaxCalls \in Nat

VARIABLES
  class,        \* query (QueryBuilder), filter (FilterBuilder), pipeline (after match)
  filter,       \* fields: field -> operator -> condition; logic: key -> the clauses' documents
  made,
  meant,        \* history: the documents the calls ask for
  replaced      \* history: a call gave a key again

filterVars == <<class, filter, made, meant, replaced>>

FilterFields == {FieldOf(c) : c \in Conditions}
NoFields == <<>>
Empty == [fields |-> NoFields, logic |-> NoFields]
IsEmpty(f) == f = Empty

\* The object f with the key k set to v.
Put(f, k, v) == [x \in DOMAIN f \cup {k} |-> IF x = k THEN v ELSE f[x]]

Clause(k, clauses) ==
  CASE k = "$and" -> {d \in Population : \A c \in clauses : d \in c}
    [] k = "$or"  -> UNION clauses
    [] k = "$not" -> Population \ UNION clauses
    [] k = "$nor" -> Population \ UNION clauses

\* What the engine's parse_filter and evaluate_filter make of it.
Meaning(f) ==
  {d \in Population :
     /\ \A x \in DOMAIN f.fields : \A o \in DOMAIN f.fields[x] : d \in Selects(f.fields[x][o])
     /\ \A k \in DOMAIN f.logic : d \in Clause(k, f.logic[k])}

\* The condition takes the place of those its field has.
OnlyCondition(f, c) == [f EXCEPT !.fields = Put(@, FieldOf(c), Put(NoFields, OperatorOf(c), c))]

\* where: the condition joins the others of its field.
WithCondition(f, c) ==
  LET existing == IF FieldOf(c) \in DOMAIN f.fields THEN f.fields[FieldOf(c)] ELSE NoFields
  IN [f EXCEPT !.fields = Put(f.fields, FieldOf(c), Put(existing, OperatorOf(c), c))]

\* The filters other builders have: none, or one condition.
Others == {Empty} \cup {WithCondition(Empty, c) : c \in Conditions}

FilterTypeOK ==
  /\ class \in {"query", "filter", "pipeline"} /\ made \in 0 .. MaxCalls
  /\ DOMAIN filter.fields \subseteq FilterFields /\ DOMAIN filter.logic \subseteq {"$and", "$or", "$not", "$nor"}
  /\ \A x \in DOMAIN filter.fields : \A o \in DOMAIN filter.fields[x] :
       FieldOf(filter.fields[x][o]) = x /\ OperatorOf(filter.fields[x][o]) = o
  /\ meant \subseteq Population /\ replaced \in BOOLEAN

FilterInit ==
  /\ class \in {"query", "filter"}
  /\ filter = Empty /\ made = 0 /\ meant = Population /\ replaced = FALSE

Result(f, docs, again) ==
  /\ made < MaxCalls /\ made' = made + 1
  /\ filter' = f /\ meant' = docs /\ replaced' = (replaced \/ again)

Called(f, docs, again) ==
  class # "pipeline" /\ Result(f, docs, again) /\ UNCHANGED class

\* where and its shorthands; #addCondition of FilterBuilder.
Where(c) ==
  Called(WithCondition(filter, c), meant \cap Selects(c),
         FieldOf(c) \in DOMAIN filter.fields /\ OperatorOf(c) \in DOMAIN filter.fields[FieldOf(c)])

\* whereAll, whereSize and whereElemMatch put their condition in the place of
\* those the field has.
WhereArray(c) ==
  /\ class = "query"
  /\ Called(OnlyCondition(filter, c), meant \cap Selects(c), FieldOf(c) \in DOMAIN filter.fields)

\* and, with one other builder: empty filters are left out, and a single clause is
\* the filter itself.
And(f) ==
  Called(IF IsEmpty(f) THEN filter
         ELSE IF IsEmpty(filter) THEN f
         ELSE [Empty EXCEPT !.logic = Put(NoFields, "$and", {Meaning(filter), Meaning(f)})],
         meant \cap Meaning(f), FALSE)

\* Mutant: the builder's own filter is left out.
OrOthers(f, g) ==
  Called([Empty EXCEPT !.logic = Put(NoFields, "$or", {Meaning(f), Meaning(g)})],
         IF IsEmpty(filter) /\ class = "query" THEN Meaning(f) \cup Meaning(g)
         ELSE meant \cup Meaning(f) \cup Meaning(g), FALSE)

\* or, with two others.  A QueryBuilder without conditions is no alternative; a
\* FilterBuilder without is one that matches everything.
Or(f, g) ==
  LET own == IF IsEmpty(filter) /\ class = "query" THEN {} ELSE {Meaning(filter)} IN
  Called([Empty EXCEPT !.logic = Put(NoFields, "$or", own \cup {Meaning(f), Meaning(g)})],
         IF own = {} THEN Meaning(f) \cup Meaning(g) ELSE meant \cup Meaning(f) \cup Meaning(g),
         FALSE)

\* not and nor of a QueryBuilder stand beside its conditions.
Not(f) ==
  /\ class = "query"
  /\ Called([filter EXCEPT !.logic = Put(@, "$not", {Meaning(f)})], meant \ Meaning(f),
            "$not" \in DOMAIN filter.logic)

Nor(f, g) ==
  /\ class = "query"
  /\ Called([filter EXCEPT !.logic = Put(@, "$nor", {Meaning(f), Meaning(g)})],
            meant \ (Meaning(f) \cup Meaning(g)), "$nor" \in DOMAIN filter.logic)

\* nor of a FilterBuilder takes its own filter as the first of the clauses.
NorAll(f) ==
  /\ class = "filter"
  /\ Called([Empty EXCEPT !.logic = Put(NoFields, "$nor", {Meaning(filter), Meaning(f)})],
            Population \ (meant \cup Meaning(f)), FALSE)

\* match, with a filter of one field: the aggregation starts from the result.
Match(c) ==
  /\ class = "query" /\ class' = "pipeline"
  /\ Result(OnlyCondition(filter, c), meant \cap Selects(c), FieldOf(c) \in DOMAIN filter.fields)

FilterNext ==
  \/ \E c \in Conditions : Where(c)
  \/ \E c \in Conditions : WhereArray(c)
  \/ \E f \in Others : And(f)
  \/ \E f, g \in Others : Or(f, g)
  \/ \E f \in Others : Not(f)
  \/ \E f, g \in Others : Nor(f, g)
  \/ \E f \in Others : NorAll(f)
  \/ \E c \in Conditions : Match(c)

FilterSpec == FilterInit /\ [][FilterNext]_filterVars

\* A filter selects exactly the documents that the calls which built it ask for,
\* in whatever order, as long as no call gave a key again; and however they were
\* called, the methods of QueryBuilder lose no document: what replaces a
\* condition can only let more through, which updateAll and deleteAll then write.
FilterSaysTheCalls ==
  /\ ~replaced => Meaning(filter) = meant
  /\ class # "filter" => meant \subseteq Meaning(filter)
=============================================================================
