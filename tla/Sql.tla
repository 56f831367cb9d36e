-------------------------------- MODULE Sql --------------------------------
(***************************************************************************)
(* SqlParser (packages/oblivinx3x/src/query/SqlLikeQuery.ts): a recursive- *)
(* descent parser from the tokens of a SELECT statement to a filter and    *)
(* options.  A filter is kept as the documents it selects; the tokens begin*)
(* after FROM and the collection.                                          *)
(***************************************************************************)
EXTENDS Integers, Sequences, FiniteSets

CONSTANTS
  Rows,
  Kinds,       \* kinds of conditions that the statements contain
  Truth(_),    \* the documents the condition of a kind holds of
  Nested        \* the kinds that expressions of three levels contain

ASSUME SqlAssumption == Nested \subseteq Kinds /\ \A k \in Kinds : Truth(k) \subseteq Rows

VARIABLES query, compiled

sqlVars == <<query, compiled>>

NoResult == [docs |-> {}, order |-> FALSE, limit |-> FALSE, skip |-> FALSE, ready |-> FALSE]

(***************************************************************************)
(* What a statement means, and how it is written.                          *)
(***************************************************************************)
Condition(ks) == [op : {"is"}, kind : ks]
Compound(es, fs) ==
  [op : {"and", "or"}, left : es, right : fs] \cup [op : {"not"}, left : es]
Expressions ==
  LET level(ks) == Condition(ks) \cup Compound(Condition(ks), Condition(ks))
  IN level(Kinds) \cup Compound(level(Nested), level(Nested))

RECURSIVE Denotes(_)
Denotes(e) ==
  CASE e.op = "is"  -> Truth(e.kind)
    [] e.op = "not" -> Rows \ Denotes(e.left)
    [] e.op = "and" -> Denotes(e.left) \cap Denotes(e.right)
    [] e.op = "or"  -> Denotes(e.left) \cup Denotes(e.right)

\* With no more parentheses than the precedence of NOT, AND and OR asks for.
RECURSIVE Text(_)
Text(e) ==
  LET within(f, ops) == IF f.op \in ops THEN <<"(">> \o Text(f) \o <<")">> ELSE Text(f) IN
  CASE e.op = "not" -> <<"NOT">> \o within(e.left, {"and", "or"})
    [] e.op = "and" -> within(e.left, {"or"}) \o <<"AND">> \o within(e.right, {"or"})
    [] e.op = "or"  -> Text(e.left) \o <<"OR">> \o Text(e.right)
    [] e.op = "is" /\ e.kind = "equal"       -> <<"field", "=", "value">>
    [] e.op = "is" /\ e.kind = "between"     -> <<"field", "BETWEEN", "value", "AND", "value">>
    [] e.op = "is" /\ e.kind = "in"          -> <<"field", "IN", "(", "value", ",", "value", ")">>
    [] e.op = "is" /\ e.kind = "not in"      -> <<"field", "NOT", "IN", "(", "value", ")">>
    [] e.op = "is" /\ e.kind = "like"        -> <<"field", "LIKE", "value">>
    [] e.op = "is" /\ e.kind = "not like"    -> <<"field", "NOT", "LIKE", "value">>
    [] e.op = "is" /\ e.kind = "null"        -> <<"field", "IS", "NULL">>
    [] e.op = "is" /\ e.kind = "not null"    -> <<"field", "IS", "NOT", "NULL">>

Statement(q) ==
     <<"WHERE">> \o Text(q.where)
  \o (IF q.order THEN <<"ORDER", "BY", "field", "DESC">> ELSE <<>>)
  \o (IF q.limit THEN <<"LIMIT", "value">> ELSE <<>>)
  \o (IF q.skip THEN <<"SKIP", "value">> ELSE <<>>)

(***************************************************************************)
(* The parser: of a rule, what it has parsed and the place it stops at.    *)
(***************************************************************************)
Token(toks, p) == IF p \in DOMAIN toks THEN toks[p] ELSE "EOF"
Parsed(docs, p) == [docs |-> docs, at |-> p]

\* #parseCondition after its field at p.
ParseTest(toks, p) ==
  LET negated == Token(toks, p + 1) = "NOT"
      q == IF negated THEN p + 2 ELSE p + 1
      closing == CHOOSE c \in q .. Len(toks) :
                   toks[c] = ")" /\ \A k \in q .. c - 1 : toks[k] # ")"
  IN CASE Token(toks, p + 1) = "IS" /\ Token(toks, p + 2) = "NOT" -> Parsed(Truth("not null"), p + 4)
       [] Token(toks, p + 1) = "IS" /\ Token(toks, p + 2) # "NOT" -> Parsed(Truth("null"), p + 3)
       [] Token(toks, p + 1) = "BETWEEN" -> Parsed(Truth("between"), p + 5)
       [] Token(toks, q) = "IN" -> Parsed(Truth(IF negated THEN "not in" ELSE "in"), closing + 1)
       [] Token(toks, q) = "LIKE" -> Parsed(Truth("like"), q + 2)
       [] OTHER -> Parsed(Truth("equal"), q + 2)

RECURSIVE ParseOrExpr(_, _), ParseCondition(_, _), AndClauses(_, _), OrClauses(_, _)

ParseCondition(toks, p) ==
  CASE Token(toks, p) = "NOT" ->
         LET inner == ParseCondition(toks, p + 1) IN Parsed(Rows \ inner.docs, inner.at)
    [] Token(toks, p) = "(" ->
         LET inner == ParseOrExpr(toks, p + 1) IN Parsed(inner.docs, inner.at + 1)
    [] OTHER -> ParseTest(toks, p)

\* The loops of #parseAndExpr and #parseOrExpr, after what they have parsed.
AndClauses(toks, left) ==
  IF Token(toks, left.at) # "AND" THEN left
  ELSE LET next == ParseCondition(toks, left.at + 1)
       IN AndClauses(toks, Parsed(left.docs \cap next.docs, next.at))

ParseAndExpr(toks, p) == AndClauses(toks, ParseCondition(toks, p))

OrClauses(toks, left) ==
  IF Token(toks, left.at) # "OR" THEN left
  ELSE LET next == ParseAndExpr(toks, left.at + 1)
       IN OrClauses(toks, Parsed(left.docs \cup next.docs, next.at))

ParseOrExpr(toks, p) == OrClauses(toks, ParseAndExpr(toks, p))

\* #parseSelect from WHERE on: each clause is looked for once, in this order, and
\* what is left over is not looked at.
ParseSelect(toks) ==
  LET where == ParseOrExpr(toks, 2)
      order == Token(toks, where.at) = "ORDER"
      afterOrder == IF order THEN where.at + (IF Token(toks, where.at + 3) \in {"ASC", "DESC"} THEN 4 ELSE 3)
                    ELSE where.at
      limit == Token(toks, afterOrder) = "LIMIT"
      afterLimit == IF limit THEN afterOrder + 2 ELSE afterOrder
  IN [docs |-> where.docs, order |-> order, limit |-> limit,
      skip |-> Token(toks, afterLimit) \in {"SKIP", "OFFSET"}, ready |-> TRUE]

SqlInit ==
  /\ query \in [where : Expressions, order : BOOLEAN, limit : BOOLEAN, skip : BOOLEAN]
  /\ compiled = NoResult

Compile ==
  /\ ~compiled.ready
  /\ compiled' = ParseSelect(Statement(query))
  /\ UNCHANGED query

SqlNext == Compile

SqlSpec == SqlInit /\ [][SqlNext]_sqlVars

RECURSIVE Mentions(_, _)
Mentions(e, kind) ==
  CASE e.op = "is" -> e.kind = kind
    [] e.op = "not" -> Mentions(e.left, kind)
    [] e.op \in {"and", "or"} -> Mentions(e.left, kind) \/ Mentions(e.right, kind)

\* Every expression of conditions, NOT, AND, OR and parentheses compiles to a filter
\* that selects what the expression says, unless it has a NOT LIKE, whose negation
\* is read and dropped; and no clause of a statement is lost: the AND of a BETWEEN
\* joins no conditions, a negation reaches no further than its condition.
CompiledSaysTheStatement ==
  compiled.ready =>
    /\ Mentions(query.where, "not like") \/ compiled.docs = Denotes(query.where)
    /\ compiled.order = query.order /\ compiled.limit = query.limit /\ compiled.skip = query.skip
=============================================================================
