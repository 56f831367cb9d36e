------------------------------ MODULE Updates ------------------------------
(***************************************************************************)
(* Update expressions: UpdateBuilder (packages/oblivinx3x/src/query/       *)
(* UpdateBuilder.ts) puts them together, the collection's updateOne        *)
(* (collection.ts:466) hands them on, once more if the engine was busy     *)
(* (utils/retry.ts), and the engine (query/update.rs, engine/crud.rs)      *)
(* applies them to documents.  The filter selects every document.          *)
(***************************************************************************)
EXTENDS Integers, FiniteSets, Sequences, SequencesExt

CONSTANTS
  Originals,     \* the collection, by its documents in the order of the scan
  UpdateCalls,   \* calls of the builder: operator, field, argument
  MaxUpdateCalls, MaxAttempts

ASSUME UpdatesAssumption == MaxUpdateCalls \in Nat /\ MaxAttempts \in Nat \ {0}

VARIABLES
  ops,         \* the builder's #ops: by operator and field the argument
  called,      \* history: the calls of the builder
  held,        \* the documents there are
  attempt,     \* of an updateOne that is under way, 0 for none
  asleep,      \* it waits before its next attempt
  answer       \* history: how the last update ended, and the documents before it

updVars == <<ops, called, held, attempt, asleep, answer>>

Num(n) == [kind |-> "num", n |-> n]
List(s) == [kind |-> "list", s |-> s]
Now == [kind |-> "date"]

\* The engine reads the expression as JSON objects, in alphabetical order.
OperatorOrder == <<"$addToSet", "$currentDate", "$inc", "$max", "$min", "$mul", "$pop",
                   "$pull", "$push", "$rename", "$set", "$unset">>
FieldOrder == <<"l", "m", "n">>

ArrayOperators == {"$addToSet", "$pop", "$pull", "$push"}

NoOps == <<>>
Idle == [result |-> "none", before |-> <<>>]

----------------------------------------------------------------------------
(* apply_single_update.                                                    *)

Failed(doc) == [ok |-> FALSE, doc |-> doc]
Fine(doc) == [ok |-> TRUE, doc |-> doc]

SetField(doc, f, v) == [x \in DOMAIN doc \cup {f} |-> IF x = f THEN v ELSE doc[x]]
DropField(doc, f) == Restrict(doc, DOMAIN doc \ {f})

HasNum(doc, f) == f \in DOMAIN doc /\ doc[f].kind = "num"
HasList(doc, f) == f \in DOMAIN doc /\ doc[f].kind = "list"

\* $inc and $mul count an absent field as 0, and refuse what is not a number.
Number(doc, f) == IF HasNum(doc, f) THEN doc[f].n ELSE 0
Calculated(doc, f, n) ==
  IF f \in DOMAIN doc /\ ~HasNum(doc, f) THEN Failed(doc) ELSE Fine(SetField(doc, f, Num(n)))

\* $min and $max set an absent field, and leave one they cannot compare.
Bounded(doc, f, n, beyond) ==
  IF f \notin DOMAIN doc \/ (HasNum(doc, f) /\ beyond)
  THEN Fine(SetField(doc, f, Num(n))) ELSE Fine(doc)

\* $push and $addToSet take an absent field for an empty array.
Elements(doc, f) == IF f \in DOMAIN doc THEN doc[f].s ELSE <<>>
Extended(doc, f, s) == Fine(SetField(doc, f, List(Elements(doc, f) \o s)))

AppliedOp(doc, c) ==
  LET f == c.field a == c.arg IN
  CASE c.op = "$set" -> Fine(SetField(doc, f, a))
    [] c.op = "$unset" -> Fine(DropField(doc, f))
    [] c.op = "$inc" -> Calculated(doc, f, Number(doc, f) + a)
    [] c.op = "$mul" -> Calculated(doc, f, Number(doc, f) * a)
    [] c.op = "$min" -> Bounded(doc, f, a, a < Number(doc, f))
    [] c.op = "$max" -> Bounded(doc, f, a, a > Number(doc, f))
    [] c.op = "$rename" -> Fine(IF f \in DOMAIN doc THEN SetField(DropField(doc, f), a, doc[f])
                                ELSE doc)
    [] c.op = "$currentDate" -> Fine(SetField(doc, f, Now))
    [] c.op = "$push" -> IF f \in DOMAIN doc /\ ~HasList(doc, f) THEN Failed(doc)
                         ELSE Extended(doc, f, a)
    [] c.op = "$addToSet" -> IF f \in DOMAIN doc /\ (~HasList(doc, f) \/ a \in ToSet(doc[f].s))
                             THEN Fine(doc) ELSE Extended(doc, f, <<a>>)
    [] c.op = "$pull" -> IF HasList(doc, f)
                         THEN Fine(SetField(doc, f, List(SelectSeq(doc[f].s, LAMBDA x : x # a))))
                         ELSE Fine(doc)
    [] c.op = "$pop" -> IF HasList(doc, f) /\ doc[f].s # <<>>
                        THEN Fine(SetField(doc, f, List(IF a < 0 THEN Tail(doc[f].s)
                                                        ELSE Front(doc[f].s))))
                        ELSE Fine(doc)

\* apply_update: an error ends it.
ApplyUpdate(doc, list) ==
  FoldLeft(LAMBDA r, c : IF r.ok THEN AppliedOp(r.doc, c) ELSE r, Fine(doc), list)

\* parse_update
ParseUpdate(expression) ==
  FlattenSeq([i \in DOMAIN OperatorOrder |-> FlattenSeq([j \in DOMAIN FieldOrder |->
    LET at == <<OperatorOrder[i], FieldOrder[j]>>
    IN IF at \in DOMAIN expression
       THEN <<[op |-> at[1], field |-> at[2], arg |-> expression[at]]>> ELSE <<>>])])

----------------------------------------------------------------------------

UpdatesInit ==
  /\ ops = NoOps /\ called = <<>> /\ held = Originals
  /\ attempt = 0 /\ asleep = FALSE /\ answer = Idle

\* #addOp: an argument given again replaces the one before.
AddOp(c) ==
  /\ Len(called) < MaxUpdateCalls /\ answer = Idle /\ attempt = 0
  /\ ops' = [at \in DOMAIN ops \cup {<<c.op, c.field>>} |->
               IF at = <<c.op, c.field>> THEN c.arg ELSE ops[at]]
  /\ called' = Append(called, c)
  /\ UNCHANGED <<held, attempt, asleep, answer>>

\* set, of which setMany is one call after another, and the other methods of
\* values; push, which takes pushAll for several elements, and the other
\* methods of arrays.
AddFieldOp(c) == c.op \notin ArrayOperators /\ AddOp(c)
AddArrayOp(c) == c.op \in ArrayOperators /\ AddOp(c)

\* The documents after the update of those up to the first that fails.
UpdatedThrough(list, last) ==
  [i \in DOMAIN held |-> IF i <= last THEN ApplyUpdate(held[i], list).doc ELSE held[i]]

\* updateMany: one document after another, until one fails.
UpdateMany ==
  LET list == ParseUpdate(ops)
      failing == {i \in DOMAIN held : ~ApplyUpdate(held[i], list).ok}
      last == IF failing = {} THEN Len(held)
              ELSE (CHOOSE i \in failing : \A j \in failing : i <= j) - 1
  IN /\ answer = Idle /\ attempt = 0
     /\ held' = UpdatedThrough(list, last)
     /\ answer' = [result |-> IF failing = {} THEN "many" ELSE "many failed", before |-> held]
     /\ UNCHANGED <<ops, called, attempt, asleep>>

\* updateOne is called.
UpdateOne ==
  /\ attempt = 0 /\ answer = Idle /\ attempt' = 1
  /\ UNCHANGED <<ops, called, held, asleep, answer>>

\* An attempt reaches the engine, which updates the first document or fails on it.
Attempt ==
  LET list == ParseUpdate(ops) IN
  /\ attempt > 0 /\ ~asleep /\ attempt' = 0
  /\ held' = IF held # <<>> /\ ApplyUpdate(held[1], list).ok THEN UpdatedThrough(list, 1) ELSE held
  /\ answer' = [result |-> IF held # <<>> /\ ~ApplyUpdate(held[1], list).ok
                           THEN "one failed" ELSE "one",
                before |-> held]
  /\ UNCHANGED <<ops, called, asleep>>

\* The engine is busy: withRetry waits, or gives up after the last attempt.
Busy ==
  /\ attempt > 0 /\ ~asleep
  /\ IF attempt < MaxAttempts
     THEN asleep' = TRUE /\ UNCHANGED <<attempt, answer>>
     ELSE attempt' = 0 /\ answer' = [result |-> "one failed", before |-> held] /\ UNCHANGED asleep
  /\ UNCHANGED <<ops, called, held>>

WakeUp ==
  /\ asleep /\ asleep' = FALSE /\ attempt' = attempt + 1
  /\ UNCHANGED <<ops, called, held, answer>>

\* Another caller's deleteOne takes the first document while updateOne waits.
DeleteOne ==
  /\ asleep /\ held # <<>> /\ held' = Tail(held)
  /\ UNCHANGED <<ops, called, attempt, asleep, answer>>

UpdatesNext ==
  \/ \E c \in UpdateCalls : AddFieldOp(c)
  \/ \E c \in UpdateCalls : AddArrayOp(c)
  \/ UpdateMany
  \/ UpdateOne
  \/ Attempt
  \/ Busy
  \/ WakeUp
  \/ DeleteOne

UpdatesSpec == UpdatesInit /\ [][UpdatesNext]_updVars

----------------------------------------------------------------------------

FieldsOf(c) == {c.field} \cup (IF c.op = "$rename" THEN {c.arg} ELSE {})

\* No two of the calls touch the same field.
Apart == \A i, j \in DOMAIN called : i # j => FieldsOf(called[i]) \cap FieldsOf(called[j]) = {}

\* The calls that were not made again later for their operator and field.
LastCalls ==
  SelectSeq([i \in DOMAIN called |->
               [call |-> called[i],
                final |-> \A j \in i + 1 .. Len(called) :
                            <<called[j].op, called[j].field>> # <<called[i].op, called[i].field>>]],
            LAMBDA x : x.final)

\* An update does to a document what the builder's calls say.  Calls that touch
\* fields of their own come out as if each were applied by itself in the
\* order it was made, though the engine goes by the alphabet; a call made
\* again takes the place of the earlier one; and the expression holds no other.
ExpressionSaysTheCalls ==
  /\ DOMAIN ops = {<<called[i].op, called[i].field>> : i \in DOMAIN called}
  /\ \A i \in DOMAIN LastCalls :
       LET c == LastCalls[i].call IN ops[<<c.op, c.field>>] = c.arg
  /\ Apart => \A i \in DOMAIN Originals :
       LET one == ApplyUpdate(Originals[i], ParseUpdate(ops))
           each == ApplyUpdate(Originals[i], called)
       IN one.ok = each.ok /\ (one.ok => one = each)

\* No document is left half updated: an update that failed has changed a document
\* altogether or not at all, those that updateMany changed are the ones before the
\* first it failed on, and an updateOne that failed, or that was repeated, has
\* changed none, or one once.
UpdatesAreWhole ==
  answer # Idle =>
    LET list == ParseUpdate(ops)
        whole(i) == held[i] = ApplyUpdate(answer.before[i], list).doc
        untouched(i) == held[i] = answer.before[i]
    IN /\ Len(held) = Len(answer.before)
       /\ \E m \in 0 .. Len(held) :
            /\ \A i \in 1 .. m : ApplyUpdate(answer.before[i], list).ok /\ whole(i)
            /\ \A i \in m + 1 .. Len(held) : untouched(i)
            /\ answer.result = "many" => m = Len(held)
            /\ answer.result = "one" => m = IF held = <<>> THEN 0 ELSE 1
            /\ answer.result = "one failed" => m = 0
            /\ answer.result = "many failed" => ~ApplyUpdate(answer.before[m + 1], list).ok

UpdatesSound == ExpressionSaysTheCalls /\ UpdatesAreWhole
=============================================================================
