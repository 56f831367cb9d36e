----------------------------- MODULE Relations ------------------------------
(***************************************************************************)
(* RelationManager (packages/oblivinx3x/src/relations/index.ts): documents *)
(* (orders) that hold the key of another one (a user), checked by          *)
(* validateForeignKey before they are written, followed by cascadeDelete and *)
(* cascadeUpdate when the user goes or changes its key, and joined by lookup. *)
(* The manager awaits every call of the database and holds no lock, so the *)
(* writers of both collections take turns between any two of its calls.  Two  *)
(* definitions are needed: validateForeignKey looks in the collection "to",*)
(* the users, and the cascades and lookup change and read "to", the orders.*)
(***************************************************************************)
EXTENDS Integers, FiniteSets

CONSTANTS
  UserKeys,        \* keys users have and may get
  Orders,
  Writers,     \* callers that validate a key and insert or update an order
  Changers,    \* callers that delete a user or change its key, and cascade
  Rules,       \* fkValidation and onDelete (onUpdate) of the relation; single: one-to-one
  MaxSteps     \* bound: calls begun

Null == "null"      \* the reference of an order that has none
Nothing == "nothing"

ASSUME RelationAssumption ==
  /\ Null \notin UserKeys /\ Nothing \notin UserKeys /\ MaxSteps \in Nat
  /\ Rules \subseteq [check : {"off", "soft", "strict"},
                      follow : {"none", "restrict", "cascade", "set-null"}, single : BOOLEAN]

VARIABLES
  rule,       \* the relation
  users,      \* keys of the users there are
  refs,      \* the reference of each order; Nothing if there is no such order
  writing,    \* what each writer has validated and not yet written
  changing,   \* what each changer has done and not yet followed up
  joining,    \* the lookup under way or just returned
  begun,
  overlapped, \* history: orders written over a change of the key they hold
  touched     \* history: orders and users written since the lookup began

relVars == <<rule, users, refs, writing, changing, joining, begun, overlapped, touched>>

NoWrite == [order |-> Nothing, key |-> Null, over |-> FALSE]
NoChange == [from |-> Null, to |-> Null]
NoJoin == [at |-> "none", piped |-> FALSE, todo |-> {}, rows |-> {}]

RelTypeOK ==
  /\ rule \in Rules /\ users \subseteq UserKeys
  /\ refs \in [Orders -> UserKeys \cup {Null, Nothing}]
  /\ writing \in [Writers -> [order : Orders \cup {Nothing}, key : UserKeys \cup {Null}, over : BOOLEAN]]
  /\ changing \in [Changers -> [from : UserKeys \cup {Null}, to : UserKeys \cup {Null}]]
  /\ joining.at \in {"none", "reads", "done"} /\ joining.todo \subseteq UserKeys
  /\ \A r \in joining.rows : r.key \in UserKeys /\ r.with \subseteq Orders
  /\ begun \in 0 .. MaxSteps /\ overlapped \subseteq Orders

RelInit ==
  /\ rule \in Rules
  /\ users = {} /\ refs = [o \in Orders |-> Nothing]
  /\ writing = [w \in Writers |-> NoWrite] /\ changing = [c \in Changers |-> NoChange]
  /\ joining = NoJoin /\ begun = 0 /\ overlapped = {} /\ touched = {}

StartsCall == begun < MaxSteps /\ begun' = begun + 1
Changed(k) == \E c \in Changers : changing[c].from = k

AddUser(k) ==
  /\ StartsCall /\ k \notin users
  /\ users' = users \cup {k} /\ touched' = touched \cup {k}
  /\ UNCHANGED <<rule, refs, writing, changing, joining, overlapped>>

(***************************************************************************)
(* An order.                                                               *)
(***************************************************************************)

\* The answer is true, false, or in strict mode an error; a writer goes on if true.
Valid(k) == rule.check = "off" \/ k \in users

ValidateForeignKey(w, o, k) ==
  /\ StartsCall /\ writing[w] = NoWrite
  /\ Valid(k)
  /\ writing' = [writing EXCEPT ![w] = [order |-> o, key |-> k, over |-> Changed(k)]]
  /\ UNCHANGED <<rule, users, refs, changing, joining, overlapped, touched>>

WriteOrder(w) ==
  LET o == writing[w].order  k == writing[w].key IN
  /\ writing[w] # NoWrite /\ writing' = [writing EXCEPT ![w] = NoWrite]
  /\ refs' = [refs EXCEPT ![o] = k]
  /\ overlapped' = IF writing[w].over \/ Changed(k) THEN overlapped \cup {o} ELSE overlapped \ {o}
  /\ touched' = touched \cup {o}
  /\ UNCHANGED <<rule, users, changing, joining, begun>>

(***************************************************************************)
(* A user: deleted (to = Null) or given another key, then the cascade.     *)
(***************************************************************************)

ChangeUser(c, from, to) ==
  /\ StartsCall /\ changing[c] = NoChange
  /\ from \in users /\ to \notin users
  /\ users' = (users \ {from}) \cup ({to} \ {Null})
  /\ changing' = [changing EXCEPT ![c] = [from |-> from, to |-> to]]
  /\ writing' = [w \in Writers |->
       [writing[w] EXCEPT !.over = writing[w] # NoWrite /\ (@ \/ writing[w].key = from)]]
  /\ touched' = touched \cup {from, to}
  /\ UNCHANGED <<rule, refs, joining, overlapped>>

\* Mutant: the orders of the new key are updated.
FollowedNew(from, to) ==
  [o \in Orders |-> IF refs[o] = to /\ rule.follow \in {"cascade", "set-null"} THEN from ELSE refs[o]]

\* cascadeDelete and cascadeUpdate: deleteMany or updateMany of the orders that
\* hold the old key; "none" and "restrict" return without looking.
Followed(from, to) ==
  [o \in Orders |->
     IF refs[o] # from \/ rule.follow \in {"none", "restrict"} THEN refs[o]
     ELSE IF rule.follow = "set-null" THEN Null
     ELSE IF to = Null THEN Nothing ELSE to]

Cascade(c) ==
  /\ changing[c] # NoChange /\ changing' = [changing EXCEPT ![c] = NoChange]
  /\ refs' = Followed(changing[c].from, changing[c].to)
  /\ touched' = touched \cup {o \in Orders : refs'[o] # refs[o]}
  \* the key it hands on may be gone by now
  /\ overlapped' = IF changing[c].to \in users \cup {Null} THEN overlapped
                   ELSE overlapped \cup {o \in Orders : refs[o] = changing[c].from}
  /\ UNCHANGED <<rule, users, writing, joining, begun>>

(***************************************************************************)
(* lookup: the users, then for each of them its orders.  With a pipeline the  *)
(* orders are those of the pipeline over the whole collection.             *)
(***************************************************************************)

LookupStarts(piped) ==
  /\ StartsCall /\ joining.at # "reads"
  /\ joining' = [at |-> IF users = {} THEN "done" ELSE "reads", piped |-> piped,
                 todo |-> users, rows |-> {}]
  /\ touched' = {}
  /\ UNCHANGED <<rule, users, refs, writing, changing, overlapped>>

Joined(k) ==
  {o \in Orders : refs[o] # Nothing /\ (joining.piped \/ refs[o] = k)}

\* What a row keeps of its orders: of a one-to-one relation the first that find
\* returned, or null.
Kept(orders) == IF rule.single /\ orders # {} THEN {{o} : o \in orders} ELSE {orders}

LookupRow(k) ==
  /\ joining.at = "reads" /\ k \in joining.todo
  /\ \E with \in Kept(Joined(k)) :
       joining' = [joining EXCEPT !.todo = @ \ {k},
                                  !.rows = @ \cup {[key |-> k, with |-> with]},
                                  !.at = IF joining.todo = {k} THEN "done" ELSE "reads"]
  /\ UNCHANGED <<rule, users, refs, writing, changing, begun, overlapped, touched>>

RelNext ==
  \/ \E k \in UserKeys : AddUser(k) \/ LookupRow(k)
  \/ \E w \in Writers, o \in Orders, k \in UserKeys : ValidateForeignKey(w, o, k)
  \/ \E w \in Writers : WriteOrder(w)
  \/ \E c \in Changers, from \in UserKeys, to \in UserKeys \cup {Null} : ChangeUser(c, from, to)
  \/ \E c \in Changers : Cascade(c)
  \/ \E piped \in BOOLEAN : LookupStarts(piped)

RelSpec == RelInit /\ [][RelNext]_relVars

----------------------------------------------------------------------------
(* Properties.                                                             *)

\* With checks on and a cascade to follow, an order holds the key of no user only
\* while the cascade of that key has not come yet, or because the order was
\* written, or handed a key, while that key was being changed.
OrphansOnlyByOverlap ==
  rule.check # "off" /\ rule.follow \in {"cascade", "set-null"} =>
    \A o \in Orders :
      refs[o] \in users \cup {Null, Nothing} \/ Changed(refs[o]) \/ o \in overlapped

\* A lookup without a pipeline puts every order that nobody wrote to meanwhile in
\* the rows of the user it names, and in no other row; of a one-to-one relation a
\* user that such an order names has some order.
LookupJoins ==
  joining.at = "done" /\ ~joining.piped =>
    \A r \in joining.rows, o \in Orders \ touched :
      /\ o \in r.with => refs[o] = r.key
      /\ refs[o] = r.key => IF rule.single THEN r.with # {} ELSE o \in r.with

RelationsSound == RelTypeOK /\ OrphansOnlyByOverlap /\ LookupJoins
=============================================================================
