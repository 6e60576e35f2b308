------------------------------ MODULE Buttons ------------------------------
(***************************************************************************)
(* The quick buttons of Home: PUT of the whole list in                     *)
(* internal/api/buttons.go over internal/store/buttons.go, beside the      *)
(* children that come and go (store/children.go), in the process and on    *)
(* the database of module Boot.                                            *)
(*                                                                         *)
(* The database has one connection (SetMaxOpenConns(1)), so while a        *)
(* transaction is open every other statement waits.                        *)
(***************************************************************************)
EXTENDS Boot, FiniteSets

CONSTANT
  Tab         \* PUT requests in flight at once

\* tx.of tells a request from an upgrade and from no transaction.
ASSUME TabAssumption == Tab \cap {"none", "schema"} = {}

VARIABLES
  put,        \* [Tab -> where the request is, and its items]
  want,       \* history: the items of the last PUT that committed and their
              \* places in it, without those of children deleted since
  given       \* history: every button ever committed

homeVars == <<vars, put, want, given>>
process  == <<scan, pc, health, adguard, crashes>>

Item  == [child : ChildId, tag : Tag]
Items == UNION {[1..n -> Item] : n \in 0..MaxItems}
NoPut == [pc |-> "idle", items |-> <<>>]

\* The rows of a list before they have ids: an item and its place.
Place(items, i) == [position |-> i, child |-> items[i].child, tag |-> items[i].tag]
Places(items) == {Place(items, i) : i \in 1..Len(items)}
PlaceOf(b) == [position |-> b.position, child |-> b.child, tag |-> b.tag]

TypeOK ==
  /\ BootTypeOK
  /\ put \in [Tab -> [pc : {"idle", "check", "write"}, items : Items]]
  /\ want \subseteq [position : 1..MaxItems, child : ChildId, tag : Tag]
  /\ given \subseteq Button
  /\ tx.of \in Tab => pc = "serving" /\ put[tx.of].pc = "write"
  /\ pc # "serving" => \A t \in Tab : put[t] = NoPut
  \* the foreign keys and the primary key
  /\ \A b \in db.buttons : b.child \in db.kids
  /\ \A a, b \in db.buttons : a.id = b.id => a = b
  /\ \A p \in db.pairs : p[2] \in db.kids

-----------------------------------------------------------------------------
Init ==
  /\ BootInit /\ put = [t \in Tab |-> NoPut]
  /\ want = {PlaceOf(b) : b \in db.buttons} /\ given = db.buttons

PutGoto(t, where) == put' = [put EXCEPT ![t].pc = where]
Answer(t) == put' = [put EXCEPT ![t] = NoPut]
Free == pc = "serving" /\ tx = NoTx

\* A list that has passed the checks of its own fields.
PutRequest(t, items) ==
  /\ pc = "serving" /\ put[t] = NoPut
  /\ put' = [put EXCEPT ![t] = [pc |-> "check", items |-> items]]
  /\ UNCHANGED <<vars, want, given>>

Children(items) == {items[i].child : i \in 1..Len(items)}

\* Every child is looked up, then AdGuard asked for the catalogue: an unknown
\* child or service, or no answer, ends the request.
PutCheck(t) ==
  /\ Free /\ put[t].pc = "check"
  /\ \/ Children(put[t].items) \subseteq db.kids /\ PutGoto(t, "write")
     \/ Answer(t)
  /\ UNCHANGED <<vars, want, given>>

\* ReplaceButtons: one transaction that deletes the list ...
BeginReplace(t) ==
  /\ Free /\ put[t].pc = "write"
  /\ db.sequence + Len(put[t].items) <= MaxButtons
  /\ tx' = [of |-> t, at |-> 1, work |-> [db EXCEPT !.buttons = {}]]
  /\ UNCHANGED <<db, process, events, owned, put, want, given>>

\* Mutant: an id is one more than the highest in the table.
NextButtonIdMax(d) == Cardinality(d.buttons) + 1

\* buttons.id is AUTOINCREMENT: above every id there has been.
NextButtonId(d) == d.sequence + 1

\* INSERT INTO buttons, with the item's index for its position.
Inserted(d, items, i) ==
  [d EXCEPT !.sequence = NextButtonId(d),
            !.buttons = @ \cup {[id |-> NextButtonId(d), position |-> i,
                                 child |-> items[i].child, tag |-> items[i].tag]}]

\* Mutant: an item whose child has gone ends the loop, and what is there is
\* committed.
InsertButtonStops(t) ==
  LET items == put[t].items IN
  /\ tx.of = t /\ tx.at <= Len(items)
  /\ IF items[tx.at].child \in tx.work.kids
       THEN tx' = [tx EXCEPT !.at = @ + 1, !.work = Inserted(@, items, tx.at)]
       ELSE tx' = [tx EXCEPT !.at = Len(items) + 1]
  /\ UNCHANGED <<db, process, events, owned, put, want, given>>

\* ... inserts each item after looking its child up once more (a child that has
\* gone rolls everything back) ...
InsertButton(t) ==
  LET items == put[t].items IN
  /\ tx.of = t /\ tx.at <= Len(items)
  /\ IF items[tx.at].child \in tx.work.kids
       THEN /\ tx' = [tx EXCEPT !.at = @ + 1, !.work = Inserted(@, items, tx.at)]
            /\ UNCHANGED put
       ELSE tx' = NoTx /\ Answer(t)
  /\ UNCHANGED <<db, process, events, owned, want, given>>

\* ... and commits; a request whose connection has gone is rolled back.
CommitReplace(t) ==
  /\ tx.of = t /\ tx.at > Len(put[t].items) /\ tx' = NoTx /\ Answer(t)
  /\ \/ /\ db' = tx.work /\ want' = Places(put[t].items)
        /\ given' = given \cup tx.work.buttons
     \/ UNCHANGED <<db, want, given>>
  /\ UNCHANGED <<process, events, owned>>

-----------------------------------------------------------------------------
(* Children                                                                *)

Without(k, rows) == {b \in rows : b.child # k}

\* Mutant: button rows are left behind.
CascadeClientsOnly(k) ==
  [db EXCEPT !.kids = @ \ {k}, !.pairs = {p \in @ : p[2] # k}]

\* ON DELETE CASCADE, foreign_keys(ON).
Cascade(k) ==
  [db EXCEPT !.kids = @ \ {k}, !.pairs = {p \in @ : p[2] # k},
             !.buttons = Without(k, @)]

DeleteChild(k) ==
  /\ Free /\ Event /\ k \in db.kids /\ db' = Cascade(k)
  /\ owned' = {p \in owned : p[2] # k} /\ want' = Without(k, want)
  /\ UNCHANGED <<tx, process, put, given>>

\* children.id is not AUTOINCREMENT: one more than the highest there is.
CreateChild(k, C) ==
  /\ Free /\ Event /\ k \in ChildId \ db.kids
  /\ \A j \in db.kids : j < k
  /\ k = 1 \/ k - 1 \in db.kids
  /\ db' = [db EXCEPT !.kids = @ \cup {k}, !.pairs = @ \cup (C \X {k})]
  /\ owned' = owned \cup (C \X {k})
  /\ UNCHANGED <<tx, process, put, want, given>>

-----------------------------------------------------------------------------
\* A process that goes down takes its requests along.
ProcessStep ==
  /\ BootNext /\ UNCHANGED <<want, given>>
  /\ put' = IF pc' = "down" THEN [t \in Tab |-> NoPut] ELSE put

Handler(t) == PutCheck(t) \/ BeginReplace(t) \/ InsertButton(t) \/ CommitReplace(t)

Next ==
  \/ ProcessStep
  \/ \E t \in Tab : Handler(t) \/ \E items \in Items : PutRequest(t, items)
  \/ \E k \in ChildId : DeleteChild(k) \/ \E C \in SUBSET Client : CreateChild(k, C)

\* The service manager restarts the process, each step of the start ends, the
\* prober's ticker goes on.
Fairness ==
  /\ WF_homeVars(Launch /\ ProcessStep) /\ WF_homeVars(Probe /\ ProcessStep)

Spec == Init /\ [][Next]_homeVars /\ Fairness

-----------------------------------------------------------------------------
(* Properties                                                              *)

\* The list, ordered by position, is always one PUT's, whole and in order, but
\* for the buttons of children deleted since: never a mixture of two requests,
\* never part of one, nothing twice, and a PUT that is refused, even in the
\* middle of its writes, leaves the list as it was (ReplaceButtons: "rolled
\* back whole"; loadButtons).
ButtonsAreOnePut ==
  /\ {PlaceOf(b) : b \in db.buttons} = want
  /\ \A a, b \in db.buttons : a.position = b.position => a = b

\* An id never comes to mean another button, whatever was replaced, cascaded or
\* rolled back in between (migrations/0004: AUTOINCREMENT keeps "an id from ever
\* being reused across replacements").
ButtonIdsFresh == \A a, b \in given : a.id = b.id => a = b
=============================================================================
