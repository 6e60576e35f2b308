-------------------------------- MODULE Boot --------------------------------
(***************************************************************************)
(* The process from start to serving: run in cmd/adguard-reward/main.go,   *)
(* the database it opens (internal/store/store.go) and brings up to date   *)
(* (migrate.go and migrations/*.sql), and the prober behind /healthz       *)
(* (internal/health/health.go).                                            *)
(*                                                                         *)
(* The database is a record; a transaction works on a copy that becomes    *)
(* the database when it commits and is dropped otherwise, by a crash too   *)
(* (SQLite's part, external).  Of the tables only children, child_clients  *)
(* and buttons carry rows here.  The service manager starts the process    *)
(* again whenever it is down (deploy: Restart=on-failure).                 *)
(***************************************************************************)
EXTENDS Naturals, Sequences

CONSTANTS
  Client,
  Tag,          \* what a button is beside its child: label, services, duration
  MaxChildren,  \* bound: the highest row id of a child
  MaxButtons,   \* bound: ids given to buttons
  MaxItems,     \* bound: buttons in a list
  MaxCrashes,   \* bound: crashes, kills and failing steps, each ending the process
  MaxEvents     \* bound: changes of AdGuard's state and edits of children

ASSUME BoundsAssumption ==
  {MaxChildren, MaxButtons, MaxItems, MaxCrashes, MaxEvents} \subseteq Nat

ChildId == 1..MaxChildren
Reach   == {"ok", "unauthorized", "unreachable"}

\* migrations/0001 to 0006, statement by statement.  A table with its indexes and
\* subtables is one statement, but for the index of child_clients, which 0005
\* makes anew.
Migrations ==
  << <<"sessions">>, <<"children", "child_clients", "child_clients_idx">>,
     <<"grants">>, <<"buttons">>,
     <<"child_clients_new", "copy", "drop", "rename", "child_clients_idx">>,
     <<"icon">> >>

File  == 1..Len(Migrations)
Table == {"sessions", "children", "child_clients", "child_clients_idx", "grants",
          "buttons", "child_clients_new"}

VARIABLES
  db,       \* the committed database
  tx,       \* the transaction under way on its single connection, or NoTx
  scan,     \* migrate's loop: the files that were recorded when it began, and
            \* the file it has come to
  pc,       \* where run is
  health,   \* Prober.last
  adguard,  \* what AdGuard answers to GET /control/status
  crashes, events,
  owned     \* history: the rows of child_clients parents have made and kept

vars == <<db, tx, scan, pc, health, adguard, crashes, events, owned>>

NoTx   == [of |-> "none"]
NoScan == [applied |-> {}, next |-> 1]

Button   == [id : 1..MaxButtons, position : 1..MaxItems, child : ChildId, tag : Tag]
Database == [tables : SUBSET Table, icon : BOOLEAN, recorded : SUBSET File,
             kids : SUBSET ChildId, pairs : SUBSET (Client \X ChildId),
             pairsNew : SUBSET (Client \X ChildId),
             buttons : SUBSET Button, sequence : 0..MaxButtons]

BootTypeOK ==
  /\ db \in Database
  /\ scan \in [applied : SUBSET File, next : 1..(Len(Migrations) + 1)]
  /\ pc \in {"down", "probe", "open", "migrate", "reconcile", "listen", "serving"}
  /\ pc \in {"down", "probe", "open", "reconcile", "listen"} => tx = NoTx
  /\ health \in Reach /\ adguard \in Reach
  /\ crashes \in 0..MaxCrashes /\ events \in 0..MaxEvents
  /\ owned \subseteq Client \X ChildId

-----------------------------------------------------------------------------
(* Statements                                                              *)

\* A statement fails on a table, index or column that is there already, or is not.
CanRun(stmt, d) ==
  CASE stmt \in Table   -> /\ stmt \notin d.tables
                           /\ stmt = "child_clients_idx" => "child_clients" \in d.tables
    [] stmt = "copy"    -> {"child_clients", "child_clients_new"} \subseteq d.tables
    [] stmt = "drop"    -> "child_clients" \in d.tables
    [] stmt = "rename"  -> "child_clients_new" \in d.tables /\ "child_clients" \notin d.tables
    [] stmt = "icon"    -> "buttons" \in d.tables /\ ~d.icon

\* Mutant: the rows are not copied to the new table.
RunNoCopy(stmt, d) ==
  CASE stmt \in Table   -> [d EXCEPT !.tables = @ \cup {stmt}]
    [] stmt = "copy"    -> d
    [] stmt = "drop"    -> [d EXCEPT !.tables = @ \ {"child_clients", "child_clients_idx"},
                                     !.pairs = {}]
    [] stmt = "rename"  -> [d EXCEPT !.tables = (@ \ {"child_clients_new"}) \cup {"child_clients"},
                                     !.pairs = d.pairsNew, !.pairsNew = {}]
    [] stmt = "icon"    -> [d EXCEPT !.icon = TRUE]

\* DROP TABLE takes the table's index along, a renamed table has none.
Run(stmt, d) ==
  CASE stmt \in Table   -> [d EXCEPT !.tables = @ \cup {stmt}]
    [] stmt = "copy"    -> [d EXCEPT !.pairsNew = d.pairs]
    [] stmt = "drop"    -> [d EXCEPT !.tables = @ \ {"child_clients", "child_clients_idx"},
                                     !.pairs = {}]
    [] stmt = "rename"  -> [d EXCEPT !.tables = (@ \ {"child_clients_new"}) \cup {"child_clients"},
                                     !.pairs = d.pairsNew, !.pairsNew = {}]
    [] stmt = "icon"    -> [d EXCEPT !.icon = TRUE]

\* The tables after the first n files.
Tables(n) ==
  {t \in Table \ {"child_clients_new"} :
     \E f \in 1..n : \E i \in 1..Len(Migrations[f]) : Migrations[f][i] = t}

\* The rows of one PUT, numbered on from the ids given before it, of which some
\* have gone with their children.
OneList(B, last) ==
  /\ \A a, b \in B : a.id = b.id => a = b
  /\ \E low \in 0..last :
       /\ last - low <= MaxItems
       /\ \A b \in B : b.id = low + b.position /\ b.id <= last

Lists == {B \in SUBSET Button : \E last \in 0..MaxButtons : OneList(B, last)}

\* What an earlier release, with the first n files, can have left: buttons came
\* with the fourth, a device for several children with the fifth.
Installed(n) ==
  {d \in [tables : {Tables(n)}, icon : {n >= 6}, recorded : {1..n},
          kids : IF n >= 2 THEN SUBSET ChildId ELSE {{}},
          pairs : SUBSET (Client \X ChildId), pairsNew : {{}},
          buttons : IF n >= 4 THEN Lists ELSE {{}},
          sequence : IF n >= 4 THEN 0..MaxButtons ELSE {0}] :
     /\ \A p \in d.pairs : p[2] \in d.kids
     /\ n < 5 => \A p, q \in d.pairs : p[1] = q[1] => p = q
     /\ \A b \in d.buttons : b.child \in d.kids
     /\ OneList(d.buttons, d.sequence)}

-----------------------------------------------------------------------------
BootInit ==
  /\ \E n \in 0..Len(Migrations) : db \in Installed(n)
  /\ tx = NoTx /\ scan = NoScan /\ pc = "down" /\ health = "unreachable"
  /\ adguard \in Reach /\ crashes = 0 /\ events = 0
  /\ owned = db.pairs

Goto(where) == pc' = where
Event == events < MaxEvents /\ events' = events + 1

\* adguard, config and flags are read anew; the prober starts unreachable.
Start ==
  /\ pc = "down" /\ Goto("probe") /\ health' = "unreachable"
  /\ UNCHANGED <<db, tx, scan, adguard, crashes, events, owned>>

\* Mutant: any failure of the startup probe is fatal.
StartupProbeStrict ==
  /\ pc = "probe" /\ health' = adguard
  /\ Goto(IF adguard = "ok" THEN "open" ELSE "down")
  /\ UNCHANGED <<db, tx, scan, adguard, crashes, events, owned>>

\* Only a rejected credential is fatal.
StartupProbe ==
  /\ pc = "probe" /\ health' = adguard
  /\ Goto(IF adguard = "unauthorized" THEN "down" ELSE "open")
  /\ UNCHANGED <<db, tx, scan, adguard, crashes, events, owned>>

\* migrate reads once which files are recorded ...
ReadApplied ==
  /\ pc = "open" /\ Goto("migrate") /\ scan' = [applied |-> db.recorded, next |-> 1]
  /\ UNCHANGED <<db, tx, health, adguard, crashes, events, owned>>

InLoop == pc = "migrate" /\ tx = NoTx /\ scan.next <= Len(Migrations)

\* Mutant: a recorded file ends the loop.
SkipFileStops ==
  /\ InLoop /\ scan.next \in scan.applied
  /\ scan' = [scan EXCEPT !.next = Len(Migrations) + 1]
  /\ UNCHANGED <<db, tx, pc, health, adguard, crashes, events, owned>>

\* ... passes over those, in the order of their names ...
SkipFile ==
  /\ InLoop /\ scan.next \in scan.applied
  /\ scan' = [scan EXCEPT !.next = @ + 1]
  /\ UNCHANGED <<db, tx, pc, health, adguard, crashes, events, owned>>

\* ... and applies each other one, in a transaction.
BeginFile ==
  /\ InLoop /\ scan.next \notin scan.applied
  /\ tx' = [of |-> "schema", file |-> scan.next, at |-> 1, work |-> db]
  /\ UNCHANGED <<db, scan, pc, health, adguard, crashes, events, owned>>

Statement == Migrations[tx.file][tx.at]

\* Mutant: the statements of a file are not in the transaction.
ExecStatementOutside ==
  /\ tx.of = "schema" /\ tx.at <= Len(Migrations[tx.file])
  /\ IF CanRun(Statement, tx.work)
       THEN /\ tx' = [tx EXCEPT !.at = @ + 1, !.work = Run(Statement, @)]
            /\ db' = Run(Statement, db) /\ UNCHANGED <<pc, scan>>
       ELSE tx' = NoTx /\ scan' = NoScan /\ Goto("down") /\ UNCHANGED db
  /\ UNCHANGED <<health, adguard, crashes, events, owned>>

\* applyOne; a statement that cannot run is rolled back and the process exits.
ExecStatement ==
  /\ tx.of = "schema" /\ tx.at <= Len(Migrations[tx.file])
  /\ IF CanRun(Statement, tx.work)
       THEN /\ tx' = [tx EXCEPT !.at = @ + 1, !.work = Run(Statement, @)]
            /\ UNCHANGED <<pc, scan>>
       ELSE tx' = NoTx /\ scan' = NoScan /\ Goto("down")
  /\ UNCHANGED <<db, health, adguard, crashes, events, owned>>

\* The file is recorded in the same transaction.
CommitFile ==
  /\ tx.of = "schema" /\ tx.at > Len(Migrations[tx.file])
  /\ db' = [tx.work EXCEPT !.recorded = @ \cup {tx.file}] /\ tx' = NoTx
  /\ scan' = [scan EXCEPT !.next = @ + 1]
  /\ UNCHANGED <<pc, health, adguard, crashes, events, owned>>

\* The loop is through.
Migrated ==
  /\ pc = "migrate" /\ tx = NoTx /\ scan.next > Len(Migrations)
  /\ Goto("reconcile") /\ scan' = NoScan
  /\ UNCHANGED <<db, tx, health, adguard, crashes, events, owned>>

\* Engine.Start, whatever comes of it; module Grants has it.
StartupReconcile ==
  /\ pc = "reconcile" /\ Goto("listen")
  /\ UNCHANGED <<db, tx, scan, health, adguard, crashes, events, owned>>

Listen ==
  /\ pc = "listen" /\ Goto("serving")
  /\ UNCHANGED <<db, tx, scan, health, adguard, crashes, events, owned>>

\* Mutant: the prober stops for good on a rejected credential.
ProbeStops ==
  /\ pc = "serving" /\ health # "unauthorized" /\ health' = adguard
  /\ UNCHANGED <<db, tx, scan, pc, adguard, crashes, events, owned>>

\* Prober.Run: no outcome stops the loop.
Probe ==
  /\ pc = "serving" /\ health' = adguard
  /\ UNCHANGED <<db, tx, scan, pc, adguard, crashes, events, owned>>

\* A crash, a signal, or a step of run that fails and makes it return 1.
Crash ==
  /\ pc # "down" /\ crashes < MaxCrashes /\ crashes' = crashes + 1
  /\ Goto("down") /\ tx' = NoTx /\ scan' = NoScan
  /\ UNCHANGED <<db, health, adguard, events, owned>>

AdGuardChanges(a) ==
  /\ adguard # a /\ adguard' = a /\ Event
  /\ UNCHANGED <<db, tx, scan, pc, health, crashes, owned>>

Launch ==
  \/ Start \/ StartupProbe \/ ReadApplied \/ Migrated \/ StartupReconcile \/ Listen
  \/ SkipFile \/ BeginFile \/ ExecStatement \/ CommitFile

BootNext == Launch \/ Probe \/ Crash \/ \E a \in Reach : AdGuardChanges(a)

-----------------------------------------------------------------------------
(* Properties                                                              *)

\* Whatever crashed or failed when, the tables are those of the files recorded,
\* and these are a prefix of the list: no file is half applied, applied and not
\* recorded, or recorded and not applied (applyOne).
SchemaMatchesRecord ==
  \E n \in 0..Len(Migrations) :
    db.recorded = 1..n /\ db.tables = Tables(n) /\ (db.icon <=> n >= 6)

\* The upgrade that rebuilds child_clients keeps every child's devices, through
\* crashes at any statement (migrations/0005: "copy every row").
MappingSurvives == db.pairs = owned

\* Whenever the engine starts, or a request is served, every table, index and
\* column of every file is there: migrate's loop, which decides by what was
\* recorded when it began, misses none, from whatever release's database and
\* after whatever half-done upgrade it starts (run: store.Open before the engine
\* and the listener).
ServesOnlyCurrent ==
  pc \in {"reconcile", "listen", "serving"} =>
    db.tables = Table \ {"child_clients_new"} /\ db.icon

\* Unless AdGuard goes on rejecting the credential the process comes to serve
\* and stays so, unreachable AdGuard, crashes and half-done upgrades
\* notwithstanding (run: "An unreachable AdGuard is not fatal").
EventuallyServes == <>[](adguard # "unauthorized") => <>[](pc = "serving")

\* What /healthz says becomes, and stays, what AdGuard has come to answer, a
\* credential revoked after the start included (Prober.Run).
HealthCatchesUp ==
  \A a \in Reach : <>[](adguard = a) => <>[](pc = "serving" => health = a)
=============================================================================
