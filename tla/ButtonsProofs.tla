--------------------------- MODULE ButtonsProofs ---------------------------
(***************************************************************************)
(* Proofs about the database under the process: what an upgrade leaves     *)
(* behind at whatever statement it is cut off, and that the quick buttons  *)
(* are always those of one PUT, under ids that never come to mean another  *)
(* button, for any number of devices, children, buttons, requests, crashes *)
(* and events.                                                             *)
(***************************************************************************)
EXTENDS Buttons, TLAPS

\* A record with the tables of the database, whatever the list of buttons.
IsDatabase(d) ==
  d \in [tables : SUBSET Table, icon : BOOLEAN, recorded : SUBSET File,
         kids : SUBSET ChildId, pairs : SUBSET (Client \X ChildId),
         pairsNew : SUBSET (Client \X ChildId), buttons : {d.buttons},
         sequence : Nat]

\* Which transaction there is, and where the process is meanwhile.
TxOK ==
  /\ IsDatabase(db)
  /\ tx.of \in {"none", "schema"} \cup Tab
  /\ tx.of = "none" => tx = NoTx
  /\ tx.of # "none" => IsDatabase(tx.work)
  /\ tx.of = "schema" =>
       /\ pc = "migrate"
       /\ tx \in [of : {"schema"}, file : File, at : Nat, work : {tx.work}]
       /\ tx.at \in 1..(Len(Migrations[tx.file]) + 1)
  /\ tx.of \in Tab =>
       /\ pc = "serving"
       /\ tx \in [of : Tab, at : Nat \ {0}, work : {tx.work}]

\* The loop has recorded the files it has passed, beside those it found recorded,
\* and no other; the transaction is for the file it is at.
ScanOK ==
  /\ scan \in [applied : SUBSET File, next : 1..7]
  /\ tx.of = "schema" => tx.file = scan.next
  /\ pc = "migrate" =>
       \A f \in File : f \in db.recorded <=> f \in scan.applied \/ f < scan.next

\* The statements of file f before the i-th have been run on w: the tables,
\* and the rows of child_clients on their way through file 5.
Applied(w, f, i) ==
  /\ f # 5 => /\ w.tables = Tables(f - 1)
                   \cup ({Migrations[f][j] : j \in 1..(i - 1)} \cap Table)
              /\ w.icon <=> f = 6 /\ i = 2
              /\ w.pairs = db.pairs
  /\ f = 5 => /\ ~w.icon
              /\ i \in {1, 6} => w.tables = Tables(4)
              /\ i \in {2, 3} => w.tables = Tables(4) \cup {"child_clients_new"}
              /\ i = 4 => w.tables = (Tables(4) \cup {"child_clients_new"})
                                       \ {"child_clients", "child_clients_idx"}
              /\ i = 5 => w.tables = Tables(4) \ {"child_clients_idx"}
              /\ i # 4 => w.pairs = db.pairs
              /\ i \in {3, 4} => w.pairsNew = db.pairs

\* What a transaction has made of the database so far: an upgrade its file's
\* statements on the files before it, a PUT nothing but buttons.
WorkOK ==
  /\ tx.of = "schema" =>
       /\ tx.work.recorded = db.recorded /\ db.recorded = 1..(tx.file - 1)
       /\ Applied(tx.work, tx.file, tx.at)
  /\ tx.of \in Tab =>
       /\ tx.work.recorded = db.recorded /\ tx.work.tables = db.tables
       /\ tx.work.icon = db.icon /\ tx.work.pairs = db.pairs

IInv ==
  /\ TxOK /\ ScanOK /\ WorkOK
  /\ SchemaMatchesRecord /\ MappingSurvives /\ ServesOnlyCurrent

-----------------------------------------------------------------------------
(* The migrations                                                          *)

LEMMA Statements ==
  /\ Len(Migrations) = 6 /\ File = {1, 2, 3, 4, 5, 6}
  /\ Len(Migrations[1]) = 1 /\ Migrations[1][1] = "sessions"
  /\ Len(Migrations[2]) = 3 /\ Migrations[2][1] = "children"
  /\ Migrations[2][2] = "child_clients" /\ Migrations[2][3] = "child_clients_idx"
  /\ Len(Migrations[3]) = 1 /\ Migrations[3][1] = "grants"
  /\ Len(Migrations[4]) = 1 /\ Migrations[4][1] = "buttons"
  /\ Len(Migrations[5]) = 5 /\ Migrations[5][1] = "child_clients_new"
  /\ Migrations[5][2] = "copy" /\ Migrations[5][3] = "drop"
  /\ Migrations[5][4] = "rename" /\ Migrations[5][5] = "child_clients_idx"
  /\ Len(Migrations[6]) = 1 /\ Migrations[6][1] = "icon"
BY DEF Migrations, File

LEMMA FileStatements ==
  ASSUME NEW f \in File \ {5}, NEW i \in 1..Len(Migrations[f])
  PROVE  \/ f # 6 /\ Migrations[f][i] \in Table \ {"child_clients_new"}
         \/ f = 6 /\ i = 1 /\ Migrations[f][i] = "icon"
<1>1. i \in Nat /\ i >= 1 /\ i <= Len(Migrations[f])
  BY Statements
<1>2. CASE f \in {1, 3, 4, 6}
  <2>1. Len(Migrations[f]) = 1
    BY <1>2, Statements
  <2>2. i = 1
    BY <1>1, <2>1
  <2> QED BY <1>2, <2>2, Statements DEF Table
<1>3. CASE f = 2
  <2>1. i = 1 \/ i = 2 \/ i = 3
    BY <1>1, <1>3, Statements
  <2> QED BY <1>3, <2>1, Statements DEF Table
<1> QED BY <1>2, <1>3, Statements

LEMMA TablesGrow ==
  ASSUME NEW f \in File
  PROVE  Tables(f) = Tables(f - 1)
           \cup ({Migrations[f][j] : j \in 1..Len(Migrations[f])}
                   \cap (Table \ {"child_clients_new"}))
<1>1. f \in Nat /\ 1..f = (1..(f - 1)) \cup {f}
  BY Statements
<1> QED BY <1>1 DEF Tables

\* The rebuilding file leaves the tables as they are.
LEMMA TablesOfFive ==
  /\ Tables(5) = Tables(4) /\ {"child_clients", "child_clients_idx"} \subseteq Tables(4)
  /\ Tables(4) \subseteq Table \ {"child_clients_new"}
<1>1. "child_clients" \in Tables(4) /\ "child_clients_idx" \in Tables(4)
  BY Statements DEF Tables, Table
<1>2. {Migrations[5][j] : j \in 1..Len(Migrations[5])} \cap (Table \ {"child_clients_new"})
        = {"child_clients_idx"}
  <2>1. 1..Len(Migrations[5]) = {1, 2, 3, 4, 5}
    BY Statements
  <2>2. {Migrations[5][j] : j \in {1, 2, 3, 4, 5}}
          = {"child_clients_new", "copy", "drop", "rename", "child_clients_idx"}
    BY Statements
  <2> QED BY <2>1, <2>2 DEF Table
<1>3. Tables(5) = Tables(4)
  <2>1. 5 \in File /\ 5 - 1 = 4
    BY Statements
  <2>2. Tables(5) = Tables(5 - 1) \cup {"child_clients_idx"}
    BY <1>2, <2>1, TablesGrow, Zenon
  <2> QED BY <1>1, <2>1, <2>2
<1> QED BY <1>1, <1>3 DEF Tables

LEMMA TablesType == \A n : Tables(n) \subseteq Table \ {"child_clients_new"}
BY DEF Tables

\* All files together make every table.
LEMMA TablesOfAll == Tables(6) = Table \ {"child_clients_new"}
<1>1. 1..6 = {1, 2, 3, 4, 5, 6}
  OBVIOUS
<1>2. \A f \in {1, 3, 4} : 1 \in 1..Len(Migrations[f])
  BY Statements
<1>3. {1, 2, 3} \subseteq 1..Len(Migrations[2])
  BY Statements
<1> QED BY <1>1, <1>2, <1>3, Statements DEF Tables, Table

LEMMA RunTable ==
  ASSUME NEW d, IsDatabase(d), NEW s \in Table
  PROVE  LET e == Run(s, d) IN
         /\ IsDatabase(e) /\ e.tables = d.tables \cup {s} /\ e.icon = d.icon
         /\ e.recorded = d.recorded /\ e.pairs = d.pairs
         /\ e.pairsNew = d.pairsNew /\ e.sequence = d.sequence
<1>1. Run(s, d) = [d EXCEPT !.tables = @ \cup {s}]
  BY DEF Run, Table
<1> QED BY <1>1 DEF IsDatabase

LEMMA RunCopy ==
  ASSUME NEW d, IsDatabase(d)
  PROVE  LET e == Run("copy", d) IN
         /\ IsDatabase(e) /\ e.tables = d.tables /\ e.icon = d.icon
         /\ e.recorded = d.recorded /\ e.pairs = d.pairs
         /\ e.pairsNew = d.pairs /\ e.sequence = d.sequence
<1>1. Run("copy", d) = [d EXCEPT !.pairsNew = d.pairs]
  BY DEF Run, Table
<1> QED BY <1>1 DEF IsDatabase

LEMMA RunDrop ==
  ASSUME NEW d, IsDatabase(d)
  PROVE  LET e == Run("drop", d) IN
         /\ IsDatabase(e)
         /\ e.tables = d.tables \ {"child_clients", "child_clients_idx"}
         /\ e.icon = d.icon /\ e.recorded = d.recorded /\ e.pairsNew = d.pairsNew
         /\ e.sequence = d.sequence
<1>1. Run("drop", d) = [d EXCEPT !.tables = @ \ {"child_clients", "child_clients_idx"},
                                 !.pairs = {}]
  BY DEF Run, Table
<1> QED BY <1>1 DEF IsDatabase

LEMMA RunRename ==
  ASSUME NEW d, IsDatabase(d)
  PROVE  LET e == Run("rename", d) IN
         /\ IsDatabase(e)
         /\ e.tables = (d.tables \ {"child_clients_new"}) \cup {"child_clients"}
         /\ e.icon = d.icon /\ e.recorded = d.recorded /\ e.pairs = d.pairsNew
         /\ e.sequence = d.sequence
<1>1. Run("rename", d) =
        [d EXCEPT !.tables = (@ \ {"child_clients_new"}) \cup {"child_clients"},
                  !.pairs = d.pairsNew, !.pairsNew = {}]
  BY DEF Run, Table
<1> QED BY <1>1 DEF IsDatabase, Table

LEMMA RunIcon ==
  ASSUME NEW d, IsDatabase(d)
  PROVE  LET e == Run("icon", d) IN
         /\ IsDatabase(e) /\ e.tables = d.tables /\ e.icon
         /\ e.recorded = d.recorded /\ e.pairs = d.pairs /\ e.sequence = d.sequence
<1>1. Run("icon", d) = [d EXCEPT !.icon = TRUE]
  BY DEF Run, Table
<1> QED BY <1>1 DEF IsDatabase

-----------------------------------------------------------------------------
(* Upgrades                                                                *)

LEMMA NoTxOf == NoTx.of = "none" /\ "none" # "schema" /\ "none" \notin Tab
               /\ "schema" \notin Tab
BY TabAssumption DEF NoTx

LEMMA InitIInv == Init => IInv
<1> SUFFICES ASSUME Init PROVE IInv
  OBVIOUS
<1>1. PICK n \in 0..6 : db \in Installed(n)
  BY Statements DEF Init, BootInit
<1>2. /\ db.tables = Tables(n) /\ db.icon = (n >= 6) /\ db.recorded = 1..n
      /\ db.kids \subseteq ChildId /\ db.pairs \subseteq (Client \X ChildId)
      /\ db.pairsNew = {}
  <2>1. CASE n >= 2
    BY <1>1, <2>1 DEF Installed
  <2>2. CASE ~(n >= 2)
    BY <1>1, <2>2 DEF Installed
  <2> QED BY <2>1, <2>2
<1>3. 1..n \subseteq File /\ (n >= 6) \in BOOLEAN
  BY Statements
<1>4. IsDatabase(db)
  <2> DEFINE K == IF n >= 2 THEN SUBSET ChildId ELSE {{}}
             I == n >= 6
             L == IF n >= 4 THEN Lists ELSE {{}}
             N == IF n >= 4 THEN 0..MaxButtons ELSE {0}
  <2>1. db \in [tables : {Tables(n)}, icon : {I}, recorded : {1..n}, kids : K,
                pairs : SUBSET (Client \X ChildId), pairsNew : {{}},
                buttons : L, sequence : N]
    BY <1>1 DEF Installed
  <2>2. K \subseteq SUBSET ChildId /\ I \in BOOLEAN /\ N \subseteq Nat
    BY BoundsAssumption
  <2> HIDE DEF K, I, L, N
  <2>3. Tables(n) \subseteq Table
    BY TablesType
  <2> QED BY <1>3, <2>1, <2>2, <2>3 DEF IsDatabase
<1>5. TxOK
  BY <1>4, NoTxOf DEF Init, BootInit, TxOK
<1>6. WorkOK /\ ScanOK
  BY NoTxOf DEF Init, BootInit, WorkOK, ScanOK, NoScan
<1>7. SchemaMatchesRecord
  BY <1>2, Statements DEF SchemaMatchesRecord
<1>8. MappingSurvives /\ ServesOnlyCurrent
  BY DEF Init, BootInit, MappingSurvives, ServesOnlyCurrent
<1> QED BY <1>5, <1>6, <1>7, <1>8 DEF IInv

\* Nothing but the process's place moves, or the transaction is dropped.
LEMMA DropKeeps ==
  ASSUME IInv, UNCHANGED <<db, owned>>,
         \/ tx' = NoTx
         \/ UNCHANGED tx /\ (tx = NoTx \/ UNCHANGED pc),
         \/ UNCHANGED <<pc, scan>>
         \/ pc' # "migrate" /\ scan' \in {scan, NoScan} /\ tx' = NoTx,
         \/ UNCHANGED pc
         \/ pc' \notin {"reconcile", "listen", "serving"}
         \/ db.tables = Table \ {"child_clients_new"} /\ db.icon
  PROVE  IInv'
<1> USE NoTxOf DEF IInv
<1>1. TxOK'
  BY DEF TxOK
<1>2. WorkOK'
  BY DEF WorkOK, Applied
<1>3. SchemaMatchesRecord' /\ MappingSurvives' /\ ServesOnlyCurrent'
  BY DEF SchemaMatchesRecord, MappingSurvives, ServesOnlyCurrent
<1>4. ScanOK'
  BY DEF ScanOK, NoScan
<1> QED BY <1>1, <1>2, <1>3, <1>4

\* The loop begins, and passes over a file it found recorded.
LEMMA ScanKeeps ==
  ASSUME IInv, ReadApplied \/ SkipFile
  PROVE  IInv'
<1> USE NoTxOf DEF IInv
<1>1. UNCHANGED <<db, tx, owned>> /\ tx = NoTx /\ pc' = "migrate"
  BY DEF ReadApplied, SkipFile, InLoop, Goto, TxOK
<1>2. TxOK' /\ WorkOK'
  BY <1>1 DEF TxOK, WorkOK
<1>3. SchemaMatchesRecord' /\ MappingSurvives' /\ ServesOnlyCurrent'
  BY <1>1 DEF SchemaMatchesRecord, MappingSurvives, ServesOnlyCurrent
<1>4. ScanOK'
  <2>1. CASE ReadApplied
    <3>1. scan' = [applied |-> db.recorded, next |-> 1]
      BY <2>1 DEF ReadApplied
    <3>2. db.recorded \in SUBSET File
      BY DEF TxOK, IsDatabase
    <3>3. \A f \in File : ~(f < 1)
      BY Statements
    <3> QED BY <1>1, <3>1, <3>2, <3>3 DEF ScanOK
  <2>2. CASE SkipFile
    <3>1. /\ scan.next <= 6 /\ scan.next \in scan.applied /\ pc = "migrate"
          /\ scan' = [scan EXCEPT !.next = @ + 1]
      BY <2>2, Statements DEF SkipFile, InLoop
    <3>2. scan'.applied = scan.applied /\ scan'.next = scan.next + 1
          /\ scan' \in [applied : SUBSET File, next : 1..7]
      BY <3>1 DEF ScanOK
    <3>3. \A f \in File : f < scan.next + 1 <=> f < scan.next \/ f = scan.next
      BY Statements DEF ScanOK
    <3> QED BY <1>1, <3>1, <3>2, <3>3 DEF ScanOK
  <2> QED BY <2>1, <2>2
<1> QED BY <1>2, <1>3, <1>4

\* The loop is through only when every file has been applied.
LEMMA LoopThrough ==
  ASSUME IInv, Migrated
  PROVE  db.tables = Table \ {"child_clients_new"} /\ db.icon
<1>1. PICK n \in 0..6 : db.recorded = 1..n /\ db.tables = Tables(n) /\ (db.icon <=> n >= 6)
  BY Statements DEF IInv, SchemaMatchesRecord
<1>2. scan.next = 7 /\ pc = "migrate"
  BY Statements DEF IInv, ScanOK, Migrated
<1>3. 6 \in 1..n
  BY <1>1, <1>2, Statements DEF IInv, ScanOK
<1>4. n = 6
  BY <1>3
<1> QED BY <1>1, <1>4, TablesOfAll

LEMMA BeginFileKeeps ==
  ASSUME IInv, BeginFile
  PROVE  IInv'
<1> USE NoTxOf DEF IInv
<1> DEFINE f == scan.next
<1>0. f \in File
  BY Statements DEF BeginFile, InLoop, ScanOK
<1>1. PICK n \in 0..6 : db.recorded = 1..n /\ db.tables = Tables(n) /\ (db.icon <=> n >= 6)
  BY Statements DEF SchemaMatchesRecord
<1>2. f \in 1..6 /\ f = n + 1
  <2>1. f \in 1..6 /\ f \notin 1..n
    BY <1>0, <1>1, Statements DEF BeginFile, InLoop, ScanOK
  <2>2. f > 1 => f - 1 \in 1..n
    BY <1>1, <2>1, Statements DEF BeginFile, InLoop, ScanOK
  <2> QED BY <2>1, <2>2
<1>3. tx' = [of |-> "schema", file |-> f, at |-> 1, work |-> db]
      /\ UNCHANGED <<db, scan, pc, owned>> /\ pc = "migrate"
  BY DEF BeginFile, InLoop
<1>a. ScanOK'
  BY <1>3 DEF ScanOK
<1> HIDE DEF f
<1>4. Len(Migrations[f]) \in Nat
  BY <1>2, Statements
<1>5. TxOK'
  BY <1>0, <1>3, <1>4 DEF TxOK
<1>6. Applied(db, f, 1)
  <2>1. f - 1 = n /\ {Migrations[f][j] : j \in 1..(1 - 1)} = {}
    BY <1>2
  <2>2. ~db.icon
    BY <1>1, <1>2
  <2> QED BY <1>1, <2>1, <2>2 DEF Applied
<1>7. WorkOK'
  <2>1. Applied(tx.work, tx.file, tx.at)'
    BY <1>3, <1>6 DEF Applied
  <2> QED BY <1>1, <1>2, <1>3, <2>1 DEF WorkOK
<1> QED BY <1>3, <1>5, <1>7, <1>a DEF SchemaMatchesRecord, MappingSurvives, ServesOnlyCurrent

\* A statement takes what is applied one further.
LEMMA StatementApplies ==
  ASSUME IInv, tx.of = "schema", tx.at <= Len(Migrations[tx.file])
  PROVE  LET w == Run(Statement, tx.work) IN
         /\ IsDatabase(w) /\ w.recorded = tx.work.recorded
         /\ w.sequence = tx.work.sequence
         /\ Applied(w, tx.file, tx.at + 1)
<1> DEFINE f == tx.file
           i == tx.at
           d == tx.work
           s == Migrations[f][i]
           w == Run(s, d)
<1>0. Statement = s
  BY DEF Statement
<1>1. f \in File /\ i \in 1..Len(Migrations[f]) /\ i \in Nat /\ IsDatabase(d) /\ Applied(d, f, i)
  <2>1. tx.file \in File /\ tx.at \in 1..(Len(Migrations[tx.file]) + 1) /\ tx.at \in Nat
    BY NoTxOf DEF IInv, TxOK
  <2>2. Len(Migrations[tx.file]) \in Nat
    BY <2>1, Statements
  <2> QED BY <2>1, <2>2, NoTxOf DEF IInv, TxOK, WorkOK
<1> HIDE DEF f, i, d
<1>2. CASE f \notin {5, 6}
  <2>1. s \in Table
    BY <1>1, <1>2, FileStatements
  <2>2. /\ IsDatabase(w) /\ w.tables = d.tables \cup {s} /\ w.icon = d.icon
        /\ w.recorded = d.recorded /\ w.pairs = d.pairs /\ w.sequence = d.sequence
    BY <1>1, <2>1, RunTable
  <2> HIDE DEF w
  <2>3. (i + 1) - 1 = i /\ 1..i = (1..(i - 1)) \cup {i}
    BY <1>1
  <2>4. {Migrations[f][j] : j \in 1..i} \cap Table
          = ({Migrations[f][j] : j \in 1..(i - 1)} \cap Table) \cup {s}
    BY <2>1, <2>3
  <2>5. Applied(w, f, i + 1)
    BY <1>1, <1>2, <2>2, <2>3, <2>4 DEF Applied
  <2> QED BY <1>0, <2>2, <2>5 DEF w, d, f, i
<1>3. CASE f = 6
  <2>1. s = "icon" /\ i = 1
    BY <1>1, <1>3, FileStatements
  <2>2. /\ IsDatabase(w) /\ w.tables = d.tables /\ w.icon
        /\ w.recorded = d.recorded /\ w.pairs = d.pairs /\ w.sequence = d.sequence
    BY <1>1, <2>1, RunIcon
  <2> HIDE DEF w
  <2>3. {Migrations[6][j] : j \in 1..1} \cap Table = {}
        /\ {Migrations[6][j] : j \in 1..(1 - 1)} \cap Table = {}
    BY Statements DEF Table
  <2>4. Applied(w, f, i + 1)
    BY <1>1, <1>3, <2>1, <2>2, <2>3 DEF Applied
  <2> QED BY <1>0, <2>2, <2>4 DEF w, d, f, i
<1>4. CASE f = 5
  <2>0. i \in {1, 2, 3, 4, 5}
    BY <1>1, <1>4, Statements
  <2>1. CASE i = 1
    <3>1. s = "child_clients_new" /\ s \in Table
      BY <1>4, <2>1, Statements DEF Table
    <3>2. /\ IsDatabase(w) /\ w.tables = d.tables \cup {s} /\ w.icon = d.icon
          /\ w.recorded = d.recorded /\ w.pairs = d.pairs /\ w.sequence = d.sequence
      BY <1>1, <3>1, RunTable
    <3> HIDE DEF w
    <3>3. Applied(w, f, i + 1)
      BY <1>1, <1>4, <2>1, <3>1, <3>2 DEF Applied
    <3> QED BY <1>0, <3>2, <3>3 DEF w, d, f, i
  <2>2. CASE i = 2
    <3>1. s = "copy"
      BY <1>4, <2>2, Statements
    <3>2. /\ IsDatabase(w) /\ w.tables = d.tables /\ w.icon = d.icon
          /\ w.recorded = d.recorded /\ w.pairs = d.pairs
          /\ w.pairsNew = d.pairs /\ w.sequence = d.sequence
      BY <1>1, <3>1, RunCopy
    <3> HIDE DEF w
    <3>3. Applied(w, f, i + 1)
      BY <1>1, <1>4, <2>2, <3>2 DEF Applied
    <3> QED BY <1>0, <3>2, <3>3 DEF w, d, f, i
  <2>3. CASE i = 3
    <3>1. s = "drop"
      BY <1>4, <2>3, Statements
    <3>2. /\ IsDatabase(w)
          /\ w.tables = d.tables \ {"child_clients", "child_clients_idx"}
          /\ w.icon = d.icon /\ w.recorded = d.recorded /\ w.pairsNew = d.pairsNew
          /\ w.sequence = d.sequence
      BY <1>1, <3>1, RunDrop
    <3> HIDE DEF w
    <3>3. Applied(w, f, i + 1)
      BY <1>1, <1>4, <2>3, <3>2 DEF Applied
    <3> QED BY <1>0, <3>2, <3>3 DEF w, d, f, i
  <2>4. CASE i = 4
    <3>1. s = "rename"
      BY <1>4, <2>4, Statements
    <3>2. /\ IsDatabase(w)
          /\ w.tables = (d.tables \ {"child_clients_new"}) \cup {"child_clients"}
          /\ w.icon = d.icon /\ w.recorded = d.recorded /\ w.pairs = d.pairsNew
          /\ w.sequence = d.sequence
      BY <1>1, <3>1, RunRename
    <3> HIDE DEF w
    <3>3. w.tables = Tables(4) \ {"child_clients_idx"}
      BY <1>1, <1>4, <2>4, <3>2, TablesOfFive DEF Applied
    <3>4. Applied(w, f, i + 1)
      BY <1>1, <1>4, <2>4, <3>2, <3>3 DEF Applied
    <3> QED BY <1>0, <3>2, <3>4 DEF w, d, f, i
  <2>5. CASE i = 5
    <3>1. s = "child_clients_idx" /\ s \in Table
      BY <1>4, <2>5, Statements DEF Table
    <3>2. /\ IsDatabase(w) /\ w.tables = d.tables \cup {s} /\ w.icon = d.icon
          /\ w.recorded = d.recorded /\ w.pairs = d.pairs /\ w.sequence = d.sequence
      BY <1>1, <3>1, RunTable
    <3> HIDE DEF w
    <3>3. w.tables = Tables(4)
      BY <1>1, <1>4, <2>5, <3>1, <3>2, TablesOfFive DEF Applied
    <3>4. Applied(w, f, i + 1)
      BY <1>1, <1>4, <2>5, <3>2, <3>3 DEF Applied
    <3> QED BY <1>0, <3>2, <3>4 DEF w, d, f, i
  <2> QED BY <2>0, <2>1, <2>2, <2>3, <2>4, <2>5
<1> QED BY <1>2, <1>3, <1>4

LEMMA ExecStatementKeeps ==
  ASSUME IInv, ExecStatement
  PROVE  IInv'
<1>1. tx.of = "schema" /\ tx.at <= Len(Migrations[tx.file]) /\ UNCHANGED <<db, owned>>
  BY DEF ExecStatement
<1>2. CASE tx' = NoTx /\ pc' = "down" /\ scan' = NoScan
  BY <1>1, <1>2, DropKeeps
<1>3. CASE /\ tx' = [tx EXCEPT !.at = @ + 1, !.work = Run(Statement, @)]
           /\ UNCHANGED <<pc, scan>>
  <2> DEFINE w == Run(Statement, tx.work)
  <2>1. /\ IsDatabase(w) /\ w.recorded = tx.work.recorded
        /\ Applied(w, tx.file, tx.at + 1)
    BY <1>1, StatementApplies
  <2> HIDE DEF w
  <2>2. /\ tx \in [of : {"schema"}, file : File, at : Nat, work : {tx.work}]
        /\ tx.at \in 1..(Len(Migrations[tx.file]) + 1) /\ Len(Migrations[tx.file]) \in Nat
        /\ pc = "migrate" /\ IsDatabase(db)
    <3>1. tx.file \in File
      BY <1>1 DEF IInv, TxOK
    <3>2. Len(Migrations[tx.file]) \in Nat
      BY <3>1, Statements
    <3> QED BY <1>1, <3>2, NoTxOf DEF IInv, TxOK
  <2>3. tx' = [of |-> "schema", file |-> tx.file, at |-> tx.at + 1, work |-> w]
    BY <1>3, <2>2 DEF w
  <2>4. tx'.at \in 1..(Len(Migrations[tx'.file]) + 1)
    BY <1>1, <2>2, <2>3
  <2>5. TxOK'
    <3>1. tx'.of = "schema" /\ tx'.work = w /\ tx'.file \in File /\ tx'.at \in Nat
      BY <2>2, <2>3
    <3>2. tx' \in [of : {"schema"}, file : File, at : Nat, work : {w}]
      BY <2>2, <2>3
    <3> QED BY <1>1, <1>3, <2>1, <2>2, <2>4, <3>1, <3>2, NoTxOf DEF TxOK
  <2>6. WorkOK'
    <3>1. Applied(tx.work, tx.file, tx.at)'
      BY <1>1, <2>1, <2>3 DEF Applied
    <3> QED BY <1>1, <2>1, <2>3, <3>1, NoTxOf DEF IInv, WorkOK
  <2>7. ScanOK'
    BY <1>1, <1>3, <2>3 DEF IInv, ScanOK
  <2> QED BY <1>1, <1>3, <2>5, <2>6, <2>7
          DEF IInv, SchemaMatchesRecord, MappingSurvives, ServesOnlyCurrent
<1> QED BY <1>1, <1>2, <1>3 DEF ExecStatement, Goto

LEMMA CommitFileKeeps ==
  ASSUME IInv, CommitFile
  PROVE  IInv'
<1> DEFINE f == tx.file
           i == tx.at
           w == tx.work
<1>1. /\ tx.of = "schema" /\ i > Len(Migrations[f]) /\ tx' = NoTx
      /\ db' = [w EXCEPT !.recorded = @ \cup {f}] /\ UNCHANGED <<pc, owned>>
      /\ scan' = [scan EXCEPT !.next = @ + 1]
  BY DEF CommitFile
<1>2. /\ f \in File /\ i \in 1..(Len(Migrations[f]) + 1) /\ IsDatabase(w)
      /\ Applied(w, f, i) /\ pc = "migrate"
      /\ w.recorded = 1..(f - 1) /\ w.recorded = db.recorded /\ f = scan.next
  BY <1>1, NoTxOf DEF IInv, TxOK, WorkOK, ScanOK
<1>3. f \in 1..6 /\ i = Len(Migrations[f]) + 1 /\ Len(Migrations[f]) \in Nat
  <2>1. Len(Migrations[f]) \in Nat
    BY <1>2, Statements
  <2> QED BY <1>1, <1>2, <2>1, Statements
<1> HIDE DEF f, i, w
<1>4. /\ IsDatabase(db') /\ db'.recorded = w.recorded \cup {f}
      /\ db'.tables = w.tables /\ db'.icon = w.icon /\ db'.pairs = w.pairs
  BY <1>1, <1>2 DEF IsDatabase
<1>5. db'.recorded = 1..f
  BY <1>2, <1>3, <1>4
<1>6. w.tables = Tables(f) /\ (w.icon <=> f >= 6) /\ w.pairs = db.pairs
  <2>1. CASE f = 5
    <3>1. i = 6
      BY <1>3, <2>1, Statements
    <3> QED BY <1>2, <2>1, <3>1, TablesOfFive DEF Applied
  <2>2. CASE f # 5
    <3> DEFINE S == {Migrations[f][j] : j \in 1..Len(Migrations[f])}
    <3>1. "child_clients_new" \notin S
      BY <1>2, <1>3, <2>2, FileStatements
    <3>2. i - 1 = Len(Migrations[f])
      BY <1>3
    <3>3. w.tables = Tables(f - 1) \cup (S \cap Table)
      BY <1>2, <2>2, <3>2 DEF Applied
    <3>4. Tables(f) = Tables(f - 1) \cup (S \cap (Table \ {"child_clients_new"}))
      BY <1>2, TablesGrow
    <3>5. w.tables = Tables(f)
      <4> HIDE DEF S
      <4> QED BY <3>1, <3>3, <3>4
    <3>6. f = 6 => i = 2
      <4>1. CASE f = 6
        BY <1>3, <4>1, Statements
      <4> QED BY <4>1
    <3> QED BY <1>2, <1>3, <2>2, <3>5, <3>6 DEF Applied
  <2> QED BY <2>1, <2>2
<1>7. SchemaMatchesRecord'
  <2>1. f \in 0..Len(Migrations)
    BY <1>3, Statements
  <2>2. db'.recorded = 1..f /\ db'.tables = Tables(f) /\ (db'.icon <=> f >= 6)
    BY <1>4, <1>5, <1>6
  <2> QED BY <2>1, <2>2 DEF SchemaMatchesRecord
<1>8. TxOK' /\ WorkOK'
  BY <1>1, <1>4, NoTxOf DEF TxOK, WorkOK
<1>a. ScanOK'
  <2>1. /\ scan'.applied = scan.applied /\ scan'.next = scan.next + 1
        /\ scan' \in [applied : SUBSET File, next : 1..7] /\ tx'.of = "none"
    BY <1>1, <1>2, <1>3, NoTxOf DEF IInv, ScanOK
  <2>2. \A g \in File : g < f + 1 <=> g < f \/ g = f
    BY <1>3, Statements
  <2>3. \A g \in File : g \in db.recorded <=> g \in scan.applied \/ g < f
    BY <1>2 DEF IInv, ScanOK
  <2> QED BY <1>2, <1>4, <2>1, <2>2, <2>3 DEF ScanOK
<1>9. MappingSurvives' /\ ServesOnlyCurrent'
  BY <1>1, <1>2, <1>4, <1>6 DEF IInv, MappingSurvives, ServesOnlyCurrent
<1> QED BY <1>7, <1>8, <1>9, <1>a DEF IInv

-----------------------------------------------------------------------------
(* Requests                                                                *)

\* The loop is no matter of requests.
LEMMA ScanServing ==
  ASSUME IInv, UNCHANGED scan, pc' = "serving", tx'.of # "schema"
  PROVE  ScanOK'
BY DEF IInv, ScanOK

LEMMA BeginReplaceKeeps ==
  ASSUME IInv, NEW t \in Tab, BeginReplace(t)
  PROVE  IInv'
<1> DEFINE w == [db EXCEPT !.buttons = {}]
<1>1. /\ tx' = [of |-> t, at |-> 1, work |-> w] /\ pc = "serving"
      /\ UNCHANGED <<db, pc, scan, owned>>
  BY DEF BeginReplace, Free, process
<1>2. /\ IsDatabase(db) /\ IsDatabase(w) /\ w.recorded = db.recorded
      /\ w.tables = db.tables /\ w.icon = db.icon /\ w.pairs = db.pairs
  BY DEF IInv, TxOK, IsDatabase
<1> HIDE DEF w
<1>3. tx'.of = t /\ tx'.work = w /\ t \notin {"none", "schema"}
  BY <1>1, TabAssumption
<1>4. TxOK'
  BY <1>1, <1>2, <1>3 DEF TxOK
<1>5. WorkOK' /\ ScanOK'
  BY <1>1, <1>2, <1>3, ScanServing DEF WorkOK
<1> QED BY <1>1, <1>4, <1>5
        DEF IInv, SchemaMatchesRecord, MappingSurvives, ServesOnlyCurrent

\* The transaction of a request, and what an insert makes of it.
LEMMA TabTx ==
  ASSUME IInv, NEW t \in Tab, tx.of = t
  PROVE  /\ pc = "serving" /\ IsDatabase(tx.work)
         /\ tx = [of |-> t, at |-> tx.at, work |-> tx.work] /\ tx.at \in Nat \ {0}
         /\ tx.work.recorded = db.recorded /\ tx.work.tables = db.tables
         /\ tx.work.icon = db.icon /\ tx.work.pairs = db.pairs
BY TabAssumption DEF IInv, TxOK, WorkOK

LEMMA InsertIs ==
  ASSUME IInv, NEW t \in Tab, InsertButton(t)
  PROVE  \/ tx' = NoTx
         \/ tx' = [of |-> t, at |-> tx.at + 1,
                   work |-> Inserted(tx.work, put[t].items, tx.at)]
BY TabTx DEF InsertButton

\* The row of the i-th item, with id n.
Row(items, i, n) ==
  [id |-> n, position |-> i, child |-> items[i].child, tag |-> items[i].tag]

LEMMA InsertedIs ==
  ASSUME NEW w, IsDatabase(w), NEW items, NEW i
  PROVE  LET v == Inserted(w, items, i) IN
         /\ IsDatabase(v) /\ v.tables = w.tables /\ v.icon = w.icon
         /\ v.recorded = w.recorded /\ v.pairs = w.pairs /\ v.kids = w.kids
         /\ v.sequence = w.sequence + 1
         /\ v.buttons = w.buttons \cup {Row(items, i, w.sequence + 1)}
<1> DEFINE b == w.buttons \cup {Row(items, i, w.sequence + 1)}
           n == w.sequence + 1
           v == [w EXCEPT !.sequence = n, !.buttons = b]
<1>1. Inserted(w, items, i) = v
  BY DEF Inserted, NextButtonId, Row
<1>2. n \in Nat
  BY DEF IsDatabase
<1> HIDE DEF b, n
<1>3. v.buttons = b /\ v.sequence = n /\ v.tables = w.tables /\ v.icon = w.icon
      /\ v.recorded = w.recorded /\ v.pairs = w.pairs /\ v.kids = w.kids
  BY DEF IsDatabase
<1>4. IsDatabase(v)
  BY <1>2, <1>3 DEF IsDatabase
<1> QED BY <1>1, <1>3, <1>4, Zenon DEF b, n

LEMMA InsertButtonKeeps ==
  ASSUME IInv, NEW t \in Tab, InsertButton(t)
  PROVE  IInv'
<1>1. tx.of = t /\ UNCHANGED <<db, pc, scan, owned>>
  BY DEF InsertButton, process
<1>2. CASE tx' = NoTx
  BY <1>1, <1>2, DropKeeps
<1>3. CASE tx' = [of |-> t, at |-> tx.at + 1,
                  work |-> Inserted(tx.work, put[t].items, tx.at)]
  <2> DEFINE v == Inserted(tx.work, put[t].items, tx.at)
  <2>1. /\ IsDatabase(v) /\ v.tables = tx.work.tables /\ v.icon = tx.work.icon
        /\ v.recorded = tx.work.recorded /\ v.pairs = tx.work.pairs
    <3>1. IsDatabase(tx.work)
      BY <1>1, TabTx
    <3> QED BY <3>1, InsertedIs
  <2> HIDE DEF v
  <2>2. tx' = [of |-> t, at |-> tx.at + 1, work |-> v]
    BY <1>3 DEF v
  <2>3. /\ pc = "serving" /\ tx.at \in Nat \ {0}
        /\ v.recorded = db.recorded /\ v.tables = db.tables
        /\ v.icon = db.icon /\ v.pairs = db.pairs
    BY <1>1, <2>1, TabTx
  <2>4. tx'.of = t /\ tx'.work = v /\ t \notin {"none", "schema"}
        /\ tx' \in [of : Tab, at : Nat \ {0}, work : {v}]
    BY <2>2, <2>3, TabAssumption
  <2>5. TxOK'
    BY <1>1, <2>1, <2>3, <2>4 DEF IInv, TxOK
  <2>6. WorkOK' /\ ScanOK'
    BY <1>1, <2>3, <2>4, ScanServing DEF WorkOK
  <2> QED BY <1>1, <2>5, <2>6
          DEF IInv, SchemaMatchesRecord, MappingSurvives, ServesOnlyCurrent
<1> QED BY <1>2, <1>3, InsertIs

LEMMA CommitReplaceKeeps ==
  ASSUME IInv, NEW t \in Tab, CommitReplace(t)
  PROVE  IInv'
<1>1. tx.of = t /\ tx' = NoTx /\ UNCHANGED <<pc, scan, owned>> /\ pc = "serving"
  BY TabTx DEF CommitReplace, process
<1>2. CASE UNCHANGED db
  BY <1>1, <1>2, DropKeeps
<1>3. CASE db' = tx.work
  <2>1. /\ IsDatabase(db') /\ db'.recorded = db.recorded /\ db'.tables = db.tables
        /\ db'.icon = db.icon /\ db'.pairs = db.pairs
    BY <1>1, <1>3, TabTx
  <2>2. TxOK' /\ WorkOK' /\ ScanOK'
    BY <1>1, <2>1, NoTxOf, ScanServing DEF TxOK, WorkOK
  <2>3. SchemaMatchesRecord' /\ MappingSurvives' /\ ServesOnlyCurrent'
    BY <1>1, <2>1 DEF IInv, SchemaMatchesRecord, MappingSurvives, ServesOnlyCurrent
  <2> QED BY <2>2, <2>3 DEF IInv
<1> QED BY <1>2, <1>3 DEF CommitReplace

LEMMA ChildrenKeep ==
  ASSUME IInv,
         \E k \in ChildId : DeleteChild(k) \/ \E C \in SUBSET Client : CreateChild(k, C)
  PROVE  IInv'
<1> DEFINE Same == /\ IsDatabase(db') /\ db'.recorded = db.recorded
                   /\ db'.tables = db.tables /\ db'.icon = db.icon
                   /\ db'.pairs = owned'
<1>1. tx = NoTx /\ UNCHANGED <<tx, pc, scan>> /\ pc = "serving" /\ Same
  <2>0. IsDatabase(db) /\ db.pairs = owned
    BY DEF IInv, TxOK, MappingSurvives
  <2>1. ASSUME NEW k \in ChildId, DeleteChild(k) PROVE Same
    <3> DEFINE b == Without(k, db.buttons)
               P == {p \in db.pairs : p[2] # k}
               K == db.kids \ {k}
    <3>1. db' = [db EXCEPT !.kids = K, !.pairs = P, !.buttons = b] /\ owned' = P
      BY <2>0, <2>1 DEF DeleteChild, Cascade
    <3>2. P \in SUBSET (Client \X ChildId) /\ K \in SUBSET ChildId
      BY <2>0 DEF IsDatabase
    <3> HIDE DEF b, P, K
    <3> QED BY <2>0, <3>1, <3>2 DEF IsDatabase
  <2>2. ASSUME NEW k \in ChildId, NEW C \in SUBSET Client, CreateChild(k, C) PROVE Same
    BY <2>0, <2>2 DEF CreateChild, IsDatabase
  <2> QED BY <2>1, <2>2 DEF DeleteChild, CreateChild, Free, process
<1>2. TxOK' /\ WorkOK' /\ ScanOK'
  BY <1>1, NoTxOf, ScanServing DEF TxOK, WorkOK
<1>3. SchemaMatchesRecord' /\ MappingSurvives' /\ ServesOnlyCurrent'
  BY <1>1 DEF IInv, SchemaMatchesRecord, MappingSurvives, ServesOnlyCurrent
<1> QED BY <1>2, <1>3 DEF IInv

\* The steps of the process itself.
LEMMA ProcessKeeps ==
  ASSUME IInv, BootNext
  PROVE  IInv'
<1>1. CASE Start \/ StartupProbe \/ Migrated \/ StartupReconcile \/ Listen \/ Probe
           \/ Crash \/ \E a \in Reach : AdGuardChanges(a)
  <2>1. tx # NoTx => pc \in {"migrate", "serving"}
    BY DEF IInv, TxOK
  <2>2. /\ UNCHANGED <<db, owned>>
        /\ \/ tx' = NoTx
           \/ UNCHANGED tx /\ (tx = NoTx \/ UNCHANGED pc)
        /\ \/ UNCHANGED <<pc, scan>>
           \/ pc' # "migrate" /\ scan' \in {scan, NoScan} /\ tx' = NoTx
    BY <1>1, <2>1 DEF Start, StartupProbe, Migrated, StartupReconcile, Listen, Probe, Crash,
                      AdGuardChanges, Goto
  <2>3. \/ UNCHANGED pc
        \/ pc' \notin {"reconcile", "listen", "serving"}
        \/ db.tables = Table \ {"child_clients_new"} /\ db.icon
    BY <1>1, LoopThrough DEF Start, StartupProbe, StartupReconcile, Listen, Probe,
                             Crash, AdGuardChanges, Goto, IInv, ServesOnlyCurrent
  <2> QED BY <2>2, <2>3, DropKeeps
<1>2. CASE ExecStatement \/ CommitFile \/ BeginFile \/ ReadApplied \/ SkipFile
  BY <1>2, ExecStatementKeeps, CommitFileKeeps, BeginFileKeeps, ScanKeeps
<1> QED BY <1>1, <1>2 DEF BootNext, Launch

LEMMA StepIInv == IInv /\ [Next]_homeVars => IInv'
<1> SUFFICES ASSUME IInv, [Next]_homeVars PROVE IInv'
  OBVIOUS
<1>1. CASE ProcessStep
  BY <1>1, ProcessKeeps DEF ProcessStep
<1>2. CASE UNCHANGED <<db, owned, tx, scan, pc>>
  BY <1>2, DropKeeps
<1>3. ASSUME NEW t \in Tab, Handler(t) \/ \E items \in Items : PutRequest(t, items)
      PROVE  IInv'
  <2>1. CASE BeginReplace(t) \/ InsertButton(t) \/ CommitReplace(t)
    BY <2>1, BeginReplaceKeeps, InsertButtonKeeps, CommitReplaceKeeps
  <2>2. CASE PutCheck(t) \/ \E items \in Items : PutRequest(t, items)
    BY <1>2, <2>2 DEF PutCheck, PutRequest, vars
  <2> QED BY <1>3, <2>1, <2>2 DEF Handler
<1> QED BY <1>1, <1>2, <1>3, ChildrenKeep DEF Next, homeVars, vars

LEMMA Invariance == Spec => []IInv
BY InitIInv, StepIInv, PTL DEF Spec

\* Whatever statement an upgrade is cut off at, and however often, the tables
\* are those of the files recorded, a prefix of the list.
THEOREM SchemaRecorded == Spec => []SchemaMatchesRecord
<1>1. IInv => SchemaMatchesRecord
  BY DEF IInv
<1> QED BY <1>1, Invariance, PTL

\* Every child keeps its devices through the rebuilding of child_clients.
THEOREM MappingKept == Spec => []MappingSurvives
<1>1. IInv => MappingSurvives
  BY DEF IInv
<1> QED BY <1>1, Invariance, PTL

\* The engine starts and requests are served only with every table, index and
\* column of every file there, whatever release's database and half-done upgrade
\* migrate's loop began with.
THEOREM OnlyCurrentServed == Spec => []ServesOnlyCurrent
<1>1. IInv => ServesOnlyCurrent
  BY DEF IInv
<1> QED BY <1>1, Invariance, PTL

-----------------------------------------------------------------------------
(* The rows of buttons, and the rest of the types                          *)

Requests == [Tab -> [pc : {"idle", "check", "write"}, items : Items]]
Placed   == [position : 1..MaxItems, child : ChildId, tag : Tag]

\* The first n rows of a list when low is the last id given before it.
Rows(items, n, low) == {Row(items, i, low + i) : i \in 1..n}

ProcessOK ==
  /\ pc \in {"down", "probe", "open", "migrate", "reconcile", "listen", "serving"}
  /\ health \in Reach /\ adguard \in Reach
  /\ crashes \in 0..MaxCrashes /\ events \in 0..MaxEvents

\* Requests live and die with the process; a transaction of one is in its writes.
RequestsOK ==
  /\ put \in Requests
  /\ tx.of \in Tab => put[tx.of].pc = "write"
  /\ pc # "serving" => \A t \in Tab : put[t] = NoPut

\* What is committed: the keys hold, sqlite_sequence is never behind an id that
\* was given, and the list is one PUT's.
TablesOK ==
  /\ db.sequence \in 0..MaxButtons
  /\ \A b \in db.buttons : b \in given /\ b.child \in db.kids
  /\ \A p \in db.pairs : p[2] \in db.kids
  /\ given \subseteq Button /\ \A b \in given : b.id <= db.sequence
  /\ want \subseteq Placed
  /\ ButtonIdsFresh
  /\ ButtonsAreOnePut

\* What is not: an upgrade leaves children and buttons alone; a PUT that has got
\* to its i-th item has written the rows before it, numbered on from what is
\* committed, and each of their children is there.
WritesOK ==
  /\ tx.of = "schema" =>
       /\ tx.work.kids = db.kids /\ tx.work.buttons = db.buttons
       /\ tx.work.sequence = db.sequence
  /\ tx.of \in Tab =>
       LET items == put[tx.of].items
           n == tx.at - 1
       IN  /\ n <= Len(items) /\ db.sequence + Len(items) <= MaxButtons
           /\ tx.work.kids = db.kids
           /\ tx.work.sequence = db.sequence + n
           /\ tx.work.buttons = Rows(items, n, db.sequence)
           /\ \A i \in 1..n : items[i].child \in db.kids

RowsInv == ProcessOK /\ RequestsOK /\ TablesOK /\ WritesOK

LEMMA ItemsType ==
  ASSUME NEW items \in Items
  PROVE  /\ Len(items) \in Nat /\ Len(items) <= MaxItems
         /\ \A i \in 1..Len(items) : items[i] \in Item
<1>1. PICK n \in 0..MaxItems : items \in [1..n -> Item]
  BY DEF Items
<1>2. n \in Nat /\ n <= MaxItems
  <2>1. MaxItems \in Nat
    BY BoundsAssumption
  <2> QED BY <2>1
<1>3. items \in Seq(Item)
  BY <1>1, <1>2
<1>4. Len(items) = n
  BY <1>1, <1>2, <1>3
<1> QED BY <1>1, <1>2, <1>4

LEMMA NoPutType == NoPut \in [pc : {"idle", "check", "write"}, items : Items]
<1>1. <<>> \in [1..0 -> Item] /\ 0 \in 0..MaxItems
  BY BoundsAssumption
<1>2. <<>> \in Items
  BY <1>1 DEF Items
<1> QED BY <1>2 DEF NoPut

\* No statement of an upgrade touches a child, a button or sqlite_sequence.
LEMMA RunSpares ==
  ASSUME NEW d, IsDatabase(d),
         NEW s \in Table \cup {"copy", "drop", "rename", "icon"}
  PROVE  LET e == Run(s, d) IN
         e.kids = d.kids /\ e.buttons = d.buttons /\ e.sequence = d.sequence
<1>1. CASE s \in Table
  <2>1. Run(s, d) = [d EXCEPT !.tables = @ \cup {s}]
    BY <1>1 DEF Run, Table
  <2> QED BY <2>1 DEF IsDatabase
<1>2. CASE s = "copy"
  <2>1. Run(s, d) = [d EXCEPT !.pairsNew = d.pairs]
    BY <1>2 DEF Run, Table
  <2> QED BY <2>1 DEF IsDatabase
<1>3. CASE s = "drop"
  <2>1. Run(s, d) = [d EXCEPT !.tables = @ \ {"child_clients", "child_clients_idx"},
                              !.pairs = {}]
    BY <1>3 DEF Run, Table
  <2> QED BY <2>1 DEF IsDatabase
<1>4. CASE s = "rename"
  <2>1. Run(s, d) =
          [d EXCEPT !.tables = (@ \ {"child_clients_new"}) \cup {"child_clients"},
                    !.pairs = d.pairsNew, !.pairsNew = {}]
    BY <1>4 DEF Run, Table
  <2> QED BY <2>1 DEF IsDatabase
<1>5. CASE s = "icon"
  <2>1. Run(s, d) = [d EXCEPT !.icon = TRUE]
    BY <1>5 DEF Run, Table
  <2> QED BY <2>1 DEF IsDatabase
<1> QED BY <1>1, <1>2, <1>3, <1>4, <1>5

LEMMA StatementKind ==
  ASSUME NEW f \in File, NEW i \in 1..Len(Migrations[f])
  PROVE  Migrations[f][i] \in Table \cup {"copy", "drop", "rename", "icon"}
<1>1. CASE f # 5
  BY <1>1, FileStatements
<1>2. CASE f = 5
  <2>1. i \in {1, 2, 3, 4, 5}
    BY <1>2, Statements
  <2>2. Migrations[5][i] \in {"child_clients_new", "copy", "drop", "rename", "child_clients_idx"}
    BY <2>1, Statements
  <2> QED BY <1>2, <2>2 DEF Table
<1> QED BY <1>1, <1>2

LEMMA RowsEmpty == \A items, low : Rows(items, 0, low) = {}
BY DEF Rows

LEMMA RowsNext ==
  ASSUME NEW items, NEW n \in Nat, NEW low
  PROVE  Rows(items, n + 1, low) = Rows(items, n, low) \cup {Row(items, n + 1, low + (n + 1))}
<1>1. 1..(n + 1) = (1..n) \cup {n + 1}
  OBVIOUS
<1> QED BY <1>1 DEF Rows

-----------------------------------------------------------------------------
(* Steps of the process                                                    *)

\* The process never takes up a request's transaction, and its steps after the
\* start leave "serving" only to go down.
LEMMA ProcessMoves ==
  ASSUME IInv, BootNext
  PROVE  /\ tx'.of \in Tab => UNCHANGED tx
         /\ pc = "serving" => pc' \in {"serving", "down"}
         /\ UNCHANGED db \/ CommitFile
<1> USE NoTxOf
<1>0. tx.of = "schema" => /\ pc = "migrate"
                          /\ tx \in [of : {"schema"}, file : File, at : Nat, work : {tx.work}]
  BY DEF IInv, TxOK
<1>1. CASE Start \/ StartupProbe \/ Migrated \/ StartupReconcile \/ Listen \/ Probe
           \/ Crash \/ \E a \in Reach : AdGuardChanges(a)
  BY <1>1 DEF Start, StartupProbe, Migrated, StartupReconcile, Listen, Probe, Crash,
              AdGuardChanges, Goto
<1>2. CASE BeginFile \/ ReadApplied \/ SkipFile
  <2>1. pc # "serving" /\ UNCHANGED db /\ (UNCHANGED tx \/ tx'.of = "schema")
    BY <1>2 DEF BeginFile, ReadApplied, SkipFile, InLoop
  <2> QED BY <2>1
<1>3. CASE ExecStatement
  <2>1. tx.of = "schema" /\ pc = "migrate" /\ UNCHANGED db
    BY <1>0, <1>3 DEF ExecStatement
  <2>2. tx'.of \in {"none", "schema"}
    BY <1>0, <1>3, <2>1 DEF ExecStatement
  <2> QED BY <2>1, <2>2
<1>4. CASE CommitFile
  BY <1>0, <1>4 DEF CommitFile
<1> QED BY <1>1, <1>2, <1>3, <1>4 DEF BootNext, Launch

LEMMA ProcessTypes ==
  ASSUME IInv, ProcessOK, BootNext
  PROVE  ProcessOK'
<1>0. MaxCrashes \in Nat /\ MaxEvents \in Nat
  BY BoundsAssumption
<1>1. CASE Start \/ StartupProbe \/ Migrated \/ StartupReconcile \/ Listen \/ Probe
  BY <1>1 DEF Start, StartupProbe, Migrated, StartupReconcile, Listen, Probe, Goto,
              ProcessOK, Reach
<1>2. CASE Crash
  BY <1>0, <1>2 DEF Crash, Goto, ProcessOK
<1>3. ASSUME NEW a \in Reach, AdGuardChanges(a) PROVE ProcessOK'
  BY <1>0, <1>3 DEF AdGuardChanges, Event, ProcessOK
<1>4. CASE ExecStatement \/ CommitFile \/ BeginFile \/ ReadApplied \/ SkipFile
  BY <1>4 DEF ExecStatement, CommitFile, BeginFile, ReadApplied, SkipFile, Goto, ProcessOK
<1> QED BY <1>1, <1>2, <1>3, <1>4 DEF BootNext, Launch

\* A step that leaves children, their rows, the sequence and the history alone.
LEMMA TablesKept ==
  ASSUME TablesOK, UNCHANGED <<want, given>>, db'.kids = db.kids, db'.pairs = db.pairs,
         db'.buttons = db.buttons, db'.sequence = db.sequence
  PROVE  TablesOK'
<1>1. ButtonIdsFresh'
  BY DEF TablesOK, ButtonIdsFresh
<1>2. ButtonsAreOnePut'
  BY DEF TablesOK, ButtonsAreOnePut
<1> QED BY <1>1, <1>2 DEF TablesOK

\* A step that drops the transaction, or leaves it, its list and the tables it
\* builds on alone.
LEMMA WritesKept ==
  ASSUME WritesOK,
         \/ tx' = NoTx
         \/ UNCHANGED <<db, tx>> /\ (tx.of \in Tab => put'[tx.of].items = put[tx.of].items)
  PROVE  WritesOK'
BY NoTxOf DEF WritesOK

LEMMA ProcessRows ==
  ASSUME IInv, IInv', RowsInv, ProcessStep
  PROVE  RowsInv'
<1>1. BootNext /\ UNCHANGED <<want, given>>
      /\ put' = IF pc' = "down" THEN [t \in Tab |-> NoPut] ELSE put
  BY DEF ProcessStep
<1>2. ProcessOK'
  BY <1>1, ProcessTypes DEF RowsInv
<1>3. RequestsOK'
  <2>1. put \in Requests /\ put' \in Requests
    BY <1>1, NoPutType DEF RowsInv, RequestsOK, Requests
  <2>2. tx'.of \in Tab => put'[tx'.of].pc = "write"
    <3>1. tx'.of \in Tab => tx' = tx /\ pc' = "serving"
      BY <1>1, ProcessMoves DEF IInv, TxOK
    <3> QED BY <1>1, <3>1 DEF RowsInv, RequestsOK
  <2>3. pc' # "serving" => \A t \in Tab : put'[t] = NoPut
    <3>1. pc' # "serving" /\ pc' # "down" => pc # "serving"
      BY <1>1, ProcessMoves
    <3> QED BY <1>1, <3>1 DEF RowsInv, RequestsOK
  <2> QED BY <2>1, <2>2, <2>3 DEF RequestsOK
<1>4. TablesOK'
  <2>1. CASE UNCHANGED db
    BY <1>1, <2>1, TablesKept DEF RowsInv
  <2>2. CASE CommitFile
    <3> DEFINE w == tx.work
    <3>1. /\ IsDatabase(w) /\ w.kids = db.kids /\ w.buttons = db.buttons
          /\ w.sequence = db.sequence
      BY <2>2, NoTxOf DEF CommitFile, IInv, TxOK, RowsInv, WritesOK
    <3>2. db' = [w EXCEPT !.recorded = @ \cup {tx.file}] /\ owned' = owned
      BY <2>2 DEF CommitFile
    <3> HIDE DEF w
    <3>3. db'.kids = db.kids /\ db'.buttons = db.buttons /\ db'.sequence = db.sequence
      BY <3>1, <3>2 DEF IsDatabase
    <3>4. db'.pairs = db.pairs
      BY <3>2 DEF IInv, MappingSurvives
    <3> QED BY <1>1, <3>3, <3>4, TablesKept DEF RowsInv
  <2> QED BY <1>1, <2>1, <2>2, ProcessMoves
<1>5. WritesOK'
  <2>1. CASE Start \/ StartupProbe \/ ReadApplied \/ SkipFile \/ Migrated \/ StartupReconcile
             \/ Listen \/ Probe \/ Crash \/ CommitFile \/ \E a \in Reach : AdGuardChanges(a)
    <3>1. tx' = NoTx \/ UNCHANGED <<db, tx>>
      BY <2>1 DEF ReadApplied, SkipFile, Start, StartupProbe, Migrated, StartupReconcile, Listen, Probe, Crash,
                  CommitFile, AdGuardChanges
    <3>2. CASE UNCHANGED <<db, tx>>
      <4>1. tx.of \in Tab => pc' = "serving"
        BY <3>2 DEF IInv, TxOK
      <4>2. tx.of \in Tab => put' = put
        BY <1>1, <4>1
      <4> QED BY <3>2, <4>2, WritesKept DEF RowsInv
    <3> QED BY <3>1, <3>2, WritesKept DEF RowsInv
  <2>2. CASE BeginFile
    <3>1. tx' = [of |-> "schema", file |-> scan.next, at |-> 1, work |-> db] /\ UNCHANGED db
      BY <2>2 DEF BeginFile
    <3>2. tx'.of = "schema" /\ tx'.work = db'
      BY <3>1
    <3> QED BY <3>2, NoTxOf DEF WritesOK
  <2>3. CASE ExecStatement
    <3> DEFINE w == Run(Statement, tx.work)
    <3>1. tx.of = "schema" /\ tx.at <= Len(Migrations[tx.file]) /\ UNCHANGED db
      BY <2>3 DEF ExecStatement
    <3>2. /\ tx \in [of : {"schema"}, file : File, at : Nat, work : {tx.work}]
          /\ tx.file \in File /\ tx.at \in 1..Len(Migrations[tx.file]) /\ IsDatabase(tx.work)
      <4>1. tx \in [of : {"schema"}, file : File, at : Nat, work : {tx.work}]
            /\ tx.at \in 1..(Len(Migrations[tx.file]) + 1) /\ IsDatabase(tx.work)
        BY <3>1, NoTxOf DEF IInv, TxOK
      <4>2. tx.file \in File /\ tx.at \in Nat /\ Len(Migrations[tx.file]) \in Nat
        BY <4>1, Statements
      <4> QED BY <3>1, <4>1, <4>2
    <3>3. Statement \in Table \cup {"copy", "drop", "rename", "icon"}
      BY <3>2, StatementKind DEF Statement
    <3>4. w.kids = tx.work.kids /\ w.buttons = tx.work.buttons
          /\ w.sequence = tx.work.sequence
      BY <3>2, <3>3, RunSpares
    <3> HIDE DEF w
    <3>5. tx' = NoTx \/ (tx'.of = "schema" /\ tx'.work = w)
      BY <2>3, <3>2 DEF ExecStatement, w
    <3>6. CASE tx'.of = "schema" /\ tx'.work = w
      BY <3>1, <3>4, <3>6, NoTxOf DEF RowsInv, WritesOK
    <3> QED BY <3>5, <3>6, WritesKept DEF RowsInv
  <2> QED BY <1>1, <2>1, <2>2, <2>3 DEF BootNext, Launch
<1> QED BY <1>2, <1>3, <1>4, <1>5 DEF RowsInv

-----------------------------------------------------------------------------
(* Children come and go                                                    *)

LEMMA EventType ==
  ASSUME ProcessOK, Event, UNCHANGED process
  PROVE  ProcessOK'
<1>1. MaxEvents \in Nat
  BY BoundsAssumption
<1> QED BY <1>1 DEF ProcessOK, Event, process

\* The rows of a deleted child leave the table and the list alike.
LEMMA DeleteChildRows ==
  ASSUME IInv, RowsInv, NEW k \in ChildId, DeleteChild(k)
  PROVE  RowsInv'
<1> DEFINE P == {p \in db.pairs : p[2] # k}
           K == db.kids \ {k}
           B == Without(k, db.buttons)
<1>1. /\ tx = NoTx /\ UNCHANGED <<tx, pc, put, given>> /\ Event /\ UNCHANGED process
      /\ want' = Without(k, want)
      /\ db' = [db EXCEPT !.kids = K, !.pairs = P, !.buttons = B]
  BY DEF DeleteChild, Free, Cascade, process
<1>2. IsDatabase(db) /\ TablesOK
  BY DEF IInv, TxOK, RowsInv
<1> HIDE DEF P, K, B
<1>3. db'.kids = K /\ db'.pairs = P /\ db'.buttons = B /\ db'.sequence = db.sequence
  BY <1>1, <1>2 DEF IsDatabase
<1>4. \A b \in B : b \in db.buttons /\ b.child # k
  BY DEF B, Without
<1>5. ButtonsAreOnePut'
  <2>1. {PlaceOf(b) : b \in db.buttons} = want
    BY <1>2 DEF TablesOK, ButtonsAreOnePut, PlaceOf
  <2>2. \A b : PlaceOf(b).child = b.child
    BY DEF PlaceOf
  <2>3. {PlaceOf(b) : b \in B} = Without(k, want)
    <3> HIDE DEF PlaceOf
    <3> QED BY <2>1, <2>2 DEF B, Without
  <2>4. \A a, b \in B : a.position = b.position => a = b
    BY <1>2, <1>4 DEF TablesOK, ButtonsAreOnePut
  <2> QED BY <1>1, <1>3, <2>3, <2>4 DEF ButtonsAreOnePut, PlaceOf
<1>6. ButtonIdsFresh'
  BY <1>1, <1>2 DEF TablesOK, ButtonIdsFresh
<1>7. TablesOK'
  <2>1. \A b \in B : b \in given /\ b.child \in K
    BY <1>2, <1>4 DEF TablesOK, K
  <2>2. \A p \in P : p[2] \in K
    BY <1>2 DEF TablesOK, P, K
  <2>3. want' \subseteq want
    BY <1>1 DEF Without
  <2> QED BY <1>1, <1>2, <1>3, <1>5, <1>6, <2>1, <2>2, <2>3 DEF TablesOK
<1>8. ProcessOK' /\ RequestsOK' /\ WritesOK'
  BY <1>1, EventType, WritesKept DEF RowsInv, RequestsOK
<1> QED BY <1>7, <1>8 DEF RowsInv

LEMMA CreateChildRows ==
  ASSUME IInv, RowsInv, NEW k \in ChildId, NEW C \in SUBSET Client, CreateChild(k, C)
  PROVE  RowsInv'
<1> DEFINE P == db.pairs \cup (C \X {k})
           K == db.kids \cup {k}
<1>1. /\ tx = NoTx /\ UNCHANGED <<tx, pc, put, want, given>> /\ Event /\ UNCHANGED process
      /\ db' = [db EXCEPT !.kids = K, !.pairs = P]
  BY DEF CreateChild, Free, process
<1>2. IsDatabase(db) /\ TablesOK
  BY DEF IInv, TxOK, RowsInv
<1> HIDE DEF P, K
<1>3. db'.kids = K /\ db'.pairs = P /\ db'.buttons = db.buttons
      /\ db'.sequence = db.sequence
  BY <1>1, <1>2 DEF IsDatabase
<1>4. \A p \in P : p[2] \in K
  BY <1>2 DEF TablesOK, P, K
<1>5. ButtonIdsFresh' /\ ButtonsAreOnePut'
  BY <1>1, <1>2, <1>3 DEF TablesOK, ButtonIdsFresh, ButtonsAreOnePut
<1>6. \A b \in db.buttons : b \in given /\ b.child \in K
  BY <1>2 DEF TablesOK, K
<1>7. TablesOK'
  BY <1>1, <1>2, <1>3, <1>4, <1>5, <1>6 DEF TablesOK
<1>8. ProcessOK' /\ RequestsOK' /\ WritesOK'
  BY <1>1, EventType, WritesKept DEF RowsInv, RequestsOK
<1> QED BY <1>7, <1>8 DEF RowsInv

-----------------------------------------------------------------------------
(* Requests write the list                                                 *)

\* A request that begins, is checked or answered outside a transaction.
LEMMA RequestMoves ==
  ASSUME RowsInv, NEW t \in Tab, pc = "serving", tx = NoTx \/ tx.of # t,
         NEW r \in [pc : {"idle", "check", "write"}, items : Items],
         put' = [put EXCEPT ![t] = r], UNCHANGED <<vars, want, given>>
  PROVE  RowsInv'
<1>1. put \in Requests
  BY DEF RowsInv, RequestsOK
<1>2. put' \in Requests /\ \A s \in Tab \ {t} : put'[s] = put[s]
  BY <1>1 DEF Requests
<1>3. tx.of \in Tab => put'[tx.of] = put[tx.of]
  BY <1>2, NoTxOf
<1>4. RequestsOK'
  BY <1>2, <1>3 DEF RowsInv, RequestsOK, vars
<1>5. ProcessOK' /\ TablesOK'
  BY TablesKept DEF RowsInv, ProcessOK, vars
<1>6. WritesOK'
  BY <1>3, WritesKept DEF RowsInv, vars
<1> QED BY <1>4, <1>5, <1>6 DEF RowsInv

LEMMA PutRequestRows ==
  ASSUME RowsInv, NEW t \in Tab, NEW items \in Items, PutRequest(t, items)
  PROVE  RowsInv'
<1>1. tx = NoTx \/ tx.of # t
  BY DEF PutRequest, NoPut, RowsInv, RequestsOK
<1> QED BY <1>1, RequestMoves DEF PutRequest

LEMMA PutCheckRows ==
  ASSUME RowsInv, NEW t \in Tab, PutCheck(t)
  PROVE  RowsInv'
<1>1. put \in Requests /\ put[t] \in [pc : {"idle", "check", "write"}, items : Items]
  BY DEF RowsInv, RequestsOK, Requests
<1>2. CASE Answer(t)
  BY <1>2, NoPutType, RequestMoves DEF PutCheck, Answer, Free
<1>3. CASE PutGoto(t, "write")
  <2> DEFINE r == [pc |-> "write", items |-> put[t].items]
  <2>1. r \in [pc : {"idle", "check", "write"}, items : Items]
    BY <1>1
  <2>2. [put[t] EXCEPT !.pc = "write"] = r
    BY <1>1
  <2>3. put' = [put EXCEPT ![t] = r]
    BY <1>1, <1>3, <2>2 DEF PutGoto, Requests
  <2> HIDE DEF r
  <2> QED BY <2>1, <2>3, RequestMoves DEF PutCheck, Free
<1> QED BY <1>2, <1>3 DEF PutCheck

LEMMA BeginReplaceRows ==
  ASSUME IInv, RowsInv, NEW t \in Tab, BeginReplace(t)
  PROVE  RowsInv'
<1> DEFINE w == [db EXCEPT !.buttons = {}]
<1>1. /\ tx' = [of |-> t, at |-> 1, work |-> w] /\ pc = "serving" /\ put[t].pc = "write"
      /\ UNCHANGED <<db, pc, health, adguard, crashes, events, put, want, given>>
      /\ db.sequence + Len(put[t].items) <= MaxButtons
  BY DEF BeginReplace, Free, process
<1>2. IsDatabase(db) /\ w.kids = db.kids /\ w.buttons = {} /\ w.sequence = db.sequence
      /\ db.sequence \in Nat
  BY DEF IInv, TxOK, IsDatabase
<1> HIDE DEF w
<1>3. tx'.of = t /\ tx'.work = w /\ tx'.at = 1 /\ t \notin {"none", "schema"}
  BY <1>1, TabAssumption
<1>4. put[t].items \in Items
  BY DEF RowsInv, RequestsOK, Requests
<1>5. WritesOK'
  <2>1. 1 - 1 = 0 /\ 0 <= Len(put[t].items) /\ 1..0 = {} /\ db.sequence + 0 = db.sequence
    BY <1>2, <1>4, ItemsType
  <2>2. w.buttons = Rows(put[t].items, 0, db.sequence)
    BY <1>2, RowsEmpty
  <2> QED BY <1>1, <1>2, <1>3, <2>1, <2>2 DEF WritesOK
<1>6. ProcessOK' /\ RequestsOK' /\ TablesOK'
  BY <1>1, <1>3, TablesKept DEF RowsInv, ProcessOK, RequestsOK
<1> QED BY <1>5, <1>6 DEF RowsInv

\* A request that answers as its transaction ends without a commit.
LEMMA RollBackRows ==
  ASSUME RowsInv, NEW t \in Tab, Answer(t), pc = "serving", tx' = NoTx,
         UNCHANGED <<db, process, events, want, given>>
  PROVE  RowsInv'
<1>1. put \in Requests
  BY DEF RowsInv, RequestsOK
<1>2. put' \in Requests /\ pc' = "serving"
  BY <1>1, NoPutType DEF Requests, Answer, process
<1>3. RequestsOK'
  BY <1>2, NoTxOf DEF RequestsOK
<1>4. ProcessOK' /\ TablesOK' /\ WritesOK'
  BY TablesKept, WritesKept DEF RowsInv, ProcessOK, process
<1> QED BY <1>3, <1>4 DEF RowsInv

LEMMA InsertButtonRows ==
  ASSUME IInv, RowsInv, NEW t \in Tab, InsertButton(t)
  PROVE  RowsInv'
<1> DEFINE items == put[t].items
           i == tx.at
           w == tx.work
           v == Inserted(w, items, i)
           low == db.sequence
<1>1. tx.of = t /\ i <= Len(items) /\ pc = "serving" /\ i \in Nat \ {0}
      /\ UNCHANGED <<db, process, events, want, given>>
  BY TabTx DEF InsertButton
<1>2. CASE tx' = NoTx /\ Answer(t)
  BY <1>1, <1>2, RollBackRows
<1>3. CASE /\ items[i].child \in w.kids /\ UNCHANGED put
           /\ tx' = [tx EXCEPT !.at = @ + 1, !.work = Inserted(@, items, tx.at)]
  <2>1. tx' = [of |-> t, at |-> i + 1, work |-> v] /\ IsDatabase(w)
    <3>1. tx = [of |-> t, at |-> i, work |-> w] /\ IsDatabase(w)
      BY <1>1, TabTx
    <3>2. tx' = [tx EXCEPT !.at = i + 1, !.work = v]
      BY <1>3
    <3> HIDE DEF v, i, w
    <3> QED BY <3>1, <3>2
  <2>2. items \in Items /\ put[t].pc = "write"
    BY <1>1 DEF RowsInv, RequestsOK, Requests
  <2>3. Len(items) \in Nat /\ low \in Nat
    BY <2>2, ItemsType DEF IInv, TxOK, IsDatabase
  <2>4. /\ low + Len(items) <= MaxButtons /\ w.kids = db.kids
        /\ w.sequence = low + (i - 1) /\ w.buttons = Rows(items, i - 1, low)
        /\ \A j \in 1..(i - 1) : items[j].child \in db.kids
    BY <1>1 DEF RowsInv, WritesOK
  <2>5. /\ v.kids = w.kids /\ v.sequence = w.sequence + 1
        /\ v.buttons = w.buttons \cup {Row(items, i, w.sequence + 1)}
    BY <2>1, InsertedIs
  <2>6. tx'.of = t /\ tx'.at = i + 1 /\ tx'.work = v /\ t \notin {"none", "schema"}
    BY <2>1, TabAssumption
  <2>7. put' = put /\ db' = db
    BY <1>1, <1>3
  <2> HIDE DEF items, i, w, v, low
  <2>8. /\ (i + 1) - 1 = i /\ i - 1 \in Nat /\ (i - 1) + 1 = i
        /\ w.sequence + 1 = low + i
    BY <1>1, <2>3, <2>4
  <2>9. v.sequence = low + i /\ v.buttons = Rows(items, i, low)
    <3>1. Rows(items, (i - 1) + 1, low)
            = Rows(items, i - 1, low) \cup {Row(items, (i - 1) + 1, low + ((i - 1) + 1))}
      BY <2>8, RowsNext
    <3> QED BY <2>4, <2>5, <2>8, <3>1
  <2>10. \A j \in 1..i : items[j].child \in db.kids
    <3>1. 1..i = (1..(i - 1)) \cup {i}
      BY <1>1
    <3> QED BY <1>3, <2>4, <3>1
  <2>11. WritesOK'
    BY <1>1, <2>4, <2>5, <2>6, <2>7, <2>8, <2>9, <2>10 DEF WritesOK, items, low
  <2>12. RequestsOK'
    BY <1>1, <2>2, <2>6, <2>7 DEF RowsInv, RequestsOK, process
  <2>13. ProcessOK' /\ TablesOK'
    BY <1>1, TablesKept DEF RowsInv, ProcessOK, process
  <2> QED BY <2>11, <2>12, <2>13 DEF RowsInv
<1> QED BY <1>1, <1>2, <1>3 DEF InsertButton

\* The rows of a list are buttons, all new, and in the list's places.
LEMMA RowsAre ==
  ASSUME NEW items \in Items, NEW low \in Nat, low + Len(items) <= MaxButtons
  PROVE  LET R == Rows(items, Len(items), low) IN
         /\ R \subseteq Button
         /\ \A b \in R : b.id \in Nat /\ low < b.id /\ b.id <= low + Len(items)
         /\ \A a, b \in R : a.id = b.id \/ a.position = b.position => a = b
         /\ {PlaceOf(b) : b \in R} = Places(items)
<1> DEFINE L == Len(items)
           R == Rows(items, L, low)
           row(i) == Row(items, i, low + i)
<1>1. L \in Nat /\ L <= MaxItems /\ \A i \in 1..L : items[i] \in Item
  BY ItemsType
<1>2. /\ MaxButtons \in Nat /\ low + L <= MaxButtons /\ R = {row(i) : i \in 1..L}
      /\ Places(items) = {Place(items, i) : i \in 1..L}
  BY BoundsAssumption DEF Rows, Places
<1> HIDE DEF L, R
<1>3. \A i \in 1..L : /\ row(i).id = low + i /\ row(i).position = i
                      /\ row(i).child = items[i].child /\ row(i).tag = items[i].tag
  BY DEF Row
<1>4. \A i \in 1..L : row(i) \in Button
  <2> SUFFICES ASSUME NEW i \in 1..L PROVE row(i) \in Button
    OBVIOUS
  <2>1. low + i \in 1..MaxButtons /\ i \in 1..MaxItems
    BY <1>1, <1>2, BoundsAssumption
  <2>2. items[i].child \in ChildId /\ items[i].tag \in Tag
    BY <1>1 DEF Item
  <2> QED BY <2>1, <2>2 DEF Row, Button
<1>5. \A i \in 1..L : PlaceOf(row(i)) = Place(items, i)
  BY <1>3 DEF PlaceOf, Place
<1>6. \A i \in 1..L : low + i \in Nat /\ low < low + i /\ low + i <= low + L
  BY <1>1
<1>7. \A i, j \in 1..L : low + i = low + j => i = j
  BY <1>1
<1> HIDE DEF row
<1>8. R \subseteq Button
  BY <1>2, <1>4
<1>9. \A b \in R : b.id \in Nat /\ low < b.id /\ b.id <= low + L
  BY <1>2, <1>3, <1>6
<1>10. \A a, b \in R : a.id = b.id \/ a.position = b.position => a = b
  BY <1>2, <1>3, <1>7
<1>11. {PlaceOf(b) : b \in R} = Places(items)
  <2>1. {PlaceOf(b) : b \in R} = {PlaceOf(row(i)) : i \in 1..L}
    BY <1>2
  <2> QED BY <1>2, <1>5, <2>1
<1> QED BY <1>8, <1>9, <1>10, <1>11 DEF R, L

\* A commit puts one whole list in the place of another.
LEMMA CommitReplaceRows ==
  ASSUME IInv, RowsInv, NEW t \in Tab, CommitReplace(t)
  PROVE  RowsInv'
<1> DEFINE items == put[t].items
           L == Len(items)
           low == db.sequence
           R == Rows(items, L, low)
<1>1. tx.of = t /\ tx.at > L /\ tx' = NoTx /\ Answer(t) /\ UNCHANGED <<process, events>>
      /\ pc = "serving" /\ tx.at \in Nat
  BY TabTx DEF CommitReplace
<1>2. CASE UNCHANGED <<db, want, given>>
  BY <1>1, <1>2, RollBackRows
<1>3. CASE db' = tx.work /\ want' = Places(items) /\ given' = given \cup tx.work.buttons
  <2>1. put \in Requests /\ items \in Items
    BY DEF RowsInv, RequestsOK, Requests
  <2>2. L \in Nat /\ L <= MaxItems /\ low \in Nat /\ MaxButtons \in Nat
        /\ \A i \in 1..L : items[i] \in Item
    BY <2>1, ItemsType, BoundsAssumption DEF IInv, TxOK, IsDatabase
  <2>3. LET n == tx.at - 1 IN
        /\ n <= L /\ low + L <= MaxButtons /\ tx.work.kids = db.kids
        /\ tx.work.sequence = low + n /\ tx.work.buttons = Rows(items, n, low)
        /\ \A i \in 1..n : items[i].child \in db.kids
    BY <1>1 DEF RowsInv, WritesOK
  <2>4. tx.at - 1 = L
    BY <1>1, <2>2, <2>3
  <2>5. /\ db'.kids = db.kids /\ db'.sequence = low + L /\ db'.buttons = R
        /\ db'.pairs = db.pairs /\ \A i \in 1..L : items[i].child \in db.kids
        /\ low + L <= MaxButtons /\ given' = given \cup R
    BY <1>1, <1>3, <2>3, <2>4, TabTx
  <2>6. /\ R \subseteq Button
        /\ \A b \in R : b.id \in Nat /\ low < b.id /\ b.id <= low + L
        /\ \A a, b \in R : a.id = b.id \/ a.position = b.position => a = b
        /\ {PlaceOf(b) : b \in R} = Places(items)
    BY <2>1, <2>2, <2>5, RowsAre
  <2>7. \A b \in R : \E i \in 1..L : b.child = items[i].child
    BY DEF Rows, Row
  <2>8. Places(items) \subseteq Placed
    <3> SUFFICES ASSUME NEW i \in 1..L PROVE Place(items, i) \in Placed
      BY DEF Places
    <3>1. i \in 1..MaxItems /\ items[i].child \in ChildId /\ items[i].tag \in Tag
      BY <2>2, BoundsAssumption DEF Item
    <3> QED BY <3>1 DEF Place, Placed
  <2>9. \A b \in given : b \in Button /\ b.id \in Nat /\ b.id <= low
    <3>1. \A b \in Button : b.id \in Nat
      BY <2>2 DEF Button
    <3> QED BY <3>1 DEF RowsInv, TablesOK
  <2> HIDE DEF R, low, L, items
  <2>10. ButtonIdsFresh'
    <3>1. \A a \in given, b \in R : a.id # b.id
      BY <2>2, <2>6, <2>9
    <3> QED BY <2>5, <2>6, <3>1 DEF RowsInv, TablesOK, ButtonIdsFresh
  <2>11. ButtonsAreOnePut'
    BY <1>3, <2>5, <2>6 DEF ButtonsAreOnePut, PlaceOf
  <2>12. TablesOK'
    <3>1. \A b \in R : b \in given' /\ b.child \in db'.kids
      BY <2>5, <2>7
    <3>2. \A b \in given' : b \in Button /\ b.id <= db'.sequence
      BY <2>2, <2>5, <2>6, <2>9
    <3>3. db'.sequence \in 0..MaxButtons
      BY <2>2, <2>5
    <3> QED BY <1>3, <2>5, <2>8, <2>10, <2>11, <3>1, <3>2, <3>3 DEF RowsInv, TablesOK
  <2>13. RequestsOK'
    <3>1. put' \in Requests /\ pc' = "serving"
      BY <1>1, <2>1, NoPutType DEF Requests, Answer, process
    <3> QED BY <1>1, <3>1, NoTxOf DEF RequestsOK
  <2>14. ProcessOK' /\ WritesOK'
    BY <1>1, WritesKept DEF RowsInv, ProcessOK, process
  <2> QED BY <2>12, <2>13, <2>14 DEF RowsInv
<1> QED BY <1>2, <1>3 DEF CommitReplace

-----------------------------------------------------------------------------
LEMMA InitRows == Init => RowsInv
<1> SUFFICES ASSUME Init PROVE RowsInv
  OBVIOUS
<1>1. PICK n \in 0..6 : db \in Installed(n)
  BY Statements DEF Init, BootInit
<1>2. /\ db.buttons \subseteq Button /\ db.sequence \in 0..MaxButtons
      /\ \A p \in db.pairs : p[2] \in db.kids
      /\ \A b \in db.buttons : b.child \in db.kids
      /\ OneList(db.buttons, db.sequence)
  <2>1. MaxButtons \in Nat
    BY BoundsAssumption
  <2>2. db.buttons \in (IF n >= 4 THEN Lists ELSE {{}})
        /\ db.sequence \in (IF n >= 4 THEN 0..MaxButtons ELSE {0})
    BY <1>1 DEF Installed
  <2>3. db.buttons \subseteq Button /\ db.sequence \in 0..MaxButtons
    BY <2>1, <2>2 DEF Lists
  <2> QED BY <1>1, <2>3 DEF Installed
<1>3. TablesOK
  <2>1. PICK low \in 0..db.sequence :
          \A b \in db.buttons : b.id = low + b.position /\ b.id <= db.sequence
    BY <1>2 DEF OneList
  <2>2. ButtonIdsFresh
    BY <1>2 DEF Init, ButtonIdsFresh, OneList
  <2>3. \A a, b \in db.buttons : a.position = b.position => a = b
    BY <1>2, <2>1 DEF OneList
  <2>4. \A b \in db.buttons : PlaceOf(b) \in Placed
    BY <1>2 DEF Button, PlaceOf, Placed
  <2>5. ButtonsAreOnePut /\ want \subseteq Placed
    BY <2>3, <2>4 DEF Init, ButtonsAreOnePut
  <2> QED BY <1>2, <2>1, <2>2, <2>5 DEF Init, TablesOK
<1>4. ProcessOK
  BY BoundsAssumption DEF Init, BootInit, ProcessOK, Reach
<1>5. RequestsOK /\ WritesOK
  BY NoTxOf, NoPutType DEF Init, BootInit, RequestsOK, Requests, WritesOK
<1> QED BY <1>3, <1>4, <1>5 DEF RowsInv

LEMMA StepRows == IInv /\ IInv' /\ RowsInv /\ [Next]_homeVars => RowsInv'
<1> SUFFICES ASSUME IInv, IInv', RowsInv, [Next]_homeVars PROVE RowsInv'
  OBVIOUS
<1>1. CASE UNCHANGED homeVars
  <2>1. ProcessOK' /\ RequestsOK'
    BY <1>1 DEF RowsInv, ProcessOK, RequestsOK, homeVars, vars
  <2>2. TablesOK' /\ WritesOK'
    BY <1>1, TablesKept, WritesKept DEF RowsInv, homeVars, vars
  <2> QED BY <2>1, <2>2 DEF RowsInv
<1>2. ASSUME NEW t \in Tab, Handler(t) \/ \E items \in Items : PutRequest(t, items)
      PROVE  RowsInv'
  BY <1>2, PutRequestRows, PutCheckRows, BeginReplaceRows, InsertButtonRows,
     CommitReplaceRows DEF Handler
<1> QED BY <1>1, <1>2, ProcessRows, DeleteChildRows, CreateChildRows DEF Next

LEMMA RowsInvariance == Spec => [](IInv /\ RowsInv)
BY InitIInv, StepIInv, InitRows, StepRows, PTL DEF Spec

\* The types, the keys and the foreign keys hold, and requests live and die with
\* the process, for any number of devices, children, ids, requests, crashes and
\* events.
THEOREM TypeCorrect == Spec => []TypeOK
<1>1. IInv /\ RowsInv => TypeOK
  <2> SUFFICES ASSUME IInv, RowsInv PROVE TypeOK
    OBVIOUS
  <2>1. db \in Database
    <3>1. db.buttons \in SUBSET Button /\ db.sequence \in 0..MaxButtons
      BY DEF RowsInv, TablesOK
    <3> QED BY <3>1 DEF IInv, TxOK, IsDatabase, Database
  <2>2. /\ pc \in {"down", "probe", "open", "reconcile", "listen"} => tx = NoTx
        /\ scan \in [applied : SUBSET File, next : 1..(Len(Migrations) + 1)]
    BY Statements DEF IInv, TxOK, ScanOK
  <2>3. owned \subseteq Client \X ChildId
    BY DEF IInv, TxOK, IsDatabase, MappingSurvives
  <2>4. BootTypeOK
    BY <2>1, <2>2, <2>3 DEF BootTypeOK, RowsInv, ProcessOK
  <2>5. tx.of \in Tab => pc = "serving" /\ put[tx.of].pc = "write"
    BY DEF IInv, TxOK, RowsInv, RequestsOK
  <2>6. \A a, b \in db.buttons : a.id = b.id => a = b
    BY DEF RowsInv, TablesOK, ButtonIdsFresh
  <2> QED BY <2>4, <2>5, <2>6
          DEF TypeOK, RowsInv, RequestsOK, TablesOK, Requests, Placed
<1> QED BY <1>1, RowsInvariance, PTL

\* The list is always one PUT's, whole and in order, but for the buttons of
\* children deleted since, wherever requests, deletions and crashes come between
\* the writes of another PUT.
THEOREM OnePut == Spec => []ButtonsAreOnePut
<1>1. RowsInv => ButtonsAreOnePut
  BY DEF RowsInv, TablesOK
<1> QED BY <1>1, RowsInvariance, PTL

\* An id never comes to mean another button, for any number of PUTs, requests
\* in flight, deletions and crashes: AUTOINCREMENT moves on with each commit,
\* and a list in the making has taken only ids beyond it.
THEOREM IdsFresh == Spec => []ButtonIdsFresh
<1>1. RowsInv => ButtonIdsFresh
  BY DEF RowsInv, TablesOK
<1> QED BY <1>1, RowsInvariance, PTL
=============================================================================
