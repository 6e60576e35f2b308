---------------------------- MODULE GrantsProofs ----------------------------
(***************************************************************************)
(* Proofs about the grant engine, for any number of grants, children,      *)
(* clients and services, any horizon and any mix of faults.                *)
(***************************************************************************)
EXTENDS Grants, TLAPS

\* Some active grant other than g covers s on c.
HeldByOther(g, c, s) == \E h \in GrantId \ {g} : Covers(h, c, s)

\* Between operations nothing of one is left over, and the grant an operation
\* works on stays active, and out of the queue, until its status is set.
OpState ==
  /\ pc \in {"idle", "pass_read", "pass"} => cur = NoGrant
  /\ pc \notin {"idle", "pass_read", "pass"} => cur \in Active
  /\ pc = "idle" => queue = {}
  /\ queue \subseteq Active /\ cur \notin queue

\* What is about to be unblocked is covered by the grant in hand.
PlanCovered ==
  pc \in {"unblock", "repair"} =>
    \A c \in Client, s \in Service : s \in plan[c] => Covers(cur, c, s)

\* While a revert has not failed, each lifted block of its grant is still to
\* be written back or is held open by another grant.
RevertPending ==
  pc = "revert" /\ ~failed =>
    \A c \in Client, s \in Service :
      <<c, s>> \in owed /\ Covers(cur, c, s) =>
        s \in plan[c] \/ HeldByOther(cur, c, s)

\* A client deleted in AdGuard takes its lifted blocks with it.
OwedPresent == \A c \in Client, s \in Service : <<c, s>> \in owed => c \in present

OwedCovered ==
  \A c \in Client, s \in Service :
    <<c, s>> \in owed => \E g \in GrantId : Covers(g, c, s)

IInv == /\ TypeOK /\ OpState /\ PlanCovered /\ RevertPending
        /\ OwedPresent /\ OwedCovered

-----------------------------------------------------------------------------
(* Type correctness                                                        *)

USE DEF store, adguard, engine, vars

LEMMA NoPlanType == NoPlan \in [Client -> SUBSET Service]
BY DEF NoPlan

LEMMA NoSnapType ==
  NoSnap \in [present : SUBSET Client, global : SUBSET Client,
              blocked : [Client -> SUBSET Service], at : 0..MaxTime]
BY NoPlanType, BoundsAssumption DEF NoSnap

LEMMA PlanTypes ==
  ASSUME TypeOK, NEW g \in GrantId
  PROVE  /\ RevertPlan(g) \in [Client -> SUBSET Service]
         /\ UnblockPlan(g) \in [Client -> SUBSET Service]
         /\ DriftPlan(g) \in [Client -> SUBSET Service]
BY DEF TypeOK, RevertPlan, UnblockPlan, DriftPlan

LEMMA ReleaseType ==
  ASSUME Release
  PROVE  /\ pc' \in Pc /\ kind' \in Kind /\ cur' \in GrantId \cup {NoGrant}
         /\ queue' \subseteq GrantId
         /\ snap' \in [present : SUBSET Client, global : SUBSET Client,
                        blocked : [Client -> SUBSET Service], at : 0..MaxTime]
         /\ plan' \in [Client -> SUBSET Service]
         /\ failed' \in BOOLEAN
BY NoPlanType, NoSnapType DEF Release, Pc, Kind

-----------------------------------------------------------------------------
(* Type correctness, together with the control state it rests on           *)

Control == TypeOK /\ OpState

LEMMA ControlInit == Init => Control
<1> SUFFICES ASSUME Init PROVE Control
  OBVIOUS
<1>1. child \in [GrantId -> Child]
  <2>1. (CHOOSE k \in Child : TRUE) \in Child
    BY ChildAssumption
  <2> QED BY <2>1 DEF Init
<1>2. endsAt \in [GrantId -> 0..MaxTime] /\ now \in 0..MaxTime
  BY BoundsAssumption DEF Init
<1>3. TypeOK
  BY <1>1, <1>2, NoPlanType, NoSnapType DEF Init, TypeOK, Status, Pc, Kind
<1>4. OpState
  BY DEF Init, OpState, NoGrant
<1> QED BY <1>3, <1>4 DEF Control

\* The steps that begin an operation, or are one.
LEMMA ControlBegin ==
  ASSUME Control,
         \/ Parent \/ ReconcileList
         \/ \E g \in GrantId : Expire(g)
  PROVE  Control'
<1> USE DEF Control
<1>1. ASSUME NEW r \in Requests, NEW d \in Durations, CreateRow(r, d)
      PROVE  Control'
  <2>1. TypeOK'
    BY <1>1, RequestsAssumption, DurationsAssumption, BoundsAssumption
       DEF CreateRow, TypeOK, Request, Status, Pc, Kind, GrantId
  <2>2. OpState'
    BY <1>1 DEF CreateRow, Serving, OpState, TypeOK, Active
  <2> QED BY <2>1, <2>2
<1>2. ASSUME NEW g \in GrantId, End(g) PROVE Control'
  BY <1>2 DEF End, Serving, OpState, TypeOK, Pc, Kind, Active
<1>3. ASSUME NEW g \in GrantId, NEW d \in Durations, Extend(g, d)
      PROVE  Control'
  BY <1>3, DurationsAssumption, BoundsAssumption
     DEF Extend, Serving, Arm, OpState, TypeOK, Active
<1>4. ASSUME NEW g \in GrantId, Expire(g) PROVE Control'
  BY <1>4 DEF Expire, Serving, Arm, OpState, TypeOK, Pc, Kind, Active
<1>5. CASE ReconcileList
  <2>1. phase' \in {"down", "boot", "serving", "closed"}
    BY <1>5 DEF ReconcileList, Started, TypeOK
  <2>2. cur = NoGrant /\ queue = {} /\ NoGrant \notin Active /\ Active \subseteq GrantId
    BY <1>5 DEF ReconcileList, OpState, NoGrant, Active, GrantId
  <2>3. pc' \in Pc /\ kind' \in Kind /\ queue' \subseteq GrantId
    BY <1>5, <2>2 DEF ReconcileList, TypeOK, Pc, Kind
  <2>4. TypeOK'
    BY <1>5, <2>1, <2>3 DEF ReconcileList, TypeOK
  <2>5. Active' = Active /\ cur' = cur
    BY <1>5 DEF ReconcileList, Active
  <2> QED BY <1>5, <2>2, <2>4, <2>5 DEF ReconcileList, OpState
<1> QED BY <1>1, <1>2, <1>3, <1>4, <1>5 DEF Parent

\* The steps of an operation that holds the mutex.
LEMMA ControlStep ==
  ASSUME Control, EngineStep
  PROVE  Control'
<1> USE DEF Control
<1>0. Active \subseteq GrantId
  BY DEF Active
<1>1. CASE UnblockRead
  <2>1. cur \in GrantId
    BY <1>0, <1>1 DEF UnblockRead, OpState
  <2> QED BY <1>1, <2>1, PlanTypes, NoPlanType DEF UnblockRead, OpState, TypeOK, Pc, Active
<1>2. ASSUME NEW c \in Client, UnblockClient(c) PROVE Control'
  BY <1>2 DEF UnblockClient, Issued, RemoveBlockedServices, NoWrite, OpState,
              TypeOK, Active
<1>3. CASE CreateReturn
  <2>1. TypeOK'
    BY <1>0, <1>3, ReleaseType DEF CreateReturn, Arm, OpState, TypeOK
  <2> QED BY <1>3, <2>1 DEF CreateReturn, Release, OpState, NoGrant, Active
<1>4. CASE RevertList
  <2>1. cur \in GrantId
    BY <1>0, <1>4 DEF RevertList, OpState
  <2> QED BY <1>4, <2>1, PlanTypes, NoPlanType
          DEF RevertList, OpState, TypeOK, Pc, Active
<1>5. ASSUME NEW c \in Client, RevertClient(c) PROVE Control'
  BY <1>5 DEF RevertClient, Issued, AddBlockedServices, NoWrite, OpState,
              TypeOK, Active
<1>6. CASE RevertReturn
  <2>1. Return /\ cur \in GrantId /\ cur \notin queue
    BY <1>0, <1>6 DEF RevertReturn, OpState
  <2>2. /\ status' \in [GrantId -> Status] /\ timers' \subseteq GrantId
        /\ queue \subseteq Active'
    BY <1>6, <2>1 DEF RevertReturn, FinalStatus, OpState, TypeOK, Status, Active
  <2>3. TypeOK'
    BY <1>6, <2>1, <2>2, ReleaseType, NoPlanType
       DEF RevertReturn, Return, TypeOK, Pc, Kind
  <2> QED BY <2>1, <2>2, <2>3 DEF Return, Release, OpState, NoGrant, GrantId, TypeOK
<1>7. CASE ReconcileRead
  <2>1. phase' \in {"down", "boot", "serving", "closed"}
    BY <1>7 DEF ReconcileRead, Started, TypeOK
  <2>2. Active' = Active
    BY <1>7 DEF ReconcileRead, Active
  <2>3. CASE Release
    BY <1>7, <2>1, <2>2, <2>3, ReleaseType
       DEF ReconcileRead, Release, OpState, TypeOK, NoGrant, Active, GrantId
  <2>4. CASE /\ snap' = [present |-> present, global |-> global,
                         blocked |-> blocked, at |-> now]
             /\ pc' = "pass"
             /\ UNCHANGED <<phase, kind, cur, queue, plan, failed>>
    <3>1. global \subseteq Client
      BY DEF TypeOK
    <3>2. TypeOK'
      BY <1>7, <2>4, <3>1 DEF ReconcileRead, TypeOK, Pc
    <3> QED BY <1>7, <2>2, <2>4, <3>2 DEF ReconcileRead, OpState
  <2> QED BY <1>7, <2>3, <2>4 DEF ReconcileRead
<1>8. CASE ReconcileNext
  BY <1>0, <1>8, PlanTypes DEF ReconcileNext, OpState, TypeOK, Pc, Active
<1>9. CASE RepairReturn
  <2>1. Return /\ cur \in GrantId
    BY <1>0, <1>9 DEF RepairReturn, OpState
  <2>2. TypeOK'
    BY <1>9, <2>1, ReleaseType, NoPlanType
       DEF RepairReturn, Return, Arm, TypeOK, Pc, Kind
  <2> QED BY <1>9, <2>1, <2>2
          DEF RepairReturn, Return, Release, OpState, NoGrant, GrantId, TypeOK, Active
<1>10. CASE ReconcileReturn
  BY <1>10, ReleaseType
     DEF ReconcileReturn, Release, Started, OpState, TypeOK, NoGrant, Active
<1> QED BY <1>1, <1>2, <1>3, <1>4, <1>5, <1>6, <1>7, <1>8, <1>9, <1>10
        DEF EngineStep

\* Crashes, restarts, the clock and AdGuard's UI.
Surroundings == Close \/ Crash \/ Restart \/ Tick \/ FaultsEnd \/ UI

LEMMA ControlSurroundings ==
  ASSUME Control, Surroundings
  PROVE  Control'
<1> USE DEF Control
<1>1. CASE Close
  BY <1>1 DEF Close, OpState, TypeOK, Active
<1>2. CASE Crash
  BY <1>2, ReleaseType DEF Crash, Release, OpState, TypeOK, NoGrant, Active
<1>3. CASE Restart \/ FaultsEnd
  BY <1>3 DEF Restart, FaultsEnd, OpState, TypeOK, Active
<1>4. CASE Tick
  <2>1. now' \in 0..MaxTime
    BY <1>4, BoundsAssumption DEF Tick, TypeOK
  <2> QED BY <1>4, <2>1 DEF Tick, OpState, TypeOK, Active
<1>5. CASE UI
  BY <1>5 DEF UI, UIBlock, UIUnblock, UIGlobal, UIDelete, UIAdd,
              AddBlockedServices, OpState, TypeOK, Active
<1> QED BY <1>1, <1>2, <1>3, <1>4, <1>5 DEF Surroundings

LEMMA ControlNext == Control /\ [Next]_vars => Control'
<1> SUFFICES ASSUME Control, [Next]_vars PROVE Control'
  OBVIOUS
<1>1. CASE UNCHANGED vars
  BY <1>1 DEF Control, OpState, TypeOK, Active
<1> QED BY <1>1, ControlBegin, ControlStep, ControlSurroundings
        DEF Next, Surroundings

\* Every variable stays in its type, and an operation never works on a grant
\* that has left the active list under it: the engine's mutex, held across
\* every call of grants.go and reconcile.go, makes its reads of the rows last.
THEOREM TypeCorrect == Spec => [](TypeOK /\ OpState)
<1>1. Spec => []Control
  BY ControlInit, ControlNext, PTL DEF Spec
<1> QED BY <1>1 DEF Control

-----------------------------------------------------------------------------
(* No unblock is ever stranded                                             *)

Safety == PlanCovered /\ RevertPending /\ OwedPresent /\ OwedCovered

\* Coverage depends on three columns of the rows only.
LEMMA CoversFrame ==
  ASSUME UNCHANGED <<status, services, clients>>,
         NEW g, NEW c, NEW s
  PROVE  Covers(g, c, s)' <=> Covers(g, c, s)
BY DEF Covers, Active

LEMMA SafetyInit == Init => Safety
BY DEF Init, Safety, PlanCovered, RevertPending, OwedPresent, OwedCovered

\* A step that starts or resumes no write loop, lifts no block, deletes no
\* client and changes no row's coverage keeps Safety.
LEMMA SafetyQuiet ==
  ASSUME Safety, UNCHANGED <<status, services, clients, present>>,
         owed' \subseteq owed,
         pc' \notin {"unblock", "repair", "revert"}
  PROVE  Safety'
BY CoversFrame
   DEF Safety, PlanCovered, RevertPending, OwedPresent, OwedCovered

LEMMA SafetyBegin ==
  ASSUME Control, Safety,
         \/ Parent \/ ReconcileList
         \/ \E g \in GrantId : Expire(g)
  PROVE  Safety'
<1>1. ASSUME NEW r \in Requests, NEW d \in Durations, CreateRow(r, d)
      PROVE  Safety'
  <2>1. \A h \in GrantId, c \in Client, s \in Service :
          Covers(h, c, s) => Covers(h, c, s)'
    BY <1>1 DEF CreateRow, Covers, Active, Control, TypeOK
  <2> QED BY <1>1, <2>1
          DEF CreateRow, Safety, PlanCovered, RevertPending, OwedPresent, OwedCovered
<1>2. ASSUME NEW g \in GrantId,
             Expire(g) \/ End(g) \/ (\E d \in Durations : Extend(g, d))
      PROVE  Safety'
  BY <1>2, SafetyQuiet DEF Expire, End, Extend, Serving
<1>3. CASE ReconcileList
  BY <1>3, SafetyQuiet DEF ReconcileList
<1> QED BY <1>1, <1>2, <1>3 DEF Parent

LEMMA SafetyStep ==
  ASSUME Control, Safety, EngineStep
  PROVE  Safety'
<1>1. CASE UnblockRead
  <2>1. cur \in Active
    BY <1>1 DEF UnblockRead, Control, OpState
  <2>2. \A c \in Client, s \in Service : s \in plan'[c] => Covers(cur, c, s)
    BY <1>1, <2>1 DEF UnblockRead, UnblockPlan, NoPlan, Covers
  <2> QED BY <1>1, <2>2, CoversFrame
          DEF UnblockRead, Safety, PlanCovered, RevertPending, OwedPresent, OwedCovered
<1>2. ASSUME NEW c \in Client, UnblockClient(c) PROVE Safety'
  <2>1. cur \in GrantId
    BY <1>2 DEF UnblockClient, Control, OpState, Active
  <2>2. \A d \in Client, s \in Service :
          <<d, s>> \in owed' \ owed => d = c /\ c \in present /\ s \in plan[c]
    BY <1>2 DEF UnblockClient, RemoveBlockedServices, NoWrite
  <2>3. OwedPresent'
    BY <1>2, <2>2 DEF UnblockClient, Safety, OwedPresent
  <2>4. OwedCovered'
    BY <1>2, <2>1, <2>2, CoversFrame
       DEF UnblockClient, Safety, OwedCovered, PlanCovered
  <2>5. PlanCovered' /\ RevertPending'
    BY <1>2, CoversFrame
       DEF UnblockClient, Issued, Safety, PlanCovered, RevertPending, Control, TypeOK
  <2> QED BY <2>3, <2>4, <2>5 DEF Safety
<1>3. CASE CreateReturn
  BY <1>3, SafetyQuiet DEF CreateReturn, Release
<1>4. CASE RevertList
  <2>1. cur \in GrantId
    BY <1>4 DEF RevertList, Control, OpState, Active
  <2>2. ASSUME NEW c \in Client, NEW s \in Service, Covers(cur, c, s),
               plan' = RevertPlan(cur)
        PROVE  s \in plan'[c] \/ HeldByOther(cur, c, s)
    BY <2>1, <2>2 DEF RevertPlan, HeldOpen, HeldByOther, Covers, Active
  <2>3. ~failed' => plan' = RevertPlan(cur)
    BY <1>4 DEF RevertList
  <2>4. RevertPending'
    BY <1>4, <2>2, <2>3, CoversFrame DEF RevertList, RevertPending, HeldByOther
  <2> QED BY <1>4, <2>4, CoversFrame
          DEF RevertList, Safety, PlanCovered, OwedPresent, OwedCovered
<1>5. ASSUME NEW c \in Client, RevertClient(c) PROVE Safety'
  <2>1. owed' \subseteq owed
    BY <1>5 DEF RevertClient, AddBlockedServices, NoWrite
  <2>2. ASSUME ~failed', NEW s \in Service, <<c, s>> \in owed'
        PROVE  s \notin plan[c] /\ ~failed
    BY <1>5, <2>2 DEF RevertClient, AddBlockedServices, NoWrite, Safety, OwedPresent
  <2>3. ASSUME NEW d \in Client, d # c PROVE plan'[d] = plan[d]
    BY <1>5, <2>3 DEF RevertClient, Issued, Control, TypeOK
  <2>4. failed => failed'
    BY <1>5 DEF RevertClient
  <2>5. RevertPending'
    BY <1>5, <2>1, <2>2, <2>3, <2>4, CoversFrame
       DEF RevertClient, Safety, RevertPending, HeldByOther
  <2> QED BY <1>5, <2>1, <2>5, CoversFrame
          DEF RevertClient, Safety, PlanCovered, OwedPresent, OwedCovered
<1>6. CASE RevertReturn
  <2>1. pc' \in {"idle", "pass"} /\ owed' = owed /\ present' = present
    BY <1>6 DEF RevertReturn, Return, Release
  <2>2. CASE UNCHANGED status
    BY <1>6, <2>1, <2>2, SafetyQuiet DEF RevertReturn
  <2>3. CASE ~UNCHANGED status
    <3>1. /\ ~failed /\ plan = NoPlan /\ UNCHANGED <<services, clients>>
          /\ \A h \in GrantId \ {cur} : status'[h] = status[h]
      BY <1>6, <2>3 DEF RevertReturn, Control, TypeOK
    <3>2. ASSUME NEW c \in Client, NEW s \in Service, <<c, s>> \in owed
          PROVE  HeldByOther(cur, c, s)
      BY <1>6, <3>1, <3>2
         DEF RevertReturn, Safety, RevertPending, OwedCovered, HeldByOther, NoPlan
    <3>3. OwedCovered'
      BY <2>1, <3>1, <3>2 DEF OwedCovered, HeldByOther, Covers, Active
    <3> QED BY <2>1, <3>3
            DEF Safety, PlanCovered, RevertPending, OwedPresent
  <2> QED BY <2>2, <2>3
<1>7. CASE ReconcileRead \/ ReconcileReturn
  BY <1>7, SafetyQuiet DEF ReconcileRead, ReconcileReturn, Release
<1>8. CASE ReconcileNext
  <2>1. pc' \in {"list", "repair"} /\ cur' \in Active
    BY <1>8 DEF ReconcileNext, Control, OpState
  <2>2. pc' = "repair" =>
          \A c \in Client, s \in Service : s \in plan'[c] => Covers(cur', c, s)
    BY <1>8, <2>1 DEF ReconcileNext, DriftPlan, Covers
  <2> QED BY <1>8, <2>1, <2>2, CoversFrame
          DEF ReconcileNext, Safety, PlanCovered, RevertPending, OwedPresent, OwedCovered
<1>9. CASE RepairReturn
  BY <1>9, SafetyQuiet DEF RepairReturn, Return, Release
<1> QED BY <1>1, <1>2, <1>3, <1>4, <1>5, <1>6, <1>7, <1>8, <1>9 DEF EngineStep

LEMMA SafetySurroundings ==
  ASSUME Control, Safety, Surroundings
  PROVE  Safety'
<1>1. CASE Close \/ Crash
  BY <1>1, SafetyQuiet DEF Close, Crash, Release
<1>2. CASE Restart \/ Tick \/ FaultsEnd
  BY <1>2, CoversFrame
     DEF Restart, Tick, FaultsEnd, Safety, PlanCovered, RevertPending,
         OwedPresent, OwedCovered, HeldByOther
<1>3. CASE UI
  <2>1. /\ owed' \subseteq owed
        /\ \A c \in Client, s \in Service : <<c, s>> \in owed' => c \in present'
    BY <1>3 DEF UI, UIBlock, UIUnblock, UIGlobal, UIDelete, UIAdd,
                AddBlockedServices, Safety, OwedPresent
  <2>2. UNCHANGED <<status, services, clients, pc, cur, plan, failed>>
    BY <1>3 DEF UI
  <2> QED BY <2>1, <2>2, CoversFrame
          DEF Safety, PlanCovered, RevertPending, OwedPresent, OwedCovered, HeldByOther
<1> QED BY <1>1, <1>2, <1>3 DEF Surroundings

LEMMA SafetyNext == Control /\ Safety /\ [Next]_vars => Safety'
<1> SUFFICES ASSUME Control, Safety, [Next]_vars PROVE Safety'
  OBVIOUS
<1>1. CASE UNCHANGED vars
  BY <1>1, CoversFrame
     DEF Safety, PlanCovered, RevertPending, OwedPresent, OwedCovered, HeldByOther
<1> QED BY <1>1, SafetyBegin, SafetyStep, SafetySurroundings
        DEF Next, Surroundings

\* The inductive invariant: a step of any actor, at any point of an operation,
\* with any outcome of its calls, keeps all of it.
THEOREM InductiveInvariant == Spec => []IInv
<1>1. Init => Control /\ Safety
  BY ControlInit, SafetyInit
<1>2. (Control /\ Safety) /\ [Next]_vars => (Control /\ Safety)'
  BY ControlNext, SafetyNext
<1>3. Control /\ Safety => IInv
  BY DEF Control, Safety, IInv
<1> QED BY <1>1, <1>2, <1>3, PTL DEF Spec

\* Whatever the app has lifted and nobody restored is covered by an active
\* grant, in every reachable state, faults and crashes included.
THEOREM NoUnblockIsStranded == Spec => []NoStrandedUnblock
<1>1. IInv => NoStrandedUnblock
  BY DEF IInv, TypeOK, OwedCovered, NoStrandedUnblock
<1> QED BY <1>1, InductiveInvariant, PTL

-----------------------------------------------------------------------------
(* What a write may do                                                     *)

\* The writes still planned by a revert leave alone what others hold open.
RevertSpares ==
  pc = "revert" =>
    \A c \in Client, s \in Service : s \in plan[c] => ~HeldByOther(cur, c, s)

LEMMA SparesNext == Control /\ RevertSpares /\ [Next]_vars => RevertSpares'
<1> SUFFICES ASSUME Control, RevertSpares, [Next]_vars, pc' = "revert"
             PROVE  \A c \in Client, s \in Service :
                      s \in plan'[c] => ~HeldByOther(cur, c, s)'
  BY DEF RevertSpares
<1>1. CASE RevertList
  BY <1>1 DEF RevertList, RevertPlan, NoPlan, HeldOpen, HeldByOther, Covers, Active
<1>2. CASE pc = "revert" /\ UNCHANGED <<status, services, clients, cur>>
           /\ \A c \in Client : plan'[c] \subseteq plan[c]
  BY <1>2, CoversFrame DEF RevertSpares, HeldByOther
<1>3. ASSUME NEW c \in Client, RevertClient(c)
      PROVE  \A d \in Client : plan'[d] \subseteq plan[d]
  BY <1>3 DEF RevertClient, Issued, Control, TypeOK
<1>4. RevertList \/ (\E c \in Client : RevertClient(c)) \/ UNCHANGED vars
      \/ Tick \/ FaultsEnd \/ UI \/ (pc = "revert" /\ Restart)
  BY DEF Next, Parent, EngineStep, CreateRow, End, Extend, Expire, Serving,
         ReconcileList, UnblockRead, UnblockClient, CreateReturn, RevertReturn,
         Return, Release, ReconcileRead, ReconcileNext, RepairReturn,
         ReconcileReturn, Close, Crash, Restart
<1> QED BY <1>1, <1>2, <1>3, <1>4 DEF RevertClient, Tick, FaultsEnd, UI, Restart

\* Steps of the engine other than the two kinds of write change no list.
LEMMA ListsFrame ==
  ASSUME Next, ~UNCHANGED plan, ~UNCHANGED blocked
  PROVE  \E c \in Client : UnblockClient(c) \/ RevertClient(c)
BY DEF Next, Parent, EngineStep, CreateRow, End, Extend, Expire,
       ReconcileList, UnblockRead, CreateReturn, RevertList, RevertReturn,
       ReconcileRead, ReconcileNext, RepairReturn, ReconcileReturn,
       Close, Crash, Restart, Tick, FaultsEnd, UI

LEMMA WriteReblocks ==
  Control /\ RevertSpares /\ [Next]_vars => [ReblocksOnlyUnheld]_vars
<1> SUFFICES ASSUME Control, RevertSpares, Next,
                    NEW c \in Client, NEW s \in Service,
                    plan'[c] # plan[c], s \notin blocked[c], s \in blocked'[c],
                    NEW g \in GrantId \ {cur}
             PROVE  ~Covers(g, c, s)
  BY DEF ReblocksOnlyUnheld
<1>1. PICK d \in Client : UnblockClient(d) \/ RevertClient(d)
  BY ListsFrame
<1>2. CASE UnblockClient(d)
  BY <1>2 DEF UnblockClient, RemoveBlockedServices, NoWrite, Control, TypeOK
<1>3. CASE RevertClient(d)
  <2>1. d = c
    BY <1>3 DEF RevertClient, Issued, Control, TypeOK
  <2>2. s \in plan[c]
    BY <1>3, <2>1 DEF RevertClient, AddBlockedServices, NoWrite, Control, TypeOK
  <2> QED BY <1>3, <2>2 DEF RevertClient, RevertSpares, HeldByOther
<1> QED BY <1>1, <1>2, <1>3

LEMMA WriteUnblocks ==
  Control /\ Safety /\ [Next]_vars => [UnblocksOnlyCovered]_vars
<1> SUFFICES ASSUME Control, Safety, Next,
                    NEW c \in Client, NEW s \in Service,
                    plan'[c] # plan[c], s \in blocked[c], s \notin blocked'[c]
             PROVE  Covers(cur, c, s)
  BY DEF UnblocksOnlyCovered
<1>1. PICK d \in Client : UnblockClient(d) \/ RevertClient(d)
  BY ListsFrame
<1>2. CASE UnblockClient(d)
  <2>1. d = c
    BY <1>2 DEF UnblockClient, Issued, Control, TypeOK
  <2>2. s \in plan[c]
    BY <1>2, <2>1 DEF UnblockClient, RemoveBlockedServices, NoWrite, Control, TypeOK
  <2> QED BY <1>2, <2>2 DEF UnblockClient, Safety, PlanCovered
<1>3. CASE RevertClient(d)
  BY <1>3 DEF RevertClient, AddBlockedServices, NoWrite, Control, TypeOK
<1> QED BY <1>1, <1>2, <1>3

\* No write of the engine re-blocks a service, on a shared client, that another
\* active grant holds open there.
THEOREM SharedDeviceRule == Spec => NeverReblockHeld
<1>1. Init => RevertSpares
  BY DEF Init, RevertSpares
<1> QED BY <1>1, ControlInit, ControlNext, SparesNext, WriteReblocks, PTL
        DEF Spec, NeverReblockHeld

\* No write of the engine lifts a block that the grant in hand, active in the
\* store at that moment, does not cover.
THEOREM UnblocksUnderGrant == Spec => NoUnblockWithoutGrant
BY ControlInit, ControlNext, SafetyInit, SafetyNext, WriteUnblocks, PTL
   DEF Spec, NoUnblockWithoutGrant

-----------------------------------------------------------------------------
(* The engine implements GrantPromise                                      *)

USE DEF Promise!vars, Promise!rows

LEMMA InForceIsActive == Promise!InForce = Active
BY DEF Promise!InForce, Active

\* Steps that GrantPromise cannot see, or sees as blocks restored.
LEMMA PromiseQuiet ==
  ASSUME UNCHANGED <<store, now>>, owed' \subseteq owed
  PROVE  [Promise!Next]_Promise!vars
BY DEF Promise!Next, Promise!Restore

LEMMA PromiseBegin ==
  ASSUME Control,
         \/ Parent \/ ReconcileList
         \/ \E g \in GrantId : Expire(g)
  PROVE  [Promise!Next]_Promise!vars
<1>1. ASSUME NEW r \in Requests, NEW d \in Durations, CreateRow(r, d)
      PROVE  [Promise!Next]_Promise!vars
  <2>1. PICK g \in GrantId :
          /\ status[g] = "none"
          /\ status' = [status EXCEPT ![g] = "active"]
          /\ child' = [child EXCEPT ![g] = r.child]
          /\ services' = [services EXCEPT ![g] = r.services]
          /\ clients' = [clients EXCEPT ![g] = r.clients]
          /\ endsAt' = [endsAt EXCEPT ![g] = now + d]
    BY <1>1 DEF CreateRow
  <2>2. endsAt'[g] > now
    BY <2>1, DurationsAssumption, BoundsAssumption DEF Control, TypeOK
  <2>3. child'[g] = r.child /\ services'[g] = r.services
    BY <2>1 DEF Control, TypeOK
  <2>4. \A h \in Active : child[h] = child'[g] => services[h] \cap services'[g] = {}
    BY <1>1, <2>3 DEF CreateRow, NoOverlap
  <2>5. \A h \in GrantId \ {g} :
          /\ child'[h] = child[h] /\ services'[h] = services[h]
          /\ clients'[h] = clients[h] /\ endsAt'[h] = endsAt[h]
    BY <2>1 DEF Control, TypeOK
  <2>6. Promise!Grant(g)
    BY <1>1, <2>1, <2>2, <2>4, <2>5, InForceIsActive DEF CreateRow, Promise!Grant
  <2> QED BY <2>6 DEF Promise!Next
<1>2. ASSUME NEW g \in GrantId, NEW d \in Durations, Extend(g, d)
      PROVE  [Promise!Next]_Promise!vars
  <2>1. endsAt'[g] > endsAt[g] /\ \A h \in GrantId \ {g} : endsAt'[h] = endsAt[h]
    BY <1>2, DurationsAssumption, BoundsAssumption DEF Extend, Control, TypeOK
  <2>2. Promise!Prolong(g)
    BY <1>2, <2>1, InForceIsActive DEF Extend, Promise!Prolong
  <2> QED BY <2>2 DEF Promise!Next
<1>3. ASSUME NEW g \in GrantId, Expire(g) \/ End(g)
      PROVE  [Promise!Next]_Promise!vars
  BY <1>3, PromiseQuiet DEF Expire, End
<1>4. CASE ReconcileList
  BY <1>4, PromiseQuiet DEF ReconcileList
<1> QED BY <1>1, <1>2, <1>3, <1>4 DEF Parent

\* An expiry in hand is due: time does not run backwards and ends only move
\* between operations.
ExpiryDue ==
  /\ pc \in {"list", "revert"} /\ kind # "end" => now >= endsAt[cur]
  /\ snap.at <= now

LEMMA ExpiryDueInit == Init => ExpiryDue
BY DEF Init, ExpiryDue, NoSnap

LEMMA ExpiryDueNext == Control /\ ExpiryDue /\ [Next]_vars => ExpiryDue'
<1> SUFFICES ASSUME Control, ExpiryDue, [Next]_vars PROVE ExpiryDue'
  OBVIOUS
<1>1. now \in Nat /\ now' \in Nat /\ now' >= now /\ snap.at \in Nat
  BY ControlNext, BoundsAssumption
     DEF Next, Parent, EngineStep, CreateRow, End, Extend, Expire, ReconcileList,
         UnblockRead, UnblockClient, CreateReturn, RevertList, RevertClient,
         RevertReturn, ReconcileRead, ReconcileNext, RepairReturn,
         ReconcileReturn, Close, Crash, Restart, Tick, FaultsEnd, UI,
         Control, TypeOK
<1>2. snap'.at <= now'
  <2>1. snap' \in {snap, NoSnap} \/ snap'.at = now
    BY DEF Next, Parent, EngineStep, CreateRow, End, Extend, Expire, ReconcileList,
           UnblockRead, UnblockClient, CreateReturn, RevertList, RevertClient,
           RevertReturn, Return, Release, ReconcileRead, ReconcileNext,
           RepairReturn, ReconcileReturn, Close, Crash, Restart, Tick, FaultsEnd, UI
  <2>2. NoSnap.at = 0
    BY DEF NoSnap
  <2> QED BY <1>1, <2>1, <2>2 DEF ExpiryDue
<1>3. ASSUME pc' \in {"list", "revert"}, kind' # "end" PROVE now' >= endsAt'[cur']
  <2>1. CASE \E g \in GrantId : Expire(g)
    BY <1>1, <1>3, <2>1 DEF Expire, Serving, Overdue
  <2>2. CASE ReconcileNext
    <3>1. PICK g \in GrantId : cur' = g /\ snap.at >= endsAt[g] /\ endsAt' = endsAt
      BY <1>3, <2>2 DEF ReconcileNext, Overdue, Control, TypeOK
    <3>2. endsAt[g] \in Nat
      BY DEF Control, TypeOK
    <3> QED BY <1>1, <3>1, <3>2 DEF ExpiryDue
  <2>3. CASE /\ pc \in {"list", "revert"} /\ kind' = kind
             /\ cur' = cur /\ endsAt' = endsAt
    <3>1. endsAt[cur] \in Nat
      BY <2>3 DEF Control, OpState, TypeOK, Active
    <3> QED BY <1>1, <1>3, <2>3, <3>1 DEF ExpiryDue
  <2> QED
    BY <1>3, <2>1, <2>2, <2>3
       DEF Next, Parent, EngineStep, CreateRow, End, Extend, Serving, ReconcileList,
           UnblockRead, UnblockClient, CreateReturn, RevertList, RevertClient,
           RevertReturn, Return, Release, ReconcileRead, RepairReturn,
           ReconcileReturn, Close, Crash, Restart, Tick, FaultsEnd, UI
<1> QED BY <1>2, <1>3 DEF ExpiryDue

LEMMA PromiseStep ==
  ASSUME Control, Safety, ExpiryDue, EngineStep
  PROVE  [Promise!Next]_Promise!vars
<1>1. ASSUME NEW c \in Client, UnblockClient(c)
      PROVE  [Promise!Next]_Promise!vars
  <2>1. owed \subseteq owed' /\ \A p \in owed' \ owed : p[1] = c /\ p[2] \in plan[c]
    BY <1>1 DEF UnblockClient, RemoveBlockedServices, NoWrite
  <2>2. \A s \in plan[c] : Covers(cur, c, s)
    BY <1>1 DEF UnblockClient, Safety, PlanCovered, Control, TypeOK
  <2>3. \A p \in owed' \ owed : Promise!HeldBy(Active, p)
    BY <2>1, <2>2 DEF Covers, Promise!HeldBy
  <2>4. Promise!Lift
    BY <1>1, <2>1, <2>3, InForceIsActive DEF UnblockClient, Promise!Lift
  <2> QED BY <2>4 DEF Promise!Next
<1>2. ASSUME NEW c \in Client, RevertClient(c)
      PROVE  [Promise!Next]_Promise!vars
  BY <1>2, PromiseQuiet DEF RevertClient, AddBlockedServices, NoWrite
<1>3. CASE RevertReturn
  <2>1. CASE UNCHANGED status
    BY <1>3, <2>1, PromiseQuiet DEF RevertReturn
  <2>2. CASE ~UNCHANGED status
    <3>1. cur \in Active /\ cur \in GrantId /\ ~failed /\ plan = NoPlan
      BY <1>3, <2>2 DEF RevertReturn, Control, OpState, Active
    <3>2. ASSUME NEW p \in owed PROVE Promise!HeldBy(Active \ {cur}, p)
      <4>1. PICK c \in Client, s \in Service : p = <<c, s>>
        BY DEF Control, TypeOK
      <4>2. HeldByOther(cur, c, s)
        BY <1>3, <3>1, <4>1
           DEF RevertReturn, Safety, RevertPending, OwedCovered, HeldByOther, NoPlan
      <4> QED BY <4>1, <4>2 DEF HeldByOther, Covers, Promise!HeldBy
    <3>3. \/ status' = [status EXCEPT ![cur] = "ended"]
          \/ now >= endsAt[cur] /\ status' = [status EXCEPT ![cur] = "expired"]
      BY <1>3, <2>2 DEF RevertReturn, FinalStatus, ExpiryDue
    <3>4. Promise!Leave(cur)
      BY <1>3, <3>1, <3>2, <3>3, InForceIsActive DEF RevertReturn, Promise!Leave
    <3> QED BY <3>1, <3>4 DEF Promise!Next
  <2> QED BY <2>1, <2>2
<1>4. CASE \/ UnblockRead \/ CreateReturn \/ RevertList \/ ReconcileRead
           \/ ReconcileNext \/ RepairReturn \/ ReconcileReturn
  BY <1>4, PromiseQuiet
     DEF UnblockRead, CreateReturn, RevertList, ReconcileRead, ReconcileNext,
         RepairReturn, ReconcileReturn
<1> QED BY <1>1, <1>2, <1>3, <1>4 DEF EngineStep

LEMMA PromiseSurroundings ==
  ASSUME Control, Surroundings
  PROVE  [Promise!Next]_Promise!vars
<1>1. CASE Tick
  <2>1. Promise!Tick
    BY <1>1, BoundsAssumption DEF Tick, Promise!Tick, Control, TypeOK
  <2> QED BY <2>1 DEF Promise!Next
<1>2. CASE Close \/ Crash \/ Restart \/ FaultsEnd
  BY <1>2, PromiseQuiet DEF Close, Crash, Restart, FaultsEnd
<1>3. CASE UI
  BY <1>3, PromiseQuiet
     DEF UI, UIBlock, UIUnblock, UIGlobal, UIDelete, UIAdd, AddBlockedServices
<1> QED BY <1>1, <1>2, <1>3 DEF Surroundings

\* Every behaviour of the engine, seen through the rows, the clock and what it
\* has lifted, is one that GrantPromise allows: early expiry, a second active
\* grant for a child's service and a status set before the blocks are back are
\* all ruled out.
THEOREM EngineKeepsPromise == Spec => KeepsPromise
<1>1. Init => Promise!Init
  BY DEF Init, Promise!Init
<1>2. Control /\ Safety /\ ExpiryDue /\ [Next]_vars => [Promise!Next]_Promise!vars
  <2> SUFFICES ASSUME Control, Safety, ExpiryDue, [Next]_vars
               PROVE  [Promise!Next]_Promise!vars
    OBVIOUS
  <2>1. CASE UNCHANGED vars
    BY <2>1
  <2> QED BY <2>1, PromiseBegin, PromiseStep, PromiseSurroundings
          DEF Next, Surroundings
<1> QED
  BY <1>1, <1>2, ControlInit, ControlNext, SafetyInit, SafetyNext,
     ExpiryDueInit, ExpiryDueNext, PTL
  DEF Spec, KeepsPromise, Promise!Spec
=============================================================================
