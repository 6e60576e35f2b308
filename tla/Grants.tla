------------------------------- MODULE Grants -------------------------------
(***************************************************************************)
(* The grant engine (internal/grants) over its durable rows               *)
(* (internal/store/grants.go) and AdGuard's per-client lists               *)
(* (internal/adguard/clients.go).                                          *)
(*                                                                         *)
(* One engine operation at a time holds Engine.mu; pc says where it is.    *)
(* Every call it makes to the store or to AdGuard is a step of its own, so *)
(* the clock, a parent working in AdGuard's UI and a crash fall between    *)
(* any two of them.  While faulty holds, every call may fail, and a failed *)
(* AdGuard write may or may not have been applied.                         *)
(*                                                                         *)
(* The timers map is kept as the set of its keys; when the callback of a   *)
(* timer runs is left open here (Expire may come early, late or again) and *)
(* is the subject of module Timers.                                        *)
(***************************************************************************)
EXTENDS Naturals, FiniteSets

CONSTANTS
  Child, Service, Client,
  MaxGrants,   \* bound: grant rows ever created
  MaxTime,     \* bound: the clock's horizon
  Durations,   \* the durations parents ask for
  Requests,    \* what Create is asked for: a child, services, its clients
  UIEdits      \* kinds of edit made in AdGuard's own UI

EditKind == {"block", "unblock", "global", "delete", "add"}

GrantId == 1..MaxGrants
Request == [child : Child, services : SUBSET Service, clients : SUBSET Client]

ASSUME BoundsAssumption == MaxGrants \in Nat /\ MaxTime \in Nat
ASSUME DurationsAssumption == Durations \subseteq (Nat \ {0})
ASSUME RequestsAssumption ==
  /\ Requests \subseteq Request
  /\ \A r \in Requests : r.services # {} /\ r.clients # {}
ASSUME ChildAssumption == Child # {}
ASSUME UIEditsAssumption == UIEdits \subseteq EditKind

VARIABLES
  \* the store: grants, grant_services and grant_clients rows
  status,    \* [GrantId -> "none" | "active" | "expired" | "ended"]
  child, services, clients, endsAt,
  \* AdGuard's persistent clients
  present,   \* the client names AdGuard has
  global,    \* those with use_global_blocked_services set
  blocked,   \* each client's own blocked_services list
  \* the process
  phase,     \* "down" | "boot" (before Start has run) | "serving"
             \* | "closed" (Engine.closed, until the process exits)
  timers,    \* the keys of Engine.timers
  pc,        \* where the operation holding Engine.mu is; "idle": nobody
  kind,      \* which operation that is
  cur,       \* the grant it works on
  queue,     \* Reconcile: listed grants not yet visited
  snap,      \* Reconcile: the clients as read, and when
  plan,      \* per client, the services of the write still to be issued
  failed,    \* revert: some client could not be written
  \* the environment
  now, faulty,
  \* history: what the app took out of a list and nobody has put back
  owed

store   == <<status, child, services, clients, endsAt>>
adguard == <<present, global, blocked, owed>>
engine  == <<phase, timers, pc, kind, cur, queue, snap, plan, failed>>
vars    == <<store, adguard, engine, now, faulty>>

NoGrant == 0
NoPlan  == [c \in Client |-> {}]
NoSnap  == [present |-> {}, global |-> {}, blocked |-> NoPlan, at |-> 0]
Status  == {"none", "active", "expired", "ended"}
Pc      == {"idle", "unblock_read", "unblock", "list", "revert",
            "pass_read", "pass", "repair"}
Kind    == {"none", "create", "expire", "end", "reconcile"}

TypeOK ==
  /\ status \in [GrantId -> Status]
  /\ child \in [GrantId -> Child]
  /\ services \in [GrantId -> SUBSET Service]
  /\ clients \in [GrantId -> SUBSET Client]
  /\ endsAt \in [GrantId -> 0..MaxTime]
  /\ present \subseteq Client /\ global \subseteq present
  /\ blocked \in [Client -> SUBSET Service]
  /\ phase \in {"down", "boot", "serving", "closed"}
  /\ timers \subseteq GrantId
  /\ pc \in Pc /\ kind \in Kind /\ cur \in GrantId \cup {NoGrant}
  /\ queue \subseteq GrantId
  /\ snap \in [present : SUBSET Client, global : SUBSET Client,
               blocked : [Client -> SUBSET Service], at : 0..MaxTime]
  /\ plan \in [Client -> SUBSET Service]
  /\ failed \in BOOLEAN /\ faulty \in BOOLEAN
  /\ now \in 0..MaxTime
  /\ owed \subseteq Client \X Service

-----------------------------------------------------------------------------
(* Coverage: which services the active grants hold open on a client.       *)

Active == {g \in GrantId : status[g] = "active"}

Covers(g, c, s) == g \in Active /\ c \in clients[g] /\ s \in services[g]

\* Mutants of HeldOpen: the reverted grant itself counts as a holder; nobody
\* counts as one.
HeldOpenBySelf(exclude, c) ==
  UNION {services[a] : a \in {b \in Active : c \in clients[b]}}
HeldOpenByNobody(exclude, c) == {}

\* shared.go heldOpen: every active grant but one, by its STORED clients.
HeldOpen(exclude, c) ==
  UNION {services[a] : a \in {b \in Active \ {exclude} : c \in clients[b]}}

\* shared.go revertPlan: g's services nobody else holds open, per client.
RevertPlan(g) ==
  [c \in Client |-> IF c \in clients[g] THEN services[g] \ HeldOpen(g, c)
                                        ELSE {}]

\* Mutants of Overdue: a grant is due one unit early; only one unit late.
OverdueEarly(g, t) == t + 1 >= endsAt[g]
OverdueLate(g, t) == t > endsAt[g]

\* !now.Before(g.EndsAt), for a clock reading t.
Overdue(g, t) == t >= endsAt[g]

\* unblock: only clients of the read that have a list of their own.
UnblockPlan(g) ==
  [c \in Client |-> IF c \in clients[g] \cap (present \ global)
                      THEN services[g] ELSE {}]

\* Mutants of DriftPlan: on every device; what was not found.
DriftPlanAll(g) ==
  [c \in Client |-> IF c \in snap.present \ snap.global
                      THEN snap.blocked[c] \cap services[g] ELSE {}]
DriftPlanInverted(g) ==
  [c \in Client |-> IF c \in clients[g] \cap (snap.present \ snap.global)
                      THEN services[g] \ snap.blocked[c] ELSE {}]

\* Reconcile: the granted ids that the read found back in the list.
DriftPlan(g) ==
  [c \in Client |-> IF c \in clients[g] \cap (snap.present \ snap.global)
                      THEN services[g] \cap snap.blocked[c] ELSE {}]

-----------------------------------------------------------------------------
(* AdGuard writes, as far as the lists go.                                 *)

RemoveBlockedServices(c, ids) ==
  /\ blocked' = [blocked EXCEPT ![c] = @ \ ids]
  /\ owed' = owed \cup ({c} \X (ids \cap blocked[c]))

AddBlockedServices(c, ids) ==
  /\ blocked' = [blocked EXCEPT ![c] = @ \cup ids]
  /\ owed' = owed \ ({c} \X ids)

NoWrite == UNCHANGED <<blocked, owed>>

\* plan[c] has been dealt with, whatever came of it.
Issued(c) == plan[c] # {} /\ plan' = [plan EXCEPT ![c] = {}]

\* The operation that ran revert goes on: Reconcile to its next grant, a
\* callback or End to the mutex's release.
Release ==
  /\ pc' = "idle" /\ kind' = "none" /\ cur' = NoGrant /\ queue' = {}
  /\ snap' = NoSnap /\ plan' = NoPlan /\ failed' = FALSE

Return ==
  IF kind = "reconcile"
    THEN /\ pc' = "pass" /\ cur' = NoGrant /\ plan' = NoPlan /\ failed' = FALSE
         /\ UNCHANGED <<kind, queue, snap>>
    ELSE Release

-----------------------------------------------------------------------------
Init ==
  /\ status = [g \in GrantId |-> "none"]
  /\ child \in [GrantId -> {CHOOSE k \in Child : TRUE}]
  /\ services = [g \in GrantId |-> {}]
  /\ clients = [g \in GrantId |-> {}]
  /\ endsAt = [g \in GrantId |-> 0]
  /\ present \in SUBSET Client /\ global \in SUBSET present
  /\ blocked \in [Client -> SUBSET Service]
  /\ \A c \in Client \ present : blocked[c] = {}
  /\ phase = "boot" /\ timers = {}
  /\ pc = "idle" /\ kind = "none" /\ cur = NoGrant /\ queue = {}
  /\ snap = NoSnap /\ plan = NoPlan /\ failed = FALSE
  /\ now = 0 /\ faulty \in BOOLEAN /\ owed = {}

\* Engine.mu is free and requests and callbacks are being served.
Serving == phase \in {"serving", "closed"} /\ pc = "idle"

\* Start has returned, with or without an error: main goes on to serve.
Started == phase' = IF phase = "boot" THEN "serving" ELSE phase

\* arm leaves one entry for g in the map, or none once the engine is closed.
Arm(g) == timers' = IF phase = "closed" THEN timers \ {g} ELSE timers \cup {g}

-----------------------------------------------------------------------------
(* Create                                                                  *)

\* store.CreateGrant refuses a (child, service) some active grant has.
NoOverlap(r) ==
  \A a \in Active : child[a] = r.child => services[a] \cap r.services = {}

\* The row commits before AdGuard hears of the grant.
CreateRow(r, d) ==
  /\ Serving /\ NoOverlap(r) /\ now + d <= MaxTime
  /\ \E g \in GrantId :
       /\ status[g] = "none"
       /\ \A h \in GrantId : h < g => status[h] # "none"
       /\ status' = [status EXCEPT ![g] = "active"]
       /\ child' = [child EXCEPT ![g] = r.child]
       /\ services' = [services EXCEPT ![g] = r.services]
       /\ clients' = [clients EXCEPT ![g] = r.clients]
       /\ endsAt' = [endsAt EXCEPT ![g] = now + d]
       /\ cur' = g
  /\ pc' = "unblock_read" /\ kind' = "create"
  /\ UNCHANGED <<adguard, phase, timers, queue, snap, plan, failed, now, faulty>>

\* unblock reads AdGuard once; a failed read leaves every client alone.
UnblockRead ==
  /\ pc = "unblock_read"
  /\ \/ plan' = UnblockPlan(cur)
     \/ faulty /\ plan' = NoPlan
  /\ pc' = "unblock"
  /\ UNCHANGED <<store, adguard, phase, timers, kind, cur, queue, snap, failed,
                 now, faulty>>

\* One client's write in unblock or in Reconcile's drift repair.  A name
\* AdGuard no longer has writes nothing; either way the loop goes on.
UnblockClient(c) ==
  /\ pc \in {"unblock", "repair"} /\ Issued(c)
  /\ \/ c \in present /\ RemoveBlockedServices(c, plan[c])
     \/ (c \notin present \/ faulty) /\ NoWrite
  /\ UNCHANGED <<store, present, global, phase, timers, pc, kind, cur, queue,
                 snap, failed, now, faulty>>

\* Create arms the timer whatever became of the clients, and returns.
CreateReturn ==
  /\ pc = "unblock" /\ plan = NoPlan
  /\ Arm(cur)
  /\ Release
  /\ UNCHANGED <<store, adguard, phase, now, faulty>>

-----------------------------------------------------------------------------
(* revert, shared by the timer callback, End and Reconcile                 *)

\* Re-reads the active grants; a failed read fails every client unwritten.
RevertList ==
  /\ pc = "list"
  /\ \/ plan' = RevertPlan(cur) /\ failed' = FALSE
     \/ faulty /\ plan' = NoPlan /\ failed' = TRUE
  /\ pc' = "revert"
  /\ UNCHANGED <<store, adguard, phase, timers, kind, cur, queue, snap, now, faulty>>

\* A client AdGuard no longer has counts as reverted.  A write that reports
\* an error has failed, though AdGuard may have applied it.
RevertClient(c) ==
  /\ pc = "revert" /\ Issued(c)
  /\ \/ c \in present /\ AddBlockedServices(c, plan[c]) /\ UNCHANGED failed
     \/ c \notin present /\ NoWrite /\ UNCHANGED failed
     \/ faulty /\ NoWrite /\ failed' = TRUE
     \/ faulty /\ c \in present /\ AddBlockedServices(c, plan[c]) /\ failed' = TRUE
  /\ UNCHANGED <<store, present, global, phase, timers, pc, kind, cur, queue,
                 snap, now, faulty>>

\* Mutant: the operation's name is stored, which the schema does not know.
FinalStatusByKind == kind

\* What the row becomes: ended by a parent, expired by time.
FinalStatus == IF kind = "end" THEN "ended" ELSE "expired"

\* expireLocked and End: any failure, the status update's included, leaves
\* the grant active and its timer alone.
RevertReturn ==
  /\ pc = "revert" /\ plan = NoPlan
  /\ \/ /\ ~failed /\ status[cur] = "active"
        /\ status' = [status EXCEPT ![cur] = FinalStatus]
        /\ timers' = timers \ {cur}
     \/ /\ failed \/ faulty
        /\ UNCHANGED <<status, timers>>
  /\ Return
  /\ UNCHANGED <<child, services, clients, endsAt, adguard, phase, now, faulty>>

-----------------------------------------------------------------------------
(* The timer callback, End and Extend                                      *)

\* expire drops the map entry first, then looks at the row: unreadable or
\* not active, it returns; not due, it arms again; else it reverts.
Expire(g) ==
  /\ Serving /\ status[g] # "none"
  /\ \/ /\ faulty \/ g \notin Active
        /\ timers' = timers \ {g}
        /\ UNCHANGED <<pc, kind, cur>>
     \/ /\ g \in Active /\ ~Overdue(g, now)
        /\ Arm(g)
        /\ UNCHANGED <<pc, kind, cur>>
     \/ /\ g \in Active /\ Overdue(g, now)
        /\ timers' = timers \ {g}
        /\ pc' = "list" /\ kind' = "expire" /\ cur' = g
  /\ UNCHANGED <<store, adguard, phase, queue, snap, plan, failed, now, faulty>>

End(g) ==
  /\ Serving /\ g \in Active
  /\ pc' = "list" /\ kind' = "end" /\ cur' = g
  /\ UNCHANGED <<store, adguard, phase, timers, queue, snap, plan, failed, now, faulty>>

\* The new end counts from the old one; arm replaces the timer.
Extend(g, d) ==
  /\ Serving /\ g \in Active /\ endsAt[g] + d <= MaxTime
  /\ endsAt' = [endsAt EXCEPT ![g] = @ + d]
  /\ Arm(g)
  /\ UNCHANGED <<status, child, services, clients, adguard, phase, pc, kind,
                 cur, queue, snap, plan, failed, now, faulty>>

-----------------------------------------------------------------------------
(* Reconcile: Start's pass at boot, then one per tick of Run               *)

\* With nothing active, or the list unreadable, the pass is over; a startup
\* pass that fails is logged and serving begins all the same.
ReconcileList ==
  /\ phase # "down" /\ pc = "idle"
  /\ \/ /\ Active # {}
        /\ pc' = "pass_read" /\ kind' = "reconcile" /\ queue' = Active
        /\ UNCHANGED phase
     \/ /\ Active = {} \/ faulty
        /\ Started /\ UNCHANGED <<pc, kind, queue>>
  /\ UNCHANGED <<store, adguard, timers, cur, snap, plan, failed, now, faulty>>

\* The pass works from one read of the clients and one reading of the clock.
ReconcileRead ==
  /\ pc = "pass_read"
  /\ \/ /\ snap' = [present |-> present, global |-> global,
                    blocked |-> blocked, at |-> now]
        /\ pc' = "pass"
        /\ UNCHANGED <<phase, kind, cur, queue, plan, failed>>
     \/ faulty /\ Release /\ Started
  /\ UNCHANGED <<store, adguard, timers, now, faulty>>

\* The next listed grant, ids ascending: overdue ones are reverted as the
\* timer would, for live ones the drift is repaired.
ReconcileNext ==
  /\ pc = "pass"
  /\ \E g \in queue :
       /\ \A h \in queue : g <= h
       /\ queue' = queue \ {g} /\ cur' = g
       /\ IF Overdue(g, snap.at)
            THEN pc' = "list" /\ UNCHANGED plan
            ELSE pc' = "repair" /\ plan' = DriftPlan(g)
  /\ UNCHANGED <<store, adguard, phase, timers, kind, snap, failed, now, faulty>>

\* A live grant without a timer (after a restart) gets one.
RepairReturn ==
  /\ pc = "repair" /\ plan = NoPlan
  /\ IF cur \in timers THEN UNCHANGED timers ELSE Arm(cur)
  /\ Return
  /\ UNCHANGED <<store, adguard, phase, now, faulty>>

ReconcileReturn ==
  /\ pc = "pass" /\ queue = {}
  /\ Release /\ Started
  /\ UNCHANGED <<store, adguard, timers, now, faulty>>

-----------------------------------------------------------------------------
(* The process and its surroundings                                        *)

\* A graceful stop: eng.Close, once the mutex is free, before the process exits.
Close ==
  /\ phase = "serving" /\ pc = "idle"
  /\ phase' = "closed" /\ timers' = {}
  /\ UNCHANGED <<store, adguard, pc, kind, cur, queue, snap, plan, failed, now, faulty>>

\* The process dies between any two calls, or exits after Close; only rows
\* and AdGuard survive.
Crash ==
  /\ phase # "down" /\ (faulty \/ phase = "closed")
  /\ phase' = "down" /\ timers' = {} /\ Release
  /\ UNCHANGED <<store, adguard, now, faulty>>

Restart ==
  /\ phase = "down" /\ phase' = "boot"
  /\ UNCHANGED <<store, adguard, timers, pc, kind, cur, queue, snap, plan,
                 failed, now, faulty>>

Tick ==
  /\ now < MaxTime /\ now' = now + 1
  /\ UNCHANGED <<store, adguard, engine, faulty>>

\* From here on every call succeeds and the process stays up.
FaultsEnd == faulty /\ faulty' = FALSE /\ UNCHANGED <<store, adguard, engine, now>>

\* A parent, or another tool, edits AdGuard directly.
UIBlock(c, s) ==
  /\ "block" \in UIEdits /\ c \in present /\ s \notin blocked[c]
  /\ AddBlockedServices(c, {s})
  /\ UNCHANGED <<present, global>>

UIUnblock(c, s) ==
  /\ "unblock" \in UIEdits /\ c \in present /\ s \in blocked[c]
  /\ blocked' = [blocked EXCEPT ![c] = @ \ {s}]
  /\ UNCHANGED <<present, global, owed>>

UIGlobal(c) ==
  /\ "global" \in UIEdits /\ c \in present
  /\ global' = IF c \in global THEN global \ {c} ELSE global \cup {c}
  /\ UNCHANGED <<present, blocked, owed>>

UIDelete(c) ==
  /\ "delete" \in UIEdits /\ c \in present
  /\ present' = present \ {c} /\ global' = global \ {c}
  /\ blocked' = [blocked EXCEPT ![c] = {}]
  /\ owed' = owed \ ({c} \X Service)

UIAdd(c) ==
  /\ "add" \in UIEdits /\ c \notin present
  /\ present' = present \cup {c}
  /\ UNCHANGED <<global, blocked, owed>>

UI ==
  /\ \E c \in Client :
       \/ \E s \in Service : UIBlock(c, s) \/ UIUnblock(c, s)
       \/ UIGlobal(c) \/ UIDelete(c) \/ UIAdd(c)
  /\ UNCHANGED <<store, engine, now, faulty>>

-----------------------------------------------------------------------------
Parent ==
  \/ \E r \in Requests, d \in Durations : CreateRow(r, d)
  \/ \E g \in GrantId : End(g) \/ \E d \in Durations : Extend(g, d)

\* The steps of an operation that already holds Engine.mu.
EngineStep ==
  \/ UnblockRead \/ CreateReturn
  \/ RevertList \/ RevertReturn
  \/ ReconcileRead \/ ReconcileNext \/ RepairReturn \/ ReconcileReturn
  \/ \E c \in Client : UnblockClient(c) \/ RevertClient(c)

Next ==
  \/ Parent \/ EngineStep \/ ReconcileList
  \/ \E g \in GrantId : Expire(g)
  \/ Close \/ Crash \/ Restart \/ Tick \/ FaultsEnd \/ UI

Spec == Init /\ [][Next]_vars

\* An operation holding the mutex goes on to its end (its AdGuard calls share
\* one ApplyTimeout); Run's ticker keeps asking for passes; systemd restarts
\* the process, or its operator does after a stop; outages pass.  Nothing is
\* asked of the clock, of timers, of parents or of AdGuard's UI.
Fairness ==
  /\ WF_vars(EngineStep) /\ WF_vars(ReconcileList)
  /\ WF_vars(phase = "closed" /\ Crash) /\ WF_vars(Restart)
  /\ WF_vars(FaultsEnd)

FairSpec == Spec /\ Fairness

-----------------------------------------------------------------------------
(* Properties                                                              *)

\* Whatever the app took out of a client's list and nobody has put back is
\* held open by a grant that is still active (so its expiry will restore it):
\* a partial apply, a failed revert, a crash or a shared device never strands
\* an unblock.  grants.go Create/revert/expireLocked/End, README "expired
\* grants are always reverted".
NoStrandedUnblock ==
  \A p \in owed : \E g \in GrantId : Covers(g, p[1], p[2])

\* A write of the engine puts back only what no other grant covers, or takes
\* out only what its grant covers.
ReblocksOnlyUnheld ==
  \A c \in Client, s \in Service :
    plan'[c] # plan[c] /\ s \notin blocked[c] /\ s \in blocked'[c]
    => \A g \in GrantId \ {cur} : ~Covers(g, c, s)

UnblocksOnlyCovered ==
  \A c \in Client, s \in Service :
    plan'[c] # plan[c] /\ s \in blocked[c] /\ s \notin blocked'[c]
    => Covers(cur, c, s)

\* Ending or expiring one child's grant never re-blocks, on a shared client, a
\* service another active grant holds open there (shared_device_rule; revert).
NeverReblockHeld == [][ReblocksOnlyUnheld]_vars

\* The engine lifts a block only for a grant in force: the row that covers it
\* is committed and active at the moment of the write, in Create and in a
\* reconcile pass that works from an old read.
NoUnblockWithoutGrant == [][UnblocksOnlyCovered]_vars

\* A grant past its end does not stay so: once faults stop, the reconciler
\* reverts it, unless a parent extends it first, even if every timer was lost
\* with the process.
OverdueReverted ==
  \A g \in GrantId :
    (g \in Active /\ now >= endsAt[g]) ~> ~(g \in Active /\ now >= endsAt[g])

\* Something granted does not stay blocked while its grant is live: a partial
\* apply and a re-block in AdGuard's UI are both converged by the reconciler.
Drift(g, c, s) ==
  /\ Covers(g, c, s) /\ now < endsAt[g]
  /\ c \in present \ global /\ s \in blocked[c]

DriftRepaired ==
  \A g \in GrantId, c \in Client, s \in Service :
    Drift(g, c, s) ~> ~Drift(g, c, s)

\* The engine implements the promise of GrantPromise: with owed for what is
\* lifted, every step of an operation, a fault, a crash or an edit in the UI is
\* one of its steps or changes nothing it can see.
Promise == INSTANCE GrantPromise WITH opened <- owed

KeepsPromise == Promise!Spec
=============================================================================
