----------------------------- MODULE Household -----------------------------
(***************************************************************************)
(* Children and their devices: the handlers that create, edit and delete a *)
(* child (internal/api/children.go over internal/store/children.go) or     *)
(* add a device (internal/api/clients.go), the baseline a joining device   *)
(* gets in AdGuard (internal/grants/clients.go), and what a parent is then *)
(* shown (module BlockedView).                                             *)
(*                                                                         *)
(* A handler reads the store, hands its AdGuard work to the engine, which  *)
(* does it under Engine.mu, and then writes the store; child rows are not  *)
(* under that mutex.  Grant operations are under it throughout and are     *)
(* single steps here, each with any set of its writes failing (module      *)
(* Grants takes them apart).  Any AdGuard write may fail, applied or not.  *)
(***************************************************************************)
EXTENDS Naturals, FiniteSets, BlockedView

CONSTANTS
  Client, Service, Name,
  Form,         \* requests to the children and clients handlers, at once
  Tap,          \* grant requests in flight at once
  Nobody,
  MaxChildren,  \* bound: the highest row id of a child
  MaxGrants,    \* bound: grants ever created
  MaxEdits,     \* bound: forms sent, children deleted, blocked views asked for,
                \* edits in AdGuard's UI
  UIEdits       \* which edits of AdGuard's UI

EditKind == {"block", "unblock", "global", "list", "delete", "add"}

ASSUME BoundsAssumption == {MaxChildren, MaxGrants, MaxEdits} \subseteq Nat
ASSUME NobodyAssumption == Nobody \notin Form \cup Name
ASSUME UIEditsAssumption == UIEdits \subseteq EditKind

ChildId == 1..MaxChildren
NoId    == 0        \* AdoptClients' childID for a child that is not stored yet

VARIABLES
  \* the store
  kid,        \* children: [ChildId -> Name, or Nobody where there is no row]
  mapping,    \* child_clients: [ChildId -> SUBSET Client]
  grants,     \* the active grants' rows
  made,       \* grants created so far
  \* AdGuard
  present, inherits, own, globalList,
  \* the process
  mu,         \* Engine.mu: the form that holds it, or Nobody
  form,       \* [Form -> where its handler is, and what it works on]
  tap,        \* [Tap -> the child and names a grant request has read]
  plan,       \* what the engine call that holds it will add, per client
  todo,       \* AdoptClients: the clients it has still to write
  view,       \* a request for a child's blocked view, and what it has read
  edits,
  \* history
  owed,       \* what the app took out of a list and nobody has put back
  due,        \* what the child's devices block, grants apart, when one joins
  promised,   \* what a device that joined a child was to block from then on
  reused      \* ids of children that were deleted: they may be given again

rows    == <<kid, mapping>>
adguard == <<present, inherits, own, globalList>>
adopt   == <<mu, plan, todo, due>>
vars    == <<rows, grants, made, adguard, adopt, form, tap, edits,
             owed, promised, reused, view>>

Pair   == Client \X Service
Grant  == [id : 1..MaxGrants, child : ChildId, services : SUBSET Service,
           clients : SUBSET Client, orphan : BOOLEAN]
NoForm == [pc |-> "idle", id |-> NoId, name |-> Nobody, clients |-> {},
           siblings |-> {}]
NoPlan == [c \in Client |-> {}]
NoTap  == [child |-> NoId, clients |-> {}, orphan |-> FALSE]

\* A grant as the blocked view gets it (blocked.GrantCover).
Cover    == [id : 1..MaxGrants, child : ChildId, services : SUBSET Service,
             clients : SUBSET Client]
NoOwners == [c \in Client |-> {}]
NoView   == [pc |-> "idle", child |-> NoId, mapped |-> {}, owners |-> NoOwners,
             grants |-> {}, degraded |-> FALSE, upTo |-> 0]

TypeOK ==
  /\ kid \in [ChildId -> Name \cup {Nobody}]
  /\ \A j, k \in ChildId : kid[j] = kid[k] /\ kid[j] # Nobody => j = k
  /\ mapping \in [ChildId -> SUBSET Client]
  /\ \A k \in ChildId : kid[k] = Nobody => mapping[k] = {}
  /\ grants \subseteq Grant /\ made \in 0..MaxGrants
  /\ \A g, h \in grants : g.id = h.id => g = h
  /\ present \subseteq Client /\ inherits \subseteq present
  /\ own \in [Client -> SUBSET Service] /\ globalList \subseteq Service
  /\ mu \in Form \cup {Nobody} /\ todo \subseteq Client
  /\ plan \in [Client -> SUBSET Service]
  /\ form \in [Form -> [pc : {"idle", "adopt", "writes", "save", "new", "add", "map"},
                        id : ChildId \cup {NoId}, name : Name \cup {Nobody},
                        clients : SUBSET Client, siblings : SUBSET Client]]
  /\ \A f \in Form : form[f].pc \in {"writes", "add", "map"} <=> mu = f
  /\ tap \in [Tap -> [child : ChildId \cup {NoId}, clients : SUBSET Client,
                      orphan : BOOLEAN]]
  /\ edits \in 0..MaxEdits
  /\ owed \subseteq Pair /\ promised \subseteq Pair
  /\ due \subseteq Service /\ reused \subseteq ChildId
  /\ view \in [pc : {"idle", "children", "grants", "adguard"},
               child : ChildId \cup {NoId}, mapped : SUBSET Client,
               owners : [Client -> SUBSET ChildId], grants : SUBSET Cover,
               degraded : BOOLEAN, upTo : 0..MaxGrants]

-----------------------------------------------------------------------------
(* The store                                                               *)

Kids == {k \in ChildId : kid[k] # Nobody}

\* children.id has no AUTOINCREMENT: one more than the highest id there is.
NextId == CHOOSE k \in 1..(MaxChildren + 1) :
            /\ \A j \in Kids : j < k
            /\ k = 1 \/ k - 1 \in Kids

\* Mutant: a child's name may be taken.
NameTakenNever(self, n) == FALSE

\* checkConflicts, and updateConflict which mirrors it in the handlers.
NameTaken(self, n) == \E k \in Kids \ {self} : kid[k] = n

Owners(c) == {k \in Kids : c \in mapping[k]}

Clients == [present |-> present, inherits |-> inherits, own |-> own,
            global |-> globalList]

Effective(c) == EffectiveIn(Clients, c)

Covers(g, c, s) == c \in g.clients /\ s \in g.services

\* Mutant: what is held open anywhere counts.
HeldOpenAnywhere(G, c) == UNION {g.services : g \in G}

\* shared.go heldOpen over a set of grants.
HeldOpen(G, c) == UNION {g.services : g \in {h \in G : c \in h.clients}}

-----------------------------------------------------------------------------
(* The baseline                                                            *)

\* Mutant: only the child's own grants are made up for.
BaselineFromOwn(id, siblings) ==
  LET known == siblings \cap present IN
  (IF known = {} THEN globalList ELSE UNION {Effective(d) : d \in known})
    \cup UNION {g.services : g \in {h \in grants : h.child = id}}

\* baselineFrom: what the siblings AdGuard knows block, or the global list,
\* and what the child's grants, or any grant on those siblings, has lifted.
BaselineFrom(id, siblings) ==
  LET known == siblings \cap present IN
  (IF known = {} THEN globalList ELSE UNION {Effective(d) : d \in known})
    \cup UNION {g.services : g \in {h \in grants :
                                      h.child = id \/ h.clients \cap known # {}}}

\* AdoptClients: the baseline without what a grant holds open on the client.
AdoptPlan(id, siblings) ==
  [c \in Client |-> BaselineFrom(id, siblings) \ HeldOpen(grants, c)]

\* What the siblings would block if the app had not lifted anything.
Due(siblings) ==
  LET known == siblings \cap present IN
  IF known = {} THEN globalList
  ELSE {s \in Service : \E d \in known : s \in Effective(d) \/ <<d, s>> \in owed}

-----------------------------------------------------------------------------
Init ==
  /\ \E n \in Name : kid = [k \in ChildId |-> IF k = 1 THEN n ELSE Nobody]
  /\ mapping \in [ChildId -> SUBSET Client]
  /\ \A k \in ChildId \ {1} : mapping[k] = {}
  /\ grants = {} /\ made = 0
  /\ present \in SUBSET Client /\ inherits \in SUBSET present
  /\ own \in [Client -> SUBSET Service] /\ globalList \in SUBSET Service
  /\ \A c \in Client \ present : own[c] = {}
  /\ mu = Nobody /\ plan = NoPlan /\ todo = {} /\ due = {}
  /\ form = [f \in Form |-> NoForm] /\ tap = [t \in Tap |-> NoTap]
  /\ edits = 0 /\ owed = {} /\ promised = {} /\ reused = {} /\ view = NoView

Edit == edits < MaxEdits /\ edits' = edits + 1

At(f, where) == form[f].pc = where
Goto(f, where) == form' = [form EXCEPT ![f].pc = where]
Answer(f) == form' = [form EXCEPT ![f] = NoForm]

-----------------------------------------------------------------------------
(* POST and PUT of a child                                                 *)

\* Both handlers read the store first; only clients that the child does not
\* have yet are adopted, and with none AdGuard is not called at all.
Begin(f, id, n, C) ==
  LET siblings == IF id = NoId THEN {} ELSE C \cap mapping[id] IN
  /\ At(f, "idle") /\ Edit /\ ~NameTaken(id, n)
  /\ form' = [form EXCEPT ![f] =
                [pc |-> IF C = siblings THEN "save" ELSE "adopt", id |-> id,
                 name |-> n, clients |-> C, siblings |-> siblings]]
  /\ UNCHANGED <<rows, grants, made, adguard, adopt, tap, owed, promised, reused, view>>

ChildCreate(f, n, C) == Begin(f, NoId, n, C)
ChildUpdate(f, id, n, C) == id \in Kids /\ Begin(f, id, n, C)

\* Mutant: the mutex is released between the reads and the writes.
AdoptReadUnlocked(f) ==
  /\ At(f, "adopt") /\ mu = Nobody
  /\ todo' = (form[f].clients \ form[f].siblings) \cap present
  /\ plan' = AdoptPlan(form[f].id, form[f].siblings)
  /\ due' = Due(form[f].siblings)
  /\ Goto(f, "writes")
  /\ UNCHANGED <<rows, grants, made, adguard, mu, tap, edits, owed, promised, reused, view>>

\* AdoptClients takes the mutex, reads AdGuard and the active grants; a failed
\* read ends the request with nothing saved.
AdoptRead(f) ==
  /\ At(f, "adopt") /\ mu = Nobody
  /\ \/ /\ mu' = f /\ Goto(f, "writes")
        /\ todo' = (form[f].clients \ form[f].siblings) \cap present
        /\ plan' = AdoptPlan(form[f].id, form[f].siblings)
        /\ due' = Due(form[f].siblings)
     \/ Answer(f) /\ UNCHANGED adopt
  /\ UNCHANGED <<rows, grants, made, adguard, tap, edits, owed, promised, reused, view>>

\* AdoptBlockedServices: the client's effective list plus the ids becomes its
\* own list.
AdoptBlockedServices(c, ids) ==
  /\ own' = [own EXCEPT ![c] = Effective(c) \cup ids]
  /\ inherits' = inherits \ {c}
  /\ owed' = owed \ ({c} \X own'[c])

Unlock == mu' = Nobody /\ plan' = NoPlan /\ todo' = {} /\ due' = {}

\* One client's write: a client that has gone meanwhile is passed over, an
\* error (the write applied or not) ends the request with nothing saved.
AdoptWrite(f, c) ==
  /\ At(f, "writes") /\ c \in todo
  /\ \/ /\ c \in present /\ AdoptBlockedServices(c, plan[c])
        /\ promised' = promised \cup ({c} \X due)
        /\ todo' = todo \ {c} /\ UNCHANGED <<mu, plan, due, form>>
     \/ /\ c \notin present /\ todo' = todo \ {c}
        /\ UNCHANGED <<own, inherits, owed, promised, mu, plan, due, form>>
     \/ /\ Answer(f) /\ Unlock
        /\ \/ UNCHANGED <<own, inherits, owed>>
           \/ c \in present /\ AdoptBlockedServices(c, plan[c])
        /\ UNCHANGED promised
  /\ UNCHANGED <<rows, grants, made, present, globalList, tap, edits, reused, view>>

AdoptReturn(f) ==
  /\ At(f, "writes") /\ todo = {} /\ Unlock /\ Goto(f, "save")
  /\ UNCHANGED <<rows, grants, made, adguard, tap, edits, owed, promised, reused, view>>

\* CreateChild and UpdateChild: a transaction that checks the name again and,
\* for an update, that the child is still there; the client set is replaced.
\* Refused or failing, it leaves the devices adopted and the rows alone.
ChildSave(f) ==
  LET id == IF form[f].id = NoId THEN NextId ELSE form[f].id IN
  /\ At(f, "save") /\ id \in ChildId
  /\ \/ /\ ~NameTaken(form[f].id, form[f].name)
        /\ form[f].id = NoId \/ form[f].id \in Kids
        /\ kid' = [kid EXCEPT ![id] = form[f].name]
        /\ mapping' = [mapping EXCEPT ![id] = form[f].clients]
     \/ UNCHANGED rows
  /\ Answer(f)
  /\ UNCHANGED <<grants, made, adguard, adopt, tap, edits, owed, promised, reused, view>>

\* DELETE cascades to child_clients; grants and AdGuard are left as they are.
ChildDelete(k) ==
  /\ k \in Kids /\ Edit
  /\ kid' = [kid EXCEPT ![k] = Nobody]
  /\ mapping' = [mapping EXCEPT ![k] = {}]
  /\ grants' = {IF g.child = k THEN [g EXCEPT !.orphan = TRUE] ELSE g : g \in grants}
  /\ tap' = [t \in Tap |-> IF tap[t].child = k THEN [tap[t] EXCEPT !.orphan = TRUE]
                                               ELSE tap[t]]
  /\ reused' = reused \cup {k}
  /\ UNCHANGED <<made, adguard, adopt, form, owed, promised, view>>

-----------------------------------------------------------------------------
(* POST of a client                                                        *)

\* handleClientCreate: nobody but the child itself may hold the name.
ClientCreate(f, id, c) ==
  /\ At(f, "idle") /\ Edit /\ id \in Kids \cup {NoId} /\ Owners(c) \subseteq {id}
  /\ form' = [form EXCEPT ![f] = [pc |-> "new", id |-> id, name |-> Nobody,
                                  clients |-> {c}, siblings |-> {}]]
  /\ UNCHANGED <<rows, grants, made, adguard, adopt, tap, owed, promised, reused, view>>

\* CreateClient, under the mutex: the child again, its baseline from all its
\* clients.  Refused or failing reads end the request.
CreateClientRead(f) ==
  LET id == form[f].id IN
  /\ At(f, "new") /\ mu = Nobody
  /\ \/ /\ id \in Kids \cup {NoId}
        /\ mu' = f /\ Goto(f, "add") /\ UNCHANGED todo
        /\ plan' = IF id = NoId THEN NoPlan
                   ELSE [c \in Client |-> BaselineFrom(id, mapping[id])]
        /\ due'  = IF id = NoId THEN {} ELSE Due(mapping[id])
     \/ Answer(f) /\ UNCHANGED adopt
  /\ UNCHANGED <<rows, grants, made, adguard, tap, edits, owed, promised, reused, view>>

\* AddClient: a client of a child gets its own list, any other one inherits.
AddClient(f, c) ==
  /\ c \notin present /\ present' = present \cup {c}
  /\ own' = [own EXCEPT ![c] = plan[c]]
  /\ inherits' = IF form[f].id = NoId THEN inherits \cup {c} ELSE inherits

CreateClientAdd(f) ==
  /\ At(f, "add")
  /\ \E c \in form[f].clients :
       \/ /\ AddClient(f, c) /\ promised' = promised \cup ({c} \X due)
          /\ IF form[f].id = NoId THEN Answer(f) /\ Unlock
                                  ELSE Goto(f, "map") /\ UNCHANGED adopt
       \/ /\ Answer(f) /\ Unlock /\ UNCHANGED promised
          /\ AddClient(f, c) \/ UNCHANGED <<present, own, inherits>>
  /\ UNCHANGED <<rows, grants, made, globalList, tap, edits, owed, reused, view>>

\* AddChildClient inserts the one row unless the child has gone or another
\* child has taken the name; the client stays in AdGuard either way.
CreateClientMap(f) ==
  LET id == form[f].id
      c  == CHOOSE d \in form[f].clients : TRUE
  IN
  /\ At(f, "map") /\ Answer(f) /\ Unlock
  /\ \/ /\ id \in Kids /\ Owners(c) \subseteq {id}
        /\ mapping' = [mapping EXCEPT ![id] = @ \cup {c}]
     \/ UNCHANGED mapping
  /\ UNCHANGED <<kid, grants, made, adguard, tap, edits, owed, promised, reused, view>>

-----------------------------------------------------------------------------
(* Grants                                                                  *)

\* handleGrantCreate reads the child and its clients ...
GrantRequest(t, k) ==
  /\ tap[t] = NoTap /\ k \in Kids /\ mapping[k] # {} /\ made < MaxGrants
  /\ tap' = [tap EXCEPT ![t] = [child |-> k, clients |-> mapping[k],
                                orphan |-> FALSE]]
  /\ UNCHANGED <<rows, grants, made, adguard, adopt, form, edits, owed,
                 promised, reused, view>>

\* The lists of the clients W as the app takes ids[c] out of, or puts it back.
Remove(W, ids) ==
  /\ own' = [c \in Client |-> IF c \in W THEN own[c] \ ids ELSE own[c]]
  /\ owed' = owed \cup {p \in W \X ids : p[2] \in own[p[1]]}

NoOverlap(k, S) == \A g \in grants : g.child = k => g.services \cap S = {}

\* ... and Create works with them, however old they are; a grant is refused
\* for a service the child has one for already.
GrantCreate(t, S) ==
  LET k == tap[t].child
      C == tap[t].clients
  IN
  /\ tap[t] # NoTap /\ mu = Nobody /\ tap' = [tap EXCEPT ![t] = NoTap]
  /\ IF NoOverlap(k, S) /\ made < MaxGrants
       THEN /\ made' = made + 1
            /\ grants' = grants \cup {[id |-> made + 1, child |-> k, services |-> S,
                                       clients |-> C, orphan |-> tap[t].orphan]}
            /\ \E W \in SUBSET (C \cap (present \ inherits)) : Remove(W, S)
       ELSE UNCHANGED <<grants, made, own, owed>>
  /\ UNCHANGED <<rows, present, inherits, globalList, adopt, form, edits,
                 promised, reused, view>>

\* revert: what no other grant holds open goes back, also into the list of a
\* client that inherits; one failure (applied or not) keeps the row active.
GrantEnd(g) ==
  LET G    == grants \ {g}
      back == [c \in g.clients \cap present |-> g.services \ HeldOpen(G, c)]
  IN
  /\ mu = Nobody
  /\ \E W \in SUBSET DOMAIN back :
       /\ own' = [c \in Client |-> IF c \in W THEN own[c] \cup back[c] ELSE own[c]]
       /\ owed' = {p \in owed : ~(p[1] \in W /\ p[2] \in back[p[1]])}
       /\ \/ W = DOMAIN back /\ grants' = G
          \/ UNCHANGED grants
  /\ UNCHANGED <<rows, made, present, inherits, globalList, adopt, form, tap,
                 edits, promised, reused, view>>

\* A reconcile pass opens again what an active grant covers.
GrantRepair(g) ==
  /\ mu = Nobody
  /\ \E c \in g.clients \cap (present \ inherits) :
       own[c] \cap g.services # {} /\ Remove({c}, g.services)
  /\ UNCHANGED <<rows, grants, made, present, inherits, globalList, adopt, form,
                 tap, edits, promised, reused, view>>

-----------------------------------------------------------------------------
(* GET of a child's blocked view                                           *)

Looking(where) == view.pc = where
Looked == view' = NoView
Untouched == UNCHANGED <<rows, grants, made, adguard, adopt, form, tap, owed,
                         promised, reused>>

\* handleBlocked: the child and its clients; an unknown child is a 404.
ViewChild(k) ==
  /\ Looking("idle") /\ k \in Kids /\ Edit
  /\ view' = [NoView EXCEPT !.pc = "children", !.child = k, !.mapped = mapping[k]]
  /\ Untouched

\* sharedInputs: the owners of every client, and then the active grants.  When
\* the children cannot be read the answer does without both ...
ViewChildren ==
  /\ Looking("children")
  /\ \/ view' = [view EXCEPT !.pc = "grants",
                             !.owners = [c \in Client |-> Owners(c)]]
     \/ view' = [view EXCEPT !.pc = "adguard", !.degraded = TRUE]
  /\ Untouched /\ UNCHANGED edits

CoverOf(g) == [id |-> g.id, child |-> g.child, services |-> g.services,
               clients |-> g.clients]

\* ... and when the grants cannot, without those.  upTo is history: how many
\* grants there had been by then.
ViewGrants ==
  /\ Looking("grants")
  /\ \/ view' = [view EXCEPT !.pc = "adguard", !.upTo = made,
                             !.grants = {CoverOf(g) : g \in grants}]
     \/ view' = [view EXCEPT !.pc = "adguard", !.degraded = TRUE]
  /\ Untouched /\ UNCHANGED edits

\* AdGuard's lists, and the answer from them (Shown below), or an error.
ViewAnswer == Looking("adguard") /\ Looked /\ Untouched /\ UNCHANGED edits

Family == [owners |-> view.owners, grants |-> view.grants]

\* What the request answers if it reads AdGuard now.
Shown == Compute(Clients, Family, view.child, view.mapped, Service)

-----------------------------------------------------------------------------
(* AdGuard's own UI                                                        *)

UIBlock(c, s) ==
  /\ "block" \in UIEdits /\ c \in present /\ s \notin own[c]
  /\ own' = [own EXCEPT ![c] = @ \cup {s}] /\ owed' = owed \ {<<c, s>>}
  /\ UNCHANGED <<present, inherits, globalList, promised>>

UIUnblock(c, s) ==
  /\ "unblock" \in UIEdits /\ c \in present /\ s \in own[c]
  /\ own' = [own EXCEPT ![c] = @ \ {s}] /\ promised' = promised \ {<<c, s>>}
  /\ UNCHANGED <<present, inherits, globalList, owed>>

UIGlobal(c) ==
  /\ "global" \in UIEdits /\ c \in present
  /\ inherits' = IF c \in inherits THEN inherits \ {c} ELSE inherits \cup {c}
  /\ promised' = promised \ ({c} \X Service)
  /\ UNCHANGED <<present, own, globalList, owed>>

UIList(s) ==
  /\ "list" \in UIEdits
  /\ globalList' = IF s \in globalList THEN globalList \ {s} ELSE globalList \cup {s}
  /\ UNCHANGED <<present, inherits, own, owed, promised>>

UIDelete(c) ==
  /\ "delete" \in UIEdits /\ c \in present
  /\ present' = present \ {c} /\ inherits' = inherits \ {c}
  /\ own' = [own EXCEPT ![c] = {}]
  /\ owed' = owed \ ({c} \X Service) /\ promised' = promised \ ({c} \X Service)
  /\ UNCHANGED globalList

UIAdd(c) ==
  /\ "add" \in UIEdits /\ c \notin present
  /\ present' = present \cup {c} /\ inherits' = inherits \cup {c}
  /\ UNCHANGED <<own, globalList, owed, promised>>

UI ==
  /\ Edit
  /\ \/ \E c \in Client :
          \/ \E s \in Service : UIBlock(c, s) \/ UIUnblock(c, s)
          \/ UIGlobal(c) \/ UIDelete(c) \/ UIAdd(c)
     \/ \E s \in Service : UIList(s)
  /\ UNCHANGED <<rows, grants, made, adopt, form, tap, reused, view>>

-----------------------------------------------------------------------------
FormStep(f) ==
  \/ AdoptRead(f) \/ AdoptReturn(f) \/ ChildSave(f)
  \/ CreateClientRead(f) \/ CreateClientAdd(f) \/ CreateClientMap(f)
  \/ \E c \in Client : AdoptWrite(f, c)

NewForm(f) ==
  \/ \E n \in Name, C \in SUBSET Client :
       ChildCreate(f, n, C) \/ \E k \in ChildId : ChildUpdate(f, k, n, C)
  \/ \E k \in ChildId \cup {NoId}, c \in Client : ClientCreate(f, k, c)

Next ==
  \/ \E f \in Form : FormStep(f) \/ NewForm(f)
  \/ \E k \in ChildId : ChildDelete(k) \/ \E t \in Tap : GrantRequest(t, k)
  \/ \E t \in Tap, S \in (SUBSET Service) \ {{}} : GrantCreate(t, S)
  \/ \E g \in grants : GrantEnd(g) \/ GrantRepair(g)
  \/ \E k \in ChildId : ViewChild(k)
  \/ ViewChildren \/ ViewGrants \/ ViewAnswer
  \/ UI

Spec == Init /\ [][Next]_vars

-----------------------------------------------------------------------------
(* Properties                                                              *)

\* A device that joined a child goes on blocking what the child's devices
\* blocked, what grants had lifted from them at that moment included, unless a
\* grant in force covers it on this very device or a parent lifts the block in
\* AdGuard (baselineFrom and revert: "a grant running for the child never
\* leaves the new device open after expiry").
JoinedDeviceBlocks ==
  \A p \in promised :
    p[2] \in Effective(p[1]) \/ \E g \in grants : Covers(g, p[1], p[2])

\* The writes of an adoption only add to what a device blocks, and never block
\* what some child's grant in force holds open there, whatever parents do in
\* AdGuard's UI between the baseline's read and the write (AdoptClients,
\* AdoptBlockedServices; shared_device_rule).
AdoptionOnlyAdds ==
  [][todo' # todo =>
       \A c \in present :
         /\ Effective(c) \subseteq Effective(c)'
         /\ \A s \in Effective(c)' \ Effective(c) :
              \A g \in grants : ~Covers(g, c, s)]_vars

\* A service the app has opened on a child's device is never a riddle to the
\* child's parent: it is open under a grant of that child, or the blocked view
\* names the other child's grant, although the view puts together what it read
\* of children, grants and AdGuard at three different moments, with sharing,
\* edits, deletions and grants ending in between.  The exceptions are an answer
\* that does without what could not be read, a grant created after the grants
\* were read, and a child with the row id of a deleted one: the grants of its
\* predecessor pass for its own (handleBlocked, sharedInputs, Compute).
OpenIsExplained ==
  Looking("adguard") /\ ~view.degraded /\ view.child \in Kids \ reused =>
    \A c \in view.mapped, s \in Service :
      <<c, s>> \in owed /\ s \notin Effective(c) =>
        \/ \E g \in grants :
             /\ Covers(g, c, s)
             /\ (g.child = view.child /\ ~g.orphan) \/ g.id > view.upTo
        \/ \E u \in Shown.services[s].unblockedBy : u.client = c
=============================================================================
