-------------------------- MODULE HouseholdProofs --------------------------
(***************************************************************************)
(* Proofs about children and their devices, for any number of devices,     *)
(* services, children, grants, requests in flight and edits.               *)
(***************************************************************************)
EXTENDS Household, TLAPS

\* TypeOK by the state it is about, each part with what the handlers have
\* made sure of when they work on it.
RowsOK ==
  /\ kid \in [ChildId -> Name \cup {Nobody}]
  /\ \A j, k \in ChildId : kid[j] = kid[k] /\ kid[j] # Nobody => j = k
  /\ mapping \in [ChildId -> SUBSET Client]
  /\ \A k \in ChildId : kid[k] = Nobody => mapping[k] = {}

\* The ids of grants are handed out in order.
GrantsOK ==
  /\ grants \subseteq Grant /\ made \in 0..MaxGrants
  /\ \A g, h \in grants : g.id = h.id => g = h
  /\ \A g \in grants : g.id <= made

ListsOK ==
  /\ present \subseteq Client /\ inherits \subseteq present
  /\ own \in [Client -> SUBSET Service] /\ globalList \subseteq Service

FormType == [pc : {"idle", "adopt", "writes", "save", "new", "add", "map"},
             id : ChildId \cup {NoId}, name : Name \cup {Nobody},
             clients : SUBSET Client, siblings : SUBSET Client]

\* A child that is to be saved has a name, a client request its one client,
\* and only the holder of the mutex is inside the engine.
FormsOK ==
  /\ mu \in Form \cup {Nobody} /\ form \in [Form -> FormType]
  /\ \A f \in Form : form[f].pc \in {"writes", "add", "map"} <=> mu = f
  /\ \A f \in Form : form[f].pc \in {"adopt", "writes", "save"} => form[f].name \in Name
  /\ \A f \in Form : form[f].pc \in {"new", "add", "map"} => form[f].clients # {}

WorkOK ==
  /\ todo \subseteq Client /\ plan \in [Client -> SUBSET Service] /\ due \subseteq Service

\* A grant request in flight is for a child.
TapsOK ==
  /\ tap \in [Tap -> [child : ChildId \cup {NoId}, clients : SUBSET Client,
                      orphan : BOOLEAN]]
  /\ \A t \in Tap : tap[t].child = NoId => tap[t] = NoTap

BooksOK ==
  /\ edits \in 0..MaxEdits /\ owed \subseteq Pair /\ promised \subseteq Pair
  /\ reused \subseteq ChildId

Typed == RowsOK /\ GrantsOK /\ ListsOK /\ FormsOK /\ WorkOK /\ TapsOK /\ BooksOK

ViewType == [pc : {"idle", "children", "grants", "adguard"},
             child : ChildId \cup {NoId}, mapped : SUBSET Client,
             owners : [Client -> SUBSET ChildId], grants : SUBSET Cover,
             degraded : BOOLEAN, upTo : 0..MaxGrants]

\* A request for a blocked view, once it has read the grants, has every grant
\* that was there then and still is, and knows of none that was not.
ViewOK ==
  /\ view \in ViewType /\ view.upTo <= made
  /\ view.pc = "adguard" /\ ~view.degraded =>
       \A g \in grants : g.id <= view.upTo => CoverOf(g) \in view.grants

LEMMA TypedIsTypeOK == Typed /\ ViewOK => TypeOK
BY DEF Typed, TypeOK, RowsOK, GrantsOK, ListsOK, FormsOK, FormType, WorkOK, TapsOK, BooksOK,
       ViewOK, ViewType

-----------------------------------------------------------------------------
(* Parts that a step leaves alone                                          *)

LEMMA RowsKept == RowsOK /\ UNCHANGED rows => RowsOK'
BY DEF RowsOK, rows

LEMMA GrantsKept == GrantsOK /\ UNCHANGED <<grants, made>> => GrantsOK'
BY DEF GrantsOK

LEMMA ListsKept == ListsOK /\ UNCHANGED adguard => ListsOK'
BY DEF ListsOK, adguard

LEMMA WorkKept == WorkOK /\ UNCHANGED <<todo, plan, due>> => WorkOK'
BY DEF WorkOK

LEMMA TapsKept == TapsOK /\ UNCHANGED tap => TapsOK'
BY DEF TapsOK

LEMMA FormsKept == FormsOK /\ UNCHANGED <<mu, form>> => FormsOK'
BY DEF FormsOK

LEMMA BooksKept == BooksOK /\ UNCHANGED <<edits, owed, promised, reused>> => BooksOK'
BY DEF BooksOK

-----------------------------------------------------------------------------
(* The operators the steps are made of                                     *)

LEMMA NoFormType == NoForm \in FormType /\ NoForm.pc = "idle"
BY DEF NoForm, FormType, NoId

LEMMA NoPlanType == NoPlan \in [Client -> SUBSET Service]
BY DEF NoPlan

LEMMA EffectiveType ==
  ASSUME ListsOK, NEW c \in Client
  PROVE  /\ Effective(c) = IF c \in inherits THEN globalList ELSE own[c]
         /\ Effective(c) \subseteq Service
BY DEF ListsOK, Effective, EffectiveIn, Clients

LEMMA BaselineType ==
  ASSUME ListsOK, GrantsOK, NEW id, NEW siblings
  PROVE  BaselineFrom(id, siblings) \subseteq Service
<1>1. \A d \in siblings \cap present : Effective(d) \subseteq Service
  BY EffectiveType DEF ListsOK
<1>2. \A g \in grants : g.services \subseteq Service
  BY DEF GrantsOK, Grant
<1> QED BY <1>1, <1>2 DEF BaselineFrom, ListsOK

LEMMA PlanType ==
  ASSUME ListsOK, GrantsOK, NEW id, NEW siblings
  PROVE  AdoptPlan(id, siblings) \in [Client -> SUBSET Service]
BY BaselineType DEF AdoptPlan

LEMMA DueType ==
  ASSUME ListsOK, NEW siblings
  PROVE  Due(siblings) \subseteq Service
BY DEF Due, ListsOK

\* The request is answered.
LEMMA AnswerForms ==
  ASSUME FormsOK, NEW f \in Form, Answer(f), mu \in {f, Nobody}, mu' = Nobody
  PROVE  FormsOK'
BY NoFormType, NobodyAssumption DEF FormsOK, Answer, FormType

\* A request arrives.
LEMMA BeginForms ==
  ASSUME FormsOK, NEW f \in Form, At(f, "idle"), NEW new \in FormType,
         form' = [form EXCEPT ![f] = new], mu' = mu,
         \/ new.pc \in {"save", "adopt"} /\ new.name \in Name
         \/ new.pc = "new" /\ new.clients # {}
  PROVE  FormsOK'
BY DEF FormsOK, At

\* The request goes on inside the engine.
LEMMA GotoForms ==
  ASSUME FormsOK, NEW f \in Form, NEW w, Goto(f, w),
         \/ At(f, "adopt") /\ w = "writes" /\ mu = Nobody /\ mu' = f
         \/ At(f, "writes") /\ w = "save" /\ mu' = Nobody
         \/ At(f, "new") /\ w = "add" /\ mu = Nobody /\ mu' = f
         \/ At(f, "add") /\ w = "map" /\ mu' = mu
  PROVE  FormsOK'
<1>1. mu \in {f, Nobody}
  BY DEF FormsOK, At
<1>2. form' = [form EXCEPT ![f] = [form[f] EXCEPT !.pc = w]]
  BY DEF Goto
<1>3. form[f] \in FormType
  BY DEF FormsOK
<1>4. /\ form'[f].pc = w /\ form'[f].name = form[f].name
      /\ form'[f].clients = form[f].clients /\ form'[f] \in FormType
  BY <1>2, <1>3 DEF FormsOK, FormType
<1>5. \A g \in Form \ {f} : form'[g] = form[g]
  BY <1>2 DEF FormsOK
<1>6. form' \in [Form -> FormType]
  BY <1>2, <1>4 DEF FormsOK
<1> QED BY <1>1, <1>3, <1>4, <1>5, <1>6, NobodyAssumption DEF FormsOK, At

LEMMA UnlockWork == Unlock => WorkOK' /\ mu' = Nobody
BY NoPlanType DEF Unlock, WorkOK

LEMMA AdoptOneType ==
  ASSUME Typed, NEW c \in Client, AdoptBlockedServices(c, plan[c]),
         UNCHANGED <<present, globalList>>
  PROVE  ListsOK' /\ owed' \subseteq Pair
<1>1. Effective(c) \cup plan[c] \subseteq Service
  BY EffectiveType DEF Typed, WorkOK
<1> QED BY <1>1 DEF Typed, ListsOK, BooksOK, AdoptBlockedServices, Pair

LEMMA AddClientType ==
  ASSUME Typed, NEW f \in Form, NEW c \in Client, AddClient(f, c), UNCHANGED globalList
  PROVE  ListsOK'
BY DEF Typed, ListsOK, WorkOK, AddClient

LEMMA RemoveType ==
  ASSUME Typed, NEW W \in SUBSET Client, NEW S \in SUBSET Service, Remove(W, S),
         UNCHANGED <<present, inherits, globalList>>
  PROVE  ListsOK' /\ owed' \subseteq Pair
BY DEF Typed, ListsOK, BooksOK, Remove, Pair

-----------------------------------------------------------------------------
(* Type correctness, step by step                                          *)

LEMMA TypedInit == Init => Typed
<1> SUFFICES ASSUME Init PROVE Typed
  OBVIOUS
<1>1. RowsOK
  <2>1. PICK n \in Name : kid = [k \in ChildId |-> IF k = 1 THEN n ELSE Nobody]
    BY DEF Init
  <2> QED BY <2>1, NobodyAssumption DEF Init, RowsOK, ChildId
<1>2. FormsOK
  BY NoFormType, NobodyAssumption DEF Init, FormsOK
<1>3. TapsOK
  BY DEF Init, TapsOK, NoTap, NoId
<1>4. GrantsOK /\ ListsOK /\ WorkOK /\ BooksOK
  BY NoPlanType, BoundsAssumption DEF Init, GrantsOK, ListsOK, WorkOK, BooksOK
<1> QED BY <1>1, <1>2, <1>3, <1>4 DEF Typed

LEMMA TypedBegin ==
  ASSUME Typed, NEW f \in Form, NewForm(f)
  PROVE  Typed'
<1> USE DEF Typed
<1>1. ASSUME NEW n \in Name, NEW C \in SUBSET Client, NEW id \in ChildId \cup {NoId},
             Begin(f, id, n, C)
      PROVE  Typed'
  <2> DEFINE siblings == IF id = NoId THEN {} ELSE C \cap mapping[id]
             new == [pc |-> IF C = siblings THEN "save" ELSE "adopt", id |-> id,
                     name |-> n, clients |-> C, siblings |-> siblings]
  <2>1. siblings \in SUBSET Client
    OBVIOUS
  <2>2. new \in FormType /\ new.pc \in {"save", "adopt"} /\ new.name \in Name
    BY <2>1 DEF FormType
  <2>3. form' = [form EXCEPT ![f] = new] /\ mu' = mu
    BY <1>1 DEF Begin, adopt
  <2> HIDE DEF new
  <2>4. FormsOK'
    BY <1>1, <2>2, <2>3, BeginForms DEF Begin
  <2>5. BooksOK'
    BY <1>1, BoundsAssumption DEF Begin, Edit, BooksOK
  <2> QED BY <1>1, <2>4, <2>5, RowsKept, GrantsKept, ListsKept, WorkKept, TapsKept
          DEF Begin, adopt
<1>2. ASSUME NEW k \in ChildId \cup {NoId}, NEW c \in Client, ClientCreate(f, k, c)
      PROVE  Typed'
  <2> DEFINE new == [pc |-> "new", id |-> k, name |-> Nobody, clients |-> {c},
                     siblings |-> {}]
  <2>1. new \in FormType /\ new.pc = "new" /\ new.clients # {}
    BY DEF FormType
  <2>2. form' = [form EXCEPT ![f] = new] /\ mu' = mu
    BY <1>2 DEF ClientCreate, adopt
  <2> HIDE DEF new
  <2>3. FormsOK'
    BY <1>2, <2>1, <2>2, BeginForms DEF ClientCreate
  <2>4. BooksOK'
    BY <1>2, BoundsAssumption DEF ClientCreate, Edit, BooksOK
  <2> QED BY <1>2, <2>3, <2>4, RowsKept, GrantsKept, ListsKept, WorkKept, TapsKept
          DEF ClientCreate, adopt
<1> QED BY <1>1, <1>2 DEF NewForm, ChildCreate, ChildUpdate

LEMMA TypedAdopt ==
  ASSUME Typed, NEW f \in Form,
         \/ AdoptRead(f) \/ AdoptReturn(f) \/ \E c \in Client : AdoptWrite(f, c)
  PROVE  Typed'
<1> USE DEF Typed
<1>1. CASE AdoptRead(f)
  <2>1. RowsOK' /\ GrantsOK' /\ ListsOK' /\ TapsOK' /\ BooksOK'
    BY <1>1, RowsKept, GrantsKept, ListsKept, TapsKept, BooksKept DEF AdoptRead
  <2>2. CASE mu' = f /\ Goto(f, "writes")
             /\ todo' = (form[f].clients \ form[f].siblings) \cap present
             /\ plan' = AdoptPlan(form[f].id, form[f].siblings)
             /\ due' = Due(form[f].siblings)
    <3>1. FormsOK'
      BY <1>1, <2>2, GotoForms DEF AdoptRead
    <3>2. WorkOK'
      BY <2>2, PlanType, DueType DEF WorkOK, ListsOK
    <3> QED BY <2>1, <3>1, <3>2
  <2>3. CASE Answer(f) /\ UNCHANGED adopt
    BY <1>1, <2>1, <2>3, AnswerForms, WorkKept DEF AdoptRead, adopt
  <2> QED BY <1>1, <2>2, <2>3 DEF AdoptRead
<1>2. CASE AdoptReturn(f)
  <2>1. FormsOK' /\ WorkOK'
    BY <1>2, GotoForms, UnlockWork DEF AdoptReturn
  <2> QED BY <1>2, <2>1, RowsKept, GrantsKept, ListsKept, TapsKept, BooksKept
          DEF AdoptReturn
<1>3. ASSUME NEW c \in Client, AdoptWrite(f, c) PROVE Typed'
  <2>0. mu = f
    BY <1>3 DEF AdoptWrite, At, FormsOK
  <2>1. RowsOK' /\ GrantsOK' /\ TapsOK'
    BY <1>3, RowsKept, GrantsKept, TapsKept DEF AdoptWrite
  <2>2. ListsOK' /\ owed' \subseteq Pair
    <3>1. CASE AdoptBlockedServices(c, plan[c])
      BY <1>3, <3>1, AdoptOneType DEF AdoptWrite
    <3>2. CASE UNCHANGED <<own, inherits, owed>>
      BY <1>3, <3>2, ListsKept DEF AdoptWrite, adguard, BooksOK
    <3> QED BY <1>3, <3>1, <3>2 DEF AdoptWrite
  <2>3. BooksOK'
    BY <1>3, <2>2 DEF AdoptWrite, BooksOK, WorkOK, Pair
  <2>4. FormsOK' /\ WorkOK'
    <3>1. CASE todo' = todo \ {c} /\ UNCHANGED <<mu, plan, due, form>>
      BY <3>1, FormsKept DEF WorkOK
    <3>2. CASE Answer(f) /\ Unlock
      BY <2>0, <3>2, AnswerForms, UnlockWork
    <3> QED BY <1>3, <3>1, <3>2 DEF AdoptWrite
  <2> QED BY <2>1, <2>2, <2>3, <2>4
<1> QED BY <1>1, <1>2, <1>3

LEMMA TypedSave ==
  ASSUME Typed, NEW f \in Form, ChildSave(f)
  PROVE  Typed'
<1> USE DEF Typed
<1> DEFINE id == IF form[f].id = NoId THEN NextId ELSE form[f].id
<1>1. id \in ChildId /\ At(f, "save") /\ Answer(f) /\ UNCHANGED adopt
  BY DEF ChildSave
<1>2. mu # f /\ form[f].name \in Name /\ form[f].clients \in SUBSET Client
  BY <1>1 DEF FormsOK, FormType, At
<1>3. RowsOK'
  <2>1. CASE UNCHANGED rows
    BY <2>1, RowsKept
  <2>2. CASE /\ ~NameTaken(form[f].id, form[f].name)
             /\ kid' = [kid EXCEPT ![id] = form[f].name]
             /\ mapping' = [mapping EXCEPT ![id] = form[f].clients]
    <3>1. \A k \in ChildId \ {id} : kid[k] # form[f].name
      BY <1>2, <2>2, NobodyAssumption DEF NameTaken, Kids, NoId, ChildId
    <3> HIDE DEF id
    <3>2. /\ kid'[id] = form[f].name /\ mapping'[id] = form[f].clients
          /\ \A k \in ChildId \ {id} : kid'[k] = kid[k] /\ mapping'[k] = mapping[k]
      BY <1>1, <2>2 DEF RowsOK
    <3>3. /\ kid' \in [ChildId -> Name \cup {Nobody}]
          /\ mapping' \in [ChildId -> SUBSET Client]
      BY <1>1, <1>2, <2>2 DEF RowsOK
    <3> QED BY <1>2, <3>1, <3>2, <3>3, NobodyAssumption DEF RowsOK
  <2> QED BY <2>1, <2>2 DEF ChildSave
<1>4. FormsOK'
  BY <1>1, <1>2, NoFormType DEF FormsOK, Answer, adopt
<1> QED BY <1>3, <1>4, GrantsKept, ListsKept, WorkKept, TapsKept, BooksKept
        DEF ChildSave, adopt

LEMMA TypedCreateClient ==
  ASSUME Typed, NEW f \in Form,
         CreateClientRead(f) \/ CreateClientAdd(f) \/ CreateClientMap(f)
  PROVE  Typed'
<1> USE DEF Typed
<1>1. CASE CreateClientRead(f)
  <2>1. RowsOK' /\ GrantsOK' /\ ListsOK' /\ TapsOK' /\ BooksOK'
    BY <1>1, RowsKept, GrantsKept, ListsKept, TapsKept, BooksKept DEF CreateClientRead
  <2>2. CASE Answer(f) /\ UNCHANGED adopt
    BY <1>1, <2>1, <2>2, AnswerForms, WorkKept DEF CreateClientRead, adopt
  <2>3. CASE /\ mu' = f /\ Goto(f, "add") /\ UNCHANGED todo
             /\ plan' = IF form[f].id = NoId THEN NoPlan
                        ELSE [c \in Client |-> BaselineFrom(form[f].id, mapping[form[f].id])]
             /\ due' = IF form[f].id = NoId THEN {} ELSE Due(mapping[form[f].id])
    <3>1. FormsOK'
      BY <1>1, <2>3, GotoForms DEF CreateClientRead
    <3>2. BaselineFrom(form[f].id, mapping[form[f].id]) \subseteq Service
      BY BaselineType
    <3>3. Due(mapping[form[f].id]) \subseteq Service
      BY DueType
    <3>4. WorkOK'
      BY <2>3, <3>2, <3>3, NoPlanType DEF WorkOK
    <3> QED BY <2>1, <3>1, <3>4
  <2> QED BY <1>1, <2>2, <2>3 DEF CreateClientRead
<1>2. CASE CreateClientAdd(f)
  <2>1. PICK c \in form[f].clients :
          \/ /\ AddClient(f, c) /\ promised' = promised \cup ({c} \X due)
             /\ IF form[f].id = NoId THEN Answer(f) /\ Unlock
                                     ELSE Goto(f, "map") /\ UNCHANGED adopt
          \/ /\ Answer(f) /\ Unlock /\ UNCHANGED promised
             /\ AddClient(f, c) \/ UNCHANGED <<present, own, inherits>>
    BY <1>2 DEF CreateClientAdd
  <2>2. c \in Client /\ At(f, "add") /\ mu = f
    BY <1>2 DEF CreateClientAdd, At, FormsOK, FormType
  <2>3. RowsOK' /\ GrantsOK' /\ TapsOK' /\ UNCHANGED <<globalList, owed, edits, reused>>
    BY <1>2, RowsKept, GrantsKept, TapsKept DEF CreateClientAdd
  <2>4. ListsOK'
    BY <2>1, <2>2, <2>3, AddClientType, ListsKept DEF adguard
  <2>5. BooksOK'
    BY <2>1, <2>2, <2>3 DEF BooksOK, WorkOK, Pair
  <2>6. FormsOK' /\ WorkOK'
    <3>1. CASE Answer(f) /\ Unlock
      BY <2>2, <3>1, AnswerForms, UnlockWork
    <3>2. CASE Goto(f, "map") /\ UNCHANGED adopt
      BY <2>2, <3>2, GotoForms, WorkKept DEF adopt
    <3> QED BY <2>1, <3>1, <3>2
  <2> QED BY <2>3, <2>4, <2>5, <2>6
<1>3. CASE CreateClientMap(f)
  <2> DEFINE c == CHOOSE d \in form[f].clients : TRUE
  <2>1. c \in Client /\ mu = f
    BY <1>3 DEF CreateClientMap, At, FormsOK, FormType
  <2>2. RowsOK'
    <3> HIDE DEF c
    <3>1. CASE /\ form[f].id \in Kids
               /\ mapping' = [mapping EXCEPT ![form[f].id] = @ \cup {c}]
      BY <1>3, <2>1, <3>1 DEF CreateClientMap, RowsOK, Kids
    <3>2. CASE UNCHANGED mapping
      BY <1>3, <3>2, RowsKept DEF CreateClientMap, rows
    <3> QED BY <1>3, <3>1, <3>2 DEF CreateClientMap, c
  <2>3. FormsOK' /\ WorkOK'
    BY <1>3, <2>1, AnswerForms, UnlockWork DEF CreateClientMap
  <2> QED BY <1>3, <2>2, <2>3, GrantsKept, ListsKept, TapsKept, BooksKept
          DEF CreateClientMap
<1> QED BY <1>1, <1>2, <1>3

LEMMA TypedDelete ==
  ASSUME Typed, NEW k \in ChildId, ChildDelete(k)
  PROVE  Typed'
<1> USE DEF Typed
<1>1. RowsOK'
  BY DEF ChildDelete, RowsOK
<1>2. GrantsOK'
  <2> DEFINE marked(g) == IF g.child = k THEN [g EXCEPT !.orphan = TRUE] ELSE g
  <2>1. \A g \in grants : marked(g) \in Grant /\ marked(g).id = g.id
    BY DEF GrantsOK, Grant
  <2>2. grants' = {marked(g) : g \in grants} /\ made' = made
    BY DEF ChildDelete
  <2> HIDE DEF marked
  <2> QED BY <2>1, <2>2 DEF GrantsOK
<1>3. TapsOK'
  <2> DEFINE marked(x) == IF x.child = k THEN [x EXCEPT !.orphan = TRUE] ELSE x
             Req == [child : ChildId \cup {NoId}, clients : SUBSET Client, orphan : BOOLEAN]
  <2>1. \A x \in Req : marked(x) \in Req /\ marked(x).child = x.child
    OBVIOUS
  <2>2. \A x \in Req : x.child = NoId => marked(x) = x
    BY DEF ChildId, NoId
  <2>3. tap' = [t \in Tap |-> marked(tap[t])]
    BY DEF ChildDelete
  <2>4. tap \in [Tap -> Req] /\ \A t \in Tap : tap[t].child = NoId => tap[t] = NoTap
    BY DEF TapsOK
  <2> HIDE DEF marked
  <2>5. \A t \in Tap : tap'[t] = marked(tap[t]) /\ tap[t] \in Req
    BY <2>3, <2>4
  <2>6. tap' \in [Tap -> Req]
    BY <2>1, <2>3, <2>5
  <2>7. \A t \in Tap : tap'[t].child = NoId => tap'[t] = NoTap
    BY <2>1, <2>2, <2>4, <2>5
  <2> QED BY <2>6, <2>7 DEF TapsOK
<1>4. BooksOK'
  BY BoundsAssumption DEF ChildDelete, Edit, BooksOK
<1> QED BY <1>1, <1>2, <1>3, <1>4, ListsKept, FormsKept, WorkKept DEF ChildDelete, adopt

LEMMA TypedGrant ==
  ASSUME Typed,
         \/ \E k \in ChildId, t \in Tap : GrantRequest(t, k)
         \/ \E t \in Tap, S \in (SUBSET Service) \ {{}} : GrantCreate(t, S)
         \/ \E g \in grants : GrantEnd(g) \/ GrantRepair(g)
  PROVE  Typed'
<1> USE DEF Typed
<1>1. ASSUME NEW k \in ChildId, NEW t \in Tap, GrantRequest(t, k) PROVE Typed'
  <2>1. TapsOK'
    BY <1>1 DEF GrantRequest, TapsOK, RowsOK, ChildId, NoId
  <2> QED BY <1>1, <2>1, RowsKept, GrantsKept, ListsKept, FormsKept, WorkKept, BooksKept
          DEF GrantRequest, adopt
<1>2. ASSUME NEW t \in Tap, NEW S \in (SUBSET Service) \ {{}}, GrantCreate(t, S)
      PROVE  Typed'
  <2>1. /\ tap[t].child \in ChildId /\ tap[t].clients \in SUBSET Client
        /\ tap[t].orphan \in BOOLEAN
    BY <1>2 DEF GrantCreate, TapsOK
  <2>2. TapsOK'
    BY <1>2 DEF GrantCreate, TapsOK, NoTap
  <2>3. GrantsOK' /\ ListsOK' /\ owed' \subseteq Pair
    <3>1. CASE UNCHANGED <<grants, made, own, owed>>
      BY <1>2, <3>1, GrantsKept, ListsKept DEF GrantCreate, adguard, BooksOK
    <3>2. CASE /\ made < MaxGrants /\ made' = made + 1
               /\ grants' = grants \cup {[id |-> made + 1, child |-> tap[t].child,
                                          services |-> S, clients |-> tap[t].clients,
                                          orphan |-> tap[t].orphan]}
               /\ \E W \in SUBSET (tap[t].clients \cap (present \ inherits)) : Remove(W, S)
      <4> DEFINE new == [id |-> made + 1, child |-> tap[t].child, services |-> S,
                         clients |-> tap[t].clients, orphan |-> tap[t].orphan]
      <4>1. made \in Nat /\ made + 1 \in 1..MaxGrants /\ made + 1 \in 0..MaxGrants
        BY <3>2, BoundsAssumption DEF GrantsOK
      <4>2. new \in Grant /\ new.id = made + 1
        BY <2>1, <4>1 DEF Grant
      <4>3. grants' = grants \cup {new}
        BY <3>2
      <4> HIDE DEF new
      <4>4. \A g \in grants : g.id \in Nat /\ g.id <= made
        BY DEF GrantsOK, Grant
      <4>5. GrantsOK'
        BY <3>2, <4>1, <4>2, <4>3, <4>4 DEF GrantsOK
      <4>6. PICK W \in SUBSET (tap[t].clients \cap (present \ inherits)) : Remove(W, S)
        BY <3>2
      <4>7. W \in SUBSET Client
        BY <2>1
      <4> QED BY <1>2, <4>5, <4>6, <4>7, RemoveType DEF GrantCreate
    <3> QED BY <1>2, <3>1, <3>2 DEF GrantCreate
  <2> QED BY <1>2, <2>2, <2>3, RowsKept, FormsKept, WorkKept DEF GrantCreate, adopt, BooksOK
<1>3. ASSUME NEW g \in grants, GrantEnd(g) PROVE Typed'
  <2> DEFINE back == [c \in g.clients \cap present |-> g.services \ HeldOpen(grants \ {g}, c)]
  <2>0. g.clients \subseteq Client /\ g.services \subseteq Service
    BY DEF GrantsOK, Grant
  <2>1. PICK W \in SUBSET (DOMAIN back) :
          /\ own' = [c \in Client |-> IF c \in W THEN own[c] \cup back[c] ELSE own[c]]
          /\ owed' = {p \in owed : ~(p[1] \in W /\ p[2] \in back[p[1]])}
          /\ \/ W = DOMAIN back /\ grants' = grants \ {g}
             \/ UNCHANGED grants
    BY <1>3 DEF GrantEnd
  <2>2. \A c \in W : back[c] \subseteq Service
    BY <2>0
  <2> HIDE DEF back
  <2>3. ListsOK'
    BY <1>3, <2>1, <2>2 DEF GrantEnd, ListsOK
  <2>4. GrantsOK'
    BY <1>3, <2>1 DEF GrantEnd, GrantsOK
  <2>5. BooksOK'
    BY <1>3, <2>1 DEF GrantEnd, BooksOK
  <2> QED BY <1>3, <2>3, <2>4, <2>5, RowsKept, FormsKept, WorkKept, TapsKept
          DEF GrantEnd, adopt
<1>4. ASSUME NEW g \in grants, GrantRepair(g) PROVE Typed'
  <2>0. g.clients \subseteq Client /\ g.services \in SUBSET Service
    BY DEF GrantsOK, Grant
  <2>1. PICK c \in g.clients \cap (present \ inherits) : Remove({c}, g.services)
    BY <1>4 DEF GrantRepair
  <2>2. {c} \in SUBSET Client
    BY <2>0
  <2>3. ListsOK' /\ owed' \subseteq Pair
    BY <1>4, <2>0, <2>1, <2>2, RemoveType DEF GrantRepair
  <2> QED BY <1>4, <2>3, RowsKept, GrantsKept, FormsKept, WorkKept, TapsKept
          DEF GrantRepair, adopt, BooksOK
<1> QED BY <1>1, <1>2, <1>3, <1>4

LEMMA TypedUI ==
  ASSUME Typed, UI
  PROVE  Typed'
<1> USE DEF Typed
<1>1. RowsOK' /\ GrantsOK' /\ FormsOK' /\ WorkOK' /\ TapsOK'
  BY RowsKept, GrantsKept, FormsKept, WorkKept, TapsKept DEF UI, adopt
<1>2. edits' \in 0..MaxEdits /\ reused' = reused
  BY BoundsAssumption DEF UI, Edit, BooksOK
<1>3. ListsOK' /\ owed' \subseteq owed /\ promised' \subseteq promised
  <2>1. ASSUME NEW c \in Client, NEW s \in Service, UIBlock(c, s) \/ UIUnblock(c, s)
        PROVE  ListsOK' /\ owed' \subseteq owed /\ promised' \subseteq promised
    BY <2>1 DEF UIBlock, UIUnblock, ListsOK
  <2>2. ASSUME NEW c \in Client, UIGlobal(c) \/ UIDelete(c) \/ UIAdd(c)
        PROVE  ListsOK' /\ owed' \subseteq owed /\ promised' \subseteq promised
    BY <2>2 DEF UIGlobal, UIDelete, UIAdd, ListsOK
  <2>3. ASSUME NEW s \in Service, UIList(s)
        PROVE  ListsOK' /\ owed' \subseteq owed /\ promised' \subseteq promised
    BY <2>3 DEF UIList, ListsOK
  <2> QED BY <2>1, <2>2, <2>3 DEF UI
<1> QED BY <1>1, <1>2, <1>3 DEF BooksOK

LEMMA TypedStep == Typed /\ [Next]_vars => Typed'
<1> SUFFICES ASSUME Typed, [Next]_vars PROVE Typed'
  OBVIOUS
<1>1. CASE UNCHANGED vars
  BY <1>1, RowsKept, GrantsKept, ListsKept, FormsKept, WorkKept, TapsKept, BooksKept
     DEF vars, adopt, Typed
<1>2. CASE (\E k \in ChildId : ViewChild(k)) \/ ViewChildren \/ ViewGrants \/ ViewAnswer
  <2>1. Untouched /\ (Edit \/ UNCHANGED edits)
    BY <1>2 DEF ViewChild, ViewChildren, ViewGrants, ViewAnswer
  <2>2. BooksOK'
    BY <2>1, BoundsAssumption DEF Untouched, Edit, BooksOK, Typed
  <2> QED BY <2>1, <2>2, RowsKept, GrantsKept, ListsKept, FormsKept, WorkKept, TapsKept
          DEF Untouched, adopt, Typed
<1>3. CASE Next
  BY <1>2, <1>3, TypedBegin, TypedAdopt, TypedSave, TypedCreateClient, TypedDelete, TypedGrant,
     TypedUI DEF Next, FormStep
<1> QED BY <1>1, <1>3

-----------------------------------------------------------------------------
(* What a blocked view has read                                            *)

LEMMA NoViewType == NoView \in ViewType /\ NoView.pc = "idle" /\ NoView.upTo = 0
<1>1. NoOwners \in [Client -> SUBSET ChildId]
  BY DEF NoOwners
<1>2. MaxGrants \in Nat
  BY BoundsAssumption
<1> QED BY <1>1, <1>2 DEF ViewType, NoView, NoId

\* A step of somebody else brings no grant of an id the view has been through.
LEMMA ViewBeside ==
  ASSUME Typed, Typed', ViewOK, UNCHANGED view, made' \in Nat, made <= made',
         \A g \in grants' : g.id > made \/ \E h \in grants : CoverOf(g) = CoverOf(h)
  PROVE  ViewOK'
<1>1. made \in Nat /\ view.upTo \in Nat /\ \A g \in grants' : g.id \in Nat
  BY BoundsAssumption DEF Typed, GrantsOK, Grant, ViewOK, ViewType
<1>2. view'.upTo <= made'
  BY <1>1 DEF ViewOK
<1>3. ASSUME NEW g \in grants', g.id <= view.upTo, view.pc = "adguard", ~view.degraded
      PROVE  CoverOf(g) \in view.grants
  <2>1. PICK h \in grants : CoverOf(g) = CoverOf(h)
    BY <1>1, <1>3 DEF ViewOK
  <2>2. h.id = g.id
    BY <2>1 DEF CoverOf
  <2> QED BY <1>3, <2>1, <2>2 DEF ViewOK
<1> QED BY <1>2, <1>3 DEF ViewOK, CoverOf

LEMMA ViewKept == Typed /\ ViewOK /\ UNCHANGED <<grants, made, view>> => ViewOK'
BY DEF ViewOK, CoverOf

\* An answer without what could not be read.
LEMMA ViewDegraded ==
  ASSUME Typed, ViewOK, UNCHANGED <<grants, made>>,
         view' = [view EXCEPT !.pc = "adguard", !.degraded = TRUE]
  PROVE  ViewOK'
<1>1. made \in 0..MaxGrants /\ MaxGrants \in Nat
  BY BoundsAssumption DEF Typed, GrantsOK
<1>2. view' \in ViewType
  BY <1>1 DEF ViewOK, ViewType
<1>3. view'.upTo = view.upTo /\ view.upTo <= made
  BY <1>1 DEF ViewOK, ViewType
<1>4. view'.degraded = TRUE
  BY DEF ViewOK, ViewType
<1>5. view'.upTo <= made'
  BY <1>1, <1>3
<1> QED BY <1>2, <1>4, <1>5 DEF ViewOK

LEMMA ViewStep == Typed /\ ViewOK /\ [Next]_vars => ViewOK'
<1> SUFFICES ASSUME Typed, ViewOK, [Next]_vars PROVE ViewOK'
  OBVIOUS
<1>a. Typed'
  BY TypedStep
<1>b. made \in 0..MaxGrants /\ MaxGrants \in Nat /\ grants \subseteq Grant
  BY BoundsAssumption DEF Typed, GrantsOK
<1>1. ASSUME NEW k \in ChildId, ViewChild(k) PROVE ViewOK'
  <2>1. /\ view' = [NoView EXCEPT !.pc = "children", !.child = k, !.mapped = mapping[k]]
        /\ UNCHANGED <<grants, made>>
    BY <1>1 DEF ViewChild, Untouched
  <2>2. mapping[k] \subseteq Client
    BY DEF Typed, RowsOK
  <2>3. view' \in ViewType /\ view'.pc = "children" /\ view'.upTo = 0
    BY <2>1, <2>2, NoViewType DEF ViewType
  <2> QED BY <1>b, <2>1, <2>3 DEF ViewOK
<1>2. CASE ViewChildren
  <2>1. [c \in Client |-> Owners(c)] \in [Client -> SUBSET ChildId]
    BY DEF Owners, Kids
  <2>2. UNCHANGED <<grants, made>>
    BY <1>2 DEF ViewChildren, Untouched
  <2>3. CASE view' = [view EXCEPT !.pc = "grants", !.owners = [c \in Client |-> Owners(c)]]
    BY <1>b, <2>1, <2>2, <2>3 DEF ViewOK, ViewType
  <2>4. CASE view' = [view EXCEPT !.pc = "adguard", !.degraded = TRUE]
    BY <2>2, <2>4, ViewDegraded
  <2> QED BY <1>2, <2>3, <2>4 DEF ViewChildren
<1>3. CASE ViewGrants
  <2> DEFINE covers == {CoverOf(g) : g \in grants}
  <2>1. covers \subseteq Cover
    BY <1>b DEF CoverOf, Cover, Grant
  <2>2. UNCHANGED <<grants, made>>
    BY <1>3 DEF ViewGrants, Untouched
  <2>3. \A g \in grants : CoverOf(g) \in covers
    OBVIOUS
  <2>4. CASE view' = [view EXCEPT !.pc = "adguard", !.upTo = made, !.grants = covers]
    <3> HIDE DEF covers
    <3>1. view' \in ViewType /\ view'.upTo = made /\ view'.grants = covers
      BY <1>b, <2>1, <2>4 DEF ViewOK, ViewType
    <3>2. \A g \in grants : CoverOf(g)' = CoverOf(g)
      BY DEF CoverOf
    <3> QED BY <1>b, <2>2, <2>3, <3>1, <3>2 DEF ViewOK, CoverOf
  <2>5. CASE view' = [view EXCEPT !.pc = "adguard", !.degraded = TRUE]
    BY <2>2, <2>5, ViewDegraded
  <2> QED BY <1>3, <2>4, <2>5 DEF ViewGrants
<1>4. CASE ViewAnswer
  BY <1>b, <1>4, NoViewType DEF ViewAnswer, Looked, Untouched, ViewOK
<1>5. ASSUME NEW k \in ChildId, ChildDelete(k) PROVE ViewOK'
  <2>1. /\ grants' = {IF g.child = k THEN [g EXCEPT !.orphan = TRUE] ELSE g : g \in grants}
        /\ UNCHANGED <<made, view>>
    BY <1>5 DEF ChildDelete
  <2>2. \A g \in grants : CoverOf([g EXCEPT !.orphan = TRUE]) = CoverOf(g)
    BY <1>b DEF CoverOf, Grant
  <2>3. \A g \in grants' : \E h \in grants : CoverOf(g) = CoverOf(h)
    BY <2>1, <2>2
  <2> QED BY <1>a, <1>b, <2>1, <2>3, ViewBeside
<1>6. ASSUME NEW q \in Tap, NEW S \in (SUBSET Service) \ {{}}, GrantCreate(q, S)
      PROVE  ViewOK'
  <2>1. CASE UNCHANGED <<grants, made>>
    BY <1>6, <2>1, ViewKept DEF GrantCreate
  <2> DEFINE new == [id |-> made + 1, child |-> tap[q].child, services |-> S,
                     clients |-> tap[q].clients, orphan |-> tap[q].orphan]
  <2>2. CASE grants' = grants \cup {new} /\ made' = made + 1
    <3>1. new.id > made
      BY <1>b
    <3> HIDE DEF new
    <3>2. \A g \in grants' : g.id > made \/ \E h \in grants : CoverOf(g) = CoverOf(h)
      BY <2>2, <3>1
    <3>3. made' \in Nat /\ made <= made' /\ UNCHANGED view
      BY <1>b, <1>6, <2>2 DEF GrantCreate
    <3> QED BY <1>a, <3>2, <3>3, ViewBeside
  <2> QED BY <1>6, <2>1, <2>2 DEF GrantCreate
<1>7. ASSUME NEW g \in grants, GrantEnd(g) PROVE ViewOK'
  <2>1. grants' \subseteq grants /\ UNCHANGED <<made, view>>
    BY <1>7 DEF GrantEnd
  <2> QED BY <1>a, <1>b, <2>1, ViewBeside
<1>8. CASE UNCHANGED <<grants, made, view>>
  BY <1>8, ViewKept
<1>9. ASSUME NEW f \in Form, FormStep(f) \/ NewForm(f) PROVE UNCHANGED <<grants, made, view>>
  BY <1>9 DEF FormStep, NewForm, ChildCreate, ChildUpdate, Begin, ClientCreate, AdoptRead,
              AdoptReturn, AdoptWrite, ChildSave, CreateClientRead, CreateClientAdd,
              CreateClientMap
<1>10. ASSUME NEW k \in ChildId, NEW q \in Tap, GrantRequest(q, k)
       PROVE  UNCHANGED <<grants, made, view>>
  BY <1>10 DEF GrantRequest
<1>11. ASSUME NEW g \in grants, GrantRepair(g) PROVE UNCHANGED <<grants, made, view>>
  BY <1>11 DEF GrantRepair
<1>12. CASE UI \/ UNCHANGED vars
  BY <1>8, <1>12 DEF UI, vars
<1> QED BY <1>1, <1>2, <1>3, <1>4, <1>5, <1>6, <1>7, <1>8, <1>9, <1>10, <1>11, <1>12 DEF Next

LEMMA TypesHold == Spec => [](Typed /\ ViewOK)
<1>1. Init => Typed /\ ViewOK
  BY TypedInit, NoViewType DEF Init, ViewOK
<1> QED BY <1>1, TypedStep, ViewStep, PTL DEF Spec

\* The state of Household is as declared, names and grant ids are unique, a
\* child without a row has no devices, and exactly the holder of Engine.mu is
\* inside the engine, for any number of children, devices, grants and requests.
THEOREM TypeCorrect == Spec => []TypeOK
BY TypesHold, TypedIsTypeOK, PTL

-----------------------------------------------------------------------------
(* The inductive invariant                                                 *)

\* Some grant in force covers s on c.
Held(c, s) == \E g \in grants : Covers(g, c, s)

\* What the app has lifted and not put back is on a client AdGuard has, and
\* under a grant in force.
OwedHeld ==
  \A c \in Client, s \in Service : <<c, s>> \in owed => c \in present /\ Held(c, s)

\* A device that has been promised a block has a list of its own.
PromiseKept ==
  \A c \in Client, s \in Service :
    <<c, s>> \in promised => c \in present \ inherits /\ (s \in own[c] \/ Held(c, s))

\* What an engine call is about to write makes good what is due, but for what
\* a grant holds open, and a client created for no child is due nothing.
DueMet ==
  \A f \in Form : form[f].pc \in {"writes", "add"} =>
    /\ \A c \in Client, s \in due : s \in plan[c] \/ Held(c, s)
    /\ form[f].pc = "add" /\ form[f].id = NoId => due = {}

\* The plan of an adoption spares what a grant in force holds open: the mutex
\* keeps the grants as they were when the baseline was read.
PlanSpares ==
  \A f \in Form : form[f].pc = "writes" =>
    \A c \in Client : \A s \in plan[c] : ~Held(c, s)

\* Only the grants of a deleted child are orphans.
Orphans ==
  /\ \A g \in grants : g.orphan => g.child \in reused
  /\ \A t \in Tap : tap[t].orphan => tap[t].child \in reused

Safe == OwedHeld /\ PromiseKept /\ DueMet /\ PlanSpares /\ Orphans
IInv == Typed /\ Safe

-----------------------------------------------------------------------------
LEMMA HeldKept == UNCHANGED grants => \A c, s : Held(c, s)' <=> Held(c, s)
BY DEF Held, Covers

\* A step on requests and rows that are not under the mutex.
LEMMA SafeOutside ==
  ASSUME Typed, Safe,
         UNCHANGED <<grants, adguard, mu, plan, due, tap, owed, promised, reused>>,
         \A g \in Form : \/ form'[g].pc = form[g].pc /\ form'[g].id = form[g].id
                         \/ form'[g].pc \notin {"writes", "add"}
  PROVE  Safe'
<1> USE HeldKept DEF Safe, adguard
<1>1. OwedHeld' /\ PromiseKept'
  BY DEF OwedHeld, PromiseKept
<1>2. DueMet' /\ PlanSpares'
  BY DEF DueMet, PlanSpares
<1>3. Orphans'
  BY DEF Orphans
<1> QED BY <1>1, <1>2, <1>3

\* Nobody is inside the engine after the step.
LEMMA NoneInside ==
  ASSUME Typed, Typed', mu' = Nobody
  PROVE  DueMet' /\ PlanSpares'
<1>1. \A f \in Form : form'[f].pc \notin {"writes", "add", "map"}
  BY NobodyAssumption DEF Typed, FormsOK
<1> QED BY <1>1 DEF DueMet, PlanSpares

\* The baseline makes up for all that the app has lifted from the siblings.
LEMMA DueInBaseline ==
  ASSUME Typed, OwedHeld, NEW id, NEW siblings
  PROVE  Due(siblings) \subseteq BaselineFrom(id, siblings)
<1> DEFINE known == siblings \cap present
<1>1. CASE known = {}
  BY <1>1 DEF Due, BaselineFrom
<1>2. CASE known # {}
  <2> SUFFICES ASSUME NEW s \in Due(siblings) PROVE s \in BaselineFrom(id, siblings)
    OBVIOUS
  <2>1. PICK d \in known : s \in Effective(d) \/ <<d, s>> \in owed
    BY <1>2 DEF Due
  <2>2. s \in Service /\ d \in Client
    BY <1>2 DEF Due, Typed, ListsOK
  <2>3. CASE s \in Effective(d)
    BY <1>2, <2>3 DEF BaselineFrom
  <2>4. CASE <<d, s>> \in owed
    <3>1. PICK g \in grants : Covers(g, d, s)
      BY <2>2, <2>4 DEF OwedHeld, Held
    <3>2. g.clients \cap known # {} /\ s \in g.services
      BY <3>1 DEF Covers
    <3> QED BY <1>2, <3>2 DEF BaselineFrom
  <2> QED BY <2>1, <2>3, <2>4
<1> QED BY <1>1, <1>2

LEMMA HeldOpenIsHeld ==
  \A c, s : s \in HeldOpen(grants, c) <=> Held(c, s)
BY DEF HeldOpen, Held, Covers

\* One client's list takes on the plan.
LEMMA SafeAdoptOne ==
  ASSUME IInv, NEW f \in Form, NEW c \in Client, At(f, "writes"), c \in present,
         AdoptBlockedServices(c, plan[c]),
         UNCHANGED <<grants, present, globalList>>,
         \/ promised' = promised \cup ({c} \X due)
         \/ UNCHANGED promised
  PROVE  OwedHeld' /\ PromiseKept'
<1> USE DEF IInv, Safe
<1>1. /\ own' = [own EXCEPT ![c] = Effective(c) \cup plan[c]]
      /\ inherits' = inherits \ {c} /\ owed' \subseteq owed
  BY DEF AdoptBlockedServices
<1>2. own'[c] = Effective(c) \cup plan[c] /\ \A d \in Client \ {c} : own'[d] = own[d]
  BY <1>1 DEF Typed, ListsOK
<1>3. OwedHeld'
  BY <1>1, HeldKept DEF OwedHeld
<1>4. \A s \in due : s \in own'[c] \/ Held(c, s)
  BY <1>2 DEF DueMet, At
<1>5. c \notin inherits => Effective(c) = own[c]
  BY EffectiveType DEF Typed
<1>6. PromiseKept'
  <2> SUFFICES ASSUME NEW d \in Client, NEW s \in Service, <<d, s>> \in promised'
               PROVE  d \in present' \ inherits' /\ (s \in own'[d] \/ Held(d, s))
    BY HeldKept DEF PromiseKept
  <2>1. CASE d = c /\ s \in due
    BY <1>1, <1>4, <2>1
  <2>2. CASE <<d, s>> \in promised
    BY <1>1, <1>2, <1>5, <2>2 DEF PromiseKept
  <2> QED BY <2>1, <2>2
<1> QED BY <1>3, <1>6

-----------------------------------------------------------------------------
(* The steps keep it                                                       *)

LEMMA SafeInit == Init => Safe
<1> SUFFICES ASSUME Init PROVE Safe
  OBVIOUS
<1>1. \A f \in Form : form[f].pc = "idle"
  BY DEF Init, NoForm
<1>2. DueMet /\ PlanSpares
  BY <1>1 DEF DueMet, PlanSpares
<1> QED BY <1>2 DEF Init, Safe, OwedHeld, PromiseKept, Orphans, NoTap

LEMMA SafeBegin ==
  ASSUME IInv, NEW f \in Form, NewForm(f)
  PROVE  Safe'
<1>1. /\ UNCHANGED <<grants, adguard, mu, plan, due, tap, owed, promised, reused>>
      /\ \A g \in Form \ {f} : form'[g] = form[g]
      /\ form'[f].pc \in {"save", "adopt", "new"}
  BY DEF NewForm, ChildCreate, ChildUpdate, Begin, ClientCreate, adopt, IInv, Typed, FormsOK
<1> QED BY <1>1, SafeOutside DEF IInv

LEMMA SafeAdopt ==
  ASSUME IInv, Typed', NEW f \in Form,
         \/ AdoptRead(f) \/ AdoptReturn(f) \/ \E c \in Client : AdoptWrite(f, c)
  PROVE  Safe'
<1> USE DEF IInv
<1>1. CASE AdoptRead(f)
  <2>1. CASE Answer(f) /\ UNCHANGED adopt
    <3>1. /\ UNCHANGED <<grants, adguard, mu, plan, due, tap, owed, promised, reused>>
          /\ \A g \in Form \ {f} : form'[g] = form[g]
          /\ form'[f].pc = "idle"
      BY <1>1, <2>1, NoFormType DEF AdoptRead, Answer, adopt, Typed, FormsOK
    <3> QED BY <3>1, SafeOutside
  <2>2. CASE /\ mu' = f /\ Goto(f, "writes")
             /\ plan' = AdoptPlan(form[f].id, form[f].siblings)
             /\ due' = Due(form[f].siblings)
    <3>1. UNCHANGED <<grants, adguard, tap, owed, promised, reused>>
      BY <1>1 DEF AdoptRead
    <3>2. OwedHeld' /\ PromiseKept' /\ Orphans'
      BY <3>1, HeldKept DEF Safe, OwedHeld, PromiseKept, Orphans, adguard
    <3>3. form'[f].pc = "writes" /\ \A g \in Form \ {f} : form'[g] = form[g] /\ mu' # g
      BY <2>2 DEF Goto, Typed, FormsOK, FormType
    <3>4. \A g \in Form \ {f} : form'[g].pc \notin {"writes", "add"}
      BY <1>1, <3>3, NobodyAssumption DEF AdoptRead, Typed, FormsOK
    <3>5. \A c \in Client, s \in Service : s \in plan'[c] =>
            s \in BaselineFrom(form[f].id, form[f].siblings) /\ ~Held(c, s)
      BY <2>2, HeldOpenIsHeld DEF AdoptPlan
    <3>6. \A c \in Client, s \in due' : s \in plan'[c] \/ Held(c, s)
      BY <2>2, HeldOpenIsHeld, DueInBaseline DEF AdoptPlan, Safe
    <3>7. PlanSpares'
      BY <3>1, <3>3, <3>4, <3>5, HeldKept DEF PlanSpares, Typed, WorkOK
    <3>8. DueMet'
      BY <3>1, <3>3, <3>4, <3>6, HeldKept DEF DueMet
    <3> QED BY <3>2, <3>7, <3>8 DEF Safe
  <2> QED BY <1>1, <2>1, <2>2 DEF AdoptRead
<1>2. CASE AdoptReturn(f)
  <2>1. UNCHANGED <<grants, adguard, tap, owed, promised, reused>> /\ mu' = Nobody
    BY <1>2 DEF AdoptReturn, Unlock
  <2>2. OwedHeld' /\ PromiseKept' /\ Orphans'
    BY <2>1, HeldKept DEF Safe, OwedHeld, PromiseKept, Orphans, adguard
  <2> QED BY <2>1, <2>2, NoneInside DEF Safe
<1>3. ASSUME NEW c \in Client, AdoptWrite(f, c) PROVE Safe'
  <2>1. At(f, "writes") /\ UNCHANGED <<grants, present, globalList, tap, reused>>
    BY <1>3 DEF AdoptWrite
  <2>2. OwedHeld' /\ PromiseKept'
    <3>1. CASE UNCHANGED <<own, inherits, owed, promised>>
      BY <2>1, <3>1, HeldKept DEF Safe, OwedHeld, PromiseKept
    <3>2. CASE /\ c \in present /\ AdoptBlockedServices(c, plan[c])
               /\ promised' = promised \cup ({c} \X due) \/ UNCHANGED promised
      BY <2>1, <3>2, SafeAdoptOne
    <3> QED BY <1>3, <3>1, <3>2 DEF AdoptWrite
  <2>3. DueMet' /\ PlanSpares'
    <3>1. CASE UNCHANGED <<mu, plan, due, form>>
      BY <2>1, <3>1, HeldKept DEF Safe, DueMet, PlanSpares
    <3>2. CASE Unlock
      BY <3>2, NoneInside DEF Unlock
    <3> QED BY <1>3, <3>1, <3>2 DEF AdoptWrite
  <2>4. Orphans'
    BY <2>1 DEF Safe, Orphans
  <2> QED BY <2>2, <2>3, <2>4 DEF Safe
<1> QED BY <1>1, <1>2, <1>3

LEMMA SafeSave ==
  ASSUME IInv, NEW f \in Form, ChildSave(f)
  PROVE  Safe'
<1>1. /\ UNCHANGED <<grants, adguard, mu, plan, due, tap, owed, promised, reused>>
      /\ \A g \in Form \ {f} : form'[g] = form[g]
      /\ form'[f].pc = "idle"
  BY NoFormType DEF ChildSave, Answer, adopt, IInv, Typed, FormsOK
<1> QED BY <1>1, SafeOutside DEF IInv

LEMMA SafeAddClient ==
  ASSUME IInv, NEW f \in Form, NEW c \in Client, At(f, "add"), AddClient(f, c),
         UNCHANGED <<grants, globalList, owed>>,
         \/ promised' = promised \cup ({c} \X due)
         \/ UNCHANGED promised
  PROVE  OwedHeld' /\ PromiseKept'
<1> USE DEF IInv, Safe
<1>1. /\ own'[c] = plan[c] /\ \A d \in Client \ {c} : own'[d] = own[d]
      /\ c \notin present /\ c \notin inherits /\ present' = present \cup {c}
      /\ inherits' = IF form[f].id = NoId THEN inherits \cup {c} ELSE inherits
  BY DEF AddClient, Typed, ListsOK
<1>2. OwedHeld'
  BY <1>1, HeldKept DEF OwedHeld
<1>3. /\ \A s \in due : s \in own'[c] \/ Held(c, s)
      /\ form[f].id = NoId => due = {}
  BY <1>1 DEF DueMet, At
<1>4. PromiseKept'
  <2> SUFFICES ASSUME NEW d \in Client, NEW s \in Service, <<d, s>> \in promised'
               PROVE  d \in present' \ inherits' /\ (s \in own'[d] \/ Held(d, s))
    BY HeldKept DEF PromiseKept
  <2>1. CASE d = c /\ s \in due
    BY <1>1, <1>3, <2>1
  <2>2. CASE <<d, s>> \in promised
    BY <1>1, <2>2 DEF PromiseKept
  <2> QED BY <2>1, <2>2
<1> QED BY <1>2, <1>4

LEMMA SafeCreateClient ==
  ASSUME IInv, Typed', NEW f \in Form,
         CreateClientRead(f) \/ CreateClientAdd(f) \/ CreateClientMap(f)
  PROVE  Safe'
<1> USE DEF IInv
<1>1. CASE CreateClientRead(f)
  <2> DEFINE id == form[f].id
  <2>1. CASE Answer(f) /\ UNCHANGED adopt
    <3>1. /\ UNCHANGED <<grants, adguard, mu, plan, due, tap, owed, promised, reused>>
          /\ \A g \in Form \ {f} : form'[g] = form[g]
          /\ form'[f].pc = "idle"
      BY <1>1, <2>1, NoFormType DEF CreateClientRead, Answer, adopt, Typed, FormsOK
    <3> QED BY <3>1, SafeOutside
  <2>2. CASE /\ mu' = f /\ Goto(f, "add")
             /\ plan' = IF id = NoId THEN NoPlan
                        ELSE [c \in Client |-> BaselineFrom(id, mapping[id])]
             /\ due' = IF id = NoId THEN {} ELSE Due(mapping[id])
    <3>1. UNCHANGED <<grants, adguard, tap, owed, promised, reused>>
      BY <1>1 DEF CreateClientRead
    <3>2. OwedHeld' /\ PromiseKept' /\ Orphans'
      BY <3>1, HeldKept DEF Safe, OwedHeld, PromiseKept, Orphans, adguard
    <3>3. /\ form'[f].pc = "add" /\ form'[f].id = id
          /\ \A g \in Form \ {f} : form'[g] = form[g] /\ mu' # g
      BY <2>2 DEF Goto, Typed, FormsOK, FormType
    <3>4. \A g \in Form \ {f} : form'[g].pc \notin {"writes", "add"}
      BY <1>1, <3>3, NobodyAssumption DEF CreateClientRead, Typed, FormsOK
    <3>5. PlanSpares'
      BY <3>3, <3>4 DEF PlanSpares
    <3>6. \A c \in Client, s \in due' : s \in plan'[c]
      BY <2>2, DueInBaseline DEF Safe
    <3>7. DueMet'
      BY <2>2, <3>3, <3>4, <3>6 DEF DueMet
    <3> QED BY <3>2, <3>5, <3>7 DEF Safe
  <2> QED BY <1>1, <2>1, <2>2 DEF CreateClientRead
<1>2. CASE CreateClientAdd(f)
  <2>1. PICK c \in form[f].clients :
          \/ /\ AddClient(f, c) /\ promised' = promised \cup ({c} \X due)
             /\ IF form[f].id = NoId THEN Answer(f) /\ Unlock
                                     ELSE Goto(f, "map") /\ UNCHANGED adopt
          \/ /\ Answer(f) /\ Unlock /\ UNCHANGED promised
             /\ AddClient(f, c) \/ UNCHANGED <<present, own, inherits>>
    BY <1>2 DEF CreateClientAdd
  <2>2. /\ c \in Client /\ At(f, "add") /\ mu = f
        /\ UNCHANGED <<grants, globalList, owed, tap, reused>>
    BY <1>2 DEF CreateClientAdd, At, Typed, FormsOK, FormType
  <2>3. OwedHeld' /\ PromiseKept'
    <3>1. CASE AddClient(f, c)
      BY <2>1, <2>2, <3>1, SafeAddClient
    <3>2. CASE UNCHANGED <<present, own, inherits, promised>>
      BY <2>2, <3>2, HeldKept DEF Safe, OwedHeld, PromiseKept
    <3> QED BY <2>1, <3>1, <3>2
  <2>4. DueMet' /\ PlanSpares'
    <3>1. CASE Unlock
      BY <3>1, NoneInside DEF Unlock
    <3>2. CASE Goto(f, "map") /\ UNCHANGED adopt
      <4>1. form'[f].pc = "map" /\ \A g \in Form \ {f} : form'[g] = form[g] /\ mu # g
        BY <2>2, <3>2 DEF Goto, Typed, FormsOK, FormType
      <4>2. \A g \in Form : form'[g].pc \notin {"writes", "add"}
        BY <4>1 DEF Typed, FormsOK
      <4> QED BY <4>2 DEF DueMet, PlanSpares
    <3> QED BY <2>1, <3>1, <3>2
  <2>5. Orphans'
    BY <2>2 DEF Safe, Orphans
  <2> QED BY <2>3, <2>4, <2>5 DEF Safe
<1>3. CASE CreateClientMap(f)
  <2>1. UNCHANGED <<grants, adguard, tap, owed, promised, reused>> /\ mu' = Nobody
    BY <1>3 DEF CreateClientMap, Unlock
  <2>2. OwedHeld' /\ PromiseKept' /\ Orphans'
    BY <2>1, HeldKept DEF Safe, OwedHeld, PromiseKept, Orphans, adguard
  <2> QED BY <2>1, <2>2, NoneInside DEF Safe
<1> QED BY <1>1, <1>2, <1>3

LEMMA SafeDelete ==
  ASSUME IInv, NEW k \in ChildId, ChildDelete(k)
  PROVE  Safe'
<1> USE DEF IInv
<1> DEFINE marked(g) == IF g.child = k THEN [g EXCEPT !.orphan = TRUE] ELSE g
<1>1. \A g \in grants : /\ marked(g).services = g.services
                        /\ marked(g).clients = g.clients
                        /\ marked(g).child = g.child
                        /\ marked(g).orphan => g.orphan \/ g.child = k
  BY DEF Typed, GrantsOK, Grant
<1>2. grants' = {marked(g) : g \in grants} /\ reused' = reused \cup {k}
  BY DEF ChildDelete
<1> HIDE DEF marked
<1>3. \A c, s : Held(c, s)' <=> Held(c, s)
  BY <1>1, <1>2 DEF Held, Covers
<1>4. UNCHANGED <<adguard, mu, plan, due, form, owed, promised>>
  BY DEF ChildDelete, adopt
<1>5. OwedHeld' /\ PromiseKept'
  BY <1>3, <1>4 DEF Safe, OwedHeld, PromiseKept, adguard
<1>6. DueMet' /\ PlanSpares'
  BY <1>3, <1>4 DEF Safe, DueMet, PlanSpares
<1>7. \A g \in grants' : g.orphan => g.child \in reused'
  BY <1>1, <1>2 DEF Safe, Orphans
<1>8. \A t \in Tap : tap'[t].orphan => tap'[t].child \in reused'
  <2> SUFFICES ASSUME NEW t \in Tap, tap'[t].orphan PROVE tap'[t].child \in reused'
    OBVIOUS
  <2>1. tap'[t] = IF tap[t].child = k THEN [tap[t] EXCEPT !.orphan = TRUE] ELSE tap[t]
    BY DEF ChildDelete
  <2>2. tap'[t].child = tap[t].child
    BY <2>1 DEF Typed, TapsOK
  <2> QED BY <1>2, <2>1, <2>2 DEF Safe, Orphans
<1> QED BY <1>5, <1>6, <1>7, <1>8 DEF Safe, Orphans

\* Services S are taken out of the lists of some clients, each under a grant.
LEMMA SafeRemove ==
  ASSUME IInv, NEW W \in SUBSET (present \ inherits), NEW S \in SUBSET Service,
         Remove(W, S), UNCHANGED <<present, inherits, globalList, promised>>,
         \A c \in Client, s \in Service : Held(c, s) => Held(c, s)',
         \A c \in W, s \in S : Held(c, s)'
  PROVE  OwedHeld' /\ PromiseKept'
<1> USE DEF IInv, Safe
<1>1. \A c \in Client : own'[c] = IF c \in W THEN own[c] \ S ELSE own[c]
  BY DEF Remove
<1>2. \A c \in Client, s \in Service :
        <<c, s>> \in owed' => <<c, s>> \in owed \/ (c \in W /\ s \in S)
  BY DEF Remove
<1>3. OwedHeld'
  BY <1>2 DEF OwedHeld
<1>4. PromiseKept'
  BY <1>1 DEF PromiseKept
<1> QED BY <1>3, <1>4

LEMMA SafeGrant ==
  ASSUME IInv, Typed',
         \/ \E k \in ChildId, t \in Tap : GrantRequest(t, k)
         \/ \E t \in Tap, S \in (SUBSET Service) \ {{}} : GrantCreate(t, S)
         \/ \E g \in grants : GrantEnd(g) \/ GrantRepair(g)
  PROVE  Safe'
<1> USE DEF IInv
<1>1. ASSUME NEW k \in ChildId, NEW t \in Tap, GrantRequest(t, k) PROVE Safe'
  <2>1. UNCHANGED <<grants, adguard, mu, plan, due, form, owed, promised, reused>>
    BY <1>1 DEF GrantRequest, adopt
  <2>2. OwedHeld' /\ PromiseKept'
    BY <2>1, HeldKept DEF Safe, OwedHeld, PromiseKept, adguard
  <2>3. DueMet' /\ PlanSpares'
    BY <2>1, HeldKept DEF Safe, DueMet, PlanSpares
  <2>4. Orphans'
    BY <1>1, <2>1 DEF GrantRequest, Typed, TapsOK, Safe, Orphans
  <2> QED BY <2>2, <2>3, <2>4 DEF Safe
<1>2. ASSUME NEW t \in Tap, NEW S \in (SUBSET Service) \ {{}}, GrantCreate(t, S)
      PROVE  Safe'
  <2> DEFINE new == [id |-> made + 1, child |-> tap[t].child, services |-> S,
                     clients |-> tap[t].clients, orphan |-> tap[t].orphan]
  <2>1. /\ mu' = Nobody /\ tap' = [tap EXCEPT ![t] = NoTap]
        /\ UNCHANGED <<present, inherits, globalList, promised, reused>>
    BY <1>2 DEF GrantCreate, adopt
  <2>2. DueMet' /\ PlanSpares'
    BY <2>1, NoneInside
  <2>3. CASE UNCHANGED <<grants, own, owed>>
    <3>1. OwedHeld' /\ PromiseKept'
      BY <2>1, <2>3, HeldKept DEF Safe, OwedHeld, PromiseKept
    <3>2. Orphans'
      BY <2>1, <2>3 DEF Typed, TapsOK, Safe, Orphans, NoTap
    <3> QED BY <2>2, <3>1, <3>2 DEF Safe
  <2>4. CASE /\ grants' = grants \cup {new}
             /\ \E W \in SUBSET (tap[t].clients \cap (present \ inherits)) : Remove(W, S)
    <3>1. PICK W \in SUBSET (tap[t].clients \cap (present \ inherits)) : Remove(W, S)
      BY <2>4
    <3>2. /\ new.services = S /\ new.clients = tap[t].clients
          /\ new.orphan = tap[t].orphan /\ new.child = tap[t].child
      OBVIOUS
    <3> HIDE DEF new
    <3>3. /\ \A c \in Client, s \in Service : Held(c, s) => Held(c, s)'
          /\ \A c \in W, s \in S : Held(c, s)'
      BY <2>4, <3>2 DEF Held, Covers
    <3>4. OwedHeld' /\ PromiseKept'
      BY <2>1, <3>1, <3>3, SafeRemove
    <3>5. Orphans'
      BY <2>1, <2>4, <3>2 DEF Typed, TapsOK, Safe, Orphans, NoTap
    <3> QED BY <2>2, <3>4, <3>5 DEF Safe
  <2> QED BY <1>2, <2>3, <2>4 DEF GrantCreate
<1>3. ASSUME NEW g \in grants, GrantEnd(g) PROVE Safe'
  <2> DEFINE back == [c \in g.clients \cap present |-> g.services \ HeldOpen(grants \ {g}, c)]
  <2>1. PICK W \in SUBSET (DOMAIN back) :
          /\ own' = [c \in Client |-> IF c \in W THEN own[c] \cup back[c] ELSE own[c]]
          /\ owed' = {p \in owed : ~(p[1] \in W /\ p[2] \in back[p[1]])}
          /\ \/ W = DOMAIN back /\ grants' = grants \ {g}
             \/ UNCHANGED grants
    BY <1>3 DEF GrantEnd
  <2>2. /\ mu' = Nobody
        /\ UNCHANGED <<present, inherits, globalList, promised, reused, tap>>
    BY <1>3 DEF GrantEnd, adopt
  <2>3. DueMet' /\ PlanSpares'
    BY <2>2, NoneInside
  <2>4. Orphans'
    BY <2>1, <2>2 DEF Safe, Orphans
  \* What g alone held open on a client AdGuard has goes back, or g stays.
  <2>5. \A c \in present, s \in Service :
          Held(c, s) => Held(c, s)' \/ (c \in W /\ s \in back[c])
    <3> SUFFICES ASSUME NEW c \in present, NEW s \in Service, Held(c, s), ~Held(c, s)'
                 PROVE  c \in W /\ s \in back[c]
      OBVIOUS
    <3>1. W = DOMAIN back /\ grants' = grants \ {g}
      BY <2>1, HeldKept
    <3>2. Covers(g, c, s) /\ \A h \in grants \ {g} : ~Covers(h, c, s)
      BY <3>1 DEF Held, Covers
    <3>3. s \notin HeldOpen(grants \ {g}, c) /\ c \in g.clients /\ s \in g.services
      BY <3>2 DEF HeldOpen, Covers
    <3> QED BY <3>1, <3>3
  <2> HIDE DEF back
  <2>6. OwedHeld'
    <3> SUFFICES ASSUME NEW c \in Client, NEW s \in Service, <<c, s>> \in owed'
                 PROVE  c \in present' /\ Held(c, s)'
      BY DEF OwedHeld
    <3>1. <<c, s>> \in owed /\ ~(c \in W /\ s \in back[c])
      BY <2>1
    <3>2. c \in present /\ Held(c, s)
      BY <3>1 DEF Safe, OwedHeld
    <3> QED BY <2>2, <2>5, <3>1, <3>2
  <2>7. \A c \in Client : own'[c] = IF c \in W THEN own[c] \cup back[c] ELSE own[c]
    BY <2>1
  <2>8. PromiseKept'
    <3> SUFFICES ASSUME NEW c \in Client, NEW s \in Service, <<c, s>> \in promised
                 PROVE  c \in present' \ inherits' /\ (s \in own'[c] \/ Held(c, s)')
      BY <2>2 DEF PromiseKept
    <3> QED BY <2>2, <2>5, <2>7 DEF Safe, PromiseKept
  <2> QED BY <2>3, <2>4, <2>6, <2>8 DEF Safe
<1>4. ASSUME NEW g \in grants, GrantRepair(g) PROVE Safe'
  <2>1. PICK c \in g.clients \cap (present \ inherits) : Remove({c}, g.services)
    BY <1>4 DEF GrantRepair
  <2>2. /\ mu' = Nobody
        /\ UNCHANGED <<grants, present, inherits, globalList, promised, reused, tap>>
    BY <1>4 DEF GrantRepair, adopt
  <2>3. /\ \A d \in Client, s \in Service : Held(d, s) => Held(d, s)'
        /\ \A d \in {c}, s \in g.services : Held(d, s)'
    BY <2>2, HeldKept DEF Held, Covers
  <2>4. {c} \in SUBSET (present \ inherits) /\ g.services \in SUBSET Service
    BY DEF Typed, GrantsOK, Grant
  <2>5. OwedHeld' /\ PromiseKept'
    BY <2>1, <2>2, <2>3, <2>4, SafeRemove
  <2>6. DueMet' /\ PlanSpares' /\ Orphans'
    BY <2>2, NoneInside DEF Safe, Orphans
  <2> QED BY <2>5, <2>6 DEF Safe
<1> QED BY <1>1, <1>2, <1>3, <1>4

LEMMA SafeUI ==
  ASSUME IInv, UI
  PROVE  Safe'
<1> USE DEF IInv
<1>1. UNCHANGED <<grants, mu, plan, due, form, tap, reused>>
  BY DEF UI, adopt
<1>2. DueMet' /\ PlanSpares' /\ Orphans'
  BY <1>1, HeldKept DEF Safe, DueMet, PlanSpares, Orphans
<1> DEFINE Goal == OwedHeld' /\ PromiseKept'
<1>3. ASSUME NEW c \in Client, NEW s \in Service, UIBlock(c, s) PROVE Goal
  BY <1>1, <1>3, HeldKept DEF UIBlock, Typed, ListsOK, Safe, OwedHeld, PromiseKept
<1>4. ASSUME NEW c \in Client, NEW s \in Service, UIUnblock(c, s) PROVE Goal
  BY <1>1, <1>4, HeldKept DEF UIUnblock, Typed, ListsOK, Safe, OwedHeld, PromiseKept
<1>5. ASSUME NEW c \in Client, UIGlobal(c) PROVE Goal
  BY <1>1, <1>5, HeldKept DEF UIGlobal, Typed, ListsOK, Safe, OwedHeld, PromiseKept
<1>6. ASSUME NEW c \in Client, UIDelete(c) PROVE Goal
  BY <1>1, <1>6, HeldKept DEF UIDelete, Typed, ListsOK, Safe, OwedHeld, PromiseKept
<1>7. ASSUME NEW c \in Client, UIAdd(c) PROVE Goal
  BY <1>1, <1>7, HeldKept DEF UIAdd, Typed, ListsOK, Safe, OwedHeld, PromiseKept
<1>8. ASSUME NEW s \in Service, UIList(s) PROVE Goal
  BY <1>1, <1>8, HeldKept DEF UIList, Safe, OwedHeld, PromiseKept
<1>9. Goal
  BY <1>3, <1>4, <1>5, <1>6, <1>7, <1>8 DEF UI
<1> QED BY <1>2, <1>9 DEF Safe

LEMMA IInvStep == IInv /\ [Next]_vars => IInv'
<1> SUFFICES ASSUME IInv, [Next]_vars PROVE IInv'
  OBVIOUS
<1>1. Typed'
  BY TypedStep DEF IInv
<1>2. CASE UNCHANGED vars
  <2>1. UNCHANGED <<grants, adguard, mu, plan, due, tap, owed, promised, reused, form>>
    BY <1>2 DEF vars, adopt
  <2> QED BY <1>1, <2>1, SafeOutside DEF IInv
<1>3. CASE Next
  <2>1. Safe'
    <3>1. CASE (\E k \in ChildId : ViewChild(k)) \/ ViewChildren \/ ViewGrants \/ ViewAnswer
      <4>1. UNCHANGED <<grants, adguard, mu, plan, due, tap, owed, promised, reused, form>>
        BY <3>1 DEF ViewChild, ViewChildren, ViewGrants, ViewAnswer, Untouched, adopt
      <4> QED BY <4>1, SafeOutside DEF IInv
    <3> QED BY <1>1, <1>3, <3>1, SafeBegin, SafeAdopt, SafeSave, SafeCreateClient, SafeDelete,
               SafeGrant, SafeUI DEF Next, FormStep
  <2> QED BY <1>1, <2>1 DEF IInv
<1> QED BY <1>2, <1>3

LEMMA Invariance == Spec => []IInv
<1>1. Init => IInv
  BY TypedInit, SafeInit DEF IInv
<1> QED BY <1>1, IInvStep, PTL DEF Spec

-----------------------------------------------------------------------------
(* What follows                                                            *)

\* A device that joined a child blocks what the child's devices blocked at that
\* moment, what grants had lifted included, unless a grant in force covers it
\* there or a parent lifts the block in AdGuard, whatever grants end, whatever
\* writes fail and whichever children are edited or deleted afterwards.
THEOREM JoinedBlocks == Spec => []JoinedDeviceBlocks
<1>1. IInv => JoinedDeviceBlocks
  <2> SUFFICES ASSUME IInv, NEW p \in promised
               PROVE  p[2] \in Effective(p[1]) \/ \E g \in grants : Covers(g, p[1], p[2])
    BY DEF JoinedDeviceBlocks
  <2>1. p[1] \in Client /\ p[2] \in Service /\ p = <<p[1], p[2]>>
    BY DEF IInv, Typed, BooksOK, Pair
  <2>2. p[1] \notin inherits /\ (p[2] \in own[p[1]] \/ Held(p[1], p[2]))
    BY <2>1 DEF IInv, Safe, PromiseKept
  <2> QED BY <2>1, <2>2, EffectiveType DEF Held, IInv, Typed
<1> QED BY <1>1, Invariance, PTL

\* Whatever the app has opened on a child's device is explained to the parent who
\* asks for the blocked view: by a grant of the child that is not a deleted
\* predecessor's, or by the other child's grant that the answer names, however
\* children, grants and lists change between the reads the answer is made of.
\* Left out are an answer without what could not be read and a grant created
\* after the grants were read.
THEOREM OpenExplained == Spec => []OpenIsExplained
<1>1. IInv /\ ViewOK => OpenIsExplained
  <2> DEFINE k == view.child
  <2> SUFFICES ASSUME IInv, ViewOK, view.pc = "adguard", ~view.degraded,
                      k \in Kids \ reused, NEW c \in view.mapped,
                      NEW s \in Service, <<c, s>> \in owed, s \notin Effective(c),
                      ~\E g \in grants : /\ Covers(g, c, s)
                                         /\ (g.child = k /\ ~g.orphan) \/ g.id > view.upTo
               PROVE  \E u \in Shown.services[s].unblockedBy : u.client = c
    BY DEF OpenIsExplained, Looking
  <2>1. c \in Client
    BY DEF ViewOK, ViewType
  <2>2. c \in present /\ Held(c, s)
    BY <2>1 DEF IInv, Safe, OwedHeld
  <2>3. PICK g \in grants : Covers(g, c, s)
    BY <2>2 DEF Held
  <2>4. g.child # k
    BY <2>3 DEF IInv, Safe, Orphans
  <2> DEFINE h == CoverOf(g)
             open == {d \in view.mapped \cap present : s \notin EffectiveIn(Clients, d)}
             named == {q \in open \X view.grants : q[2] \in UnblockedBy(Family, k, q[1], s)}
             u == [client |-> c, grant |-> h.id, child |-> h.child]
  <2>5. c \in open
    BY <2>2 DEF Effective
  <2>6. h \in view.grants
    <3>1. g.id \in Nat /\ view.upTo \in Nat
      BY BoundsAssumption DEF IInv, Typed, GrantsOK, Grant, ViewOK, ViewType
    <3> QED BY <2>3, <3>1 DEF ViewOK
  <2>7. h \in UnblockedBy(Family, k, c, s)
    BY <2>3, <2>4, <2>6 DEF UnblockedBy, Family, Covers, CoverOf
  <2> HIDE DEF h
  <2>8. <<c, h>> \in named
    BY <2>5, <2>6, <2>7
  <2>9. Shown.services[s].unblockedBy =
          {[client |-> p[1], grant |-> p[2].id, child |-> p[2].child] : p \in named}
    BY DEF Shown, Compute, ServiceState, Clients, Family
  <2>10. u \in Shown.services[s].unblockedBy
    <3> HIDE DEF named
    <3> QED BY <2>8, <2>9
  <2> QED BY <2>10
<1> QED BY <1>1, Invariance, TypesHold, PTL

\* The writes of an adoption only add to what a device blocks and never block
\* what a grant in force holds open there: between the read of the baseline and
\* the write the mutex keeps the grants, and each write reads the list again.
THEOREM AdoptionAdds == Spec => AdoptionOnlyAdds
<1> DEFINE Adds ==
      todo' # todo =>
        \A c \in present :
          /\ Effective(c) \subseteq Effective(c)'
          /\ \A s \in Effective(c)' \ Effective(c) : \A g \in grants : ~Covers(g, c, s)
<1>1. IInv /\ [Next]_vars => [Adds]_vars
  <2> SUFFICES ASSUME IInv, Next, todo' # todo, NEW c \in present
               PROVE  /\ Effective(c) \subseteq Effective(c)'
                      /\ \A s \in Effective(c)' \ Effective(c) :
                           \A g \in grants : ~Covers(g, c, s)
    OBVIOUS
  <2>0. c \in Client /\ Typed'
    BY TypedStep DEF IInv, Typed, ListsOK
  <2>1. /\ Effective(c) = IF c \in inherits THEN globalList ELSE own[c]
        /\ Effective(c)' = IF c \in inherits' THEN globalList' ELSE own'[c]
    BY <2>0 DEF Effective, EffectiveIn, Clients
  <2>2. CASE /\ UNCHANGED globalList /\ own'[c] = own[c]
             /\ c \in inherits' <=> c \in inherits
    BY <2>1, <2>2
  <2>3. PICK f \in Form : FormStep(f)
    BY DEF Next, NewForm, ChildCreate, ChildUpdate, Begin, ClientCreate, ChildDelete,
           GrantRequest, GrantCreate, GrantEnd, GrantRepair, UI, adopt, ViewChild,
           ViewChildren, ViewGrants, ViewAnswer, Untouched
  <2>4. CASE AdoptRead(f) \/ AdoptReturn(f) \/ ChildSave(f) \/ CreateClientRead(f)
             \/ CreateClientMap(f)
    BY <2>2, <2>4 DEF AdoptRead, AdoptReturn, ChildSave, CreateClientRead, CreateClientMap,
                      adguard
  <2>5. CASE CreateClientAdd(f)
    <3>1. PICK d \in form[f].clients : AddClient(f, d) \/ UNCHANGED <<present, own, inherits>>
      BY <2>5 DEF CreateClientAdd
    <3>2. UNCHANGED globalList /\ own'[c] = own[c] /\ (c \in inherits' <=> c \in inherits)
      BY <2>0, <2>5, <3>1 DEF CreateClientAdd, AddClient, IInv, Typed, ListsOK
    <3> QED BY <2>2, <3>2
  <2>6. ASSUME NEW d \in Client, AdoptWrite(f, d)
        PROVE  /\ Effective(c) \subseteq Effective(c)'
               /\ \A s \in Effective(c)' \ Effective(c) : \A g \in grants : ~Covers(g, c, s)
    <3>1. UNCHANGED globalList
      BY <2>6 DEF AdoptWrite
    <3>2. CASE UNCHANGED <<own, inherits>> \/ d # c
      <4>1. own'[c] = own[c] /\ (c \in inherits' <=> c \in inherits)
        BY <2>0, <2>6, <3>2 DEF AdoptWrite, AdoptBlockedServices, IInv, Typed, ListsOK
      <4> QED BY <2>2, <3>1, <4>1
    <3>3. CASE AdoptBlockedServices(c, plan[c])
      <4>1. Effective(c)' = Effective(c) \cup plan[c]
        BY <2>0, <2>1, <3>3 DEF AdoptBlockedServices, IInv, Typed, ListsOK
      <4>2. \A s \in plan[c] : ~Held(c, s)
        BY <2>0, <2>6 DEF AdoptWrite, At, IInv, Safe, PlanSpares
      <4> QED BY <4>1, <4>2 DEF Held
    <3> QED BY <2>6, <3>2, <3>3 DEF AdoptWrite
  <2> QED BY <2>3, <2>4, <2>5, <2>6 DEF FormStep
<1> QED BY <1>1, Invariance, PTL DEF Spec, AdoptionOnlyAdds
=============================================================================
