---------------------------- MODULE RenameProofs ----------------------------
(***************************************************************************)
(* Proofs about Rename, for any devices, names, children, faults and any   *)
(* number of edits.                                                        *)
(***************************************************************************)
EXTENDS Rename, TLAPS

RenameShape == pc # "idle" => old \in Name /\ new \in Name /\ old # new

\* AdGuard has nobody under the name that has been given up.
OldIsFree == severed = 0 /\ pc \in {"store", "back"} => \A d \in Device : nameOf[d] # old

MeantFollowed ==
  severed = 0 => \A k \in Child : \A d \in meant[k] : Told(nameOf[d]) \in clients[k]

OwedFollowed ==
  severed = 0 => \A d \in owed : \E k \in Child : Told(nameOf[d]) \in clients[k]

IInv == TypeOK /\ RenameShape /\ OldIsFree /\ MeantFollowed /\ OwedFollowed

LEMMA InitInv == Init => IInv
  <1> SUFFICES ASSUME Init PROVE IInv
    OBVIOUS
  <1>1. {nameOf[d] : d \in Device} \subseteq Name
    BY DEF Init
  <1>2. mapping \in [Child -> SUBSET Name]
    BY <1>1 DEF Init
  <1>3. TypeOK
    BY <1>2, NoNameAssumption, BoundsAssumption DEF Init, TypeOK, NoDevices
  <1>4. RenameShape /\ OldIsFree /\ MeantFollowed /\ OwedFollowed
    BY DEF Init, RenameShape, OldIsFree, MeantFollowed, OwedFollowed
  <1> QED
    BY <1>3, <1>4 DEF IInv

-----------------------------------------------------------------------------
(* What the pieces of a rename do                                          *)

\* AdGuard's rename keeps names unique when the new one is free.
LEMMA RenamedUnique ==
  ASSUME TypeOK, NEW f \in Name, NEW t \in Name, CanRename(f, t), Renamed(f, t)
  PROVE  /\ nameOf' \in [Device -> Name \cup {NoName}]
         /\ \A d, e \in Device : nameOf'[d] = nameOf'[e] /\ nameOf'[d] # NoName => d = e
  <1>1. \A d \in Device : nameOf[d] # t
    BY DEF CanRename, Named
  <1>2. \A d \in Device : nameOf'[d] = IF nameOf[d] = f THEN t ELSE nameOf[d]
    BY DEF Renamed
  <1>3. nameOf' \in [Device -> Name \cup {NoName}]
    BY DEF Renamed, TypeOK
  <1>4. ASSUME NEW d \in Device, NEW e \in Device, nameOf'[d] = nameOf'[e], nameOf'[d] # NoName
        PROVE  d = e
    <2>1. \A i, j \in Device : nameOf[i] = nameOf[j] /\ nameOf[i] # NoName => i = j
      BY DEF TypeOK
    <2>2. nameOf[d] = nameOf[e] /\ nameOf[d] # NoName
      BY <1>1, <1>2, <1>4, NoNameAssumption
    <2> QED
      BY <2>1, <2>2
  <1> QED
    BY <1>3, <1>4

\* A history that counts one more parting is no longer zero.
LEMMA SeverCounts == TypeOK /\ Sever => severed' # 0 /\ severed' \in 0..MaxEvents
  BY BoundsAssumption DEF TypeOK, Sever

-----------------------------------------------------------------------------
\* The devices a child had are devices.
LEMMA HadType == TypeOK /\ [Next]_vars => had' \in [Child -> SUBSET Device]
  <1> SUFFICES ASSUME TypeOK, [Next]_vars PROVE had' \in [Child -> SUBSET Device]
    OBVIOUS
  <1> USE DEF adguard, family, call, rename, history
  <1>0. had \in [Child -> SUBSET Device]
    BY DEF TypeOK
  <1>1. ASSUME NEW o \in Name, NEW n \in Name, RenameCheck(o, n)
        PROVE  had' \in [Child -> SUBSET Device]
    BY <1>1 DEF RenameCheck, Named
  <1>2. CASE had' = NoDevices
    BY <1>2 DEF NoDevices
  <1>3. ASSUME NEW k \in Child, NEW N \in SUBSET Name, UpdateChild(k, N)
        PROVE  had' \in [Child -> SUBSET Device]
    <2>1. MeantBy(N) \subseteq Device
      BY DEF MeantBy
    <2>2. \/ UNCHANGED had
          \/ had' = [had EXCEPT ![k] = had[k] \cup MeantBy(N)]
      BY <1>3 DEF UpdateChild
    <2> QED
      BY <1>0, <2>1, <2>2
  <1>4. ASSUME NEW d \in Device, NEW n \in Name, UIAdd(d, n)
        PROVE  had' \in [Child -> SUBSET Device]
    BY <1>0, <1>4 DEF UIAdd
  <1>5. CASE UNCHANGED had
    BY <1>0, <1>5
  <1> QED
    BY <1>1, <1>2, <1>3, <1>4, <1>5
    DEF Next, RenameAdGuard, RenameStore, RenameBack, Crash, Done, GrantRequest, Create,
        Finish, Reconcile, UIDelete, vars

LEMMA TypeStep == TypeOK /\ RenameShape /\ [Next]_vars => TypeOK' /\ RenameShape'
  <1> SUFFICES ASSUME TypeOK, RenameShape, [Next]_vars PROVE TypeOK' /\ RenameShape'
    OBVIOUS
  <1> USE DEF adguard, family, call, rename, history
  <1>0. had' \in [Child -> SUBSET Device]
    BY HadType
  <1>1. ASSUME NEW o \in Name, NEW n \in Name, RenameCheck(o, n)
        PROVE  TypeOK' /\ RenameShape'
    <2>1. UNCHANGED <<nameOf, blocked, mapping, edits, clients, request, owed, meant, severed>>
      BY <1>1 DEF RenameCheck
    <2> QED
      BY <1>0, <1>1, <2>1 DEF RenameCheck, TypeOK, RenameShape
  <1>2. CASE RenameAdGuard
    <2>0. old \in Name /\ new \in Name /\ old # new
      BY <1>2 DEF RenameAdGuard, RenameShape
    <2>1. /\ nameOf' \in [Device -> Name \cup {NoName}]
          /\ \A d, e \in Device : nameOf'[d] = nameOf'[e] /\ nameOf'[d] # NoName => d = e
      <3>1. CASE UNCHANGED nameOf
        BY <3>1 DEF TypeOK
      <3>2. CASE CanRename(old, new) /\ Renamed(old, new)
        BY <2>0, <3>2, RenamedUnique
      <3> QED
        BY <1>2, <3>1, <3>2 DEF RenameAdGuard
    <2>2. severed' \in 0..MaxEvents
      BY <1>2, SeverCounts DEF RenameAdGuard, TypeOK
    <2>3. /\ pc' \in {"idle", "store"} /\ old' \in Name \cup {NoName} /\ new' \in Name \cup {NoName}
          /\ RenameShape'
      BY <1>2, <2>0 DEF RenameAdGuard, Done, RenameShape
    <2>4. UNCHANGED <<blocked, mapping, edits, clients, request, owed, meant>>
      BY <1>2 DEF RenameAdGuard
    <2> QED
      BY <1>0, <2>1, <2>2, <2>3, <2>4 DEF TypeOK
  <1>3. CASE RenameStore
    <2>0. old \in Name /\ new \in Name /\ old # new
      BY <1>3 DEF RenameStore, RenameShape
    <2>1. \A N \in SUBSET Name : Moved(N) \in SUBSET Name
      BY <2>0 DEF Moved
    <2>2. mapping' \in [Child -> SUBSET Name] /\ clients' \in [Child -> SUBSET Name]
      BY <1>3, <2>1 DEF RenameStore, StoreRename, TypeOK
    <2>3. UNCHANGED <<nameOf, blocked, edits, request, owed, meant, severed>>
      BY <1>3 DEF RenameStore
    <2>4. /\ pc' \in {"idle", "back"} /\ old' \in Name \cup {NoName} /\ new' \in Name \cup {NoName}
          /\ RenameShape'
      BY <1>3, <2>0 DEF RenameStore, Done, RenameShape
    <2> QED
      BY <1>0, <2>2, <2>3, <2>4 DEF TypeOK
  <1>4. CASE RenameBack
    <2>0. old \in Name /\ new \in Name
      BY <1>4 DEF RenameBack, RenameShape
    <2>1. /\ nameOf' \in [Device -> Name \cup {NoName}]
          /\ \A d, e \in Device : nameOf'[d] = nameOf'[e] /\ nameOf'[d] # NoName => d = e
      <3>1. CASE UNCHANGED nameOf
        BY <3>1 DEF TypeOK
      <3>2. CASE CanRename(new, old) /\ Renamed(new, old)
        BY <2>0, <3>2, RenamedUnique
      <3> QED
        BY <1>4, <3>1, <3>2 DEF RenameBack
    <2>2. severed' \in 0..MaxEvents
      BY <1>4, SeverCounts DEF RenameBack, TypeOK
    <2>3. pc' = "idle" /\ old' = NoName /\ new' = NoName
      BY <1>4 DEF RenameBack, Done
    <2>4. UNCHANGED <<blocked, mapping, edits, clients, request, owed, meant>>
      BY <1>4 DEF RenameBack
    <2> QED
      BY <1>0, <2>1, <2>2, <2>3, <2>4 DEF TypeOK, RenameShape
  <1>5. CASE Crash
    <2>1. /\ pc' = "idle" /\ old' = NoName /\ new' = NoName /\ request' = [k \in Child |-> {}]
          /\ UNCHANGED <<nameOf, blocked, mapping, edits, clients, owed, meant>>
      BY <1>5 DEF Crash, Done
    <2>2. severed' \in 0..MaxEvents
      BY <1>5, SeverCounts DEF Crash
    <2> QED
      BY <1>0, <2>1, <2>2 DEF TypeOK, RenameShape
  <1>6. ASSUME NEW k \in Child, NEW N \in SUBSET Name, UpdateChild(k, N)
        PROVE  TypeOK' /\ RenameShape'
    <2>1. /\ edits < MaxEvents /\ edits' = edits + 1 /\ mapping' = [mapping EXCEPT ![k] = N]
          /\ UNCHANGED <<nameOf, blocked, clients, request, pc, old, new, owed, meant, severed>>
      BY <1>6 DEF UpdateChild
    <2>2. edits' \in 0..MaxEvents
      BY <2>1, BoundsAssumption DEF TypeOK
    <2> QED
      BY <1>0, <2>1, <2>2 DEF TypeOK, RenameShape
  <1>7. ASSUME NEW k \in Child, GrantRequest(k) PROVE TypeOK' /\ RenameShape'
    BY <1>7 DEF GrantRequest, TypeOK, RenameShape
  <1>8. ASSUME NEW k \in Child, Create(k) PROVE TypeOK' /\ RenameShape'
    <2>1. Named(request[k]) \subseteq Device
      BY DEF Named
    <2> QED
      BY <1>8, <2>1 DEF Create, TypeOK, RenameShape
  <1>9. ASSUME NEW k \in Child, Finish(k) PROVE TypeOK' /\ RenameShape'
    <2> DEFINE back == Named(clients[k] \ UNION {clients[j] : j \in Child \ {k}})
    <2>1. back \subseteq Device
      BY DEF Named
    <2>2. /\ clients' = [clients EXCEPT ![k] = {}] /\ meant' = [meant EXCEPT ![k] = {}]
          /\ blocked' = blocked \cup back /\ owed' = owed \ back
          /\ UNCHANGED <<nameOf, mapping, edits, request, pc, old, new, severed>>
      BY <1>9 DEF Finish
    <2> HIDE DEF back
    <2> QED
      BY <1>0, <2>1, <2>2 DEF TypeOK, RenameShape
  <1>10. CASE Reconcile
    <2> DEFINE open == Named(UNION {clients[k] : k \in Child})
    <2>1. /\ blocked' = blocked \ open /\ owed' = owed \cup (blocked \cap open)
          /\ UNCHANGED <<nameOf, mapping, edits, clients, request, pc, old, new, meant, severed>>
      BY <1>10 DEF Reconcile
    <2> HIDE DEF open
    <2> QED
      BY <1>0, <2>1 DEF TypeOK, RenameShape
  <1>11. ASSUME NEW d \in Device, UIDelete(d) PROVE TypeOK' /\ RenameShape'
    BY <1>11 DEF UIDelete, TypeOK, RenameShape
  <1>12. ASSUME NEW d \in Device, NEW n \in Name, UIAdd(d, n) PROVE TypeOK' /\ RenameShape'
    <2>1. \A e \in Device : nameOf[e] # n
      BY <1>12 DEF UIAdd, Named
    <2>2. severed' \in 0..MaxEvents
      BY <1>12, SeverCounts DEF UIAdd
    <2> QED
      BY <1>12, <2>1, <2>2 DEF UIAdd, TypeOK, RenameShape
  <1>13. CASE UNCHANGED vars
    BY <1>13 DEF vars, TypeOK, RenameShape
  <1> QED
    BY <1>1, <1>2, <1>3, <1>4, <1>5, <1>6, <1>7, <1>8, <1>9, <1>10, <1>11, <1>12, <1>13
    DEF Next

\* AdGuard's names stay unique, and a rename under way has two different names,
\* whatever fails (RenameClient in the engine and in AdGuard's client).
THEOREM RenameTypes == Spec => []TypeOK
  <1>1. Init => TypeOK /\ RenameShape
    BY InitInv DEF IInv
  <1> QED
    BY <1>1, TypeStep, PTL DEF Spec

\* What the store takes a device for, a child had when the rename began, or was
\* given since.
HadOK ==
  pc # "idle" => \A k \in Child : \A d \in Device :
                   Told(nameOf[d]) \in mapping[k] => d \in had[k]

OwnerInv == TypeOK /\ RenameShape /\ HadOK

\* A step that leaves the rename alone leaves Told alone.
LEMMA ToldSame ==
  ASSUME UNCHANGED <<pc, old, new>>
  PROVE  \A n : Told(n)' = Told(n)
  BY DEF Told

LEMMA HadStep == OwnerInv /\ [Next]_vars => HadOK'
  <1> SUFFICES ASSUME OwnerInv, [Next]_vars, pc' # "idle" PROVE HadOK'
    BY DEF HadOK
  <1> USE DEF adguard, family, call, rename, history
  <1>a. TypeOK /\ RenameShape /\ HadOK
    BY DEF OwnerInv
  <1>1. ASSUME NEW o \in Name, NEW n \in Name, RenameCheck(o, n) PROVE HadOK'
    BY <1>1 DEF RenameCheck, HadOK, Told, Named
  <1>2. CASE RenameAdGuard
    <2>1. /\ CanRename(old, new) /\ Renamed(old, new) /\ pc = "adguard" /\ pc' = "store"
          /\ UNCHANGED <<old, new, had, mapping>>
      BY <1>2 DEF RenameAdGuard, Done
    <2>2. \A d \in Device : nameOf'[d] = IF nameOf[d] = old THEN new ELSE nameOf[d]
      BY <2>1 DEF Renamed
    <2>3. \A d \in Device : nameOf[d] # new
      BY <2>1 DEF CanRename, Named
    <2>4. \A d \in Device : Told(nameOf[d])' = Told(nameOf[d])
      BY <2>1, <2>2, <2>3 DEF Told
    <2> QED
      BY <1>a, <2>1, <2>4 DEF HadOK
  <1>3. CASE RenameStore
    <2>1. pc = "store" /\ pc' = "back" /\ UNCHANGED <<old, new, had, mapping, nameOf>>
      BY <1>3 DEF RenameStore, Done
    <2> QED
      BY <1>a, <2>1 DEF HadOK, Told
  <1>4. CASE RenameBack \/ Crash
    BY <1>4 DEF RenameBack, Crash, Done
  <1>5. ASSUME NEW k \in Child, NEW N \in SUBSET Name, UpdateChild(k, N) PROVE HadOK'
    <2>1. /\ UNCHANGED <<pc, old, new, nameOf>>
          /\ mapping' = [mapping EXCEPT ![k] = N]
          /\ had' = [had EXCEPT ![k] = @ \cup MeantBy(N)]
      BY <1>5 DEF UpdateChild
    <2>2. \A j \in Child : /\ mapping'[j] = IF j = k THEN N ELSE mapping[j]
                           /\ had'[j] = IF j = k THEN had[k] \cup MeantBy(N) ELSE had[j]
      BY <1>a, <2>1 DEF TypeOK
    <2>3. \A n : Told(n)' = Told(n)
      BY <2>1, ToldSame
    <2>4. \A d \in Device : Told(nameOf[d]) \in N => d \in MeantBy(N)
      BY DEF MeantBy
    <2>5. ASSUME NEW j \in Child, NEW d \in Device, Told(nameOf[d]) \in mapping'[j]
          PROVE  d \in had'[j]
      BY <1>a, <2>1, <2>2, <2>4, <2>5 DEF HadOK
    <2>6. \A d \in Device : Told(nameOf[d])' = Told(nameOf[d])
      BY <2>1, <2>3
    <2> QED
      BY <2>5, <2>6 DEF HadOK
  <1>6. ASSUME NEW d \in Device, UIDelete(d) PROVE HadOK'
    <2>1. /\ UNCHANGED <<pc, old, new, mapping, had>>
          /\ \A e \in Device : nameOf'[e] = IF e = d THEN NoName ELSE nameOf[e]
      BY <1>6, <1>a DEF UIDelete, TypeOK
    <2>2. Told(NoName) = NoName /\ \A k \in Child : NoName \notin mapping[k]
      BY <1>a, <2>1, NoNameAssumption DEF Told, RenameShape, TypeOK
    <2>3. \A n : Told(n)' = Told(n)
      BY <2>1, ToldSame
    <2> QED
      BY <1>a, <2>1, <2>2, <2>3 DEF HadOK
  <1>7. ASSUME NEW d \in Device, NEW n \in Name, UIAdd(d, n) PROVE HadOK'
    <2>1. /\ UNCHANGED <<pc, old, new, mapping>>
          /\ \A e \in Device : nameOf'[e] = IF e = d THEN n ELSE nameOf[e]
          /\ \A k \in Child : had'[k] = IF {n, Told(n)} \cap mapping[k] # {}
                                          THEN had[k] \cup {d} ELSE had[k]
      BY <1>7, <1>a DEF UIAdd, TypeOK
    <2>2. \A m : Told(m)' = Told(m)
      BY <2>1, ToldSame
    <2> QED
      BY <1>a, <2>1, <2>2 DEF HadOK
  <1>8. CASE UNCHANGED <<pc, old, new, had, mapping, nameOf>>
    BY <1>8, <1>a, ToldSame DEF HadOK
  <1> QED
    BY <1>1, <1>2, <1>3, <1>4, <1>5, <1>6, <1>7, <1>8
    DEF Next, GrantRequest, Create, Finish, Reconcile, vars

\* A rename that is not cut short hands no child a device that it did not have
\* and no parent has given it meanwhile, whichever write is refused or rolled
\* back and whatever a parent edits between the check and the transaction
\* (RenameClient in the engine and in the store).
THEOREM NoNewOwner == Spec => RenameMakesNoNewOwner
  <1> DEFINE Over == pc # "idle" /\ pc' = "idle" /\ ~CutShort
             Safe == Over => \A k \in Child : Named(mapping[k])' \subseteq had[k]
  <1>1. ASSUME OwnerInv, [Next]_vars PROVE [Safe]_vars
    <2> SUFFICES ASSUME Over, NEW k \in Child, NEW d \in Device, nameOf'[d] \in mapping'[k]
                 PROVE  d \in had[k]
      BY DEF Named
    <2> USE DEF adguard, family, call, rename, history
    <2>a. TypeOK /\ RenameShape /\ HadOK
      BY <1>1 DEF OwnerInv
    <2>b. ~Sever
      BY <2>a DEF Sever, CutShort, TypeOK
    <2>c. Told(nameOf[d]) \in mapping[k] => d \in had[k]
      BY <2>a DEF HadOK
    <2>1. CASE RenameAdGuard
      BY <2>1, <2>b, <2>c DEF RenameAdGuard, Told
    <2>2. CASE RenameStore
      <3>1. pc = "store" /\ StoreRename /\ UNCHANGED nameOf
        BY <2>2 DEF RenameStore
      <3>2. new \in mapping[k] => old \in mapping[k]
        BY <3>1 DEF StoreRename, NoOutsider, Owners
      <3>3. mapping'[k] = Moved(mapping[k])
        BY <3>1 DEF StoreRename
      <3>4. Told(nameOf[d]) \in mapping[k]
        BY <3>1, <3>2, <3>3 DEF Told, Moved
      <3> QED
        BY <2>c, <3>4
    <2>3. CASE RenameBack
      <3>1. pc = "back" /\ Renamed(new, old) /\ UNCHANGED mapping
        BY <2>3, <2>b DEF RenameBack, CutShort
      <3>2. nameOf'[d] = IF nameOf[d] = new THEN old ELSE nameOf[d]
        BY <3>1 DEF Renamed
      <3> QED
        BY <2>c, <3>1, <3>2 DEF Told
    <2>4. CASE Crash
      BY <2>4, <2>b DEF Crash
    <2> QED
      BY <1>1, <2>1, <2>2, <2>3, <2>4
      DEF Next, RenameCheck, UpdateChild, GrantRequest, Create, Finish, Reconcile,
          UIDelete, UIAdd, vars
  <1>2. Init => OwnerInv
    BY InitInv DEF IInv, OwnerInv, HadOK, Init
  <1>3. OwnerInv /\ [Next]_vars => OwnerInv'
    BY TypeStep, HadStep DEF OwnerInv
  <1> QED
    BY <1>1, <1>2, <1>3, PTL DEF Spec, RenameMakesNoNewOwner

-----------------------------------------------------------------------------
(* Grants follow their devices as long as nothing parts AdGuard and store  *)

LEMMA FollowStep == IInv /\ [Next]_vars => OldIsFree' /\ MeantFollowed' /\ OwedFollowed'
  <1> SUFFICES ASSUME IInv, [Next]_vars, severed' = 0
               PROVE  OldIsFree' /\ MeantFollowed' /\ OwedFollowed'
    BY DEF OldIsFree, MeantFollowed, OwedFollowed
  <1> USE DEF adguard, family, call, rename, history
  <1>a. TypeOK /\ RenameShape
    BY DEF IInv
  <1>b. ~Sever
    BY <1>a, SeverCounts
  <1>1. ASSUME NEW o \in Name, NEW n \in Name, RenameCheck(o, n)
        PROVE  OldIsFree' /\ MeantFollowed' /\ OwedFollowed'
    BY <1>1 DEF RenameCheck, IInv, OldIsFree, MeantFollowed, OwedFollowed, Told
  <1>2. CASE RenameAdGuard
    <2>0. /\ old \in Name /\ new \in Name /\ old # new /\ pc = "adguard" /\ severed = 0
          /\ UNCHANGED <<clients, owed, meant>>
      BY <1>2, <1>a, <1>b DEF RenameAdGuard, RenameShape
    <2>1. CASE Done /\ UNCHANGED nameOf
      BY <2>0, <2>1 DEF Done, IInv, OldIsFree, MeantFollowed, OwedFollowed, Told
    <2>2. CASE CanRename(old, new) /\ Renamed(old, new) /\ pc' = "store" /\ UNCHANGED <<old, new>>
      <3>1. \A d \in Device : nameOf'[d] = IF nameOf[d] = old THEN new ELSE nameOf[d]
        BY <2>2 DEF Renamed
      <3>2. \A d \in Device : nameOf[d] # new
        BY <2>2 DEF CanRename, Named
      <3>3. \A d \in Device : Told(nameOf[d])' = Told(nameOf[d])
        BY <2>0, <2>2, <3>1, <3>2 DEF Told
      <3>4. OldIsFree'
        BY <2>0, <2>2, <3>1 DEF OldIsFree
      <3>5. MeantFollowed' /\ OwedFollowed'
        <4>1. \A k \in Child : meant[k] \subseteq Device
          BY <1>a DEF TypeOK
        <4>2. owed \subseteq Device
          BY <1>a DEF TypeOK
        <4> QED
          BY <2>0, <3>3, <4>1, <4>2 DEF IInv, MeantFollowed, OwedFollowed
      <3> QED
        BY <3>4, <3>5
    <2> QED
      BY <1>2, <1>b, <2>1, <2>2 DEF RenameAdGuard
  <1>3. CASE RenameStore
    <2>0. /\ old \in Name /\ new \in Name /\ old # new /\ pc = "store" /\ severed = 0
          /\ UNCHANGED <<nameOf, owed, meant>>
          /\ \A d \in Device : nameOf[d] # old
      BY <1>3, <1>a DEF RenameStore, RenameShape, IInv, OldIsFree
    <2>1. CASE pc' = "back" /\ UNCHANGED <<clients, old, new>>
      BY <2>0, <2>1 DEF IInv, OldIsFree, MeantFollowed, OwedFollowed, Told
    <2>2. CASE StoreRename /\ Done
      <3>1. \A k \in Child : clients'[k] = Moved(clients[k])
        BY <2>2 DEF StoreRename
      <3>2. \A d \in Device : \A k \in Child :
              Told(nameOf[d]) \in clients[k] => Told(nameOf[d])' \in clients'[k]
        BY <2>0, <2>2, <3>1 DEF Told, Moved, Done
      <3>3. MeantFollowed' /\ OwedFollowed'
        <4>1. owed \subseteq Device /\ \A k \in Child : meant[k] \subseteq Device
          BY <1>a DEF TypeOK
        <4> QED
          BY <2>0, <3>2, <4>1 DEF IInv, MeantFollowed, OwedFollowed
      <3> QED
        BY <2>2, <3>3 DEF Done, OldIsFree
    <2> QED
      BY <1>3, <2>1, <2>2 DEF RenameStore
  <1>4. CASE RenameBack
    <2>0. /\ old \in Name /\ new \in Name /\ old # new /\ pc = "back" /\ severed = 0
          /\ pc' = "idle" /\ UNCHANGED <<clients, owed, meant>>
          /\ \A d \in Device : nameOf[d] # old
      BY <1>4, <1>a, <1>b DEF RenameBack, RenameShape, IInv, OldIsFree, Done
    <2>1. \A d \in Device : Told(nameOf[d])' = Told(nameOf[d])
      <3>1. CASE CanRename(new, old) /\ Renamed(new, old)
        <4>1. \A d \in Device : nameOf'[d] = IF nameOf[d] = new THEN old ELSE nameOf[d]
          BY <3>1 DEF Renamed
        <4> QED
          BY <2>0, <4>1 DEF Told
      <3>2. CASE ~CanRename(new, old) /\ UNCHANGED nameOf
        <4>1. Named({old}) = {}
          BY <2>0 DEF Named
        <4>2. \A d \in Device : nameOf[d] # new
          BY <3>2, <4>1 DEF CanRename, Named
        <4> QED
          BY <2>0, <3>2, <4>2 DEF Told
      <3> QED
        BY <1>4, <1>b, <3>1, <3>2 DEF RenameBack
    <2>2. owed \subseteq Device /\ \A k \in Child : meant[k] \subseteq Device
      BY <1>a DEF TypeOK
    <2> QED
      BY <2>0, <2>1, <2>2 DEF IInv, OldIsFree, MeantFollowed, OwedFollowed
  <1>5. CASE Crash
    BY <1>5, <1>b DEF Crash
  <1>6. ASSUME NEW k \in Child, NEW N \in SUBSET Name, UpdateChild(k, N)
        PROVE  OldIsFree' /\ MeantFollowed' /\ OwedFollowed'
    BY <1>6, ToldSame DEF UpdateChild, IInv, OldIsFree, MeantFollowed, OwedFollowed, Told
  <1>7. ASSUME NEW k \in Child, GrantRequest(k)
        PROVE  OldIsFree' /\ MeantFollowed' /\ OwedFollowed'
    BY <1>7 DEF GrantRequest, IInv, OldIsFree, MeantFollowed, OwedFollowed, Told
  <1>8. ASSUME NEW k \in Child, Create(k)
        PROVE  OldIsFree' /\ MeantFollowed' /\ OwedFollowed'
    <2>0. pc = "idle" /\ pc' = "idle" /\ severed = 0 /\ UNCHANGED nameOf
      BY <1>8 DEF Create
    <2>1. CASE clients[k] # {}
      BY <1>8, <2>0, <2>1 DEF Create, IInv, OldIsFree, MeantFollowed, OwedFollowed, Told
    <2>2. CASE clients[k] = {}
      <3>1. /\ clients' = [clients EXCEPT ![k] = request[k]]
            /\ meant' = [meant EXCEPT ![k] = Named(request[k])]
            /\ owed' = owed \cup (blocked \cap Named(request[k]))
        BY <1>8, <2>2 DEF Create
      <3>2. \A j \in Child : clients'[j] = IF j = k THEN request[k] ELSE clients[j]
        BY <1>a, <3>1 DEF TypeOK
      <3>3. \A j \in Child : meant'[j] = IF j = k THEN Named(request[k]) ELSE meant[j]
        BY <1>a, <3>1 DEF TypeOK
      <3>4. \A j \in Child : \A d \in meant[j] : nameOf[d] \in clients[j]
        BY <2>0 DEF IInv, MeantFollowed, Told
      <3>5. MeantFollowed'
        BY <2>0, <3>2, <3>3, <3>4 DEF MeantFollowed, Told, Named
      <3>6. \A d \in owed : \E j \in Child \ {k} : nameOf[d] \in clients[j]
        BY <2>0, <2>2 DEF IInv, OwedFollowed, Told
      <3>7. OwedFollowed'
        BY <2>0, <3>1, <3>2, <3>6 DEF OwedFollowed, Told, Named
      <3> QED
        BY <2>0, <3>5, <3>7 DEF OldIsFree
    <2> QED
      BY <2>1, <2>2
  <1>9. ASSUME NEW k \in Child, Finish(k)
        PROVE  OldIsFree' /\ MeantFollowed' /\ OwedFollowed'
    <2> DEFINE held == UNION {clients[j] : j \in Child \ {k}}
               back == Named(clients[k] \ held)
    <2>0. /\ pc = "idle" /\ pc' = "idle" /\ severed = 0 /\ UNCHANGED nameOf
          /\ clients' = [clients EXCEPT ![k] = {}] /\ meant' = [meant EXCEPT ![k] = {}]
          /\ owed' = owed \ back
      BY <1>9 DEF Finish
    <2>1. \A j \in Child : /\ clients'[j] = IF j = k THEN {} ELSE clients[j]
                           /\ meant'[j] = IF j = k THEN {} ELSE meant[j]
      BY <1>a, <2>0 DEF TypeOK
    <2>2. MeantFollowed'
      BY <2>0, <2>1 DEF IInv, MeantFollowed, Told
    <2>3. ASSUME NEW d \in owed' PROVE \E j \in Child : nameOf[d] \in clients'[j]
      <3>1. PICK j \in Child : nameOf[d] \in clients[j]
        BY <2>0, <2>3 DEF IInv, OwedFollowed, Told
      <3>2. CASE j = k
        <4>1. nameOf[d] \in held
          BY <1>a, <2>0, <2>3, <3>1, <3>2 DEF Named, TypeOK
        <4> QED
          BY <2>1, <4>1
      <3> QED
        BY <2>1, <3>1, <3>2
    <2> QED
      BY <2>0, <2>2, <2>3 DEF OldIsFree, OwedFollowed, Told
  <1>10. CASE Reconcile
    <2>1. /\ pc = "idle" /\ pc' = "idle" /\ severed = 0 /\ UNCHANGED <<nameOf, clients, meant>>
          /\ owed' = owed \cup (blocked \cap Named(UNION {clients[k] : k \in Child}))
      BY <1>10 DEF Reconcile
    <2> QED
      BY <2>1 DEF IInv, OldIsFree, MeantFollowed, OwedFollowed, Told, Named
  <1>11. ASSUME NEW d \in Device, UIDelete(d)
         PROVE  OldIsFree' /\ MeantFollowed' /\ OwedFollowed'
    <2>0. /\ severed = 0 /\ UNCHANGED <<clients, pc, old, new>> /\ owed' = owed \ {d}
          /\ \A e \in Device : nameOf'[e] = IF e = d THEN NoName ELSE nameOf[e]
          /\ \A k \in Child : meant'[k] = meant[k] \ {d}
      BY <1>11, <1>a DEF UIDelete, TypeOK
    <2>1. owed \subseteq Device /\ \A k \in Child : meant[k] \subseteq Device
      BY <1>a DEF TypeOK
    <2>2. OldIsFree'
      BY <1>a, <2>0, NoNameAssumption DEF IInv, OldIsFree, RenameShape
    <2>3. \A e \in Device \ {d} : Told(nameOf[e])' = Told(nameOf[e])
      BY <2>0 DEF Told
    <2> QED
      BY <2>0, <2>1, <2>2, <2>3 DEF IInv, MeantFollowed, OwedFollowed
  <1>12. ASSUME NEW d \in Device, NEW n \in Name, UIAdd(d, n) PROVE FALSE
    BY <1>12, <1>b DEF UIAdd
  <1>13. CASE UNCHANGED vars
    BY <1>13 DEF vars, IInv, OldIsFree, MeantFollowed, OwedFollowed, Told
  <1> QED
    BY <1>1, <1>2, <1>3, <1>4, <1>5, <1>6, <1>7, <1>8, <1>9, <1>10, <1>11, <1>12, <1>13
    DEF Next

LEMMA StepInv == IInv /\ [Next]_vars => IInv'
  BY TypeStep, FollowStep DEF IInv

\* Refused renames, failed transactions and rolled-back renames cost no open
\* device: some running grant's revert finds it, for any number of children
\* and devices (RenameClient).
THEOREM OpenDevicesFollowed == Spec => []OpenDeviceFollowed
  <1>1. IInv => OpenDeviceFollowed
    BY DEF IInv, OwedFollowed, Told, OpenDeviceFollowed, OpenDeviceIsKnown
  <1> QED
    BY InitInv, StepInv, <1>1, PTL DEF Spec

\* A running grant keeps every device it was created for through renames, as
\* long as nothing parts AdGuard and the store for good (RenameClient).
THEOREM GrantsKeepTheirDevices == Spec => []GrantKeepsItsDevices
  <1>1. IInv => GrantKeepsItsDevices
    BY DEF IInv, MeantFollowed, Told, GrantKeepsItsDevices, Named, TypeOK
  <1> QED
    BY InitInv, StepInv, <1>1, PTL DEF Spec
=============================================================================
