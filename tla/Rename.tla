------------------------------- MODULE Rename -------------------------------
(***************************************************************************)
(* Renaming a device while grants run (internal/grants/rename.go over      *)
(* internal/store/clients.go and adguard's RenameClient).                  *)
(*                                                                         *)
(* AdGuard knows a device by its name and so do the child mapping and the  *)
(* rows of a grant; a rename moves the name in AdGuard and then in the     *)
(* store, two writes under Engine.mu.  A child's mapping is edited and a   *)
(* grant request reads it without that mutex.  Grant operations, which     *)
(* hold it throughout, are single steps here, on one service and without   *)
(* faults (module Grants takes them apart); with one service a child has   *)
(* at most one active grant.                                               *)
(***************************************************************************)
EXTENDS Naturals, FiniteSets

CONSTANTS
  Device, Name, Child,
  NoName,       \* the "name" of a device AdGuard does not have
  MaxEvents,    \* bound: edits of a child's devices; as many faults that part
                \* AdGuard's names from the store's
  MaxRequests,  \* bound: grant requests in flight at once
  Faults        \* what may go wrong, members of Fault

\* AdGuard fails without renaming; renames and the answer is lost; the store's
\* transaction fails; renaming back fails; the process dies; AdGuard's UI adds
\* a device (perhaps under the name being given up).
Fault == {"refused", "lost", "store", "back", "crash", "add"}

ASSUME NoNameAssumption == NoName \notin Name
ASSUME BoundsAssumption == {MaxEvents, MaxRequests} \subseteq Nat
ASSUME FaultsAssumption == Faults \subseteq Fault

VARIABLES
  nameOf,     \* AdGuard: [Device -> Name \cup {NoName}]
  blocked,    \* AdGuard: the devices that have the service in their list
  mapping,    \* child_clients: [Child -> SUBSET Name]
  edits,      \* edits of it made so far
  clients,    \* grant_clients of the child's active grant, {}: it has none
  request,    \* a grant request: the child's names it has read, {}: none
  pc, old, new,             \* the rename holding Engine.mu
  had,        \* history, during a rename: the devices each child had when it
              \* began or was given since by a parent
  owed,       \* history: devices the app opened and nobody has re-blocked
  meant,      \* history: the devices that grant reached when it was created
  severed     \* history: how often AdGuard and the store were parted for good

adguard == <<nameOf, blocked>>
call    == <<pc, old, new>>
rename  == <<call, had>>
family  == <<mapping, edits>>
history == <<owed, meant, severed>>
vars    == <<adguard, family, clients, request, rename, history>>

TypeOK ==
  /\ nameOf \in [Device -> Name \cup {NoName}]
  /\ \A d, e \in Device : nameOf[d] = nameOf[e] /\ nameOf[d] # NoName => d = e
  /\ blocked \subseteq Device /\ owed \subseteq Device
  /\ mapping \in [Child -> SUBSET Name] /\ edits \in 0..MaxEvents
  /\ clients \in [Child -> SUBSET Name]
  /\ request \in [Child -> SUBSET Name]
  /\ pc \in {"idle", "adguard", "store", "back"}
  /\ old \in Name \cup {NoName} /\ new \in Name \cup {NoName}
  /\ meant \in [Child -> SUBSET Device] /\ severed \in 0..MaxEvents
  /\ had \in [Child -> SUBSET Device]

Named(N) == {d \in Device : nameOf[d] \in N}
Owners(n) == {k \in Child : n \in mapping[k]}
NoDevices == [k \in Child |-> {}]

\* Between AdGuard's rename and the store's, the store knows the device under
\* its old name.
Told(n) == IF pc \in {"store", "back"} /\ n = new THEN old ELSE n

\* The devices a parent can mean by names: those AdGuard has under them, and the
\* one the store still knows under its old name.
MeantBy(N) == {d \in Device : nameOf[d] \in N \/ Told(nameOf[d]) \in N}

-----------------------------------------------------------------------------
Init ==
  /\ nameOf \in [Device -> Name]
  /\ \A d, e \in Device : nameOf[d] = nameOf[e] => d = e
  /\ blocked = Device
  /\ mapping \in [Child -> SUBSET {nameOf[d] : d \in Device}] /\ edits = 0
  /\ clients = [k \in Child |-> {}]
  /\ request = [k \in Child |-> {}]
  /\ pc = "idle" /\ old = NoName /\ new = NoName /\ had = NoDevices
  /\ owed = {} /\ meant = [k \in Child |-> {}] /\ severed = 0

-----------------------------------------------------------------------------
(* RenameClient                                                            *)

\* checkRename and store.RenameClient: nobody holds new without holding old.
NoOutsider(o, n) == Owners(n) \subseteq Owners(o)

RenameCheck(o, n) ==
  /\ pc = "idle" /\ o # n /\ NoOutsider(o, n)
  /\ pc' = "adguard" /\ old' = o /\ new' = n
  /\ had' = [k \in Child |-> Named(mapping[k])]
  /\ UNCHANGED <<adguard, family, clients, request, history>>

\* Mutant: a name that is taken is not noticed.
CanRenameOnto(from, to) == Named({from}) # {}

\* adguard.RenameClient: refused when to is taken or from is unknown.
CanRename(from, to) == Named({from}) # {} /\ Named({to}) = {}
Renamed(from, to) ==
  nameOf' = [d \in Device |-> IF nameOf[d] = from THEN to ELSE nameOf[d]]

Done == pc' = "idle" /\ old' = NoName /\ new' = NoName /\ had' = NoDevices

\* AdGuard and the store have parted and no code brings them together again.
Sever == severed < MaxEvents /\ severed' = severed + 1

\* An error, whether or not AdGuard applied the rename, ends it here.
RenameAdGuard ==
  /\ pc = "adguard"
  /\ \/ CanRename(old, new) /\ Renamed(old, new)
        /\ pc' = "store" /\ UNCHANGED <<old, new, had, severed>>
     \/ /\ ~CanRename(old, new) \/ "refused" \in Faults
        /\ Done /\ UNCHANGED <<nameOf, severed>>
     \/ "lost" \in Faults /\ CanRename(old, new) /\ Renamed(old, new)
        /\ Done /\ Sever
  /\ UNCHANGED <<blocked, family, clients, request, owed, meant>>

Moved(N) == IF old \in N THEN (N \ {old}) \cup {new} ELSE N

\* Mutants of StoreRename: the running grants keep the old name; new owners
\* that came in since the check are not looked for.
StoreRenameMappingOnly ==
  /\ NoOutsider(old, new)
  /\ mapping' = [k \in Child |-> Moved(mapping[k])]
  /\ UNCHANGED clients
StoreRenameUnchecked ==
  /\ mapping' = [k \in Child |-> Moved(mapping[k])]
  /\ clients' = [k \in Child |-> Moved(clients[k])]

\* One transaction: every owner's mapping and every active grant moves, an
\* owner or grant that already had the new name keeps one of it.
StoreRename ==
  /\ NoOutsider(old, new)
  /\ mapping' = [k \in Child |-> Moved(mapping[k])]
  /\ clients' = [k \in Child |-> Moved(clients[k])]

RenameStore ==
  /\ pc = "store"
  /\ \/ StoreRename /\ Done
     \/ /\ ~NoOutsider(old, new) \/ "store" \in Faults
        /\ pc' = "back" /\ UNCHANGED <<mapping, clients, old, new, had>>
  /\ UNCHANGED <<adguard, edits, request, history>>

\* Mutant: a failed store write is only reported.
RenameBackSkipped ==
  pc = "back" /\ Done /\ UNCHANGED <<adguard, family, clients, request, history>>

RenameBack ==
  /\ pc = "back" /\ Done
  /\ \/ CanRename(new, old) /\ Renamed(new, old) /\ UNCHANGED severed
     \/ ~CanRename(new, old) /\ UNCHANGED <<nameOf, severed>>
     \/ "back" \in Faults /\ Sever /\ UNCHANGED nameOf
  /\ UNCHANGED <<blocked, family, clients, request, owed, meant>>

Crash ==
  /\ "crash" \in Faults /\ pc # "idle" /\ Done
  /\ request' = [k \in Child |-> {}] /\ Sever
  /\ UNCHANGED <<adguard, family, clients, owed, meant>>

-----------------------------------------------------------------------------
(* Everything else that reads or writes names                              *)

\* PUT /children/{id}: the names come from the parent's form.
UpdateChild(k, N) ==
  /\ edits < MaxEvents /\ edits' = edits + 1
  /\ mapping[k] # N /\ mapping' = [mapping EXCEPT ![k] = N]
  /\ IF pc = "idle" THEN UNCHANGED had
     ELSE had' = [had EXCEPT ![k] = @ \cup MeantBy(N)]
  /\ UNCHANGED <<adguard, clients, request, call, history>>

\* handleGrantCreate reads the child's names first ...
GrantRequest(k) ==
  /\ request[k] = {} /\ mapping[k] # {}
  /\ Cardinality({j \in Child : request[j] # {}}) < MaxRequests
  /\ request' = [request EXCEPT ![k] = mapping[k]]
  /\ UNCHANGED <<adguard, family, clients, rename, history>>

\* ... and calls Create with them, however old they are by then.
Create(k) ==
  /\ pc = "idle" /\ request[k] # {}
  /\ request' = [request EXCEPT ![k] = {}]
  /\ IF clients[k] # {}
       THEN UNCHANGED <<blocked, clients, owed, meant>>    \* ErrGrantOverlap
       ELSE /\ clients' = [clients EXCEPT ![k] = request[k]]
            /\ meant' = [meant EXCEPT ![k] = Named(request[k])]
            /\ blocked' = blocked \ Named(request[k])
            /\ owed' = owed \cup (blocked \cap Named(request[k]))
  /\ UNCHANGED <<nameOf, family, rename, severed>>

\* End or expiry: the stored names no other active grant has are re-blocked,
\* a name AdGuard does not know counts as reverted.
Finish(k) ==
  LET held == UNION {clients[j] : j \in Child \ {k}}
      back == Named(clients[k] \ held)
  IN
  /\ pc = "idle" /\ clients[k] # {}
  /\ clients' = [clients EXCEPT ![k] = {}]
  /\ blocked' = blocked \cup back /\ owed' = owed \ back
  /\ meant' = [meant EXCEPT ![k] = {}]
  /\ UNCHANGED <<nameOf, family, request, rename, severed>>

\* A reconcile pass over the active grants.
Reconcile ==
  LET open == Named(UNION {clients[k] : k \in Child})
  IN
  /\ pc = "idle" /\ blocked \cap open # {}
  /\ blocked' = blocked \ open /\ owed' = owed \cup (blocked \cap open)
  /\ UNCHANGED <<nameOf, family, clients, request, rename, meant, severed>>

UIDelete(d) ==
  /\ nameOf[d] # NoName
  /\ nameOf' = [nameOf EXCEPT ![d] = NoName]
  /\ blocked' = blocked \ {d} /\ owed' = owed \ {d}
  /\ meant' = [k \in Child |-> meant[k] \ {d}]
  /\ UNCHANGED <<family, clients, request, rename, severed>>

\* A device added under a name that children have is theirs.
UIAdd(d, n) ==
  /\ "add" \in Faults /\ nameOf[d] = NoName /\ Named({n}) = {}
  /\ nameOf' = [nameOf EXCEPT ![d] = n]
  /\ blocked' = blocked \cup {d} /\ Sever
  /\ had' = [k \in Child |-> IF pc # "idle" /\ {n, Told(n)} \cap mapping[k] # {}
                              THEN had[k] \cup {d} ELSE had[k]]
  /\ UNCHANGED <<family, clients, request, call, owed, meant>>

-----------------------------------------------------------------------------
Next ==
  \/ \E o, n \in Name : RenameCheck(o, n)
  \/ RenameAdGuard \/ RenameStore \/ RenameBack \/ Crash
  \/ \E k \in Child :
       \/ GrantRequest(k) \/ Create(k) \/ Finish(k)
       \/ \E N \in SUBSET Name : UpdateChild(k, N)
  \/ Reconcile
  \/ \E d \in Device : UIDelete(d) \/ \E n \in Name : UIAdd(d, n)

Spec == Init /\ [][Next]_vars

-----------------------------------------------------------------------------
(* Properties                                                              *)

\* rename.go:12 "so a running grant still reverts on the renamed device": a
\* device the app has opened carries, whenever no rename is under way, a name
\* some active grant has stored, so that grant's revert finds it.
OpenDeviceIsKnown ==
  pc = "idle" => \A d \in owed : \E k \in Child : nameOf[d] \in clients[k]

\* The same as long as no answer is lost, no renaming back fails, the process
\* does not die in a rename and nobody adds a device meanwhile: refused
\* renames, failed transactions and rolled-back renames cost no open device.
OpenDeviceFollowed == severed = 0 => OpenDeviceIsKnown

\* A running grant keeps every device it was created for through renames,
\* refused, failed and rolled-back ones and ones of shared devices included
\* (RenameClient in the engine and in the store).
GrantKeepsItsDevices ==
  severed = 0 /\ pc = "idle" => \A k \in Child : meant[k] \subseteq Named(clients[k])

\* The rename is given up while AdGuard has made it and the store has not: the
\* answer is lost, renaming back fails or finds the old name taken, the process
\* dies.
CutShort == severed' # severed \/ (pc = "back" /\ ~CanRename(new, old))

\* A rename hands no child a device that it did not have and no parent has given
\* it meanwhile: neither through a name AdGuard no longer knows and a child still
\* maps, nor through the new name on a form that a parent sends between the check
\* and the transaction, whichever of AdGuard's and the store's writes is refused
\* and rolled back.  Only a rename that is cut short may (checkRename,
\* store.RenameClient, renaming back; *ErrClientTaken).
RenameMakesNoNewOwner ==
  [][pc # "idle" /\ pc' = "idle" /\ ~CutShort
     => \A k \in Child : Named(mapping[k])' \subseteq had[k]]_vars
=============================================================================
