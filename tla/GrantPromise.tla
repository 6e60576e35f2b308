---------------------------- MODULE GrantPromise ----------------------------
(***************************************************************************)
(* What a grant promises a family, with nothing of how it is kept: a grant *)
(* is in force from its creation until it is ended or has run out, blocks  *)
(* are lifted only under a grant in force, and a grant leaves force only   *)
(* once every block that it alone kept lifted has been restored.           *)
(*                                                                         *)
(* Stated from PLAN.md and the comments of internal/grants; module Grants  *)
(* implements it.                                                          *)
(***************************************************************************)
EXTENDS Naturals

CONSTANTS Child, Service, Client, GrantId

VARIABLES status, child, services, clients, endsAt, now,
          opened   \* <<client, service>> pairs lifted and not yet restored

vars == <<status, child, services, clients, endsAt, now, opened>>
rows == <<status, child, services, clients, endsAt>>

InForce == {g \in GrantId : status[g] = "active"}

HeldBy(G, p) == \E g \in G : p[1] \in clients[g] /\ p[2] \in services[g]

Init ==
  /\ \A g \in GrantId : status[g] = "none"
  /\ opened = {}

\* One grant in force per child and service.
Grant(g) ==
  /\ status[g] = "none"
  /\ status' = [status EXCEPT ![g] = "active"]
  /\ \A h \in GrantId \ {g} :
       /\ child'[h] = child[h] /\ services'[h] = services[h]
       /\ clients'[h] = clients[h] /\ endsAt'[h] = endsAt[h]
  /\ endsAt'[g] > now
  /\ \A h \in InForce : child[h] = child'[g] => services[h] \cap services'[g] = {}
  /\ UNCHANGED <<now, opened>>

Prolong(g) ==
  /\ g \in InForce
  /\ endsAt'[g] > endsAt[g]
  /\ \A h \in GrantId \ {g} : endsAt'[h] = endsAt[h]
  /\ UNCHANGED <<status, child, services, clients, now, opened>>

Lift ==
  /\ opened \subseteq opened'
  /\ \A p \in opened' \ opened : HeldBy(InForce, p)
  /\ UNCHANGED <<rows, now>>

\* By the app, or by a parent in AdGuard's UI, at any time.
Restore == opened' \subseteq opened /\ UNCHANGED <<rows, now>>

Leave(g) ==
  /\ g \in InForce
  /\ \A p \in opened : HeldBy(InForce \ {g}, p)
  /\ \/ status' = [status EXCEPT ![g] = "ended"]
     \/ now >= endsAt[g] /\ status' = [status EXCEPT ![g] = "expired"]
  /\ UNCHANGED <<child, services, clients, endsAt, now, opened>>

Tick == now' > now /\ UNCHANGED <<rows, opened>>

Next ==
  \/ \E g \in GrantId : Grant(g) \/ Prolong(g) \/ Leave(g)
  \/ Lift \/ Restore \/ Tick

Spec == Init /\ [][Next]_vars
=============================================================================
