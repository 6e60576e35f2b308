---------------------------- MODULE BlockedView ----------------------------
(***************************************************************************)
(* What a family sees of the lists, and the offer to leave the global one  *)
(* (internal/blocked/blocked.go).  Pure operators over one reading of      *)
(* AdGuard: the persistent clients' names, which of them inherit the       *)
(* global list, their own lists, and that list.  A slice without           *)
(* duplicates is a set here; sorting is left out.                          *)
(***************************************************************************)

\* adg: [present, inherits, own, global], one reading of AdGuard.

\* The effective set of a client: the global list for one that inherits it.
EffectiveIn(adg, c) == IF c \in adg.inherits THEN adg.global ELSE adg.own[c]

\* fam: [owners, grants]; owners maps a client to the children that hold it,
\* grants are the active ones, each with its child, services and clients.

SharedWith(fam, self, c) == fam.owners[c] \ {self}

\* Mutant: the grant is looked for through the client's owners of today.
UnblockedByOwner(fam, self, c, s) ==
  {g \in fam.grants : /\ g.child # self /\ s \in g.services
                      /\ g.child \in fam.owners[c]}

\* The other children's grants that cover the service on the client.
UnblockedBy(fam, self, c, s) ==
  {g \in fam.grants : g.child # self /\ s \in g.services /\ c \in g.clients}

ClientState(adg, fam, self, c) ==
  [missing    |-> c \notin adg.present,
   usesGlobal |-> c \in adg.present \cap adg.inherits,
   sharedWith |-> SharedWith(fam, self, c)]

\* One service over the present clients; Differs is only given for "partial".
ServiceState(adg, fam, self, mapped, s) ==
  LET presents == mapped \cap adg.present
      open     == {c \in presents : s \notin EffectiveIn(adg, c)}
      state    == IF presents # {} /\ open = {} THEN "blocked"
                  ELSE IF open = presents THEN "unblocked" ELSE "partial"
  IN [state       |-> state,
      differs     |-> IF state = "partial" THEN open ELSE {},
      unblockedBy |-> {[client |-> p[1], grant |-> p[2].id, child |-> p[2].child] :
                         p \in {q \in open \X fam.grants :
                                  q[2] \in UnblockedBy(fam, self, q[1], s)}}]

Compute(adg, fam, self, mapped, services) ==
  [clients  |-> [c \in mapped |-> ClientState(adg, fam, self, c)],
   services |-> [s \in services |-> ServiceState(adg, fam, self, mapped, s)]]

\* The clients to be moved off the global list, and the list to write to each;
\* nothing to offer when the global list is empty.
Offer(adg, mapped) ==
  IF adg.global = {} THEN {}
  ELSE {[client |-> c, target |-> adg.own[c] \cup adg.global] :
          c \in mapped \cap adg.present \cap adg.inherits}
=============================================================================
