--------------------------- MODULE AdGuardClient ---------------------------
(***************************************************************************)
(* The client for AdGuard Home's control API as its writers use it:        *)
(* internal/adguard/clients.go, clients_write.go and client.go, with the   *)
(* migration handler of internal/api/migration.go.  AdGuard's side is the  *)
(* one the repository's own fake gives it (adguardtest/server.go).         *)
(*                                                                         *)
(* AdGuard replaces a client's whole object, so a writer reads all clients *)
(* (GET), edits the one object and posts it back (POST) under Client.rmw.  *)
(* The engine's calls are serialised by Engine.mu; migration requests are  *)
(* not under that mutex and run beside them.  Parents edit in AdGuard's    *)
(* own UI at any time; a POST that timed out may still be applied later.   *)
(***************************************************************************)
EXTENDS Naturals, FiniteSets, BlockedView

CONSTANTS
  Name, Service,
  Id,          \* what else is in a client's object: its ids, its settings
  Engine,      \* the caller that Engine.mu admits
  Tab,         \* POST /api/v1/migration requests
  None, Nobody,
  MaxCalls,    \* bound: calls the engine makes
  MaxEvents    \* bound: edits in AdGuard's UI, POSTs that time out and are
               \* applied late (each counts)

Caller == {Engine} \cup Tab

ASSUME BoundsAssumption  == {MaxCalls, MaxEvents} \subseteq Nat
ASSUME CallerAssumption  == Engine \notin Tab /\ Nobody \notin Caller

Object  == [id : Id, blocked : SUBSET Service, inherits : BOOLEAN]
ASSUME NoneAssumption == None \notin Object

Op      == {"remove", "add", "adopt", "rename", "new"}
Request == [op : Op \cup {"migrate"}, name : Name, to : Name,
            ids : SUBSET Service, id : Id \cup {Nobody}, inherits : BOOLEAN]
Post    == [new : BOOLEAN, name : Name, to : Name, obj : Object]
Step    == [client : Name, target : SUBSET Service]

VARIABLES
  \* AdGuard
  client,      \* [Name -> Object, or None]
  globalList,
  late,        \* POSTs given up by the app that AdGuard may still apply
  \* the process
  rmw,         \* Client.rmw: the caller that holds it, or Nobody
  call,        \* [Caller -> where its call is]
  mig,         \* [Tab -> where its request is]
  calls, events,
  \* history
  raced,       \* clients that were changed, by others than the app's calls,
               \* under the call that has read them
  kept         \* [Tab -> what the clients of its offer blocked then, unless
               \* somebody has lifted it since]

vars == <<client, globalList, late, rmw, call, mig, calls, events, raced, kept>>

For(o, n) == [op |-> o, name |-> n, to |-> n, ids |-> {}, id |-> Nobody,
              inherits |-> FALSE]
NoRequest == For("none", Nobody)
NoCall == [pc |-> "idle", req |-> NoRequest, base |-> None, global |-> {}]
NewMig == [pc |-> "new", seen |-> [n \in Name |-> None], steps |-> {}]

TypeOK ==
  /\ client \in [Name -> Object \cup {None}] /\ globalList \subseteq Service
  /\ late \subseteq Post
  /\ call \in [Caller -> [pc : {"idle", "wait", "global", "post", "ok", "error"},
                          req : Request \cup {NoRequest}, base : Object \cup {None},
                          global : SUBSET Service]]
  /\ rmw \in Caller \cup {Nobody}
  /\ \A w \in Caller : call[w].pc \in {"global", "post"} <=> rmw = w
  /\ mig \in [Tab -> [pc : {"new", "global", "apply", "done", "failed"},
                      seen : [Name -> Object \cup {None}], steps : SUBSET Step]]
  /\ calls \in 0..MaxCalls /\ events \in 0..MaxEvents
  /\ kept \in [Tab -> SUBSET (Name \X Service)] /\ raced \subseteq Name

-----------------------------------------------------------------------------
(* The mutate closures: what a call does to the object it has read         *)

\* Mutant: the object is built afresh, not copied from the one read.
EditedAfresh(r, o, global) ==
  [id |-> o.id, inherits |-> FALSE,
   blocked |-> CASE r.op = "remove" -> o.blocked \ r.ids
                 [] r.op = "rename" -> o.blocked
                 [] OTHER           -> o.blocked \cup r.ids]

Edited(r, o, global) ==
  CASE r.op = "remove"  -> [o EXCEPT !.blocked = @ \ r.ids]
    [] r.op = "add"     -> [o EXCEPT !.blocked = @ \cup r.ids]
    [] r.op = "migrate" -> [o EXCEPT !.blocked = r.ids, !.inherits = FALSE]
    [] r.op = "adopt"   ->
         [o EXCEPT !.blocked = (IF o.inherits THEN global ELSE @) \cup r.ids,
                   !.inherits = FALSE]
    [] OTHER            -> o

\* errSkipUpdate: the edit leaves the object as it was read.
Skips(r, o) ==
  \/ r.op \in {"remove", "add"} /\ Edited(r, o, {}) = o
  \/ r.op = "adopt" /\ ~o.inherits /\ Edited(r, o, {}) = o

ReadsGlobal(r, o) == r.op = "adopt" /\ o.inherits

\* The object AddClient posts; without a list of its own it inherits.
NewClient(r) == [id |-> r.id, inherits |-> r.inherits, blocked |-> r.ids]

Body(w) ==
  LET r == call[w].req IN
  [new  |-> r.op = "new", name |-> r.name, to |-> r.to,
   obj  |-> IF r.op = "new" THEN NewClient(r)
            ELSE Edited(r, call[w].base, call[w].global)]

-----------------------------------------------------------------------------
(* AdGuard's handlers                                                      *)

\* handleUpdate answers 400 to an unknown name and to a new one that is taken;
\* handleAdd to a name or an id that is taken.
Accepts(p) ==
  IF p.new THEN \A n \in Name : client[n] # None => n # p.name /\ client[n].id # p.obj.id
  ELSE client[p.name] # None /\ (p.to # p.name => client[p.to] = None)

Stored(p) == [client EXCEPT ![p.name] = None, ![p.to] = p.obj]

-----------------------------------------------------------------------------
Init ==
  /\ client \in [Name -> Object \cup {None}]
  /\ \A m, n \in Name : client[m] # None /\ client[m] = client[n] => m = n
  /\ \A m, n \in Name : client[m] # None /\ client[n] # None /\ m # n
                          => client[m].id # client[n].id
  /\ globalList \in SUBSET Service /\ late = {}
  /\ rmw = Nobody /\ call = [w \in Caller |-> NoCall]
  /\ mig = [t \in Tab |-> NewMig] /\ calls = 0 /\ events = 0
  /\ kept = [t \in Tab |-> {}] /\ raced = {}

At(w, where) == call[w].pc = where
Answer(w, how) == call' = [call EXCEPT ![w] = [NoCall EXCEPT !.pc = how]]
Forget(P) == kept' = [t \in Tab |-> kept[t] \ P]
InHand == {call[w].req.name : w \in {v \in Caller : call[v].pc \in {"global", "post"}}}
Race(N) == raced' = raced \cup (N \cap InHand)
EndRace(w) == raced' = raced \ {call[w].req.name}
Event == events < MaxEvents /\ events' = events + 1

\* The calls of the engine, one at a time.
Call(r) ==
  /\ call[Engine].pc \in {"idle", "ok", "error"} /\ calls < MaxCalls /\ calls' = calls + 1
  /\ call' = [call EXCEPT ![Engine] = [NoCall EXCEPT !.pc = "wait", !.req = r]]
  /\ UNCHANGED <<client, globalList, late, rmw, mig, events, raced, kept>>

\* What the read turns down: an unknown name, or one or an id already taken.
Refuses(r) ==
  CASE r.op = "new"    -> \E n \in Name : client[n] # None /\ (n = r.name \/ client[n].id = r.id)
    [] r.op = "rename" -> client[r.to] # None \/ client[r.name] = None
    [] OTHER           -> client[r.name] = None

\* Mutant: the object is read before the mutex is taken.
ReadUnlocked(w) ==
  LET r == call[w].req
      o == client[r.name]
  IN
  /\ At(w, "wait")
  /\ \/ Answer(w, "error") /\ UNCHANGED rmw
     \/ /\ ~Refuses(r) /\ Skips(r, o) /\ Answer(w, "ok") /\ UNCHANGED rmw
     \/ /\ ~Refuses(r) /\ ~Skips(r, o) /\ rmw' = w
        /\ call' = [call EXCEPT ![w].pc = IF ReadsGlobal(r, o) THEN "global" ELSE "post",
                                ![w].base = o]
  /\ UNCHANGED <<client, globalList, late, mig, calls, events, raced, kept>>

\* Take rmw, GET the clients, run the mutate closure.  A failed read, an
\* unknown name and a name or id that is taken are errors, nothing posted.
Read(w) ==
  LET r == call[w].req
      o == client[r.name]
  IN
  /\ At(w, "wait") /\ rmw = Nobody
  /\ \/ Answer(w, "error") /\ UNCHANGED rmw
     \/ /\ ~Refuses(r) /\ Skips(r, o) /\ Answer(w, "ok") /\ UNCHANGED rmw
     \/ /\ ~Refuses(r) /\ ~Skips(r, o) /\ rmw' = w
        /\ call' = [call EXCEPT ![w].pc = IF ReadsGlobal(r, o) THEN "global" ELSE "post",
                                ![w].base = o]
  /\ UNCHANGED <<client, globalList, late, mig, calls, events, raced, kept>>

\* Mutant: the global list is fetched with a call that takes rmw itself.
ReadGlobalLocks(w) ==
  /\ At(w, "global") /\ rmw = Nobody
  /\ call' = [call EXCEPT ![w].pc = "post", ![w].global = globalList]
  /\ UNCHANGED <<client, globalList, late, rmw, mig, calls, events, raced, kept>>

\* AdoptBlockedServices GETs the global list inside the closure, rmw held.
ReadGlobal(w) ==
  /\ At(w, "global")
  /\ \/ /\ call' = [call EXCEPT ![w].pc = "post", ![w].global = globalList]
        /\ UNCHANGED <<rmw, raced>>
     \/ Answer(w, "error") /\ rmw' = Nobody /\ EndRace(w)
  /\ UNCHANGED <<client, globalList, late, mig, calls, events, kept>>

\* What a call takes back from what a migration saw blocked.
Lifts(r) ==
  CASE r.op = "remove"             -> {r.name} \X r.ids
    [] r.op = "migrate"            -> {r.name} \X (Service \ r.ids)
    [] r.op \in {"rename", "new"}  -> {r.name, r.to} \X Service
    [] OTHER                       -> {}

\* POST: applied and answered; refused, or failed before AdGuard had it;
\* applied with the answer lost; or given up while AdGuard still has it.
Write(w) ==
  LET p == Body(w) IN
  /\ At(w, "post") /\ rmw' = Nobody /\ EndRace(w)
  /\ \/ /\ Accepts(p) /\ client' = Stored(p) /\ Forget(Lifts(call[w].req))
        /\ Answer(w, "ok") \/ Answer(w, "error")
        /\ UNCHANGED <<late, events>>
     \/ Answer(w, "error") /\ UNCHANGED <<client, late, events, kept>>
     \/ /\ Answer(w, "error") /\ Event /\ late' = late \cup {p}
        /\ UNCHANGED <<client, kept>>
  /\ UNCHANGED <<globalList, mig, calls>>

\* A POST that had timed out is applied after all.
WriteLate(p) ==
  /\ p \in late /\ late' = late \ {p} /\ Accepts(p) /\ Event
  /\ client' = Stored(p) /\ Forget({p.name, p.to} \X Service)
  /\ Race({p.name, p.to})
  /\ UNCHANGED <<globalList, rmw, call, mig, calls>>

-----------------------------------------------------------------------------
(* POST /api/v1/migration                                                  *)

MigGoto(t, where) == mig' = [mig EXCEPT ![t] = [NewMig EXCEPT !.pc = where]]

\* computeOffer reads the children's clients from the store and GETs the
\* clients ...
MigrationRead(t, mapped) ==
  /\ mig[t].pc = "new"
  /\ \/ mig' = [mig EXCEPT ![t].pc = "global",
                           ![t].seen = [n \in Name |-> IF n \in mapped THEN client[n]
                                                                       ELSE None]]
     \/ MigGoto(t, "failed")
  /\ UNCHANGED <<client, globalList, late, rmw, call, calls, events, raced, kept>>

\* ... and then GETs the global list: two requests, not one reading.
MigrationOffer(t) ==
  LET seen    == mig[t].seen
      present == {n \in Name : seen[n] # None}
      adg     == [present |-> present, global |-> globalList,
                  inherits |-> {n \in present : seen[n].inherits},
                  own |-> [n \in present |-> seen[n].blocked]]
      steps   == Offer(adg, present)
  IN
  /\ mig[t].pc = "global"
  /\ \/ /\ mig' = [mig EXCEPT ![t] = [NewMig EXCEPT !.pc = "apply", !.steps = steps]]
        /\ kept' = [kept EXCEPT ![t] = {st.client : st \in steps} \X globalList]
     \/ MigGoto(t, "failed") /\ UNCHANGED kept
  /\ UNCHANGED <<client, globalList, late, rmw, call, calls, events, raced>>

\* MigrateFromGlobal for the next client of the offer.
MigrationCall(t, st) ==
  /\ mig[t].pc = "apply" /\ st \in mig[t].steps /\ At(t, "idle")
  /\ mig' = [mig EXCEPT ![t].steps = @ \ {st}]
  /\ call' = [call EXCEPT ![t] = [NoCall EXCEPT !.pc = "wait",
                !.req = [For("migrate", st.client) EXCEPT !.ids = st.target]]]
  /\ UNCHANGED <<client, globalList, late, rmw, calls, events, raced, kept>>

\* Mutant: a client that could not be migrated is passed over.
MigrationAnswerPasses(t) ==
  /\ call[t].pc \in {"ok", "error"} /\ call' = [call EXCEPT ![t] = NoCall]
  /\ UNCHANGED <<client, globalList, late, rmw, mig, calls, events, raced, kept>>

\* The first failure ends the request.
MigrationAnswer(t) ==
  /\ call[t].pc \in {"ok", "error"} /\ call' = [call EXCEPT ![t] = NoCall]
  /\ IF At(t, "ok") THEN UNCHANGED mig ELSE MigGoto(t, "failed")
  /\ UNCHANGED <<client, globalList, late, rmw, calls, events, raced, kept>>

MigrationDone(t) ==
  /\ mig[t].pc = "apply" /\ mig[t].steps = {} /\ At(t, "idle") /\ MigGoto(t, "done")
  /\ UNCHANGED <<client, globalList, late, rmw, call, calls, events, raced, kept>>

-----------------------------------------------------------------------------
(* AdGuard's own UI                                                        *)

\* An edit of a client's object, a client removed, or one added.
UIClient(n, o) ==
  /\ client[n] # o /\ Event /\ client' = [client EXCEPT ![n] = o]
  /\ o # None => \A m \in Name \ {n} : client[m] # None => client[m].id # o.id
  /\ Forget({n} \X Service) /\ Race({n})
  /\ UNCHANGED <<globalList, late, rmw, call, mig, calls>>

UIGlobal(G) ==
  /\ globalList # G /\ Event /\ globalList' = G
  /\ Forget(Name \X (globalList \ G))
  /\ Race({call[w].req.name : w \in {v \in Caller : At(v, "post") /\ call[v].req.op = "adopt"}})
  /\ UNCHANGED <<client, late, rmw, call, mig, calls>>

-----------------------------------------------------------------------------
\* What the engine asks for: grants and their ends, adoption, a renamed device,
\* a new one.
Requests ==
  {r \in Request :
     /\ r.op \in Op
     /\ r.op = "rename" <=> r.to # r.name
     /\ IF r.op = "new" THEN r.id \in Id ELSE r.id = Nobody
     /\ r.op \in {"remove", "add"} => r.ids # {}
     /\ r.op = "rename" => r.ids = {}
     /\ r.inherits => r.op = "new" /\ r.ids = {}}

Migration(t) ==
  \/ \E M \in SUBSET Name : MigrationRead(t, M)
  \/ MigrationOffer(t) \/ MigrationAnswer(t) \/ MigrationDone(t)
  \/ \E st \in mig[t].steps : MigrationCall(t, st)

Next ==
  \/ \E r \in Requests : Call(r)
  \/ \E w \in Caller : Read(w) \/ ReadGlobal(w) \/ Write(w)
  \/ \E t \in Tab : Migration(t)
  \/ \E p \in late : WriteLate(p)
  \/ \E n \in Name, o \in Object \cup {None} : UIClient(n, o)
  \/ \E G \in SUBSET Service : UIGlobal(G)

Spec == Init /\ [][Next]_vars

-----------------------------------------------------------------------------
(* Properties                                                              *)

Promise == INSTANCE BlockLists WITH
  request <- [w \in Caller |-> call[w].req],
  status  <- [w \in Caller |-> IF call[w].pc \in {"wait", "global", "post"} THEN "asked"
                               ELSE call[w].pc]

\* Every call is one step on the client as AdGuard has it: two writers never
\* lose each other's edit, nothing but what was asked for changes, "ok" means
\* done.  Only a change made by others to the very client between a call's GET
\* and its POST voids this, and only for that client (updateClient: "every
\* other field goes back exactly as read").
CallsAreAtomic == Promise!Spec

\* When a migration has answered that it is done, every client it offered has a
\* list of its own that holds all it blocked when the offer was made, unless a
\* grant, a parent, another migration's offer or a write that came late has
\* lifted it since: no engine call beside it puts a client back on the global
\* list or drops a block (handleMigrationApply; locked: global_list_clients).
MigrationHolds ==
  \A t \in Tab : mig[t].pc = "done" =>
    \A p \in kept[t] : /\ client[p[1]] # None /\ ~client[p[1]].inherits
                       /\ p[2] \in client[p[1]].blocked

\* Whenever calls are under way one of them can go on: rmw is given back on
\* every path, and nothing that is done with rmw held waits for it
\* (updateClient, AdoptBlockedServices).
CallsNeverStick ==
  (\E w \in Caller : call[w].pc \in {"wait", "global", "post"})
    => \E w \in Caller : ENABLED (Read(w) \/ ReadGlobal(w) \/ Write(w))
=============================================================================
