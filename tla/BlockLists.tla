----------------------------- MODULE BlockLists -----------------------------
(***************************************************************************)
(* What the block-list client promises its callers: every call takes       *)
(* effect in one step, on the client as AdGuard has it at that moment,     *)
(* touching nothing but what was asked; an answer "ok" means it did, an    *)
(* error leaves it open.  AdGuard has no compare-and-set, so the promise   *)
(* is void for a client that somebody else changed under the call, and for *)
(* that client only.                                                       *)
(***************************************************************************)
EXTENDS Naturals

CONSTANTS Name, Caller, None

VARIABLES
  client,      \* [Name -> the client's object in AdGuard, or None]
  globalList,
  status,      \* [Caller -> "idle", "asked", "ok" or "error"]
  request,     \* [Caller -> what it asked for]
  raced,       \* clients that were changed under a call (an input)
  events       \* counts what is done by others: parents, delayed writes

\* raced is read and never promised anything about.
vars == <<client, globalList, status, request, events>>

Becomes(w, s) == status' = [status EXCEPT ![w] = s]

OthersWait(w) == \A v \in Caller \ {w} : request'[v] = request[v]

\* What the client is to block, and whether it still inherits, after request r.
Wanted(r, o) ==
  CASE r.op = "remove"  -> [o EXCEPT !.blocked = @ \ r.ids]
    [] r.op = "add"     -> [o EXCEPT !.blocked = @ \cup r.ids]
    [] r.op = "migrate" -> [o EXCEPT !.blocked = r.ids, !.inherits = FALSE]
    [] r.op = "adopt"   -> [o EXCEPT !.blocked = r.ids \cup
                              (IF o.inherits THEN globalList ELSE o.blocked),
                                     !.inherits = FALSE]
    [] r.op = "rename"  -> o
    [] r.op = "new"     -> [id |-> r.id, blocked |-> r.ids, inherits |-> r.inherits]

\* The whole effect of r: it is there or, for a new name, it is not yet.
Takes(r) ==
  /\ r.op # "new" => client[r.name] # None
  /\ r.op = "rename" => client[r.to] = None
  /\ r.op = "new" => \A n \in Name : client[n] # None => n # r.name /\ client[n].id # r.id
  /\ client' = [client EXCEPT ![r.name] = None, ![r.to] = Wanted(r, client[r.name])]

Confined(r) == \A n \in Name \ {r.name, r.to} : client'[n] = client[n]

Init ==
  /\ status = [w \in Caller |-> "idle"] /\ events = 0

Ask(w) ==
  /\ status[w] # "asked" /\ Becomes(w, "asked")
  /\ OthersWait(w) /\ UNCHANGED <<client, globalList, events>>

\* The one step of a call.  An error may hide an effect, or leave one to come.
Serve(w) ==
  LET r == request[w]
      voided == r.name \in raced /\ Confined(r)
  IN
  /\ status[w] = "asked" /\ OthersWait(w) /\ UNCHANGED globalList
  /\ \/ Becomes(w, "ok") /\ (Takes(r) \/ voided) /\ UNCHANGED events
     \/ /\ Becomes(w, "error") /\ (Takes(r) \/ voided \/ UNCHANGED client)
        /\ events' \in {events, events + 1}

Leave(w) ==
  /\ status[w] \in {"ok", "error"} /\ Becomes(w, "idle")
  /\ OthersWait(w) /\ UNCHANGED <<client, globalList, events>>

Outside == events' = events + 1 /\ UNCHANGED <<status, request>>

Next == Outside \/ \E w \in Caller : Ask(w) \/ Serve(w) \/ Leave(w)

Spec == Init /\ [][Next]_vars
=============================================================================
