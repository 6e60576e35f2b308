------------------------------ MODULE Sessions ------------------------------
(***************************************************************************)
(* Session authentication and revocation (internal/auth, the session       *)
(* handlers of internal/api and internal/store/sessions.go).  Every store  *)
(* call is one SQL statement and one step; concurrent requests, the        *)
(* sweeper and the clock fall between any two of them.                     *)
(*                                                                         *)
(* A session is known by its token (the cookie) and by its row id.  Tokens *)
(* are never issued twice; ids are: the sessions table has INTEGER PRIMARY *)
(* KEY without AUTOINCREMENT, so an insert takes the largest id in use     *)
(* plus one.                                                               *)
(***************************************************************************)
EXTENDS Naturals, FiniteSets

CONSTANTS
  User, Request,
  Lifetime,
  MaxTokens,    \* bound: sessions ever issued
  MaxTime       \* bound: the clock's horizon

ASSUME BoundsAssumption ==
  /\ Lifetime \in Nat \ {0} /\ MaxTokens \in Nat \ {0} /\ MaxTime \in Nat
ASSUME UserAssumption == User # {}

Token == 1..MaxTokens
Id    == 1..MaxTokens

NoRow   == [token |-> 0, user |-> CHOOSE u \in User : TRUE, expires |-> 0]
Session == [token : Token \cup {0}, user : User, expires : 0..(MaxTime + Lifetime)]
NoCall  == [id |-> 1, session |-> NoRow, at |-> 0]

VARIABLES
  rows,      \* the sessions table: [Id -> Session], NoRow where there is none
  issued,    \* tokens handed out so far
  pc,        \* where each request is
  call,      \* its copy of the row, and the clock reading it goes by
  now

vars == <<rows, issued, pc, call, now>>

TypeOK ==
  /\ rows \in [Id -> Session]
  /\ \A i, j \in Id : rows[i].token = rows[j].token /\ rows[i] # NoRow => i = j
  /\ issued \in 0..MaxTokens
  /\ pc \in [Request -> {"idle", "found", "expired", "live", "serving"}]
  /\ call \in [Request -> [id : Id, session : Session, at : 0..MaxTime]]
  /\ now \in 0..MaxTime

Ids    == {i \in Id : rows[i] # NoRow}
Tokens == {rows[i].token : i \in Ids}

Init ==
  /\ rows = [i \in Id |-> NoRow] /\ issued = 0
  /\ pc = [r \in Request |-> "idle"] /\ call = [r \in Request |-> NoCall]
  /\ now = 0

-----------------------------------------------------------------------------
(* The store                                                               *)

\* SQLite's next rowid.
NextId == CHOOSE n \in 1..(MaxTokens + 1) :
            /\ \A i \in Ids : i < n
            /\ n = 1 \/ n - 1 \in Ids

Deleted(I) == rows' = [i \in Id |-> IF i \in I THEN NoRow ELSE rows[i]]

\* Mutant of Touched: an upsert, which writes the row back if it has gone.
TouchedUpsert(id, session, expires) ==
  rows' = [rows EXCEPT ![id] = [session EXCEPT !.expires = expires]]

\* UPDATE ... WHERE id = ?: nothing happens if the row has gone.
Touched(id, session, expires) ==
  rows' = IF id \in Ids THEN [rows EXCEPT ![id].expires = expires] ELSE rows

-----------------------------------------------------------------------------
(* Issue, Authenticate, RequireSession                                     *)

\* Mutant: the token generator repeats itself.
IssueRepeats(u) ==
  /\ issued < MaxTokens
  /\ issued' = issued + 1
  /\ rows' = [rows EXCEPT ![NextId] =
                [token |-> 1, user |-> u, expires |-> now + Lifetime]]
  /\ UNCHANGED <<pc, call, now>>

\* A fresh token, a row of its own.
Issue(u) ==
  /\ issued < MaxTokens
  /\ issued' = issued + 1
  /\ rows' = [rows EXCEPT ![NextId] =
                [token |-> issued', user |-> u, expires |-> now + Lifetime]]
  /\ UNCHANGED <<pc, call, now>>

\* ByTokenHash; a token without a row is a 401 and the request is over.
Lookup(r, i) ==
  /\ pc[r] = "idle" /\ i \in Ids
  /\ pc' = [pc EXCEPT ![r] = "found"]
  /\ call' = [call EXCEPT ![r] = [id |-> i, session |-> rows[i], at |-> now]]
  /\ UNCHANGED <<rows, issued, now>>

ReadClock(r) ==
  /\ pc[r] = "found"
  /\ pc' = [pc EXCEPT ![r] = IF call[r].session.expires <= now THEN "expired" ELSE "live"]
  /\ call' = [call EXCEPT ![r].at = now]
  /\ UNCHANGED <<rows, issued, now>>

\* Back to idle, its copy forgotten.
Over(r) == pc' = [pc EXCEPT ![r] = "idle"] /\ call' = [call EXCEPT ![r] = NoCall]

Evict(r) ==
  /\ pc[r] = "expired" /\ Deleted({call[r].id}) /\ Over(r)
  /\ UNCHANGED <<issued, now>>

Touch(r) ==
  /\ pc[r] = "live"
  /\ Touched(call[r].id, call[r].session, call[r].at + Lifetime)
  /\ pc' = [pc EXCEPT ![r] = "serving"]
  /\ UNCHANGED <<issued, call, now>>

\* The store fails or the client is gone, or the handler is one that leaves
\* sessions alone: nothing is written.
Abort(r) ==
  /\ pc[r] # "idle" /\ Over(r)
  /\ UNCHANGED <<rows, issued, now>>

-----------------------------------------------------------------------------
(* The handlers behind RequireSession, and the sweeper                     *)

Logout(r) ==
  /\ pc[r] = "serving" /\ Deleted({call[r].id}) /\ Over(r)
  /\ UNCHANGED <<issued, now>>

\* DELETE /sessions/{id}: only an id of the caller's own.
SessionDelete(r, i) ==
  /\ pc[r] = "serving"
  /\ Deleted({j \in Ids : j = i /\ rows[j].user = call[r].session.user}) /\ Over(r)
  /\ UNCHANGED <<issued, now>>

Others(r) ==
  {j \in Ids : rows[j].user = call[r].session.user /\ j # call[r].id}

SessionsRevokeAll(r) ==
  /\ pc[r] = "serving" /\ Deleted(Others(r)) /\ Over(r)
  /\ UNCHANGED <<issued, now>>

\* Mutant: the comparison is the wrong way round.
SweepInverted ==
  /\ \E i \in Ids : rows[i].expires > now
  /\ Deleted({i \in Ids : rows[i].expires > now})
  /\ UNCHANGED <<issued, pc, call, now>>

\* RunSweeper's tick: DeleteExpired.
Sweep ==
  /\ \E i \in Ids : rows[i].expires <= now
  /\ Deleted({i \in Ids : rows[i].expires <= now})
  /\ UNCHANGED <<issued, pc, call, now>>

Tick == now < MaxTime /\ now' = now + 1 /\ UNCHANGED <<rows, issued, pc, call>>

-----------------------------------------------------------------------------
Serve(r) ==
  \/ \E i \in Id : Lookup(r, i) \/ SessionDelete(r, i)
  \/ ReadClock(r) \/ Evict(r) \/ Touch(r) \/ Abort(r)
  \/ Logout(r) \/ SessionsRevokeAll(r)

Next ==
  \/ \E u \in User : Issue(u)
  \/ \E r \in Request : Serve(r)
  \/ Sweep \/ Tick

Spec == Init /\ [][Next]_vars

\* The sweeper's ticker keeps ticking.
FairSpec == Spec /\ WF_vars(Sweep)

-----------------------------------------------------------------------------
(* Properties                                                              *)

\* A session that was logged out, revoked, swept or evicted stays gone: no
\* request that had looked it up before brings its token back, however its
\* sliding refresh and the deletion interleave (Touch against Delete*).
RevokedStaysRevoked ==
  [][\A t \in 1..issued : t \notin Tokens => t \notin Tokens']_vars

\* An expired session does not stay in the table: it is swept, evicted, or a
\* request that saw it alive refreshes it (RunSweeper, Authenticate).
ExpiredRowGoes ==
  \A t \in Token :
    (\E i \in Ids : rows[i].token = t /\ rows[i].expires <= now)
      ~> ~(\E i \in Ids : rows[i].token = t /\ rows[i].expires <= now)

\* ARCHITECTURE.md:338 "revoke-all revokes every session but the caller's":
\* when the statement has run, the only session of this user is the one whose
\* cookie the request came with (handleSessionsRevokeAll, DeleteOthers).
RevokeAllLeavesOnlyCaller ==
  [][\A r \in Request :
       SessionsRevokeAll(r) =>
         \A i \in Id : rows'[i] # NoRow /\ rows'[i].user = call[r].session.user
                       => rows'[i].token = call[r].session.token]_vars
=============================================================================
