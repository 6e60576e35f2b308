--------------------------- MODULE SessionsProofs ---------------------------
(***************************************************************************)
(* Proofs about Sessions, for any users, requests, lifetime and horizon.   *)
(***************************************************************************)
EXTENDS Sessions, TLAPS

\* A row in the table carries a token that has been handed out.
TokensIssued == \A i \in Id : rows[i] # NoRow => rows[i].token \in 1..issued

IInv == TypeOK /\ TokensIssued

\* The places where there is no row, and where there is no call, have the types
\* of rows and calls.
LEMMA NoRowType == NoRow \in Session /\ NoRow.token = 0
  BY BoundsAssumption, UserAssumption DEF NoRow, Session

LEMMA NoCallType == NoCall \in [id : Id, session : Session, at : 0..MaxTime]
  BY NoRowType, BoundsAssumption DEF NoCall, Id

LEMMA InitInv == Init => IInv
  <1> SUFFICES ASSUME Init PROVE IInv
    OBVIOUS
  <1>1. rows \in [Id -> Session] /\ \A i \in Id : rows[i] = NoRow
    BY NoRowType DEF Init
  <1>2. call \in [Request -> [id : Id, session : Session, at : 0..MaxTime]]
    BY NoCallType DEF Init
  <1> QED
    BY <1>1, <1>2, BoundsAssumption DEF Init, IInv, TypeOK, TokensIssued

-----------------------------------------------------------------------------
(* The statements on the table keep the invariant's part about it          *)

RowsOK ==
  /\ rows \in [Id -> Session]
  /\ \A i, j \in Id : rows[i].token = rows[j].token /\ rows[i] # NoRow => i = j
  /\ issued \in 0..MaxTokens
  /\ TokensIssued

\* DELETE of any set of rows.
LEMMA DeletedOK ==
  ASSUME RowsOK, NEW I, Deleted(I), issued' = issued
  PROVE  RowsOK'
  <1>1. rows' \in [Id -> Session]
    BY NoRowType DEF Deleted, RowsOK
  <1>2. \A i \in Id : rows'[i] # NoRow => rows'[i] = rows[i]
    BY DEF Deleted
  <1>3. \A i \in Id : rows'[i] = NoRow \/ rows'[i] = rows[i]
    BY DEF Deleted
  <1>4. TokensIssued'
    BY <1>2 DEF RowsOK, TokensIssued
  <1>5. ASSUME NEW i \in Id, NEW j \in Id,
               rows'[i].token = rows'[j].token, rows'[i] # NoRow
        PROVE  i = j
    <2>1. rows'[i].token # 0
      BY <1>4, <1>5 DEF RowsOK, TokensIssued
    <2>2. rows'[j] # NoRow
      BY <2>1, <1>5, NoRowType
    <2> QED
      BY <2>2, <1>2, <1>5 DEF RowsOK
  <1> QED
    BY <1>1, <1>4, <1>5 DEF RowsOK

\* INSERT of a row with a fresh token.
LEMMA InsertOK ==
  ASSUME RowsOK, NEW n, NEW row \in Session, issued < MaxTokens,
         issued' = issued + 1, row.token = issued + 1,
         rows' = [rows EXCEPT ![n] = row]
  PROVE  RowsOK'
  <1>1. rows' \in [Id -> Session]
    BY DEF RowsOK
  <1>2. \A i \in Id : rows'[i] = rows[i] \/ (i = n /\ rows'[i] = row)
    BY DEF RowsOK
  <1>3. issued' \in 0..MaxTokens
    BY BoundsAssumption DEF RowsOK
  <1>4. TokensIssued'
    BY <1>2 DEF RowsOK, TokensIssued
  <1>5. \A i \in Id : rows[i].token \in 0..issued
    BY NoRowType DEF RowsOK, TokensIssued
  <1>6. ASSUME NEW i \in Id, NEW j \in Id,
               rows'[i].token = rows'[j].token, rows'[i] # NoRow
        PROVE  i = j
    BY <1>2, <1>5, <1>6 DEF RowsOK
  <1> QED
    BY <1>1, <1>3, <1>4, <1>6 DEF RowsOK

\* UPDATE of a row's expiry.
LEMMA TouchedOK ==
  ASSUME RowsOK, NEW i \in Id, NEW s, NEW e \in 0..(MaxTime + Lifetime),
         Touched(i, s, e), issued' = issued
  PROVE  RowsOK' /\ \A j \in Id : rows'[j].token = rows[j].token
                              /\ (rows'[j] # NoRow => rows[j] # NoRow)
  <1>1. CASE i \notin Ids
    BY <1>1 DEF Touched, RowsOK, TokensIssued
  <1>2. CASE i \in Ids
    <2>1. rows' = [rows EXCEPT ![i].expires = e]
      BY <1>2 DEF Touched
    <2>2. rows' \in [Id -> Session] /\ \A j \in Id : rows'[j].token = rows[j].token
      BY <2>1 DEF RowsOK, Session
    <2>3. \A j \in Id : rows'[j] # NoRow => rows[j] # NoRow
      BY <1>2, <2>1 DEF Ids, RowsOK
    <2> QED
      BY <2>2, <2>3 DEF RowsOK, TokensIssued
  <1> QED
    BY <1>1, <1>2

-----------------------------------------------------------------------------
LEMMA StepInv == IInv /\ [Next]_vars => IInv'
  <1> SUFFICES ASSUME IInv, [Next]_vars PROVE IInv'
    OBVIOUS
  <1> DEFINE Call == [id : Id, session : Session, at : 0..MaxTime]
             CallsOK == /\ pc \in [Request -> {"idle", "found", "expired", "live", "serving"}]
                        /\ call \in [Request -> Call]
                        /\ now \in 0..MaxTime
  <1>0. RowsOK /\ CallsOK
    BY DEF IInv, TypeOK, RowsOK
  <1>a. RowsOK' /\ CallsOK' => IInv'
    BY DEF IInv, TypeOK, RowsOK
  <1>b. ASSUME UNCHANGED <<rows, issued>> PROVE RowsOK'
    BY <1>0, <1>b DEF RowsOK, TokensIssued
  <1>c. ASSUME NEW r \in Request, Over(r), UNCHANGED now PROVE CallsOK'
    BY <1>0, <1>c, NoCallType DEF Over
  <1>1. ASSUME NEW u \in User, Issue(u) PROVE IInv'
    <2> DEFINE row == [token |-> issued', user |-> u, expires |-> now + Lifetime]
    <2>1. row \in Session /\ row.token = issued + 1
      BY <1>0, <1>1, BoundsAssumption DEF Issue, Session, Token, RowsOK
    <2>2. RowsOK'
      <3>1. issued < MaxTokens /\ issued' = issued + 1 /\ rows' = [rows EXCEPT ![NextId] = row]
        BY <1>1 DEF Issue
      <3> HIDE DEF row
      <3> QED
        BY <1>0, <2>1, <3>1, InsertOK
    <2>3. CallsOK'
      BY <1>0, <1>1 DEF Issue
    <2> QED
      BY <1>a, <2>2, <2>3
  <1>2. ASSUME NEW r \in Request, NEW i \in Id, Lookup(r, i) PROVE IInv'
    <2>1. [id |-> i, session |-> rows[i], at |-> now] \in Call
      BY <1>0 DEF RowsOK
    <2>2. CallsOK'
      BY <1>0, <1>2, <2>1 DEF Lookup
    <2> QED
      BY <1>a, <1>b, <1>2, <2>2 DEF Lookup
  <1>3. ASSUME NEW r \in Request, ReadClock(r) PROVE IInv'
    <2>1. CallsOK'
      BY <1>0, <1>3 DEF ReadClock
    <2> QED
      BY <1>a, <1>b, <1>3, <2>1 DEF ReadClock
  <1>4. ASSUME NEW r \in Request, Evict(r) PROVE IInv'
    BY <1>0, <1>a, <1>c, <1>4, DeletedOK DEF Evict
  <1>5. ASSUME NEW r \in Request, Touch(r) PROVE IInv'
    <2>1. /\ call[r].id \in Id
          /\ call[r].at + Lifetime \in 0..(MaxTime + Lifetime)
      BY <1>0, BoundsAssumption
    <2>2. RowsOK'
      BY <1>0, <1>5, <2>1, TouchedOK DEF Touch
    <2>3. CallsOK'
      BY <1>0, <1>5 DEF Touch
    <2> QED
      BY <1>a, <2>2, <2>3
  <1>6. ASSUME NEW r \in Request, Abort(r) PROVE IInv'
    BY <1>a, <1>b, <1>c, <1>6 DEF Abort
  <1>7. ASSUME NEW r \in Request, Logout(r) PROVE IInv'
    BY <1>0, <1>a, <1>c, <1>7, DeletedOK DEF Logout
  <1>8. ASSUME NEW r \in Request, NEW i \in Id, SessionDelete(r, i) PROVE IInv'
    BY <1>0, <1>a, <1>c, <1>8, DeletedOK DEF SessionDelete
  <1>9. ASSUME NEW r \in Request, SessionsRevokeAll(r) PROVE IInv'
    BY <1>0, <1>a, <1>c, <1>9, DeletedOK DEF SessionsRevokeAll
  <1>10. ASSUME Sweep PROVE IInv'
    <2>1. RowsOK'
      BY <1>0, <1>10, DeletedOK DEF Sweep
    <2> QED
      BY <1>0, <1>a, <1>10, <2>1 DEF Sweep
  <1>11. ASSUME Tick PROVE IInv'
    <2>1. CallsOK'
      BY <1>0, <1>11, BoundsAssumption DEF Tick
    <2> QED
      BY <1>a, <1>b, <1>11, <2>1 DEF Tick
  <1>12. ASSUME UNCHANGED vars PROVE IInv'
    BY <1>12 DEF vars, IInv, TypeOK, TokensIssued
  <1> QED
    BY <1>1, <1>2, <1>3, <1>4, <1>5, <1>6, <1>7, <1>8, <1>9, <1>10, <1>11, <1>12
    DEF Next, Serve

\* The table, the requests' copies of its rows and the clock keep their types,
\* and no two rows ever share a token (Issue, Touch, Delete*).
THEOREM SessionTypes == Spec => []TypeOK
  <1>1. IInv => TypeOK
    BY DEF IInv
  <1> QED
    BY InitInv, StepInv, <1>1, PTL DEF Spec

-----------------------------------------------------------------------------
\* Rows that go, or keep their tokens, bring no token back.
LEMMA NoTokenBack ==
  ASSUME \A i \in Id : rows'[i] # NoRow => rows[i] # NoRow /\ rows'[i].token = rows[i].token
  PROVE  \A t : t \notin Tokens => t \notin Tokens'
  BY DEF Tokens, Ids

LEMMA DeletedBringsNone ==
  ASSUME NEW I, Deleted(I)
  PROVE  \A t : t \notin Tokens => t \notin Tokens'
  <1>1. \A i \in Id : rows'[i] # NoRow => rows[i] # NoRow /\ rows'[i].token = rows[i].token
    BY DEF Deleted
  <1> QED
    BY <1>1, NoTokenBack

\* A session that was logged out, revoked, swept or evicted stays gone, for any
\* number of concurrent requests and sessions (Touch against Delete*).
THEOREM RevocationIsFinal == Spec => RevokedStaysRevoked
  <1> DEFINE Gone == \A t \in 1..issued : t \notin Tokens => t \notin Tokens'
  <1>1. ASSUME IInv, [Next]_vars PROVE [Gone]_vars
    <2>0. RowsOK
      BY <1>1 DEF IInv, TypeOK, RowsOK
    <2>a. ASSUME UNCHANGED rows PROVE Gone
      BY <2>a DEF Tokens, Ids
    <2>1. ASSUME NEW u \in User, Issue(u) PROVE Gone
      <3>1. \A i \in Id : rows'[i] = rows[i] \/ rows'[i].token = issued + 1
        BY <2>0, <2>1 DEF Issue, RowsOK
      <3> QED
        BY <2>0, <3>1 DEF Tokens, Ids, RowsOK
    <2>2. ASSUME NEW r \in Request, Touch(r) PROVE Gone
      <3>1. /\ call[r].id \in Id
            /\ call[r].at + Lifetime \in 0..(MaxTime + Lifetime)
        BY <1>1, BoundsAssumption DEF IInv, TypeOK
      <3>2. \A j \in Id : rows'[j].token = rows[j].token /\ (rows'[j] # NoRow => rows[j] # NoRow)
        BY <2>0, <2>2, <3>1, TouchedOK DEF Touch
      <3> QED
        BY <3>2, NoTokenBack
    <2>3. ASSUME NEW r \in Request, Serve(r), ~Touch(r) PROVE Gone
      <3>1. ASSUME NEW i \in Id, Lookup(r, i) \/ SessionDelete(r, i) PROVE Gone
        BY <2>a, <3>1, DeletedBringsNone DEF Lookup, SessionDelete
      <3>2. CASE ReadClock(r) \/ Abort(r)
        BY <2>a, <3>2 DEF ReadClock, Abort
      <3>3. CASE Evict(r) \/ Logout(r) \/ SessionsRevokeAll(r)
        BY <3>3, DeletedBringsNone DEF Evict, Logout, SessionsRevokeAll
      <3> QED
        BY <2>3, <3>1, <3>2, <3>3 DEF Serve
    <2>4. ASSUME Sweep PROVE Gone
      BY <2>4, DeletedBringsNone DEF Sweep
    <2>5. ASSUME Tick PROVE Gone
      BY <2>a, <2>5 DEF Tick
    <2> QED
      BY <1>1, <2>1, <2>2, <2>3, <2>4, <2>5 DEF Next
  <1> QED
    BY InitInv, StepInv, <1>1, PTL DEF Spec, RevokedStaysRevoked
=============================================================================
