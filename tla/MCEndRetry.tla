----------------------------- MODULE MCEndRetry -----------------------------
(***************************************************************************)
(* Grants with a record of the blocks a parent's End has put back before   *)
(* it failed on another client, to see what the reconciler does with them. *)
(***************************************************************************)
EXTENDS MCGrants

VARIABLES
  back,        \* <<client, service>>: put back by the End under way, no error yet
  restored     \* <<grant, client, service>>: put back by an End that then failed
               \* on another client, still so

\* The End under way writes one of its clients; the first write that reports an
\* error makes failed true.
Writes == kind = "end" /\ pc = "revert" /\ pc' = "revert" /\ plan' # plan

Written == {p \in Client \X Service : p[2] \in plan[p[1]] \ plan'[p[1]]}

FailsHere == Writes /\ ~failed /\ failed'

EndRetryInit == Init /\ back = {} /\ restored = {}

\* An Extend takes the parent's wish back.
EndRetryNext ==
  /\ Next
  /\ back' = IF kind' # "end" THEN {}
             ELSE IF Writes /\ ~failed' THEN back \cup Written ELSE back
  /\ restored' =
       {t \in GrantId \X Client \X Service :
          /\ t[3] \in blocked'[t[2]] /\ endsAt'[t[1]] = endsAt[t[1]]
          /\ t \in restored \/ (FailsHere /\ t[1] = cur /\ <<t[2], t[3]>> \in back)}

EndRetrySpec == EndRetryInit /\ [][EndRetryNext]_<<vars, back, restored>>

\* grants.go:40 "the grant stays active with its timer so the reconciler
\* retries": what an End has re-blocked before it failed on some other client
\* is not opened again by the next reconcile pass.
ReconcilerRetriesEnd ==
  [][\A c \in Client, s \in Service :
       pc = "repair" /\ plan'[c] # plan[c] /\ <<cur, c, s>> \in restored
       => s \in blocked'[c]]_<<vars, back, restored>>
=============================================================================
