------------------------------- MODULE Login -------------------------------
(***************************************************************************)
(* POST /api/v1/login (internal/api/login.go) over the failure budget of   *)
(* module RateLimit.  A request checks the budget, queues for the one      *)
(* in-flight slot, checks again while holding it, asks AdGuard and records *)
(* the outcome before the slot is given back.  Requests interleave and the *)
(* clock moves between any two of these steps.                             *)
(***************************************************************************)
EXTENDS RateLimit, Sequences

CONSTANTS
  Request,      \* requests in flight at once; one that is over may start anew
  NoRequest

ASSUME RequestAssumption == NoRequest \notin Request

VARIABLES
  pc,       \* where each handler is
  from,     \* its client's IP
  slot,     \* who holds loginSlot (a channel of capacity 1)
  bad,      \* history: when each IP has sent a wrong password, in order
  anyBad,   \* history: when anyone has
  sentence  \* history: each IP's last lockout: its length and its end

handler == <<pc, from, slot>>
history == <<bad, anyBad, sentence>>
vars    == <<limiter, now, handler, history>>

TypeOK ==
  /\ LimiterTypeOK
  /\ pc \in [Request -> {"idle", "queued", "slot", "login", "bad"}]
  /\ from \in [Request -> IP]
  /\ slot \in Request \cup {NoRequest}
  /\ \A r \in Request : pc[r] \in {"slot", "login", "bad"} <=> slot = r
  /\ bad \in [IP -> Seq(1..MaxTime)] /\ anyBad \in Seq(1..MaxTime)
  /\ sentence \in [IP -> [length : 0..MaxLockout, end : 0..(MaxTime + MaxLockout)]]

Init ==
  /\ LimiterInit
  /\ pc = [r \in Request |-> "idle"]
  /\ from \in [Request -> {CHOOSE ip \in IP : TRUE}]
  /\ slot = NoRequest
  /\ bad = [ip \in IP |-> <<>>] /\ anyBad = <<>>
  /\ sentence = [ip \in IP |-> [length |-> 0, end |-> 0]]

-----------------------------------------------------------------------------
Goto(r, where) == pc' = [pc EXCEPT ![r] = where]

\* Mutant: the slot is given back only where the handler comes to its end.
ReturnKeepsSlot(r) == Goto(r, "idle") /\ UNCHANGED slot

\* The deferred receive runs on every way out of the handler.
Return(r) == Goto(r, "idle") /\ slot' = NoRequest

\* The first check: a refusal is an immediate 429.
Arrive(r, ip) ==
  /\ pc[r] = "idle"
  /\ from' = [from EXCEPT ![r] = ip]
  /\ Check(ip)
  /\ Goto(r, IF Allowed(ip, now) THEN "queued" ELSE "idle")
  /\ UNCHANGED <<now, slot, history>>

Acquire(r) ==
  /\ pc[r] = "queued" /\ slot = NoRequest
  /\ slot' = r /\ Goto(r, "slot")
  /\ UNCHANGED <<limiter, now, from, history>>

\* The client went away while queued.
GiveUp(r) ==
  /\ pc[r] = "queued" /\ Goto(r, "idle")
  /\ UNCHANGED <<limiter, now, from, slot, history>>

\* Mutant: the second check is left out.
RecheckSkipped(r) ==
  /\ pc[r] = "slot" /\ Goto(r, "login")
  /\ UNCHANGED <<limiter, now, from, slot, history>>

\* The second check, holding the slot.
Recheck(r) ==
  /\ pc[r] = "slot" /\ Check(from[r])
  /\ IF Allowed(from[r], now) THEN Goto(r, "login") /\ UNCHANGED slot
                              ELSE Return(r)
  /\ UNCHANGED <<now, from, history>>

\* AdGuard refuses the password ...
BadCredentials(r) ==
  /\ pc[r] = "login" /\ Goto(r, "bad")
  /\ UNCHANGED <<limiter, now, from, slot, history>>

\* ... or the login is over without touching the budget: AdGuard took it (and
\* a session is issued, or cannot be), or could not be reached.
LoginReturn(r) ==
  /\ pc[r] = "login" /\ Return(r)
  /\ UNCHANGED <<limiter, now, from, history>>

FailReturn(r) ==
  LET ip == from[r] IN
  /\ pc[r] = "bad" /\ Fail(ip) /\ Return(r)
  /\ bad' = [bad EXCEPT ![ip] = Append(@, now)] /\ anyBad' = Append(anyBad, now)
  /\ sentence' = IF ips'[ip].lockedUntil > now
                   THEN [sentence EXCEPT ![ip] =
                           [length |-> ips'[ip].lockedUntil - now,
                            end |-> ips'[ip].lockedUntil]]
                   ELSE sentence
  /\ UNCHANGED <<now, from>>

Clock == Tick /\ UNCHANGED <<limiter, handler, history>>

-----------------------------------------------------------------------------
Step(r) ==
  Acquire(r) \/ Recheck(r) \/ BadCredentials(r) \/ LoginReturn(r) \/ FailReturn(r)

Next ==
  \/ \E r \in Request : Step(r) \/ GiveUp(r) \/ \E ip \in IP : Arrive(r, ip)
  \/ Clock

Spec == Init /\ [][Next]_vars

\* A handler runs on, its AdGuard call is bounded by the HTTP client's timeout,
\* and Go serves the senders blocked on a channel in their order, so a queued
\* request does get the slot.
Fairness ==
  \A r \in Request :
    /\ WF_vars(Recheck(r)) /\ WF_vars(BadCredentials(r) \/ LoginReturn(r))
    /\ WF_vars(FailReturn(r)) /\ SF_vars(Acquire(r))

FairSpec == Spec /\ Fairness

-----------------------------------------------------------------------------
(* Properties                                                              *)

\* AdGuard is never asked on behalf of an IP that is locked out, or of anyone
\* while the global cap is reached, also when a burst of requests passed the
\* first check together (handleLogin's two checks and loginSlot).
NoLoginWhileDenied ==
  \A r \in Request : pc[r] \in {"login", "bad"} => Allowed(from[r], now)

\* Of any n + 1 of these times, the first and the last are Window apart.
Sparse(times, n) ==
  \A i, j \in 1..Len(times) : i + n <= j => times[i] + Window <= times[j]

IPBurst     == Greater(1, 2 * PerIPFailures - 2)
GlobalBurst == 2 * GlobalFailures - 1

\* Whatever the interleaving of requests, lockouts and pruning, no stretch of
\* time as long as Window sees more than 2 * PerIPFailures - 2 wrong passwords
\* from one IP (a window filled up to one short of a lockout, then the next
\* one), nor more than 2 * GlobalFailures - 1 in all (Fail, Check, prune).
FailureRateBounded ==
  (\A ip \in IP : Sparse(bad[ip], IPBurst)) /\ Sparse(anyBad, GlobalBurst)

\* Lockouts escalate exactly as Config says: a trip within EscalationReset of
\* the last lockout's end doubles that lockout up to MaxLockout, any other one
\* starts over, whatever other IPs, checks and pruning did to the entry since.
Escalates ==
  [][\A ip \in IP :
       sentence'[ip] # sentence[ip] =>
         sentence'[ip].length =
           IF sentence[ip].length # 0 /\ now - sentence[ip].end < EscalationReset
             THEN Lesser(2 * sentence[ip].length, MaxLockout)
             ELSE BaseLockout]_vars

\* Every login request is answered: the slot is given back on every way out,
\* so nobody waits for it for ever (the deferred receive in handleLogin).
EveryLoginAnswered ==
  \A r \in Request : pc[r] # "idle" ~> pc[r] = "idle"

\* limiter.go:100 "When it may not, retryAfter is the time until it may": an
\* IP with one reason to be refused, a lockout or the global cap, is let in
\* when it has waited as told (nobody failing meanwhile) and not a tick sooner,
\* whatever normalizing and pruning its entry has been through.  With both
\* reasons at once Check looks at the lockout alone and may say too little.
RetryAfterIsExact ==
  \A ip \in IP :
    ~Allowed(ip, now) /\ ~(Locked(ips[ip], now) /\ GlobalDenied(now)) =>
      LET t == now + RetryAfter(ip, now)
      IN Allowed(ip, t) /\ ~Allowed(ip, t - Second)
=============================================================================
