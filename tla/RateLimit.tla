----------------------------- MODULE RateLimit -----------------------------
(***************************************************************************)
(* The login failure budget (internal/ratelimit/limiter.go): per IP with   *)
(* an escalating lockout, and a flat global cap.  Every method holds       *)
(* Limiter.mu and reads the clock once, so each is one step.               *)
(*                                                                         *)
(* Time is in ticks, from 1; 0 is Go's zero time.  An IP without an entry  *)
(* in Limiter.ips has the Blank one: every entry left there is not blank.  *)
(***************************************************************************)
EXTENDS Integers

CONSTANTS
  IP,
  PerIPFailures, GlobalFailures, Window,
  BaseLockout, MaxLockout, EscalationReset, MaxShift,
  Second,     \* ticks in a second
  MaxTime     \* bound: the clock's horizon

ASSUME IPAssumption == IP # {}

\* The relations between the thresholds that Defaults() satisfies.
ASSUME ThresholdsAssumption ==
  /\ {PerIPFailures, GlobalFailures, Window, BaseLockout, MaxLockout,
      EscalationReset, Second, MaxTime} \subseteq Nat \ {0}
  /\ MaxShift \in Nat
  /\ Window <= BaseLockout /\ BaseLockout <= MaxLockout
  /\ MaxLockout <= BaseLockout * 2^MaxShift

\* A left shift by one more place doubles: arithmetic that TLC evaluates and
\* the provers have no theory of.
ASSUME ShiftAssumption ==
  \A n \in 0..MaxShift : 2^n \in Nat \ {0} /\ 2^(n + 1) = 2 * 2^n

VARIABLES
  ips,                        \* Limiter.ips
  globalStart, globalFails,
  now

limiter == <<ips, globalStart, globalFails>>

Lesser(a, b)  == IF a < b THEN a ELSE b
Greater(a, b) == IF a < b THEN b ELSE a

ZeroTime == 0
Blank == [failures |-> 0, windowStart |-> ZeroTime, trips |-> 0,
          lockedUntil |-> ZeroTime]

LimiterTypeOK ==
  /\ ips \in [IP -> [failures : 0..(PerIPFailures - 1), windowStart : 0..MaxTime,
                     trips : Nat, lockedUntil : 0..(MaxTime + MaxLockout)]]
  /\ globalStart \in 0..MaxTime /\ globalFails \in 0..GlobalFailures
  /\ now \in 1..MaxTime

-----------------------------------------------------------------------------
Locked(st, t) == t < st.lockedUntil

\* A window opened at start counts at t.
Open(start, t) == start # ZeroTime /\ t < start + Window

\* The lockout's length on the n-th trip in a row.
Lockout(n) == Lesser(BaseLockout * 2^Lesser(n - 1, MaxShift), MaxLockout)

\* What the passage of time does to an entry when it is next looked at.
Normalize(st, t) ==
  IF st.lockedUntil = ZeroTime \/ Locked(st, t) THEN st
  ELSE LET stale == st.windowStart < st.lockedUntil
           reset == t - st.lockedUntil >= EscalationReset
       IN [st EXCEPT !.failures = IF stale THEN 0 ELSE @,
                     !.windowStart = IF stale THEN ZeroTime ELSE @,
                     !.trips = IF reset THEN 0 ELSE @]

\* Fail, for the IP's own entry (normalized, not locked): one more failure in
\* its window, a fresh one if none is open; the last allowed one trips it.
Counted(st, t) ==
  LET open == Open(st.windowStart, t)
      n    == (IF open THEN st.failures ELSE 0) + 1
  IN IF n >= PerIPFailures
       THEN [failures |-> 0, windowStart |-> ZeroTime, trips |-> st.trips + 1,
             lockedUntil |-> t + Lockout(st.trips + 1)]
       ELSE [st EXCEPT !.failures = n, !.windowStart = IF open THEN @ ELSE t]

\* Mutants of WorthKeeping: only lockouts and windows count; windows do not.
WorthKeepingNow(st, t) == Locked(st, t) \/ Open(st.windowStart, t)
WorthKeepingLockouts(st, t) ==
  Locked(st, t) \/ (st.lockedUntil # ZeroTime /\ t - st.lockedUntil < EscalationReset)

\* prune: a lockout, a window that counts, or a lockout that still escalates.
WorthKeeping(st, t) ==
  \/ Locked(st, t)
  \/ Open(st.windowStart, t)
  \/ st.lockedUntil # ZeroTime /\ t - st.lockedUntil < EscalationReset

Pruned(table, t) ==
  [ip \in IP |-> IF WorthKeeping(table[ip], t) THEN table[ip] ELSE Blank]

GlobalDenied(t) == Open(globalStart, t) /\ globalFails >= GlobalFailures

\* Check's answer: not locked out, and the global cap not reached.
Allowed(ip, t) == ~Locked(ips[ip], t) /\ ~GlobalDenied(t)

CeilSeconds(d) == Greater(1, (d + Second - 1) \div Second) * Second

\* Mutant: the global window is counted from its last failure on.
RetryAfterWindow(ip, t) ==
  CeilSeconds(IF Locked(ips[ip], t) THEN ips[ip].lockedUntil - t ELSE Window)

\* Check's retryAfter when it refuses.
RetryAfter(ip, t) ==
  CeilSeconds(IF Locked(ips[ip], t) THEN ips[ip].lockedUntil - t
                                    ELSE globalStart + Window - t)

-----------------------------------------------------------------------------
LimiterInit ==
  /\ ips = [ip \in IP |-> Blank]
  /\ globalStart = ZeroTime /\ globalFails = 0
  /\ now = 1

\* Check normalizes the entry it looks at, whatever it answers.
Check(ip) ==
  /\ ips' = [ips EXCEPT ![ip] = Normalize(@, now)]
  /\ UNCHANGED <<globalStart, globalFails>>

\* A failure of an IP that is locked out is ignored; any other one counts
\* globally and for the IP, and then every entry is considered for pruning.
Fail(ip) ==
  LET st     == Normalize(ips[ip], now)
      global == Open(globalStart, now)
  IN IF Locked(st, now)
       THEN UNCHANGED limiter
       ELSE /\ ips' = Pruned([ips EXCEPT ![ip] = Counted(st, now)], now)
            /\ globalStart' = IF global THEN globalStart ELSE now
            /\ globalFails' = (IF global THEN globalFails ELSE 0) + 1

Tick == now < MaxTime /\ now' = now + 1
=============================================================================
