---------------------------- MODULE LoginProofs ----------------------------
(***************************************************************************)
(* Proofs, for any thresholds, IPs and number of requests: a login never   *)
(* reaches AdGuard while its IP or everybody is denied; Retry-After is     *)
(* exact; lockouts escalate as configured; wrong passwords stay below a    *)
(* rate.                                                                   *)
(*                                                                         *)
(* The first is not inductive: another request could record a failure      *)
(* while this one is at AdGuard. SlotHeld rules that out (whoever is       *)
(* between the second check and the outcome holds the one slot), and       *)
(* Times, that the limiter's times are integers, lets the clock advance:   *)
(* what is not denied stays so until a failure is recorded. Escalation     *)
(* rests on what an entry remembers of its IP's last lockout through       *)
(* pruning and normalizing (Sentenced), the rate on what a window says of  *)
(* the times of the last failures (Rated).                                 *)
(***************************************************************************)
EXTENDS Login, TLAPS

Entry == [failures : Int, windowStart : Int, trips : Nat, lockedUntil : Int]

Times ==
  /\ ips \in [IP -> Entry]
  /\ globalStart \in Int /\ now \in Int
  /\ from \in [Request -> IP]
  /\ pc \in [Request -> {"idle", "queued", "slot", "login", "bad"}]

SlotHeld ==
  \A r \in Request : pc[r] \in {"slot", "login", "bad"} => slot = r

IInv == Times /\ SlotHeld /\ NoLoginWhileDenied

-----------------------------------------------------------------------------
\* A lockout's length is an integer (the doubling in Fail).
LEMMA LockoutIsInt == \A n \in Int : n >= 1 => Lockout(n) \in Int
<1> SUFFICES ASSUME NEW n \in Int, n >= 1 PROVE Lockout(n) \in Int
  OBVIOUS
<1> DEFINE k == Lesser(n - 1, MaxShift)
<1>1. k \in Nat
  BY ThresholdsAssumption DEF Lesser
<1>2. \A j \in Nat : 2^j \in Int
  BY Z3
<1>3. 2^k \in Int
  BY <1>1, <1>2
<1> HIDE DEF k
<1> DEFINE p == 2^k
<1>4. p \in Int
  BY <1>3
<1> HIDE DEF p
<1>5. BaseLockout * p \in Int
  BY <1>4, ThresholdsAssumption
<1>6. Lesser(BaseLockout * p, MaxLockout) \in Int
  BY <1>5, ThresholdsAssumption DEF Lesser
<1> QED
  BY <1>6 DEF Lockout, k, p

\* Normalizing keeps an entry's shape and its lockout.
LEMMA NormalizeKeeps ==
  ASSUME NEW st \in Entry, NEW t \in Int
  PROVE  Normalize(st, t) \in Entry /\ Normalize(st, t).lockedUntil = st.lockedUntil
<1> DEFINE stale == st.windowStart < st.lockedUntil
           reset == t - st.lockedUntil >= EscalationReset
           f == IF stale THEN 0 ELSE st.failures
           w == IF stale THEN ZeroTime ELSE st.windowStart
           n == IF reset THEN 0 ELSE st.trips
           new == [st EXCEPT !.failures = f, !.windowStart = w, !.trips = n]
<1>1. Normalize(st, t) = st \/ Normalize(st, t) = new
  BY DEF Normalize, Entry
<1>2. f \in Int /\ w \in Int /\ n \in Nat
  BY DEF Entry, ZeroTime
<1> HIDE DEF f, w, n
<1>3. new \in Entry /\ new.lockedUntil = st.lockedUntil
  BY <1>2 DEF Entry
<1> QED
  BY <1>1, <1>3

\* Counting a failure keeps an entry's shape.
LEMMA CountedKeeps ==
  ASSUME NEW st \in Entry, NEW t \in Int
  PROVE  Counted(st, t) \in Entry
<1>1. Lockout(st.trips + 1) \in Int
  BY LockoutIsInt DEF Entry
<1>2. DEFINE n == (IF Open(st.windowStart, t) THEN st.failures ELSE 0) + 1
<1>3. n \in Int
  BY DEF Entry
<1> HIDE DEF n, Lockout
<1>4. [failures |-> 0, windowStart |-> ZeroTime, trips |-> st.trips + 1,
       lockedUntil |-> t + Lockout(st.trips + 1)] \in Entry
  BY <1>1 DEF Entry, ZeroTime
<1>5. [st EXCEPT !.failures = n,
                 !.windowStart = IF Open(st.windowStart, t) THEN @ ELSE t] \in Entry
  BY <1>3 DEF Entry
<1> QED
  BY <1>4, <1>5 DEF Counted, n

\* As the clock advances, nobody becomes denied.
LEMMA StaysAllowed ==
  ASSUME Times, NEW ip \in IP, Allowed(ip, now)
  PROVE  Allowed(ip, now + 1)
<1>1. ips[ip].lockedUntil \in Int
  BY DEF Times, Entry
<1> QED
  BY <1>1, ThresholdsAssumption
  DEF Times, Allowed, Locked, GlobalDenied, Open, ZeroTime

-----------------------------------------------------------------------------
LEMMA InitIInv == Init => IInv
<1> SUFFICES ASSUME Init PROVE IInv
  OBVIOUS
<1>1. Blank \in Entry
  BY DEF Blank, Entry, ZeroTime
<1>2. from \in [Request -> IP]
  BY IPAssumption DEF Init
<1> QED
  BY <1>1, <1>2
  DEF Init, LimiterInit, IInv, Times, SlotHeld, NoLoginWhileDenied, ZeroTime

\* Checking an IP changes neither anyone's lockout nor the global window.
LEMMA CheckKeeps ==
  ASSUME Times, NEW ip \in IP, Check(ip)
  PROVE  /\ ips' \in [IP -> Entry]
         /\ \A x \in IP : ips'[x].lockedUntil = ips[x].lockedUntil
         /\ globalStart' = globalStart /\ globalFails' = globalFails
<1>1. ips[ip] \in Entry
  BY DEF Times
<1>2. Normalize(ips[ip], now) \in Entry
      /\ Normalize(ips[ip], now).lockedUntil = ips[ip].lockedUntil
  BY <1>1, NormalizeKeeps DEF Times
<1> HIDE DEF Entry, Normalize
<1> QED
  BY <1>2 DEF Times, Check

LEMMA StepIInv == IInv /\ [Next]_vars => IInv'
<1> SUFFICES ASSUME IInv, [Next]_vars PROVE IInv'
  OBVIOUS
<1> USE DEF IInv
<1>1. ASSUME NEW r \in Request, NEW ip \in IP, Arrive(r, ip) PROVE IInv'
  <2>1. now' = now /\ slot' = slot /\ Check(ip)
    BY <1>1 DEF Arrive
  <2>2. pc' \in [Request -> {"idle", "queued", "slot", "login", "bad"}]
        /\ from' \in [Request -> IP]
        /\ \A q \in Request : pc'[q] \in {"slot", "login", "bad"} =>
             pc'[q] = pc[q] /\ from'[q] = from[q]
    BY <1>1 DEF Arrive, Goto, Times
  <2>3. Times'
    BY <2>1, <2>2, CheckKeeps DEF Times
  <2>4. SlotHeld'
    BY <2>1, <2>2 DEF SlotHeld
  <2>5. NoLoginWhileDenied'
    BY <2>1, <2>2, CheckKeeps
    DEF NoLoginWhileDenied, Allowed, Locked, GlobalDenied, Times
  <2> QED
    BY <2>3, <2>4, <2>5
<1>2. ASSUME NEW r \in Request, Acquire(r) PROVE IInv'
  BY <1>2, RequestAssumption
  DEF Acquire, Goto, limiter, Times, SlotHeld, NoLoginWhileDenied,
      Allowed, Locked, GlobalDenied
<1>3. ASSUME NEW r \in Request, GiveUp(r) PROVE IInv'
  BY <1>3 DEF GiveUp, Goto, limiter, Times, SlotHeld, NoLoginWhileDenied,
              Allowed, Locked, GlobalDenied
<1>4. ASSUME NEW r \in Request, Recheck(r) PROVE IInv'
  <2>1. from[r] \in IP /\ Check(from[r]) /\ now' = now /\ from' = from
    BY <1>4 DEF Recheck, Times
  <2>2. slot = r
    BY <1>4 DEF Recheck, SlotHeld
  <2>3. \A q \in Request \ {r} : pc'[q] = pc[q] /\ pc[q] \notin {"slot", "login", "bad"}
    BY <1>4, <2>2 DEF Recheck, Goto, Return, SlotHeld, Times
  <2>4. Times'
    <3>1. pc' \in [Request -> {"idle", "queued", "slot", "login", "bad"}]
      BY <1>4 DEF Recheck, Goto, Return, Times
    <3> QED
      BY <2>1, <3>1, CheckKeeps DEF Times
  <2>5. CASE Allowed(from[r], now)
    <3>1. slot' = slot
      BY <1>4, <2>5 DEF Recheck
    <3>2. Allowed(from[r], now)'
      BY <2>1, <2>5, CheckKeeps DEF Allowed, Locked, GlobalDenied
    <3>3. NoLoginWhileDenied'
      BY <2>1, <2>3, <3>2 DEF NoLoginWhileDenied
    <3> QED
      BY <2>2, <2>3, <2>4, <3>1, <3>3 DEF SlotHeld
  <2>6. CASE ~Allowed(from[r], now)
    <3>1. pc'[r] = "idle"
      BY <1>4, <2>6 DEF Recheck, Return, Goto, Times
    <3> QED
      BY <2>3, <2>4, <3>1 DEF SlotHeld, NoLoginWhileDenied
  <2> QED
    BY <2>5, <2>6
<1>5. ASSUME NEW r \in Request, BadCredentials(r) PROVE IInv'
  BY <1>5 DEF BadCredentials, Goto, limiter, Times, SlotHeld, NoLoginWhileDenied,
              Allowed, Locked, GlobalDenied
<1>6. ASSUME NEW r \in Request, LoginReturn(r) PROVE IInv'
  BY <1>6 DEF LoginReturn, Return, Goto, limiter, Times, SlotHeld,
              NoLoginWhileDenied, Allowed, Locked, GlobalDenied
<1>7. ASSUME NEW r \in Request, FailReturn(r) PROVE IInv'
  <2>1. slot = r
    BY <1>7 DEF FailReturn, SlotHeld
  <2>2. \A q \in Request : pc'[q] \notin {"slot", "login", "bad"}
    BY <1>7, <2>1 DEF FailReturn, Return, Goto, SlotHeld, Times
  <2>3. Times'
    <3>1. now' = now /\ from' = from
          /\ pc' \in [Request -> {"idle", "queued", "slot", "login", "bad"}]
      BY <1>7 DEF FailReturn, Return, Goto, Times
    <3>2. from[r] \in IP /\ Fail(from[r])
      BY <1>7 DEF FailReturn, Times
    <3>3. globalStart' \in Int
      BY <3>2 DEF Fail, Times, limiter
    <3>4. ips' \in [IP -> Entry]
      <4> DEFINE st == Normalize(ips[from[r]], now)
                 table == [ips EXCEPT ![from[r]] = Counted(st, now)]
      <4>1. st \in Entry
        BY <3>2, NormalizeKeeps DEF Times
      <4>2. Counted(st, now) \in Entry
        BY <4>1, CountedKeeps DEF Times
      <4>3. Blank \in Entry
        BY DEF Blank, Entry, ZeroTime
      <4> HIDE DEF Entry
      <4>4. table \in [IP -> Entry]
        BY <4>2 DEF Times
      <4>5. ips' = ips \/ ips' = Pruned(table, now)
        BY <3>2 DEF Fail, limiter
      <4> HIDE DEF table
      <4>6. Pruned(table, now) \in [IP -> Entry]
        BY <4>3, <4>4 DEF Pruned
      <4> QED
        BY <4>5, <4>6 DEF Times
    <3> QED
      BY <3>1, <3>3, <3>4 DEF Times
  <2> QED
    BY <2>2, <2>3 DEF SlotHeld, NoLoginWhileDenied
<1>8. ASSUME Clock PROVE IInv'
  <2>1. now' = now + 1 /\ UNCHANGED <<limiter, handler>>
    BY <1>8 DEF Clock, Tick
  <2>2. Times' /\ SlotHeld'
    BY <2>1 DEF limiter, handler, Times, SlotHeld
  <2>3. \A r \in Request : pc[r] \in {"login", "bad"} => Allowed(from[r], now + 1)
    BY StaysAllowed DEF Times, NoLoginWhileDenied
  <2>4. NoLoginWhileDenied'
    BY <2>1, <2>3 DEF limiter, handler, NoLoginWhileDenied, Allowed, Locked, GlobalDenied
  <2> QED
    BY <2>2, <2>4
<1>9. CASE UNCHANGED vars
  BY <1>9 DEF vars, limiter, handler, Times, SlotHeld, NoLoginWhileDenied,
              Allowed, Locked, GlobalDenied
<1> QED
  BY <1>1, <1>2, <1>3, <1>4, <1>5, <1>6, <1>7, <1>8, <1>9 DEF Next, Step

\* handleLogin, whatever the thresholds and however many requests there are:
\* AdGuard is never asked on behalf of a locked-out IP, nor of anyone while
\* the global cap is reached.
THEOREM LoginsRespectTheBudget == Spec => []NoLoginWhileDenied
<1>1. IInv => NoLoginWhileDenied
  BY DEF IInv
<1> QED
  BY InitIInv, StepIInv, <1>1, PTL DEF Spec

-----------------------------------------------------------------------------
(* What a refusal says                                                     *)

\* Whole seconds, rounded up: enough, and a second less is not.
LEMMA CeilSecondsIsTight ==
  ASSUME NEW d \in Nat \ {0}
  PROVE  /\ CeilSeconds(d) \in Nat
         /\ CeilSeconds(d) >= d /\ CeilSeconds(d) - Second < d
<1> DEFINE x == d + Second - 1
           q == x \div Second
<1>1. Second \in Nat \ {0} /\ x \in Nat
  BY ThresholdsAssumption
<1>2. q \in Nat /\ q * Second <= x /\ x < q * Second + Second
  <2> HIDE DEF x
  <2> QED BY <1>1
<1> HIDE DEF q
<1>3. q >= 1
  <2>1. q = 0 => q * Second = 0
    BY <1>1
  <2> QED BY <1>1, <1>2, <2>1
<1>4. CeilSeconds(d) = q * Second
  BY <1>2, <1>3 DEF CeilSeconds, Greater, q
<1>5. q * Second \in Nat
  BY <1>1, <1>2
<1> DEFINE m == q * Second
<1> HIDE DEF m
<1>6. m \in Nat /\ m <= x /\ x < m + Second /\ CeilSeconds(d) = m
  BY <1>2, <1>4, <1>5 DEF m
<1> QED BY <1>1, <1>6

\* Check's retryAfter, for any thresholds: whoever is refused for one reason is
\* let in on waiting as told, and not a second sooner.
THEOREM RetryAfterExact == Spec => []RetryAfterIsExact
<1>1. Times => RetryAfterIsExact
  <2> SUFFICES ASSUME Times, NEW ip \in IP, ~Allowed(ip, now),
                      ~(Locked(ips[ip], now) /\ GlobalDenied(now))
               PROVE  LET t == now + RetryAfter(ip, now)
                      IN Allowed(ip, t) /\ ~Allowed(ip, t - Second)
    BY Zenon DEF RetryAfterIsExact
  <2>1. /\ ips[ip].lockedUntil \in Int /\ globalStart \in Int /\ now \in Int
        /\ Window \in Nat /\ Second \in Nat
    BY ThresholdsAssumption DEF Times, Entry
  <2> DEFINE d == IF Locked(ips[ip], now) THEN ips[ip].lockedUntil - now
                                          ELSE globalStart + Window - now
             m == CeilSeconds(d)
  <2>2. d \in Nat \ {0}
    BY <2>1 DEF Allowed, Locked, GlobalDenied, Open
  <2>3. m \in Nat /\ m >= d /\ m - Second < d
    BY <2>2, CeilSecondsIsTight
  <2>4. RetryAfter(ip, now) = m
    BY DEF RetryAfter
  <2> HIDE DEF m
  <2> QED BY <2>1, <2>2, <2>3, <2>4 DEF Allowed, Locked, GlobalDenied, Open
<1>2. IInv => Times
  BY DEF IInv
<1> QED BY InitIInv, StepIInv, <1>1, <1>2, PTL DEF Spec

-----------------------------------------------------------------------------
(* The lockout's length                                                    *)

LEMMA PowerType == \A n \in Int : n >= 1 => 2^Lesser(n - 1, MaxShift) \in Nat \ {0}
<1> SUFFICES ASSUME NEW n \in Int, n >= 1 PROVE 2^Lesser(n - 1, MaxShift) \in Nat \ {0}
  OBVIOUS
<1> DEFINE k == Lesser(n - 1, MaxShift)
<1>1. k \in 0..MaxShift
  BY ThresholdsAssumption DEF Lesser
<1> HIDE DEF k
<1>2. 2^k \in Nat \ {0}
  BY <1>1, ShiftAssumption
<1> QED BY <1>2 DEF k

\* A lockout takes time, and no more than MaxLockout.
LEMMA LockoutBounds == \A n \in Int : n >= 1 => Lockout(n) \in 1..MaxLockout
<1> SUFFICES ASSUME NEW n \in Int, n >= 1 PROVE Lockout(n) \in 1..MaxLockout
  OBVIOUS
<1> DEFINE p == 2^Lesser(n - 1, MaxShift)
<1>1. p \in Nat \ {0}
  BY PowerType
<1> HIDE DEF p
<1> DEFINE l == BaseLockout * p
<1>2. l \in Nat \ {0}
  BY <1>1, ThresholdsAssumption
<1> HIDE DEF l
<1>3. Lesser(l, MaxLockout) \in 1..MaxLockout
  BY <1>2, ThresholdsAssumption DEF Lesser
<1> QED BY <1>3 DEF Lockout, l, p

LEMMA LockoutFirst == Lockout(1) = BaseLockout
<1>1. Lesser(1 - 1, MaxShift) = 0
  BY ThresholdsAssumption DEF Lesser
<1>2. 2^0 = 1
  BY Z3
<1>3. Lockout(1) = Lesser(BaseLockout * 2^0, MaxLockout)
  BY <1>1, Zenon DEF Lockout
<1>4. Lockout(1) = Lesser(BaseLockout * 1, MaxLockout)
  BY <1>2, <1>3, Zenon
<1> QED BY <1>4, ThresholdsAssumption DEF Lesser

\* Each trip in a row doubles the lockout, up to MaxLockout: where the shift is
\* capped the lockout is there already.
LEMMA LockoutDoubles ==
  ASSUME NEW n \in Nat \ {0}
  PROVE  Lockout(n + 1) = Lesser(2 * Lockout(n), MaxLockout)
<1> DEFINE k == Lesser(n - 1, MaxShift)
           j == Lesser(n, MaxShift)
           p == 2^k
           q == 2^j
<1>0. (n + 1) - 1 = n
  OBVIOUS
<1>1. Lockout(n) = Lesser(BaseLockout * p, MaxLockout)
      /\ Lockout(n + 1) = Lesser(BaseLockout * q, MaxLockout)
  BY <1>0, Zenon DEF Lockout
<1>2. CASE n <= MaxShift
  <2>1. k = n - 1 /\ j = k + 1 /\ k \in 0..MaxShift
    BY <1>2, ThresholdsAssumption DEF Lesser
  <2> HIDE DEF k, j
  <2>2. 2^k \in Nat \ {0} /\ 2^(k + 1) = 2 * 2^k
    BY <2>1, ShiftAssumption
  <2>3. p \in Nat \ {0} /\ q = 2 * p
    BY <2>1, <2>2, Zenon
  <2> HIDE DEF p, q
  <2>4. BaseLockout * q = 2 * (BaseLockout * p) /\ BaseLockout * p \in Nat
    BY <2>3, ThresholdsAssumption
  <2> DEFINE a == BaseLockout * p
  <2> HIDE DEF a
  <2>5. Lesser(2 * a, MaxLockout) = Lesser(2 * Lesser(a, MaxLockout), MaxLockout)
    BY <2>4, ThresholdsAssumption DEF Lesser, a
  <2>6. BaseLockout * q = 2 * a
    BY <2>4 DEF a
  <2> QED BY <1>1, <2>5, <2>6 DEF a
<1>3. CASE n > MaxShift
  <2>1. k = MaxShift /\ j = MaxShift
    BY <1>3, ThresholdsAssumption DEF Lesser
  <2> DEFINE a == BaseLockout * 2^MaxShift
  <2>2. BaseLockout * p = a /\ BaseLockout * q = a
    BY <2>1
  <2>3. 2^MaxShift \in Nat
    BY ShiftAssumption, ThresholdsAssumption
  <2>4. a \in Nat /\ MaxLockout <= a
    <3> DEFINE z == 2^MaxShift
    <3>1. z \in Nat /\ MaxLockout <= BaseLockout * z
      BY <2>3, ThresholdsAssumption
    <3> HIDE DEF z
    <3>2. BaseLockout * z \in Nat
      BY <3>1, ThresholdsAssumption
    <3> QED BY <3>1, <3>2 DEF z
  <2> HIDE DEF a, p, q
  <2>5. Lesser(a, MaxLockout) = MaxLockout
        /\ Lesser(2 * MaxLockout, MaxLockout) = MaxLockout
    BY <2>4, ThresholdsAssumption DEF Lesser
  <2> QED BY <1>1, <2>2, <2>5
<1> QED BY <1>2, <1>3, ThresholdsAssumption

\* No lockout is over before the window it ends would have been.
LEMMA LockoutLasts == \A n \in Nat : Lockout(n + 1) \in Nat /\ Lockout(n + 1) >= Window
<1> SUFFICES ASSUME NEW n \in Nat PROVE Lockout(n + 1) \in Nat /\ Lockout(n + 1) >= Window
  OBVIOUS
<1> DEFINE p == 2^Lesser((n + 1) - 1, MaxShift)
<1>1. p \in Nat \ {0}
  BY PowerType
<1> HIDE DEF p
<1>2. BaseLockout * p \in Nat /\ BaseLockout * p >= BaseLockout
  BY <1>1, ThresholdsAssumption
<1> DEFINE l == BaseLockout * p
<1> HIDE DEF l
<1>3. Lesser(l, MaxLockout) \in Nat /\ Lesser(l, MaxLockout) >= Window
  BY <1>2, ThresholdsAssumption DEF Lesser, l
<1> QED BY <1>3 DEF Lockout, l, p

-----------------------------------------------------------------------------
(* The entries' bounds, and what they remember of a lockout                *)

Bounded == [failures : 0..(PerIPFailures - 1), windowStart : 0..MaxTime,
            trips : Nat, lockedUntil : 0..(MaxTime + MaxLockout)]

Sentence == [length : 0..MaxLockout, end : 0..(MaxTime + MaxLockout)]

\* Normalizing forgets the trips of a lockout that is long over, and nothing
\* else about lockouts.
LEMMA NormalizeBounded ==
  ASSUME NEW st \in Bounded, NEW t \in 1..MaxTime
  PROVE  /\ Normalize(st, t) \in Bounded
         /\ Normalize(st, t).lockedUntil = st.lockedUntil
         /\ Normalize(st, t).trips =
              IF st.lockedUntil # 0 /\ t - st.lockedUntil >= EscalationReset
                THEN 0 ELSE st.trips
<1> DEFINE stale == st.windowStart < st.lockedUntil
           reset == t - st.lockedUntil >= EscalationReset
           f == IF stale THEN 0 ELSE st.failures
           w == IF stale THEN ZeroTime ELSE st.windowStart
           n == IF reset THEN 0 ELSE st.trips
           new == [st EXCEPT !.failures = f, !.windowStart = w, !.trips = n]
<1>1. CASE st.lockedUntil = ZeroTime \/ Locked(st, t)
  <2>1. Normalize(st, t) = st
    BY <1>1 DEF Normalize
  <2>2. st.lockedUntil # 0 => t - st.lockedUntil < EscalationReset
    BY <1>1, ThresholdsAssumption DEF Locked, ZeroTime, Bounded
  <2> QED BY <2>1, <2>2, ThresholdsAssumption DEF Bounded
<1>2. CASE ~(st.lockedUntil = ZeroTime \/ Locked(st, t))
  <2>1. Normalize(st, t) = new
    BY <1>2 DEF Normalize, Bounded
  <2>2. f \in 0..(PerIPFailures - 1) /\ w \in 0..MaxTime /\ n \in Nat
    BY ThresholdsAssumption DEF Bounded, ZeroTime
  <2>3. n = IF st.lockedUntil # 0 /\ reset THEN 0 ELSE st.trips
    BY <1>2 DEF ZeroTime
  <2> HIDE DEF f, w, n
  <2>4. /\ new \in Bounded /\ new.lockedUntil = st.lockedUntil /\ new.trips = n
    BY <2>2 DEF Bounded
  <2> QED BY <2>1, <2>3, <2>4
<1> QED BY <1>1, <1>2

\* A failure either stays below the threshold, and lockouts are as they were,
\* or it is one more trip and a lockout of its length from now.
LEMMA CountedBounded ==
  ASSUME NEW st \in Bounded, NEW t \in 1..MaxTime
  PROVE  LET c == Counted(st, t) IN
         /\ c \in Bounded
         /\ \/ c.trips = st.trips /\ c.lockedUntil = st.lockedUntil
            \/ c.trips = st.trips + 1 /\ c.lockedUntil = t + Lockout(st.trips + 1)
<1> DEFINE open == Open(st.windowStart, t)
           n == (IF open THEN st.failures ELSE 0) + 1
           l == Lockout(st.trips + 1)
           w == IF open THEN st.windowStart ELSE t
           trip == [failures |-> 0, windowStart |-> ZeroTime, trips |-> st.trips + 1,
                    lockedUntil |-> t + l]
           more == [st EXCEPT !.failures = n, !.windowStart = w]
<1>1. l \in 1..MaxLockout
  BY LockoutBounds DEF Bounded
<1>2. n \in Nat /\ w \in 0..MaxTime
  BY ThresholdsAssumption DEF Bounded
<1>3. Counted(st, t) = IF n >= PerIPFailures THEN trip ELSE more
  BY DEF Counted, Bounded
<1> HIDE DEF n, l, w, open
<1>4. CASE n >= PerIPFailures
  <2>1. t + l \in 0..(MaxTime + MaxLockout)
    BY <1>1, ThresholdsAssumption
  <2>2. trip \in Bounded /\ trip.trips = st.trips + 1 /\ trip.lockedUntil = t + l
    BY <2>1, ThresholdsAssumption DEF Bounded, ZeroTime
  <2> QED BY <1>3, <1>4, <2>2 DEF l
<1>5. CASE ~(n >= PerIPFailures)
  <2>1. n \in 0..(PerIPFailures - 1)
    BY <1>2, <1>5, ThresholdsAssumption
  <2>2. more \in Bounded /\ more.trips = st.trips /\ more.lockedUntil = st.lockedUntil
    BY <1>2, <2>1 DEF Bounded
  <2> QED BY <1>3, <1>5, <2>2
<1> QED BY <1>4, <1>5

\* What an entry st remembers, at time t, of the last lockout s of its IP: all
\* of it, or, when it no longer escalates, possibly nothing.
Remembers(st, s, t) ==
  \/ s.length = 0 /\ st.lockedUntil = 0 /\ st.trips = 0
  \/ /\ s.length # 0 /\ s.end # 0 /\ st.lockedUntil = s.end
     /\ st.trips >= 1 /\ s.length = Lockout(st.trips)
  \/ s.length # 0 /\ st.trips = 0 /\ t - s.end >= EscalationReset

Sentenced == \A ip \in IP : Remembers(ips[ip], sentence[ip], now)

LEMMA NormalizeRemembers ==
  ASSUME NEW st \in Bounded, NEW s \in Sentence, NEW t \in 1..MaxTime, Remembers(st, s, t)
  PROVE  Remembers(Normalize(st, t), s, t)
BY NormalizeBounded DEF Remembers, Bounded, Sentence

\* prune drops an entry only when its lockout no longer escalates.
LEMMA PruneRemembers ==
  ASSUME NEW st \in Bounded, NEW s \in Sentence, NEW t \in 1..MaxTime, Remembers(st, s, t)
  PROVE  Remembers(IF WorthKeeping(st, t) THEN st ELSE Blank, s, t)
<1>1. Blank.trips = 0 /\ Blank.lockedUntil = 0
  BY DEF Blank, ZeroTime
<1>2. ~WorthKeeping(st, t) => st.lockedUntil = 0 \/ t - st.lockedUntil >= EscalationReset
  BY ThresholdsAssumption DEF WorthKeeping, ZeroTime, Bounded
<1> QED BY <1>1, <1>2 DEF Remembers

LEMMA TimeRemembers ==
  ASSUME NEW st \in Bounded, NEW s \in Sentence, NEW t \in 1..MaxTime, Remembers(st, s, t)
  PROVE  Remembers(st, s, t + 1)
BY ThresholdsAssumption DEF Remembers, Sentence

Tallied == TypeOK /\ Sentenced

\* One step of Escalates, for one IP.
Escalation(ip) ==
  sentence'[ip] # sentence[ip] =>
    sentence'[ip].length =
      IF sentence[ip].length # 0 /\ now - sentence[ip].end < EscalationReset
        THEN Lesser(2 * sentence[ip].length, MaxLockout)
        ELSE BaseLockout

\* A recorded failure leaves the entries within their bounds and in step with
\* the lockouts so far, and a lockout it brings is of the right length.
LEMMA FailTallies ==
  ASSUME IInv, Tallied, NEW r \in Request, FailReturn(r)
  PROVE  /\ ips' \in [IP -> Bounded] /\ sentence' \in [IP -> Sentence]
         /\ Sentenced' /\ \A ip \in IP : Escalation(ip)
<1> DEFINE ip == from[r]
           st == Normalize(ips[ip], now)
           c  == Counted(st, now)
           kept(e) == IF WorthKeeping(e, now) THEN e ELSE Blank
<1>1. /\ ip \in IP /\ now \in 1..MaxTime /\ ips \in [IP -> Bounded]
      /\ sentence \in [IP -> Sentence]
      /\ \A x \in IP : Remembers(ips[x], sentence[x], now)
  BY DEF Tallied, TypeOK, LimiterTypeOK, Bounded, Sentence, Sentenced
<1>2. ips[ip] \in Bounded /\ sentence[ip] \in Sentence /\ ips[ip].lockedUntil <= now
  BY <1>1 DEF FailReturn, IInv, NoLoginWhileDenied, Allowed, Locked, Bounded
<1>3. /\ st \in Bounded /\ st.lockedUntil = ips[ip].lockedUntil
      /\ st.trips = IF ips[ip].lockedUntil # 0 /\ now - ips[ip].lockedUntil >= EscalationReset
                      THEN 0 ELSE ips[ip].trips
  BY <1>1, <1>2, NormalizeBounded
<1>4. Remembers(st, sentence[ip], now)
  BY <1>1, <1>2, NormalizeRemembers
<1> HIDE DEF st
<1>5. /\ c \in Bounded
      /\ \/ c.trips = st.trips /\ c.lockedUntil = st.lockedUntil
         \/ c.trips = st.trips + 1 /\ c.lockedUntil = now + Lockout(st.trips + 1)
  BY <1>1, <1>3, CountedBounded
<1> HIDE DEF c
<1>6. ~Locked(st, now)
  BY <1>1, <1>2, <1>3 DEF Locked, Bounded
<1>7. ips' = Pruned([ips EXCEPT ![ip] = c], now) /\ now' = now
  BY <1>6 DEF FailReturn, Fail, st, c
<1>8. ips'[ip] = kept(c) /\ \A x \in IP \ {ip} : ips'[x] = kept(ips[x])
  BY <1>1, <1>7 DEF Pruned
<1>9. Blank \in Bounded
  BY ThresholdsAssumption DEF Blank, Bounded, ZeroTime
<1>10. ips' \in [IP -> Bounded]
  <2>1. [ips EXCEPT ![ip] = c] \in [IP -> Bounded]
    BY <1>1, <1>5
  <2> QED BY <1>7, <1>9, <2>1 DEF Pruned
<1>11. /\ DOMAIN sentence' = IP
       /\ \A x \in IP \ {ip} : sentence'[x] = sentence[x]
       /\ sentence'[ip] = IF ips'[ip].lockedUntil > now
                            THEN [length |-> ips'[ip].lockedUntil - now,
                                  end |-> ips'[ip].lockedUntil]
                            ELSE sentence[ip]
  BY <1>1 DEF FailReturn
<1>12. \A x \in IP \ {ip} : Remembers(ips'[x], sentence'[x], now)
  <2> SUFFICES ASSUME NEW x \in IP \ {ip} PROVE Remembers(kept(ips[x]), sentence[x], now)
    BY <1>8, <1>11
  <2>1. ips[x] \in Bounded /\ sentence[x] \in Sentence
    BY <1>1
  <2> QED BY <1>1, <2>1, PruneRemembers
<1>13. CASE c.trips = st.trips /\ c.lockedUntil = st.lockedUntil
  <2>1. ips'[ip].lockedUntil <= now
    BY <1>1, <1>2, <1>3, <1>8, <1>13 DEF Blank, ZeroTime
  <2>2. sentence'[ip] = sentence[ip]
    BY <1>1, <1>10, <1>11, <2>1 DEF Bounded
  <2>3. Remembers(c, sentence[ip], now)
    BY <1>4, <1>13 DEF Remembers
  <2>4. Remembers(kept(c), sentence[ip], now)
    BY <1>1, <1>2, <1>5, <2>3, PruneRemembers
  <2>5. sentence' = sentence
    BY <2>1, <1>1, <1>10 DEF FailReturn, Bounded
  <2> QED BY <1>1, <1>7, <1>8, <1>10, <1>12, <2>2, <2>4, <2>5 DEF Sentenced, Escalation
<1>14. CASE c.trips = st.trips + 1 /\ c.lockedUntil = now + Lockout(st.trips + 1)
  <2> DEFINE l == Lockout(st.trips + 1)
  <2>1. l \in 1..MaxLockout /\ st.trips \in Nat
    BY <1>3, LockoutBounds DEF Bounded
  <2> HIDE DEF l
  <2>2. c.lockedUntil = now + l /\ c.lockedUntil > now
    BY <1>1, <1>14, <2>1 DEF l
  <2>3. ips'[ip] = c
    BY <1>8, <2>2 DEF WorthKeeping, Locked
  <2>4. sentence'[ip] = [length |-> l, end |-> now + l]
    BY <1>1, <1>11, <2>1, <2>2, <2>3
  <2>5. sentence'[ip] \in Sentence
    BY <1>1, <2>1, <2>4, ThresholdsAssumption DEF Sentence
  <2>6. sentence' \in [IP -> Sentence]
    <3>1. sentence' = [sentence EXCEPT ![ip] = sentence'[ip]]
      BY <1>1, <2>2, <2>3 DEF FailReturn
    <3> QED BY <1>1, <2>5, <3>1
  <2>7. Remembers(ips'[ip], sentence'[ip], now)
    BY <1>1, <1>14, <2>1, <2>2, <2>3, <2>4 DEF Remembers, l
  <2>8. l = IF sentence[ip].length # 0 /\ now - sentence[ip].end < EscalationReset
              THEN Lesser(2 * sentence[ip].length, MaxLockout)
              ELSE BaseLockout
    <3>1. CASE st.trips = 0
      <4>1. ~(sentence[ip].length # 0 /\ now - sentence[ip].end < EscalationReset)
        BY <1>1, <1>2, <1>3, <3>1, ThresholdsAssumption DEF Remembers, Sentence
      <4> QED BY <3>1, <4>1, LockoutFirst DEF l
    <3>2. CASE st.trips # 0
      <4>1. /\ sentence[ip].length = Lockout(st.trips)
            /\ sentence[ip].length # 0 /\ now - sentence[ip].end < EscalationReset
        BY <1>1, <1>2, <1>3, <3>2, ThresholdsAssumption DEF Remembers, Sentence, Bounded
      <4>2. l = Lesser(2 * Lockout(st.trips), MaxLockout)
        BY <2>1, <3>2, LockoutDoubles DEF l
      <4> QED BY <4>1, <4>2
    <3> QED BY <3>1, <3>2
  <2>9. sentence'[ip].length = l
    BY <2>4
  <2>10. \A x \in IP : Escalation(x)
    BY <1>11, <2>8, <2>9 DEF Escalation
  <2>11. Sentenced'
    BY <1>7, <1>12, <2>7 DEF Sentenced
  <2> QED BY <1>10, <2>6, <2>10, <2>11
<1> QED BY <1>5, <1>13, <1>14

\* A step that records no failure: entries change by normalizing one at most.
LEMMA QuietTallies ==
  ASSUME Tallied, now' = now, UNCHANGED history,
         UNCHANGED ips \/ \E ip \in IP : ips' = [ips EXCEPT ![ip] = Normalize(@, now)]
  PROVE  ips' \in [IP -> Bounded] /\ Sentenced'
<1>1. /\ now \in 1..MaxTime /\ ips \in [IP -> Bounded] /\ sentence \in [IP -> Sentence]
      /\ \A x \in IP : Remembers(ips[x], sentence[x], now)
  BY DEF Tallied, TypeOK, LimiterTypeOK, Bounded, Sentence, Sentenced
<1>2. CASE UNCHANGED ips
  BY <1>1, <1>2 DEF Sentenced, history
<1>3. ASSUME NEW ip \in IP, ips' = [ips EXCEPT ![ip] = Normalize(@, now)]
      PROVE  ips' \in [IP -> Bounded] /\ Sentenced'
  <2>1. ips[ip] \in Bounded /\ sentence[ip] \in Sentence
    BY <1>1
  <2>2. Normalize(ips[ip], now) \in Bounded
    BY <1>1, <2>1, NormalizeBounded
  <2>3. Remembers(Normalize(ips[ip], now), sentence[ip], now)
    BY <1>1, <2>1, NormalizeRemembers
  <2>4. ips'[ip] = Normalize(ips[ip], now) /\ \A x \in IP \ {ip} : ips'[x] = ips[x]
    BY <1>1, <1>3
  <2>5. ips' \in [IP -> Bounded]
    BY <1>1, <1>3, <2>2
  <2>6. \A x \in IP : Remembers(ips'[x], sentence[x], now)
    BY <1>1, <2>3, <2>4
  <2> QED BY <2>5, <2>6 DEF Sentenced, history
<1> QED BY <1>2, <1>3

LEMMA InitTallied == Init => Tallied
<1> SUFFICES ASSUME Init PROVE Tallied
  OBVIOUS
<1>1. Blank \in Bounded /\ Blank.trips = 0 /\ Blank.lockedUntil = 0
  BY ThresholdsAssumption DEF Blank, Bounded, ZeroTime
<1>2. from \in [Request -> IP]
  BY IPAssumption DEF Init
<1>3. ips \in [IP -> Bounded]
  BY <1>1 DEF Init, LimiterInit
<1>4. sentence \in [IP -> Sentence]
  BY ThresholdsAssumption DEF Init, Sentence
<1>5. LimiterTypeOK
  BY <1>3, ThresholdsAssumption DEF Init, LimiterInit, LimiterTypeOK, Bounded, ZeroTime
<1>6. TypeOK
  BY <1>2, <1>4, <1>5, RequestAssumption DEF Init, TypeOK, Sentence
<1>7. Sentenced
  <2> SUFFICES ASSUME NEW ip \in IP
               PROVE  /\ sentence[ip].length = 0 /\ ips[ip].lockedUntil = 0
                      /\ ips[ip].trips = 0
    BY DEF Sentenced, Remembers
  <2> QED BY <1>1 DEF Init, LimiterInit
<1> QED BY <1>6, <1>7 DEF Tallied

LEMMA StepTallied == IInv /\ Tallied /\ [Next]_vars => Tallied'
<1> SUFFICES ASSUME IInv, Tallied, [Next]_vars PROVE Tallied'
  OBVIOUS
<1>0. /\ now \in 1..MaxTime /\ ips \in [IP -> Bounded] /\ sentence \in [IP -> Sentence]
      /\ globalStart \in 0..MaxTime /\ globalFails \in 0..GlobalFailures
      /\ TypeOK /\ Sentenced
  BY DEF Tallied, TypeOK, LimiterTypeOK, Bounded, Sentence
<1> DEFINE Handlers ==
      /\ pc' \in [Request -> {"idle", "queued", "slot", "login", "bad"}]
      /\ from' \in [Request -> IP] /\ slot' \in Request \cup {NoRequest}
      /\ \A r \in Request : pc'[r] \in {"slot", "login", "bad"} <=> slot' = r
\* Every step but a recorded failure and the clock's.
<1>1. ASSUME UNCHANGED <<now, globalStart, globalFails, history>>, Handlers,
             UNCHANGED ips \/ \E ip \in IP : ips' = [ips EXCEPT ![ip] = Normalize(@, now)]
      PROVE  Tallied'
  <2>1. ips' \in [IP -> Bounded] /\ Sentenced'
    BY <1>1, QuietTallies
  <2>2. LimiterTypeOK'
    BY <1>0, <1>1, <2>1 DEF LimiterTypeOK, Bounded
  <2>3. TypeOK'
    BY <1>0, <1>1, <2>2 DEF TypeOK, history, Sentence
  <2> QED BY <2>1, <2>3 DEF Tallied
<1>2. ASSUME NEW r \in Request, NEW ip \in IP, Arrive(r, ip) PROVE Tallied'
  <2>1. Handlers
    BY <1>0, <1>2 DEF Arrive, Goto, TypeOK
  <2> QED BY <1>1, <1>2, <2>1 DEF Arrive, Check
<1>3. ASSUME NEW r \in Request, Acquire(r) \/ GiveUp(r) \/ BadCredentials(r)
      PROVE  Tallied'
  <2>1. Handlers
    BY <1>0, <1>3, RequestAssumption DEF Acquire, GiveUp, BadCredentials, Goto, TypeOK
  <2> QED BY <1>1, <1>3, <2>1 DEF Acquire, GiveUp, BadCredentials, limiter
<1>4. ASSUME NEW r \in Request, Recheck(r) PROVE Tallied'
  <2>1. Handlers
    <3>1. slot = r /\ from' = from
      BY <1>0, <1>4 DEF Recheck, TypeOK
    <3>2. CASE pc' = [pc EXCEPT ![r] = "login"] /\ slot' = slot
      BY <1>0, <3>1, <3>2 DEF TypeOK
    <3>3. CASE pc' = [pc EXCEPT ![r] = "idle"] /\ slot' = NoRequest
      BY <1>0, <3>1, <3>3, RequestAssumption DEF TypeOK
    <3> QED BY <1>4, <3>2, <3>3 DEF Recheck, Return, Goto
  <2>2. from[r] \in IP
    BY <1>0 DEF TypeOK
  <2> QED BY <1>1, <1>4, <2>1, <2>2 DEF Recheck, Check
<1>5. ASSUME NEW r \in Request, LoginReturn(r) PROVE Tallied'
  <2>1. Handlers
    BY <1>0, <1>5, RequestAssumption DEF LoginReturn, Return, Goto, TypeOK
  <2> QED BY <1>1, <1>5, <2>1 DEF LoginReturn, limiter
<1>6. ASSUME NEW r \in Request, FailReturn(r) PROVE Tallied'
  <2>1. Handlers
    BY <1>0, <1>6, RequestAssumption DEF FailReturn, Return, Goto, TypeOK
  <2>2. ips' \in [IP -> Bounded] /\ sentence' \in [IP -> Sentence] /\ Sentenced'
    BY <1>6, FailTallies
  <2>3. ~GlobalDenied(now) /\ from[r] \in IP /\ Fail(from[r]) /\ now' = now
    BY <1>0, <1>6 DEF FailReturn, IInv, NoLoginWhileDenied, Allowed, TypeOK
  <2>4. globalStart' \in 0..MaxTime /\ globalFails' \in 0..GlobalFailures
    BY <1>0, <2>3, ThresholdsAssumption DEF Fail, limiter, GlobalDenied
  <2>5. LimiterTypeOK'
    BY <1>0, <2>2, <2>3, <2>4 DEF LimiterTypeOK, Bounded
  <2>6. bad' \in [IP -> Seq(1..MaxTime)] /\ anyBad' \in Seq(1..MaxTime)
    <3>1. bad \in [IP -> Seq(1..MaxTime)] /\ anyBad \in Seq(1..MaxTime)
      BY <1>0 DEF TypeOK
    <3>2. Append(bad[from[r]], now) \in Seq(1..MaxTime)
          /\ Append(anyBad, now) \in Seq(1..MaxTime)
      BY <1>0, <2>3, <3>1
    <3> QED BY <1>6, <2>3, <3>1, <3>2 DEF FailReturn
  <2>7. TypeOK'
    BY <2>1, <2>2, <2>5, <2>6 DEF TypeOK, Sentence
  <2> QED BY <2>2, <2>7 DEF Tallied
<1>7. CASE Clock
  <2>1. now' = now + 1 /\ now' \in 1..MaxTime /\ UNCHANGED <<limiter, handler, history>>
    BY <1>0, <1>7, ThresholdsAssumption DEF Clock, Tick
  <2>2. TypeOK'
    BY <1>0, <2>1 DEF TypeOK, LimiterTypeOK, limiter, handler, history
  <2>3. \A ip \in IP : ips[ip] \in Bounded /\ sentence[ip] \in Sentence
    BY <1>0
  <2>4. Sentenced'
    BY <1>0, <2>1, <2>3, TimeRemembers DEF Sentenced, limiter, history
  <2> QED BY <2>2, <2>4 DEF Tallied
<1>8. CASE UNCHANGED vars
  <2>1. Handlers
    BY <1>0, <1>8 DEF vars, handler, TypeOK
  <2> QED BY <1>1, <1>8, <2>1 DEF vars, limiter, history
<1> QED BY <1>2, <1>3, <1>4, <1>5, <1>6, <1>7, <1>8 DEF Next, Step

\* The failure budget's counters stay within the thresholds: a window never
\* holds PerIPFailures failures, the global one never more than GlobalFailures,
\* no lockout is longer than MaxLockout, and exactly the holder of loginSlot is
\* past it, for any thresholds and any number of requests.
THEOREM TypeCorrect == Spec => []TypeOK
<1>1. Tallied => TypeOK
  BY DEF Tallied
<1> QED BY InitIInv, StepIInv, InitTallied, StepTallied, <1>1, PTL DEF Spec

\* Lockouts escalate as Config says for any thresholds, whatever the checks,
\* failures of other IPs and pruning in between: pruning drops an entry, and
\* normalizing its trips, only when the lockout no longer escalates.
THEOREM LockoutsEscalate == Spec => Escalates
<1> DEFINE Esc == \A ip \in IP : Escalation(ip)
<1>1. IInv /\ Tallied /\ [Next]_vars => [Esc]_vars
  <2> SUFFICES ASSUME IInv, Tallied, Next, NEW ip \in IP PROVE Escalation(ip)
    OBVIOUS
  <2>1. CASE \E r \in Request : FailReturn(r)
    BY <2>1, FailTallies
  <2>2. CASE UNCHANGED history
    BY <2>2 DEF history, Escalation
  <2> QED BY <2>1, <2>2 DEF Next, Step, Arrive, Acquire, GiveUp, Recheck, BadCredentials,
                            LoginReturn, Clock
<1> QED BY InitIInv, StepIInv, InitTallied, StepTallied, <1>1, PTL
        DEF Spec, Escalates, Escalation

-----------------------------------------------------------------------------
(* The rate of failures                                                    *)

\* How an entry st stands, at time t, to the failures s of its IP.  Without a
\* window, all but the last PerIPFailures - 2 are over a Window ago by the time
\* the IP may fail again.  In a window its failures are the last ones, the first
\* of them at its start, and of the window before all but the last
\* PerIPFailures - 2 are over a Window older than the start.
Paced(st, s, t) ==
  LET m == Len(s)
      f == st.failures
      w == st.windowStart
  IN
  /\ \A i \in 1..m : s[i] <= t
  /\ w = ZeroTime =>
       /\ f = 0
       /\ \A i \in 1..m :
            i <= m - PerIPFailures + 2 => s[i] + Window <= Greater(t, st.lockedUntil)
  /\ w # ZeroTime =>
       /\ w <= t /\ st.lockedUntil <= w /\ f \in 1..m
       /\ \A i \in 1..m : i <= m - f + 1 => s[i] <= w
       /\ \A i \in 1..m : i <= m - f - PerIPFailures + 2 => s[i] + Window <= w
  /\ Sparse(s, IPBurst)

\* The same for the global window, which opens again as soon as it is over.
GlobalPaced ==
  LET m == Len(anyBad)
      f == globalFails
  IN
  /\ \A i \in 1..m : anyBad[i] <= now
  /\ globalStart = ZeroTime => m = 0
  /\ globalStart # ZeroTime =>
       /\ globalStart <= now /\ f \in 1..m
       /\ \A i \in 1..m : i <= m - f + 1 => anyBad[i] <= globalStart
       /\ \A i \in 1..m : i <= m - f - GlobalFailures + 1 => anyBad[i] + Window <= globalStart
  /\ Sparse(anyBad, GlobalBurst)

Rated == (\A ip \in IP : Paced(ips[ip], bad[ip], now)) /\ GlobalPaced

LEMMA AppendAny ==
  ASSUME NEW S, NEW s \in Seq(S), NEW e \in S
  PROVE  /\ Len(s) \in Nat /\ Len(Append(s, e)) = Len(s) + 1
         /\ \A i \in 1..Len(s) : s[i] \in S /\ Append(s, e)[i] = s[i]
         /\ Append(s, e)[Len(s) + 1] = e
OBVIOUS

LEMMA AppendIs ==
  ASSUME NEW s \in Seq(1..MaxTime), NEW t \in 1..MaxTime
  PROVE  /\ Len(s) \in Nat /\ Len(Append(s, t)) = Len(s) + 1
         /\ \A i \in 1..Len(s) : s[i] \in 1..MaxTime /\ Append(s, t)[i] = s[i]
         /\ Append(s, t)[Len(s) + 1] = t
         /\ \A i \in 1..(Len(s) + 1) : i \in 1..Len(s) \/ i = Len(s) + 1
<1> DEFINE S == 1..MaxTime
<1> HIDE DEF S
<1>1. s \in Seq(S) /\ t \in S
  BY DEF S
<1>2. /\ Len(s) \in Nat /\ Len(Append(s, t)) = Len(s) + 1
      /\ \A i \in 1..Len(s) : s[i] \in S /\ Append(s, t)[i] = s[i]
      /\ Append(s, t)[Len(s) + 1] = t
  BY <1>1, AppendAny
<1>3. \A i \in 1..(Len(s) + 1) : i \in 1..Len(s) \/ i = Len(s) + 1
  BY <1>2
<1> QED BY <1>2, <1>3 DEF S

\* One more time, with all but the last n - 1 of the others a Window before it.
LEMMA SparseAppend ==
  ASSUME NEW s \in Seq(1..MaxTime), NEW n \in Nat \ {0}, NEW t \in 1..MaxTime,
         Sparse(s, n),
         \A i \in 1..Len(s) : i <= Len(s) + 1 - n => s[i] + Window <= t
  PROVE  Sparse(Append(s, t), n)
<1> DEFINE a == Append(s, t)
           m == Len(s)
<1>1. /\ m \in Nat /\ Len(a) = m + 1 /\ a[m + 1] = t
      /\ \A i \in 1..m : s[i] \in 1..MaxTime /\ a[i] = s[i]
      /\ \A i \in 1..(m + 1) : i \in 1..m \/ i = m + 1
  BY AppendIs
<1> HIDE DEF a
<1> SUFFICES ASSUME NEW i \in 1..(m + 1), NEW j \in 1..(m + 1), i + n <= j
             PROVE  a[i] + Window <= a[j]
  BY <1>1 DEF Sparse, a
<1>2. i \in 1..m
  BY <1>1
<1>3. CASE j \in 1..m
  BY <1>1, <1>2, <1>3 DEF Sparse
<1>4. CASE j = m + 1
  <2>1. i <= m + 1 - n
    BY <1>1, <1>4
  <2> QED BY <1>1, <1>2, <1>4, <2>1
<1> QED BY <1>1, <1>3, <1>4

\* Normalizing touches no window: one is never older than the last lockout.
LEMMA NormalizePaced ==
  ASSUME NEW st \in Bounded, NEW s, NEW t \in 1..MaxTime, Paced(st, s, t)
  PROVE  Paced(Normalize(st, t), s, t)
<1> DEFINE new == Normalize(st, t)
<1>1. new.lockedUntil = st.lockedUntil
  BY NormalizeBounded
<1>2. /\ st.windowStart = 0 => st.failures = 0
      /\ st.windowStart # 0 => st.lockedUntil <= st.windowStart
      /\ st.windowStart \in Nat /\ st.lockedUntil \in Nat
  BY ThresholdsAssumption DEF Paced, ZeroTime, Bounded
<1>3. new.windowStart = st.windowStart /\ new.failures = st.failures
  <2>1. CASE st.lockedUntil = ZeroTime \/ Locked(st, t)
    BY <2>1 DEF Normalize
  <2>2. CASE ~(st.lockedUntil = ZeroTime \/ Locked(st, t))
    <3> DEFINE stale == st.windowStart < st.lockedUntil
               f == IF stale THEN 0 ELSE st.failures
               w == IF stale THEN ZeroTime ELSE st.windowStart
               n == IF t - st.lockedUntil >= EscalationReset THEN 0 ELSE st.trips
    <3>1. new = [st EXCEPT !.failures = f, !.windowStart = w, !.trips = n]
      BY <2>2 DEF Normalize, Bounded
    <3>2. f = st.failures /\ w = st.windowStart
      BY <1>2 DEF ZeroTime
    <3> HIDE DEF f, w, n
    <3> QED BY <3>1, <3>2 DEF Bounded
  <2> QED BY <2>1, <2>2
<1> HIDE DEF new
<1> QED BY <1>1, <1>3 DEF Paced, new

LEMMA PacedTypes ==
  ASSUME NEW st \in Bounded, NEW s \in Seq(1..MaxTime)
  PROVE  /\ Len(s) \in Nat /\ \A i \in 1..Len(s) : s[i] \in 1..MaxTime
         /\ st.windowStart \in Nat /\ st.lockedUntil \in Nat
         /\ st.failures \in Nat /\ st.failures <= PerIPFailures - 1
         /\ Window \in Nat /\ PerIPFailures \in Nat \ {0}
<1>1. 1 \in 1..MaxTime
  BY ThresholdsAssumption
<1>2. Len(s) \in Nat /\ \A i \in 1..Len(s) : s[i] \in 1..MaxTime
  BY <1>1, AppendIs
<1> QED BY <1>2, ThresholdsAssumption DEF Bounded

\* Outside window and lockout, all but the last PerIPFailures - 2 failures are
\* over a Window ago.
LEMMA Settled ==
  ASSUME NEW st \in Bounded, NEW s \in Seq(1..MaxTime), NEW t \in 1..MaxTime,
         Paced(st, s, t), ~Locked(st, t), ~Open(st.windowStart, t)
  PROVE  \A i \in 1..Len(s) : i <= Len(s) - PerIPFailures + 2 => s[i] + Window <= t
<1> DEFINE m == Len(s)
           w == st.windowStart
           f == st.failures
           N == PerIPFailures
<1>1. /\ m \in Nat /\ \A i \in 1..m : s[i] \in 1..MaxTime
      /\ w \in Nat /\ st.lockedUntil \in Nat /\ f \in Nat /\ f <= N - 1
      /\ Window \in Nat /\ N \in Nat \ {0}
  BY PacedTypes
<1>2. t >= st.lockedUntil /\ (w = 0 \/ w + Window <= t)
  BY <1>1 DEF Locked, Open, ZeroTime
<1>3. CASE w = 0
  <2>1. Greater(t, st.lockedUntil) = t
    BY <1>1, <1>2 DEF Greater
  <2> QED BY <1>3, <2>1 DEF Paced, ZeroTime
<1>4. CASE w # 0
  <2>1. \A i \in 1..m : i <= m - f + 1 => s[i] <= w
    BY <1>4 DEF Paced, ZeroTime
  <2>2. \A i \in 1..m : i <= m - N + 2 => s[i] + Window <= t
    <3> HIDE DEF m, w, f, N
    <3> QED BY <1>1, <1>2, <1>4, <2>1
  <2> QED BY <2>2
<1> QED BY <1>3, <1>4

\* prune drops an entry only when neither its window nor its lockout counts.
LEMMA PrunePaced ==
  ASSUME NEW st \in Bounded, NEW s \in Seq(1..MaxTime), NEW t \in 1..MaxTime,
         Paced(st, s, t)
  PROVE  Paced(IF WorthKeeping(st, t) THEN st ELSE Blank, s, t)
<1>1. CASE WorthKeeping(st, t)
  BY <1>1
<1>2. CASE ~WorthKeeping(st, t)
  <2>1. \A i \in 1..Len(s) : i <= Len(s) - PerIPFailures + 2 => s[i] + Window <= t
    BY <1>2, Settled DEF WorthKeeping
  <2>2. /\ Blank.windowStart = ZeroTime /\ Blank.failures = 0
        /\ Greater(t, Blank.lockedUntil) = t
    BY DEF Blank, ZeroTime, Greater
  <2>3. (\A i \in 1..Len(s) : s[i] <= t) /\ Sparse(s, IPBurst)
    BY DEF Paced
  <2>4. Paced(Blank, s, t)
    BY <2>1, <2>2, <2>3 DEF Paced
  <2> QED BY <1>2, <2>4
<1> QED BY <1>1, <1>2

\* A failure that counts.
LEMMA CountedPaced ==
  ASSUME NEW st \in Bounded, NEW s \in Seq(1..MaxTime), NEW t \in 1..MaxTime,
         Paced(st, s, t), ~Locked(st, t)
  PROVE  Paced(Counted(st, t), Append(s, t), t)
<1> DEFINE m == Len(s)
           w == st.windowStart
           f == st.failures
           N == PerIPFailures
           a == Append(s, t)
           open == Open(st.windowStart, t)
           n == (IF open THEN f ELSE 0) + 1
           l == Lockout(st.trips + 1)
           v == IF open THEN w ELSE t
           trip == [failures |-> 0, windowStart |-> ZeroTime, trips |-> st.trips + 1,
                    lockedUntil |-> t + l]
           more == [st EXCEPT !.failures = n, !.windowStart = v]
<1>1. /\ m \in Nat /\ \A i \in 1..m : s[i] \in 1..MaxTime
      /\ w \in Nat /\ st.lockedUntil \in Nat /\ f \in Nat /\ f <= N - 1
      /\ Window \in Nat /\ N \in Nat \ {0}
  BY PacedTypes
<1>2. /\ Len(a) = m + 1 /\ a[m + 1] = t
      /\ \A i \in 1..m : a[i] = s[i]
      /\ \A i \in 1..(m + 1) : i \in 1..m \/ i = m + 1
  BY AppendIs
<1>3. Counted(st, t) = IF n >= N THEN trip ELSE more
  BY DEF Counted, Bounded
<1>4. \A i \in 1..m : s[i] <= t
  BY DEF Paced
<1>5. \A i \in 1..(m + 1) : a[i] <= t
  <2> HIDE DEF a, m
  <2> QED BY <1>2, <1>4
<1>6. st.lockedUntil <= t
  BY <1>1 DEF Locked
<1>7. open => /\ w # 0 /\ w <= t /\ st.lockedUntil <= w /\ f \in 1..m
              /\ \A i \in 1..m : i <= m - f + 1 => s[i] <= w
              /\ \A i \in 1..m : i <= m - f - N + 2 => s[i] + Window <= w
  BY DEF Paced, Open, ZeroTime
<1>8. ~open => \A i \in 1..m : i <= m - N + 2 => s[i] + Window <= t
  BY Settled
<1>9. IPBurst \in Nat \ {0} /\ IPBurst >= 2 * N - 2
  BY <1>1 DEF IPBurst, Greater
<1>10. Sparse(s, IPBurst)
  BY DEF Paced
<1>11. l \in Nat /\ l >= Window
  BY LockoutLasts DEF Bounded
<1>12. Sparse(a, IPBurst)
  <2> DEFINE K == IPBurst
  <2>1. \A i \in 1..m : i <= m + 1 - K => s[i] + Window <= t
    <3> HIDE DEF m, w, f, N, open, K
    <3>1. CASE open
      BY <1>1, <1>7, <1>9, <3>1 DEF K
    <3>2. CASE ~open
      <4>1. \A i \in 1..m : i <= m + 1 - K => i <= m - N + 2
        BY <1>1, <1>9 DEF K
      <4> QED BY <1>8, <3>2, <4>1
    <3> QED BY <3>1, <3>2
  <2> QED BY <1>9, <1>10, <2>1, SparseAppend
<1>13. CASE n >= N
  <2>1. Greater(t, trip.lockedUntil) = t + l
    <3> HIDE DEF l
    <3> QED BY <1>11 DEF Greater
  <2>2. \A i \in 1..(m + 1) : a[i] + Window <= t + l
    <3>1. \A i \in 1..(m + 1) : a[i] \in Nat
      <4> HIDE DEF a, m
      <4> QED BY <1>1, <1>2
    <3> HIDE DEF a, m, l
    <3> QED BY <1>1, <1>5, <1>11, <3>1
  <2>3. trip.failures = 0 /\ trip.windowStart = ZeroTime
    OBVIOUS
  <2> HIDE DEF trip, a, l, m
  <2>4. Paced(trip, a, t)
    BY <1>2, <1>5, <1>12, <2>1, <2>2, <2>3 DEF Paced
  <2> QED BY <1>3, <1>13, <2>4 DEF a
<1>14. CASE ~(n >= N)
  <2>1. more.failures = n /\ more.windowStart = v /\ more.lockedUntil = st.lockedUntil
    <3> HIDE DEF n, v
    <3> QED BY DEF Bounded
  <2>2. v # 0 /\ v <= t /\ st.lockedUntil <= v /\ n \in 1..(m + 1) /\ N >= 2
    <3> HIDE DEF open, m, w, f, N
    <3> QED BY <1>1, <1>6, <1>7, <1>14
  <2>3. \A i \in 1..(m + 1) : i <= (m + 1) - n + 1 => a[i] <= v
    <3> HIDE DEF open, m, w, f, N, a
    <3>1. CASE open
      <4>1. n = f + 1 /\ v = w
        BY <3>1
      <4>2. \A i \in 1..(m + 1) : i <= (m + 1) - n + 1 => i \in 1..m /\ i <= m - f + 1
        BY <1>1, <1>7, <3>1, <4>1
      <4> QED BY <1>2, <1>7, <3>1, <4>1, <4>2
    <3>2. CASE ~open
      BY <1>5, <3>2
    <3> QED BY <3>1, <3>2
  <2>4. \A i \in 1..(m + 1) : i <= (m + 1) - n - N + 2 => a[i] + Window <= v
    <3> HIDE DEF open, m, w, f, N, a
    <3>1. CASE open
      <4>1. n = f + 1 /\ v = w
        BY <3>1
      <4>2. \A i \in 1..(m + 1) : i <= (m + 1) - n - N + 2 => i \in 1..m /\ i <= m - f - N + 2
        BY <1>1, <1>7, <2>2, <3>1, <4>1
      <4> QED BY <1>2, <1>7, <3>1, <4>1, <4>2
    <3>2. CASE ~open
      <4>1. n = 1 /\ v = t
        BY <3>2
      <4>2. \A i \in 1..(m + 1) : i <= (m + 1) - n - N + 2 => i \in 1..m /\ i <= m - N + 2
        BY <1>1, <2>2, <4>1
      <4> QED BY <1>2, <1>8, <3>2, <4>1, <4>2
    <3> QED BY <3>1, <3>2
  <2> HIDE DEF more, n, v, m, a, N, open
  <2>5. Paced(more, a, t)
    BY <1>2, <1>5, <1>12, <2>1, <2>2, <2>3, <2>4 DEF Paced, ZeroTime, N
  <2> QED BY <1>3, <1>14, <2>5 DEF a
<1> QED BY <1>13, <1>14

LEMMA TimePaced ==
  ASSUME NEW st \in Bounded, NEW s \in Seq(1..MaxTime), NEW t \in 1..MaxTime,
         Paced(st, s, t)
  PROVE  Paced(st, s, t + 1)
<1>1. Len(s) \in Nat /\ \A i \in 1..Len(s) : s[i] \in 1..MaxTime
  BY AppendIs
<1>2. st.lockedUntil \in Nat /\ st.windowStart \in Nat
  BY ThresholdsAssumption DEF Bounded
<1>3. Greater(t, st.lockedUntil) <= Greater(t + 1, st.lockedUntil)
      /\ Greater(t, st.lockedUntil) \in Nat /\ Greater(t + 1, st.lockedUntil) \in Nat
  BY <1>2 DEF Greater
<1> DEFINE g == Greater(t, st.lockedUntil)
           h == Greater(t + 1, st.lockedUntil)
<1> HIDE DEF g, h
<1>4. \A i \in 1..Len(s) : s[i] <= t + 1 /\ (s[i] + Window <= g => s[i] + Window <= h)
  <2>1. \A i \in 1..Len(s) : s[i] <= t
    BY DEF Paced
  <2>2. g <= h /\ g \in Nat /\ h \in Nat /\ Window \in Nat
    BY <1>3, ThresholdsAssumption DEF g, h
  <2> QED BY <1>1, <2>1, <2>2
<1>5. st.windowStart <= t => st.windowStart <= t + 1
  BY <1>2
<1> QED BY <1>4, <1>5 DEF Paced, g, h

\* A recorded failure and the global window: NoLoginWhileDenied has kept it from
\* being one too many.
LEMMA GlobalCounted ==
  ASSUME Tallied, GlobalPaced, ~GlobalDenied(now), NEW ip \in IP, Fail(ip),
         ~Locked(Normalize(ips[ip], now), now), now' = now, anyBad' = Append(anyBad, now)
  PROVE  GlobalPaced'
<1> DEFINE s == anyBad
           a == anyBad'
           m == Len(anyBad)
           w == globalStart
           f == globalFails
           G == GlobalFailures
           open == Open(globalStart, now)
           n == (IF open THEN f ELSE 0) + 1
           v == IF open THEN w ELSE now
<1>1. /\ now \in 1..MaxTime /\ s \in Seq(1..MaxTime) /\ w \in Nat /\ f \in Nat /\ f <= G
      /\ Window \in Nat /\ G \in Nat \ {0}
  BY ThresholdsAssumption DEF Tallied, TypeOK, LimiterTypeOK
<1>2. /\ m \in Nat /\ Len(a) = m + 1 /\ a[m + 1] = now
      /\ \A i \in 1..m : s[i] \in 1..MaxTime /\ a[i] = s[i]
      /\ \A i \in 1..(m + 1) : i \in 1..m \/ i = m + 1
  BY <1>1, AppendIs
<1>3. globalFails' = n /\ globalStart' = v
  BY DEF Fail
<1>4. /\ \A i \in 1..m : s[i] <= now
      /\ w = 0 => m = 0
      /\ w # 0 => /\ w <= now /\ f \in 1..m
                  /\ \A i \in 1..m : i <= m - f + 1 => s[i] <= w
                  /\ \A i \in 1..m : i <= m - f - G + 1 => s[i] + Window <= w
      /\ Sparse(s, GlobalBurst)
  BY DEF GlobalPaced, ZeroTime
<1>5. (open => w # 0 /\ f < G) /\ (~open => w = 0 \/ w + Window <= now)
  BY <1>1 DEF GlobalDenied, Open, ZeroTime
<1>6. GlobalBurst \in Nat \ {0} /\ GlobalBurst = 2 * G - 1
  BY <1>1 DEF GlobalBurst
<1> DEFINE K == GlobalBurst
<1> HIDE DEF s, a, m, w, f, G, open, K
<1>7. \A i \in 1..(m + 1) : a[i] <= now
  BY <1>2, <1>4, <1>1
\* The failures before the window that is open from now on.
<1>8. ~open => \A i \in 1..m : i <= m - G + 1 => s[i] + Window <= now
  <2> SUFFICES ASSUME ~open, NEW i \in 1..m, i <= m - G + 1 PROVE s[i] + Window <= now
    OBVIOUS
  <2>1. w # 0 /\ w + Window <= now /\ s[i] \in Nat
    BY <1>1, <1>2, <1>4, <1>5
  <2>2. s[i] <= w
    BY <1>1, <1>2, <1>4, <2>1
  <2> QED BY <1>1, <2>1, <2>2
<1>9. \A i \in 1..m : i <= m + 1 - K => s[i] + Window <= now
  <2> SUFFICES ASSUME NEW i \in 1..m, i <= m + 1 - K PROVE s[i] + Window <= now
    OBVIOUS
  <2>1. K = 2 * G - 1 /\ s[i] \in Nat
    BY <1>2, <1>6 DEF K
  <2>2. CASE open
    <3>1. i <= m - f - G + 1 /\ w <= now
      BY <1>1, <1>2, <1>4, <1>5, <2>1, <2>2
    <3> QED BY <1>1, <1>4, <1>5, <2>1, <2>2, <3>1
  <2>3. CASE ~open
    <3>1. i <= m - G + 1
      BY <1>1, <1>2, <2>1
    <3> QED BY <1>8, <2>3, <3>1
  <2> QED BY <2>2, <2>3
<1>10. Sparse(a, GlobalBurst)
  <2>1. s \in Seq(1..MaxTime) /\ K \in Nat \ {0} /\ m = Len(s) /\ a = Append(s, now)
        /\ Sparse(s, K)
    BY <1>1, <1>4, <1>6 DEF K, m, s, a
  <2> QED BY <1>1, <1>9, <2>1, SparseAppend DEF K
<1>11. v # 0 /\ v <= now /\ n \in 1..(m + 1)
  BY <1>1, <1>2, <1>4, <1>5
<1>12. \A i \in 1..(m + 1) : i <= (m + 1) - n + 1 => a[i] <= v
  <2>1. CASE open
    <3>1. n = f + 1 /\ v = w
      BY <2>1
    <3>2. \A i \in 1..(m + 1) : i <= (m + 1) - n + 1 => i \in 1..m /\ i <= m - f + 1
      BY <1>1, <1>2, <1>4, <1>5, <2>1, <3>1
    <3> QED BY <1>2, <1>4, <1>5, <2>1, <3>1, <3>2
  <2>2. CASE ~open
    BY <1>7, <2>2
  <2> QED BY <2>1, <2>2
<1>13. \A i \in 1..(m + 1) : i <= (m + 1) - n - G + 1 => a[i] + Window <= v
  <2>1. CASE open
    <3>1. n = f + 1 /\ v = w
      BY <2>1
    <3>2. \A i \in 1..(m + 1) : i <= (m + 1) - n - G + 1 => i \in 1..m /\ i <= m - f - G + 1
      BY <1>1, <1>2, <1>4, <1>5, <2>1, <3>1
    <3> QED BY <1>2, <1>4, <1>5, <2>1, <3>1, <3>2
  <2>2. CASE ~open
    <3>1. n = 1 /\ v = now
      BY <2>2
    <3>2. \A i \in 1..(m + 1) : i <= (m + 1) - n - G + 1 => i \in 1..m /\ i <= m - G + 1
      BY <1>1, <1>2, <3>1
    <3> QED BY <1>2, <1>8, <2>2, <3>1, <3>2
  <2> QED BY <2>1, <2>2
<1> HIDE DEF n, v
<1>14. Len(anyBad') = m + 1
  BY <1>2 DEF a
<1> QED BY <1>2, <1>3, <1>7, <1>10, <1>11, <1>12, <1>13, <1>14 DEF GlobalPaced, ZeroTime, a, G

LEMMA InitRated == Init => Rated
<1> SUFFICES ASSUME Init PROVE Rated
  OBVIOUS
<1>1. Len(<<>>) = 0 /\ 1..0 = {} /\ Blank.windowStart = ZeroTime /\ Blank.failures = 0
  BY DEF Blank
<1>2. \A ip \in IP : ips[ip] = Blank /\ bad[ip] = <<>>
  BY DEF Init, LimiterInit
<1>3. \A ip \in IP : Paced(ips[ip], bad[ip], now)
  BY <1>1, <1>2 DEF Paced, Sparse
<1>4. GlobalPaced
  BY <1>1 DEF Init, LimiterInit, GlobalPaced, Sparse
<1> QED BY <1>3, <1>4 DEF Rated

LEMMA StepRated == IInv /\ Tallied /\ Rated /\ [Next]_vars => Rated'
<1> SUFFICES ASSUME IInv, Tallied, Rated, [Next]_vars PROVE Rated'
  OBVIOUS
<1>0. /\ now \in 1..MaxTime /\ ips \in [IP -> Bounded]
      /\ bad \in [IP -> Seq(1..MaxTime)] /\ anyBad \in Seq(1..MaxTime)
      /\ \A ip \in IP : Paced(ips[ip], bad[ip], now)
      /\ GlobalPaced
  BY DEF Tallied, TypeOK, LimiterTypeOK, Bounded, Rated
\* Every step but a recorded failure and the clock's.
<1>1. ASSUME UNCHANGED <<now, globalStart, globalFails, history>>,
             UNCHANGED ips \/ \E ip \in IP : ips' = [ips EXCEPT ![ip] = Normalize(@, now)]
      PROVE  Rated'
  <2>1. \A x \in IP : ips'[x] \in {ips[x], Normalize(ips[x], now)}
    BY <1>0, <1>1
  <2>2. \A x \in IP : ips[x] \in Bounded
    BY <1>0
  <2>3. \A x \in IP : Paced(ips'[x], bad[x], now)
    BY <1>0, <2>1, <2>2, NormalizePaced
  <2>4. GlobalPaced'
    BY <1>0, <1>1 DEF GlobalPaced, history
  <2> QED BY <1>1, <2>3, <2>4 DEF Rated, history
<1>2. ASSUME NEW r \in Request, FailReturn(r) PROVE Rated'
  <2> DEFINE ip == from[r]
             st == Normalize(ips[ip], now)
             c  == Counted(st, now)
             kept(e) == IF WorthKeeping(e, now) THEN e ELSE Blank
  <2>1. ip \in IP /\ Fail(ip) /\ now' = now /\ Allowed(ip, now)
        /\ bad' = [bad EXCEPT ![ip] = Append(@, now)] /\ anyBad' = Append(anyBad, now)
    BY <1>2 DEF FailReturn, IInv, Times, NoLoginWhileDenied
  <2>2. ips[ip] \in Bounded /\ bad[ip] \in Seq(1..MaxTime) /\ ~Locked(ips[ip], now)
    BY <1>0, <2>1 DEF Allowed
  <2>3. st \in Bounded /\ st.lockedUntil = ips[ip].lockedUntil /\ Paced(st, bad[ip], now)
    BY <1>0, <2>1, <2>2, NormalizeBounded, NormalizePaced
  <2>4. ~Locked(st, now)
    <3> HIDE DEF st
    <3> QED BY <2>2, <2>3 DEF Locked
  <2>5. ips' = Pruned([ips EXCEPT ![ip] = c], now)
    BY <2>1, <2>4 DEF Fail
  <2> HIDE DEF st
  <2>6. c \in Bounded
    BY <1>0, <2>3, CountedBounded
  <2>7. Paced(c, Append(bad[ip], now), now)
    BY <1>0, <2>2, <2>3, <2>4, CountedPaced
  <2> HIDE DEF c
  <2>8. ips'[ip] = kept(c) /\ \A x \in IP \ {ip} : ips'[x] = kept(ips[x])
    BY <1>0, <2>1, <2>5 DEF Pruned
  <2>9. bad'[ip] = Append(bad[ip], now) /\ \A x \in IP \ {ip} : bad'[x] = bad[x]
    BY <1>0, <2>1
  <2>10. Append(bad[ip], now) \in Seq(1..MaxTime)
    BY <1>0, <2>2
  <2>11. Paced(ips'[ip], bad'[ip], now)
    BY <1>0, <2>6, <2>7, <2>8, <2>9, <2>10, PrunePaced
  <2>12. ASSUME NEW x \in IP \ {ip} PROVE Paced(ips'[x], bad'[x], now)
    <3>1. ips[x] \in Bounded /\ bad[x] \in Seq(1..MaxTime) /\ Paced(ips[x], bad[x], now)
      BY <1>0
    <3>2. Paced(kept(ips[x]), bad[x], now)
      BY <1>0, <3>1, PrunePaced
    <3> QED BY <2>8, <2>9, <3>2
  <2>13. GlobalPaced'
    BY <1>0, <2>1, <2>4, GlobalCounted DEF Allowed, st
  <2> QED BY <2>1, <2>11, <2>12, <2>13 DEF Rated
<1>3. CASE Clock
  <2>1. now' = now + 1 /\ UNCHANGED <<limiter, handler, history>>
    BY <1>3 DEF Clock, Tick
  <2>2. \A x \in IP : Paced(ips[x], bad[x], now + 1)
    <3>1. \A x \in IP : ips[x] \in Bounded /\ bad[x] \in Seq(1..MaxTime)
      BY <1>0
    <3> QED BY <1>0, <3>1, TimePaced
  <2>3. GlobalPaced'
    <3>1. \A i \in 1..Len(anyBad) : anyBad[i] \in 1..MaxTime /\ anyBad[i] <= now
      BY <1>0, AppendIs DEF GlobalPaced
    <3>2. \A i \in 1..Len(anyBad) : anyBad[i] <= now + 1
      BY <1>0, <3>1
    <3>3. globalStart <= now => globalStart <= now + 1
      BY <1>0 DEF Tallied, TypeOK, LimiterTypeOK
    <3> QED BY <1>0, <2>1, <3>2, <3>3 DEF GlobalPaced, limiter, history
  <2> QED BY <2>1, <2>2, <2>3 DEF Rated, limiter, history
<1>4. ASSUME NEW r \in Request, NEW ip \in IP, Arrive(r, ip) PROVE Rated'
  BY <1>1, <1>4 DEF Arrive, Check
<1>5. ASSUME NEW r \in Request, Recheck(r) PROVE Rated'
  <2>1. from[r] \in IP
    BY DEF IInv, Times
  <2> QED BY <1>1, <1>5, <2>1 DEF Recheck, Check
<1>6. ASSUME NEW r \in Request,
             Acquire(r) \/ GiveUp(r) \/ BadCredentials(r) \/ LoginReturn(r)
      PROVE  Rated'
  BY <1>1, <1>6 DEF Acquire, GiveUp, BadCredentials, LoginReturn, limiter
<1>7. CASE UNCHANGED vars
  BY <1>1, <1>7 DEF vars, limiter
<1> QED BY <1>2, <1>3, <1>4, <1>5, <1>6, <1>7 DEF Next, Step

\* Fail, Check and prune, for any thresholds, IPs, requests and horizon: no
\* stretch of time as long as Window sees more wrong passwords reach AdGuard
\* than twice the budget allows for, from one IP or in all.
THEOREM FailureRate == Spec => []FailureRateBounded
<1>1. Rated => FailureRateBounded
  BY DEF Rated, Paced, GlobalPaced, FailureRateBounded
<1> QED BY InitIInv, StepIInv, InitTallied, StepTallied, InitRated, StepRated, <1>1, PTL
        DEF Spec
=============================================================================
