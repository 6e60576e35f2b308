------------------------------- MODULE Timers -------------------------------
(***************************************************************************)
(* The grant engine with Go's timers in full.  Grants keeps the keys of    *)
(* Engine.timers and lets a callback come whenever it likes; here every    *)
(* time.AfterFunc is a handle that runs, fires (its callback then waits    *)
(* for Engine.mu and can no longer be stopped) and is gone once stopped or *)
(* called back.  Each action is the one of Grants together with what it    *)
(* does to the handles, so every behaviour here is a behaviour of Grants.  *)
(***************************************************************************)
EXTENDS Grants

CONSTANT MaxHandles    \* bound: timers alive at the same time

ASSUME HandlesAssumption == MaxHandles \in Nat

Handle   == 1..MaxHandles
NoHandle == 0

VARIABLES
  handle,    \* [Handle -> the timer's grant, when it is due, its state]
  entry      \* Engine.timers: the grant's handle, or NoHandle

timerVars == <<handle, entry>>
tvars     == <<vars, timerVars>>

Free == [grant |-> NoGrant, due |-> 0, state |-> "free"]

TimerTypeOK ==
  /\ handle \in [Handle -> [grant : GrantId \cup {NoGrant}, due : 0..MaxTime,
                            state : {"free", "running", "fired"}]]
  /\ entry \in [GrantId -> Handle \cup {NoHandle}]
  /\ timers = {g \in GrantId : entry[g] # NoHandle}
  /\ \A g \in timers : handle[entry[g]].grant = g

\* The handles that will yet call expire(g).
Pending(g) == {h \in Handle : handle[h].state # "free" /\ handle[h].grant = g}

-----------------------------------------------------------------------------
(* stopTimer and arm                                                       *)

\* t.Stop() has no effect on a timer that has already fired.
Stopped(H) ==
  [h \in Handle |-> IF h \in H /\ handle[h].state = "running" THEN Free
                                                              ELSE handle[h]]

\* Mutant: the stopped timer stays in the map.
StopTimerKeepsEntry(g) == handle' = Stopped({entry[g]}) /\ UNCHANGED entry

StopTimer(g) ==
  /\ handle' = Stopped({entry[g]})
  /\ entry' = [entry EXCEPT ![g] = NoHandle]

\* A new handle among table (the handles after the old one was let go), due
\* at the row's end or at once when that has passed.
ArmIn(table, g, end) ==
  IF phase = "closed"
    THEN handle' = table /\ entry' = [entry EXCEPT ![g] = NoHandle]
    ELSE \E h \in Handle :
           /\ table[h] = Free
           /\ \A i \in 1..(h - 1) : table[i] # Free
           /\ handle' = [table EXCEPT ![h] =
                [grant |-> g, due |-> IF end < now THEN now ELSE end,
                 state |-> "running"]]
           /\ entry' = [entry EXCEPT ![g] = h]

ArmTimer(g, end) == ArmIn(Stopped({entry[g]}), g, end)

-----------------------------------------------------------------------------
(* The engine's operations                                                 *)

TimerInit ==
  /\ Init
  /\ handle = [h \in Handle |-> Free]
  /\ entry = [g \in GrantId |-> NoHandle]

\* The Go runtime starts the callback's goroutine.
Fire(h) ==
  /\ handle[h].state = "running" /\ now >= handle[h].due
  /\ handle' = [handle EXCEPT ![h].state = "fired"]
  /\ UNCHANGED <<vars, entry>>

\* expire deletes the map entry whichever handle that entry holds, and arms
\* a new timer only for a row that is not due yet.
Callback(h) ==
  LET g    == handle[h].grant
      gone == [handle EXCEPT ![h] = Free]
  IN
  /\ handle[h].state = "fired" /\ Expire(g)
  /\ IF g \in timers' THEN ArmIn(gone, g, endsAt[g])
                      ELSE handle' = gone /\ entry' = [entry EXCEPT ![g] = NoHandle]

\* Mutant: Extend leaves an armed timer where it was.
ExtendKeepsTimer(g, d) ==
  /\ Extend(g, d)
  /\ IF g \in timers THEN UNCHANGED timerVars ELSE ArmTimer(g, endsAt'[g])

\* Mutant: Extend stops the timer and forgets to arm another.
ExtendOnlyStops(g, d) == Extend(g, d) /\ StopTimer(g)

TimedExtend(g, d) == Extend(g, d) /\ ArmTimer(g, endsAt'[g])

TimedCreateReturn == CreateReturn /\ ArmTimer(cur, endsAt[cur])

\* Mutant: a pass arms the timers there are instead of those missing.
RepairArmsKnown ==
  /\ RepairReturn
  /\ IF cur \in timers THEN ArmTimer(cur, endsAt[cur]) ELSE UNCHANGED timerVars

TimedRepairReturn ==
  /\ RepairReturn
  /\ IF cur \in timers THEN UNCHANGED timerVars ELSE ArmTimer(cur, endsAt[cur])

TimedRevertReturn ==
  /\ RevertReturn
  /\ IF status' = status THEN UNCHANGED timerVars ELSE StopTimer(cur)

TimedClose ==
  /\ Close
  /\ handle' = Stopped({entry[g] : g \in timers})
  /\ entry' = [g \in GrantId |-> NoHandle]

TimedCrash ==
  /\ Crash
  /\ handle' = [h \in Handle |-> Free]
  /\ entry' = [g \in GrantId |-> NoHandle]

\* Operations and steps that touch no timer.
UntimedStep ==
  \/ UnblockRead \/ RevertList
  \/ ReconcileRead \/ ReconcileNext \/ ReconcileReturn
  \/ \E c \in Client : UnblockClient(c) \/ RevertClient(c)

TimedStep ==
  \/ TimedCreateReturn \/ TimedRepairReturn \/ TimedRevertReturn
  \/ UntimedStep /\ UNCHANGED timerVars

Untimed ==
  \/ \E r \in Requests, d \in Durations : CreateRow(r, d)
  \/ \E g \in GrantId : End(g)
  \/ ReconcileList \/ Restart \/ Tick \/ FaultsEnd \/ UI

TimerNext ==
  \/ TimedStep
  \/ \E g \in GrantId, d \in Durations : TimedExtend(g, d)
  \/ \E h \in Handle : Fire(h) \/ Callback(h)
  \/ TimedClose \/ TimedCrash
  \/ Untimed /\ UNCHANGED timerVars

TimerSpec == TimerInit /\ [][TimerNext]_tvars

\* The runtime fires due timers and their goroutines get the mutex; the rest
\* as in Grants, except that only the startup pass is asked of the reconciler.
TimerFairness ==
  /\ WF_tvars(TimedStep)
  /\ \A h \in Handle : WF_tvars(Fire(h)) /\ SF_tvars(Callback(h))
  /\ WF_tvars(phase = "boot" /\ ReconcileList /\ UNCHANGED timerVars)
  /\ WF_tvars(phase = "closed" /\ TimedCrash)
  /\ WF_tvars(Restart /\ UNCHANGED timerVars)

FairTimerSpec == TimerSpec /\ TimerFairness

-----------------------------------------------------------------------------
(* Properties                                                              *)

\* The timer in the map always stands for the end stored in the row: after an
\* Extend, also one racing a callback that has already fired, it is due at the
\* new end, or already due (arm, Extend, expire).
EntryDueAtEnd ==
  \A g \in timers : handle[entry[g]].due = endsAt[g] \/ handle[entry[g]].due <= now

\* A state is calm when no call fails any more.  A behaviour that starts calm
\* has no failed call and no crash; stops and restarts still happen in it.
Calm == ~faulty

WakeUp(g) == \E h \in Pending(g) : handle[h].due <= endsAt[g]

\* Without faults, a live grant is never left without a wake-up: while the
\* engine is idle some handle will call expire by its end, whatever callbacks,
\* extensions and restarts came before (Create, Extend, expire, Reconcile).
LiveGrantHasTimer ==
  Calm => [](phase = "serving" /\ pc = "idle" =>
               \A g \in Active : now < endsAt[g] => WakeUp(g))

\* Timers and the startup pass alone, with no periodic reconcile, get every
\* overdue grant off the active list when nothing fails.
TimersSuffice ==
  Calm => \A g \in GrantId :
            (g \in Active /\ now >= endsAt[g]) ~> ~(g \in Active /\ now >= endsAt[g])
=============================================================================
