---------------------------- MODULE TimersProofs ----------------------------
(***************************************************************************)
(* Proofs about the engine's timers, for any number of grants, handles,    *)
(* extensions and faults: every step of the timed engine is a step of      *)
(* Grants, the timer in the map stands for the end in the row, and, when   *)
(* nothing fails, every live grant has one.                                *)
(***************************************************************************)
EXTENDS Timers, GrantsProofs

HandleType ==
  [grant : GrantId \cup {NoGrant}, due : 0..MaxTime, state : {"free", "running", "fired"}]

\* A handle in use is some grant's, and one let go is blank: so a handle the
\* map points at is never handed out again.
HandlesOK ==
  /\ handle \in [Handle -> HandleType]
  /\ \A h \in Handle : handle[h].state = "free" <=> handle[h].grant = NoGrant

EntriesOK ==
  /\ entry \in [GrantId -> Handle \cup {NoHandle}]
  /\ timers = {g \in GrantId : entry[g] # NoHandle}
  /\ \A g \in timers : handle[entry[g]].grant = g

\* No row is created under an entry of the map.
EntryHasRow == \A g \in timers : status[g] # "none"

Shape == HandlesOK /\ EntriesOK

\* The parts of the inductive invariant that are about timers; Control is the
\* rest of it.
Rest == Shape /\ EntryHasRow /\ EntryDueAtEnd

\* The grants whose timer the operation at hand has yet to set: the one being
\* created; at boot, those the startup pass has not come to.
Awaited ==
  CASE phase = "boot" /\ pc \in {"idle", "pass_read"} -> GrantId
    [] phase = "boot" /\ pc \notin {"idle", "pass_read"} -> queue \cup {cur}
    [] phase # "boot" /\ pc \in {"unblock_read", "unblock"} -> {cur}
    [] OTHER -> {}

\* Nothing has failed, and every live grant is in the map or awaited.
CalmInv ==
  /\ ~faulty /\ ~failed
  /\ phase \in {"boot", "serving"} =>
       \A g \in Active : now < endsAt[g] => g \in timers \cup Awaited
  /\ pc = "pass_read" => Active \subseteq queue
  /\ phase = "down" => pc = "idle"

-----------------------------------------------------------------------------
(* The map and the handles                                                 *)

USE DEF store, adguard, engine, vars, timerVars, tvars, Handle, NoHandle, NoGrant, GrantId

\* A table of handles like that of HandlesOK that agrees with the present one
\* on the entries of every grant but g.
Table(table, g) ==
  /\ table \in [Handle -> HandleType]
  /\ \A h \in Handle : table[h].state = "free" <=> table[h].grant = NoGrant
  /\ \A f \in timers \ {g} : table[entry[f]] = handle[entry[f]]

LEMMA FreeType == Free \in HandleType /\ Free.state = "free" /\ Free.grant = NoGrant
BY BoundsAssumption DEF Free, HandleType

\* Stopping g's timer, or letting go of one that called back for g, leaves the
\* entries of the others alone.
LEMMA StoppedTable ==
  ASSUME Shape, NEW g \in GrantId
  PROVE  Table(Stopped({entry[g]}), g)
<1>1. \A h \in Handle : Stopped({entry[g]})[h] \in {handle[h], Free}
  BY DEF Stopped
<1>2. \A h \in Handle : h # entry[g] => Stopped({entry[g]})[h] = handle[h]
  BY DEF Stopped
<1>3. \A f \in timers \ {g} : entry[f] \in Handle /\ entry[f] # entry[g]
  BY DEF Shape, EntriesOK
<1>4. Stopped({entry[g]}) \in [Handle -> HandleType]
  BY FreeType DEF Stopped, Shape, HandlesOK
<1> QED BY <1>1, <1>2, <1>3, <1>4, FreeType DEF Table, Shape, HandlesOK

LEMMA FreedTable ==
  ASSUME Shape, NEW h \in Handle, NEW g \in GrantId, handle[h].grant = g
  PROVE  Table([handle EXCEPT ![h] = Free], g)
<1>1. \A f \in timers \ {g} : entry[f] \in Handle /\ entry[f] # h
  BY DEF Shape, EntriesOK
<1> QED BY <1>1, FreeType DEF Table, Shape, HandlesOK

\* What a step has done to the entries other than g's: nothing new, and what
\* is left points at the handle it did.
OthersKept(g) ==
  \A f \in timers' \ {g} : f \in timers /\ handle'[entry'[f]] = handle[entry[f]]

LEMMA DropEntry ==
  ASSUME Shape, NEW g \in GrantId, Table(handle', g),
         entry' = [entry EXCEPT ![g] = NoHandle], timers' = timers \ {g}
  PROVE  Shape' /\ OthersKept(g)
<1>1. HandlesOK'
  BY DEF Table, HandlesOK
<1>2. \A f \in GrantId : f # g => entry'[f] = entry[f]
  BY DEF Shape, EntriesOK
<1>3. OthersKept(g)
  BY <1>2 DEF OthersKept, Table, Shape, EntriesOK
<1>4. EntriesOK'
  BY <1>2, <1>3 DEF OthersKept, Shape, EntriesOK
<1> QED BY <1>1, <1>3, <1>4 DEF Shape

\* arm: the new handle is g's and due at the end, or at once.
LEMMA ArmedEntry ==
  ASSUME Shape, now \in 0..MaxTime, NEW g \in GrantId, NEW table, Table(table, g),
         NEW end \in 0..MaxTime, ArmIn(table, g, end), Arm(g)
  PROVE  /\ Shape' /\ OthersKept(g)
         /\ g \in timers' <=> phase # "closed"
         /\ g \in timers' => \/ handle'[entry'[g]].due = end
                             \/ handle'[entry'[g]].due <= now
<1>1. CASE phase = "closed"
  <2>1. /\ handle' = table /\ entry' = [entry EXCEPT ![g] = NoHandle]
        /\ timers' = timers \ {g}
    BY <1>1 DEF ArmIn, Arm
  <2> QED BY <1>1, <2>1, DropEntry
<1>2. CASE phase # "closed"
  <2> DEFINE new == [grant |-> g, due |-> IF end < now THEN now ELSE end, state |-> "running"]
  <2>1. PICK h \in Handle : /\ table[h] = Free
                            /\ handle' = [table EXCEPT ![h] = new]
                            /\ entry' = [entry EXCEPT ![g] = h]
    BY <1>2 DEF ArmIn
  <2>2. timers' = timers \cup {g}
    BY <1>2 DEF Arm
  <2>3. new \in HandleType /\ new.grant = g /\ new.state = "running"
        /\ (new.due = end \/ new.due <= now)
    BY DEF HandleType
  <2> HIDE DEF new
  <2>4. HandlesOK'
    BY <2>1, <2>3 DEF Table, HandlesOK
  <2>5. entry'[g] = h /\ handle'[h] = new
    BY <2>1 DEF Table, Shape, EntriesOK
  <2>6. \A f \in timers \ {g} :
          entry[f] \in Handle /\ entry[f] # h /\ entry'[f] = entry[f]
    BY <2>1, FreeType DEF Table, Shape, EntriesOK
  <2>7. OthersKept(g)
    BY <2>1, <2>2, <2>6 DEF OthersKept, Table
  <2>8. EntriesOK'
    <3>1. entry' \in [GrantId -> Handle \cup {NoHandle}]
      BY <2>1 DEF Shape, EntriesOK
    <3>2. timers' = {f \in GrantId : entry'[f] # NoHandle}
      BY <2>1, <2>2 DEF Shape, EntriesOK
    <3>3. \A f \in timers' : handle'[entry'[f]].grant = f
      BY <2>2, <2>3, <2>5, <2>7 DEF OthersKept, Shape, EntriesOK
    <3> QED BY <3>1, <3>2, <3>3 DEF EntriesOK
  <2> QED BY <1>2, <2>2, <2>3, <2>4, <2>5, <2>7, <2>8 DEF Shape
<1> QED BY <1>1, <1>2

-----------------------------------------------------------------------------
(* Every step of the timed engine is one of Grants                         *)

\* A handle in use calls expire for a grant there can be.
LEMMA UsedHandle ==
  ASSUME Shape, NEW h \in Handle, handle[h].state # "free"
  PROVE  handle[h].grant \in GrantId
BY DEF Shape, HandlesOK, HandleType

LEMMA StepIsStep ==
  ASSUME Shape, [TimerNext]_tvars
  PROVE  [Next]_vars
<1>1. ASSUME NEW h \in Handle, Callback(h) PROVE Next
  <2>1. handle[h].grant \in GrantId /\ Expire(handle[h].grant)
    BY <1>1, UsedHandle DEF Callback
  <2> QED BY <2>1 DEF Next
<1>2. ASSUME NEW h \in Handle, Fire(h) PROVE UNCHANGED vars
  BY <1>2 DEF Fire
<1>3. CASE TimedStep
  BY <1>3 DEF TimedStep, UntimedStep, TimedCreateReturn, TimedRepairReturn,
              TimedRevertReturn, Next, EngineStep
<1>4. ASSUME NEW g \in GrantId, NEW d \in Durations, TimedExtend(g, d) PROVE Next
  BY <1>4 DEF TimedExtend, Next, Parent
<1>5. CASE TimedClose \/ TimedCrash
  BY <1>5 DEF TimedClose, TimedCrash, Next
<1>6. CASE Untimed
  BY <1>6 DEF Untimed, Next, Parent
<1>7. CASE UNCHANGED tvars
  BY <1>7
<1> QED BY <1>1, <1>2, <1>3, <1>4, <1>5, <1>6, <1>7 DEF TimerNext

-----------------------------------------------------------------------------
(* The invariant, step by step                                             *)

\* The ends, the rows and the clock as far as the entries but g's depend on them.
RowsKept(g) ==
  /\ \A f \in timers \ {g} : endsAt'[f] = endsAt[f] /\ status'[f] # "none"
  /\ now' = now \/ (now' \in Nat /\ now' >= now)

\* A step that touches no timer.
LEMMA QuietKeeps ==
  ASSUME Control, Rest, UNCHANGED <<timers, handle, entry>>, RowsKept(NoGrant)
  PROVE  Rest'
<1>1. Shape' /\ EntryHasRow'
  BY DEF Rest, Shape, HandlesOK, EntriesOK, EntryHasRow, RowsKept
<1>2. \A f \in timers : handle[entry[f]].due \in Nat /\ now \in Nat
  BY DEF Control, TypeOK, Rest, Shape, HandlesOK, EntriesOK, HandleType
<1>3. EntryDueAtEnd'
  BY <1>2 DEF Rest, EntryDueAtEnd, RowsKept, Shape, EntriesOK
<1> QED BY <1>1, <1>3 DEF Rest

\* A step that deals with g's timer only.
LEMMA OneKeeps ==
  ASSUME Control, Rest, NEW g \in GrantId, Shape', OthersKept(g), RowsKept(g), now' = now,
         g \in timers' => /\ status'[g] # "none"
                          /\ \/ handle'[entry'[g]].due = endsAt'[g]
                             \/ handle'[entry'[g]].due <= now
  PROVE  Rest'
<1>1. EntryHasRow'
  BY DEF Rest, EntryHasRow, RowsKept, OthersKept
<1>2. EntryDueAtEnd'
  BY DEF Rest, EntryDueAtEnd, RowsKept, OthersKept
<1> QED BY <1>1, <1>2 DEF Rest

\* arm, on whatever table the step has made of the handles.
LEMMA ArmKeeps ==
  ASSUME Control, Rest, NEW g \in GrantId, NEW table, Table(table, g),
         ArmIn(table, g, endsAt'[g]), Arm(g), endsAt'[g] \in 0..MaxTime,
         RowsKept(g), now' = now, status'[g] # "none"
  PROVE  Rest'
<1>1. now \in 0..MaxTime /\ Shape
  BY DEF Control, TypeOK, Rest
<1>2. /\ Shape' /\ OthersKept(g)
      /\ g \in timers' => \/ handle'[entry'[g]].due = endsAt'[g]
                          \/ handle'[entry'[g]].due <= now
  BY <1>1, ArmedEntry
<1> QED BY <1>2, OneKeeps

\* stopTimer, and expire's delete.
LEMMA DropKeeps ==
  ASSUME Control, Rest, NEW g \in GrantId, Table(handle', g),
         entry' = [entry EXCEPT ![g] = NoHandle], timers' = timers \ {g},
         RowsKept(g), now' = now
  PROVE  Rest'
<1>1. Shape' /\ OthersKept(g)
  BY DropEntry DEF Rest
<1> QED BY <1>1, OneKeeps

LEMMA CallbackKeeps ==
  ASSUME Control, Rest, NEW h \in Handle, Callback(h)
  PROVE  Rest'
<1> DEFINE g == handle[h].grant
           gone == [handle EXCEPT ![h] = Free]
<1>1. g \in GrantId /\ Expire(g) /\ Shape
  BY UsedHandle DEF Callback, Rest
<1>2. Table(gone, g)
  BY <1>1, FreedTable
<1>3. IF g \in timers' THEN ArmIn(gone, g, endsAt[g])
                       ELSE handle' = gone /\ entry' = [entry EXCEPT ![g] = NoHandle]
  BY DEF Callback
<1> HIDE DEF g, gone
<1>4. /\ UNCHANGED <<status, endsAt, now>> /\ status[g] # "none"
      /\ endsAt[g] \in 0..MaxTime
  BY <1>1 DEF Expire, Control, TypeOK
<1>5. RowsKept(g)
  <2>1. \A f \in timers : endsAt'[f] = endsAt[f] /\ status'[f] = status[f]
    BY <1>4
  <2> QED BY <1>4, <2>1 DEF RowsKept, Rest, EntryHasRow
<1>6. CASE g \in timers'
  <2>1. Arm(g)
    BY <1>1, <1>6 DEF Expire
  <2> QED BY <1>1, <1>2, <1>3, <1>4, <1>5, <1>6, <2>1, ArmKeeps
<1>7. CASE g \notin timers'
  <2>1. timers' = timers \ {g}
    BY <1>1, <1>7 DEF Expire, Arm
  <2> QED BY <1>1, <1>2, <1>3, <1>4, <1>5, <1>7, <2>1, DropKeeps
<1> QED BY <1>6, <1>7

LEMMA FireKeeps ==
  ASSUME Control, Rest, NEW h \in Handle, Fire(h)
  PROVE  Rest'
<1>1. /\ handle' = [handle EXCEPT ![h].state = "fired"] /\ handle[h].state = "running"
      /\ UNCHANGED <<entry, timers, status, endsAt, now>>
  BY DEF Fire
<1>2. HandlesOK'
  BY <1>1 DEF Rest, Shape, HandlesOK, HandleType
<1>3. \A i \in Handle : handle'[i].grant = handle[i].grant /\ handle'[i].due = handle[i].due
  BY <1>1 DEF Rest, Shape, HandlesOK, HandleType
<1>4. \A f \in timers : entry[f] \in Handle
  BY DEF Rest, Shape, EntriesOK
<1>5. EntriesOK'
  BY <1>1, <1>3, <1>4 DEF Rest, Shape, EntriesOK
<1> QED BY <1>1, <1>2, <1>3, <1>4, <1>5 DEF Rest, Shape, EntryHasRow, EntryDueAtEnd

LEMMA RowsAreKept ==
  ASSUME Control, Rest, NEW g, UNCHANGED <<endsAt, status, now>>
  PROVE  RowsKept(g)
<1>1. \A f \in timers : endsAt'[f] = endsAt[f] /\ status'[f] = status[f]
  OBVIOUS
<1> QED BY <1>1 DEF RowsKept, Rest, EntryHasRow

LEMMA StepKeeps ==
  ASSUME Control, Rest, TimedStep
  PROVE  Rest'
<1> DEFINE alone == Stopped({entry[cur]})
<1>0. Control /\ Shape
  BY DEF Rest
<1>1. cur \in GrantId => Table(alone, cur)
  BY <1>0, StoppedTable
<1>2. cur \in Active => /\ cur \in GrantId /\ status[cur] # "none"
                        /\ endsAt[cur] \in 0..MaxTime
  BY DEF Active, Control, TypeOK
<1> HIDE DEF alone
<1>3. CASE TimedCreateReturn
  <2>1. cur \in Active /\ Arm(cur) /\ UNCHANGED <<endsAt, status, now>>
    BY <1>3 DEF TimedCreateReturn, CreateReturn, Control, OpState
  <2>2. ArmIn(alone, cur, endsAt[cur])
    BY <1>3 DEF TimedCreateReturn, ArmTimer, alone
  <2> QED BY <1>1, <1>2, <2>1, <2>2, RowsAreKept, ArmKeeps
<1>4. CASE TimedRepairReturn
  <2>1. cur \in Active /\ UNCHANGED <<endsAt, status, now>>
        /\ IF cur \in timers THEN UNCHANGED timers ELSE Arm(cur)
    BY <1>4 DEF TimedRepairReturn, RepairReturn, Control, OpState
  <2>2. IF cur \in timers THEN UNCHANGED timerVars
                          ELSE ArmIn(alone, cur, endsAt[cur])
    BY <1>4 DEF TimedRepairReturn, ArmTimer, alone
  <2>3. CASE cur \in timers
    BY <2>1, <2>2, <2>3, RowsAreKept, QuietKeeps
  <2> QED BY <1>1, <1>2, <2>1, <2>2, <2>3, RowsAreKept, ArmKeeps
<1>5. CASE TimedRevertReturn
  <2>1. cur \in Active /\ UNCHANGED <<endsAt, now>>
    BY <1>5 DEF TimedRevertReturn, RevertReturn, Control, OpState
  <2>2. \/ /\ status[cur] = "active"
           /\ status' = [status EXCEPT ![cur] = FinalStatus]
           /\ timers' = timers \ {cur}
        \/ UNCHANGED <<status, timers>>
    BY <1>5 DEF TimedRevertReturn, RevertReturn
  <2>3. IF status' = status THEN UNCHANGED timerVars
          ELSE handle' = alone /\ entry' = [entry EXCEPT ![cur] = NoHandle]
    BY <1>5 DEF TimedRevertReturn, StopTimer, alone
  <2>4. CASE UNCHANGED <<status, timers>>
    BY <2>1, <2>3, <2>4, RowsAreKept, QuietKeeps
  <2>5. CASE /\ status[cur] = "active"
             /\ status' = [status EXCEPT ![cur] = FinalStatus]
             /\ timers' = timers \ {cur}
    <3>1. FinalStatus \in {"ended", "expired"}
      BY DEF FinalStatus
    <3>2. status'[cur] = FinalStatus
          /\ \A f \in GrantId : f # cur => status'[f] = status[f]
      BY <1>2, <2>1, <2>5 DEF Control, TypeOK
    <3>3. RowsKept(cur)
      BY <2>1, <3>2 DEF RowsKept, Rest, EntryHasRow, Control, TypeOK
    <3>4. status' # status
      BY <2>5, <3>1, <3>2
    <3> QED BY <1>1, <1>2, <2>1, <2>3, <2>5, <3>3, <3>4, DropKeeps
  <2> QED BY <2>2, <2>4, <2>5
<1>6. CASE UntimedStep /\ UNCHANGED timerVars
  <2>1. UNCHANGED <<timers, endsAt, status, now>>
    BY <1>6 DEF UntimedStep, UnblockRead, RevertList, ReconcileRead, ReconcileNext,
                ReconcileReturn, UnblockClient, RevertClient
  <2> QED BY <1>6, <2>1, RowsAreKept, QuietKeeps
<1> QED BY <1>3, <1>4, <1>5, <1>6 DEF TimedStep

LEMMA ExtendKeeps ==
  ASSUME Control, Rest, NEW g \in GrantId, NEW d \in Durations, TimedExtend(g, d)
  PROVE  Rest'
<1>1. /\ Arm(g) /\ g \in Active /\ UNCHANGED <<status, now>>
      /\ endsAt' = [endsAt EXCEPT ![g] = @ + d] /\ endsAt[g] + d <= MaxTime
  BY DEF TimedExtend, Extend
<1>2. endsAt'[g] \in 0..MaxTime
  BY <1>1, DurationsAssumption, BoundsAssumption DEF Control, TypeOK
<1>3. \A f \in GrantId : f # g => endsAt'[f] = endsAt[f] /\ status'[f] = status[f]
  BY <1>1 DEF Control, TypeOK
<1>4. RowsKept(g)
  BY <1>1, <1>3 DEF RowsKept, Rest, EntryHasRow, Control, TypeOK
<1>5. status'[g] # "none"
  BY <1>1 DEF Active
<1>6. Table(Stopped({entry[g]}), g)
  BY StoppedTable DEF Rest
<1>7. ArmIn(Stopped({entry[g]}), g, endsAt'[g])
  BY DEF TimedExtend, ArmTimer
<1> QED BY <1>1, <1>2, <1>4, <1>5, <1>6, <1>7, ArmKeeps

\* Close and the end of the process leave no entry at all.
LEMMA EndKeeps ==
  ASSUME Control, Rest, TimedClose \/ TimedCrash
  PROVE  Rest'
<1>1. timers' = {} /\ entry' = [g \in GrantId |-> NoHandle]
  BY DEF TimedClose, TimedCrash, Close, Crash
<1>2. HandlesOK'
  <2>1. CASE handle' = Stopped({entry[g] : g \in timers})
    BY <2>1, FreeType DEF Stopped, Rest, Shape, HandlesOK
  <2>2. CASE handle' = [h \in Handle |-> Free]
    BY <2>2, FreeType DEF HandlesOK
  <2> QED BY <2>1, <2>2 DEF TimedClose, TimedCrash
<1>3. EntriesOK'
  BY <1>1 DEF EntriesOK
<1> QED BY <1>1, <1>2, <1>3 DEF Rest, Shape, EntryHasRow, EntryDueAtEnd

LEMMA UntimedKeeps ==
  ASSUME Control, Rest, Untimed, UNCHANGED timerVars
  PROVE  Rest'
<1>1. ASSUME NEW r \in Requests, NEW d \in Durations, CreateRow(r, d) PROVE Rest'
  <2>1. PICK g \in GrantId : /\ status[g] = "none"
                             /\ status' = [status EXCEPT ![g] = "active"]
                             /\ endsAt' = [endsAt EXCEPT ![g] = now + d]
    BY <1>1 DEF CreateRow
  <2>2. g \notin timers /\ UNCHANGED <<timers, now>>
    BY <1>1, <2>1 DEF CreateRow, Rest, EntryHasRow
  <2>3. \A f \in timers : f \in GrantId /\ f # g
    BY <2>2 DEF Rest, Shape, EntriesOK
  <2>4. RowsKept(NoGrant)
    BY <2>1, <2>2, <2>3 DEF RowsKept, Rest, EntryHasRow, Control, TypeOK
  <2> QED BY <2>2, <2>4, QuietKeeps
<1>2. ASSUME NEW g \in GrantId, End(g) PROVE Rest'
  <2>1. UNCHANGED <<timers, endsAt, status, now>>
    BY <1>2 DEF End
  <2> QED BY <2>1, RowsAreKept, QuietKeeps
<1>3. CASE ReconcileList \/ Restart \/ FaultsEnd \/ UI
  <2>1. UNCHANGED <<timers, endsAt, status, now>>
    BY <1>3 DEF ReconcileList, Restart, FaultsEnd, UI
  <2> QED BY <2>1, RowsAreKept, QuietKeeps
<1>4. CASE Tick
  <2>1. UNCHANGED <<timers, endsAt, status>> /\ now \in Nat /\ now' = now + 1
    BY <1>4 DEF Tick, Control, TypeOK
  <2>2. \A f \in timers : endsAt'[f] = endsAt[f] /\ status'[f] = status[f]
    BY <2>1
  <2>3. RowsKept(NoGrant)
    BY <2>1, <2>2 DEF RowsKept, Rest, EntryHasRow
  <2> QED BY <2>1, <2>3, QuietKeeps
<1> QED BY <1>1, <1>2, <1>3, <1>4 DEF Untimed

LEMMA RestNext == Control /\ Rest /\ [TimerNext]_tvars => Rest'
<1> SUFFICES ASSUME Control, Rest, [TimerNext]_tvars PROVE Rest'
  OBVIOUS
<1>1. CASE UNCHANGED tvars
  BY <1>1, RowsAreKept, QuietKeeps
<1> QED BY <1>1, StepKeeps, ExtendKeeps, FireKeeps, CallbackKeeps, EndKeeps,
           UntimedKeeps DEF TimerNext

LEMMA RestInit == TimerInit => Control /\ Rest
<1> SUFFICES ASSUME TimerInit PROVE Control /\ Rest
  OBVIOUS
<1>1. Control /\ timers = {}
  BY ControlInit DEF TimerInit, Init
<1>2. HandlesOK /\ EntriesOK
  BY <1>1, FreeType DEF TimerInit, HandlesOK, EntriesOK
<1> QED BY <1>1, <1>2 DEF Rest, Shape, EntryHasRow, EntryDueAtEnd

\* One inductive invariant: the timed engine's steps are steps of Grants, which
\* keep Control.
LEMMA TimersInvariant == TimerSpec => [](Control /\ Rest)
<1>1. Control /\ Rest /\ [TimerNext]_tvars => (Control /\ Rest)'
  BY StepIsStep, ControlNext, RestNext DEF Rest
<1> QED BY <1>1, RestInit, PTL DEF TimerSpec

\* The entries of Engine.timers and the timers of the runtime keep their types
\* and fit together: an entry's timer is its grant's (arm, stopTimer, expire).
THEOREM TimersFit == TimerSpec => []TimerTypeOK
<1>1. Rest => TimerTypeOK
  BY DEF Rest, Shape, HandlesOK, EntriesOK, HandleType, TimerTypeOK
<1> QED BY <1>1, TimersInvariant, PTL

\* The timer in the map is due at the stored end, or already due, through any
\* extensions and any callbacks that come too late to be stopped.
THEOREM EntriesAreDue == TimerSpec => []EntryDueAtEnd
<1>1. Rest => EntryDueAtEnd
  BY DEF Rest
<1> QED BY <1>1, TimersInvariant, PTL

\* Leaving open when callbacks come loses no behaviour: the engine with its
\* timers in full implements the engine of Grants, whose theorems hold of it.
THEOREM TimersRefine == TimerSpec => Spec
<1>1. TimerInit => Init
  BY DEF TimerInit
<1>2. Rest /\ [TimerNext]_tvars => [Next]_vars
  BY StepIsStep DEF Rest
<1> QED BY <1>1, <1>2, TimersInvariant, PTL DEF TimerSpec, Spec

-----------------------------------------------------------------------------
(* When nothing fails                                                      *)

LEMMA CalmInit == TimerInit /\ Calm => CalmInv
BY DEF TimerInit, Init, Calm, CalmInv, Awaited, Active

LEMMA CalmBegin ==
  ASSUME Control, CalmInv, Parent \/ ReconcileList \/ \E g \in GrantId : Expire(g)
  PROVE  CalmInv'
<1>1. ASSUME NEW r \in Requests, NEW d \in Durations, CreateRow(r, d) PROVE CalmInv'
  <2>1. PICK g \in GrantId : /\ status' = [status EXCEPT ![g] = "active"]
                             /\ endsAt' = [endsAt EXCEPT ![g] = now + d]
                             /\ cur' = g
    BY <1>1 DEF CreateRow
  <2>2. \A f \in GrantId : f # g => /\ f \in Active' => f \in Active
                                    /\ endsAt'[f] = endsAt[f]
    BY <2>1 DEF Control, TypeOK, Active
  <2>3. /\ phase \in {"serving", "closed"} /\ pc = "idle" /\ pc' = "unblock_read"
        /\ UNCHANGED <<phase, timers, now, faulty, failed>>
    BY <1>1 DEF CreateRow, Serving
  <2>4. Awaited = {} /\ Awaited' = {g}
    BY <2>1, <2>3 DEF Awaited
  <2>5. Active' \subseteq GrantId
    BY DEF Active
  <2> QED BY <2>2, <2>3, <2>4, <2>5 DEF CalmInv
<1>2. ASSUME NEW g \in GrantId, End(g) PROVE CalmInv'
  <2>1. /\ phase \in {"serving", "closed"} /\ pc = "idle" /\ pc' = "list"
        /\ UNCHANGED <<phase, timers, status, endsAt, now, faulty, failed>>
    BY <1>2 DEF End, Serving
  <2>2. Awaited = {} /\ Awaited' = {} /\ Active' = Active
    BY <2>1 DEF Awaited, Active
  <2> QED BY <2>1, <2>2 DEF CalmInv
<1>3. ASSUME NEW g \in GrantId, NEW d \in Durations, Extend(g, d) PROVE CalmInv'
  <2>1. /\ phase \in {"serving", "closed"} /\ pc = "idle"
        /\ endsAt' = [endsAt EXCEPT ![g] = @ + d] /\ Arm(g)
        /\ UNCHANGED <<phase, pc, status, now, faulty, failed>>
    BY <1>3 DEF Extend, Serving
  <2>2. Awaited = {} /\ Awaited' = {} /\ Active' = Active /\ Active \subseteq GrantId
    BY <2>1 DEF Awaited, Active
  <2>3. \A f \in GrantId : f # g => endsAt'[f] = endsAt[f]
    BY <2>1 DEF Control, TypeOK
  <2> QED BY <2>1, <2>2, <2>3 DEF CalmInv, Arm
<1>4. ASSUME NEW g \in GrantId, Expire(g) PROVE CalmInv'
  <2>1. /\ phase \in {"serving", "closed"} /\ pc = "idle" /\ pc' \in {"idle", "list"}
        /\ UNCHANGED <<phase, status, endsAt, now, faulty, failed>>
        /\ \/ g \notin Active /\ timers' = timers \ {g}
           \/ Arm(g)
           \/ now >= endsAt[g] /\ timers' = timers \ {g}
    BY <1>4 DEF Expire, Serving, Overdue, CalmInv
  <2>2. Awaited = {} /\ Awaited' = {} /\ Active' = Active
    BY <2>1 DEF Awaited, Active
  <2>3. Active \subseteq GrantId /\ \A f \in GrantId : endsAt[f] \in Nat /\ now \in Nat
    BY DEF Active, Control, TypeOK
  <2> QED BY <2>1, <2>2, <2>3 DEF CalmInv, Arm
<1>5. CASE ReconcileList
  <2>1. /\ pc = "idle" /\ phase # "down" /\ phase' # "down"
        /\ UNCHANGED <<timers, status, endsAt, now, faulty, failed, cur>>
        /\ \/ pc' = "pass_read" /\ queue' = Active /\ UNCHANGED phase
           \/ Active = {} /\ pc' = pc
    BY <1>5 DEF ReconcileList, Started, CalmInv
  <2>2. Active' = Active
    BY <2>1 DEF Active
  <2>3. CASE Active = {}
    BY <2>1, <2>2, <2>3 DEF CalmInv
  <2>4. CASE pc' = "pass_read" /\ queue' = Active /\ UNCHANGED phase
    <3>1. Awaited' = Awaited
      BY <2>1, <2>4 DEF Awaited
    <3> QED BY <2>1, <2>2, <2>4, <3>1 DEF CalmInv
  <2> QED BY <2>1, <2>3, <2>4
<1> QED BY <1>1, <1>2, <1>3, <1>4, <1>5 DEF Parent

LEMMA CalmStep ==
  ASSUME Control, CalmInv, EngineStep
  PROVE  CalmInv'
<1>0. cur \in Active \cup {NoGrant} /\ Active \subseteq GrantId
  BY DEF Control, OpState, Active, TypeOK
<1>1. CASE UnblockRead \/ ReconcileNext \/ \E c \in Client : UnblockClient(c) \/ RevertClient(c)
  <2>1. /\ UNCHANGED <<phase, timers, status, endsAt, now, faulty, failed>>
        /\ \/ pc' = pc /\ UNCHANGED <<cur, queue>>
           \/ pc = "unblock_read" /\ pc' = "unblock" /\ UNCHANGED <<cur, queue>>
           \/ /\ pc = "pass" /\ pc' \in {"list", "repair"} /\ cur = NoGrant
              /\ cur' \in queue /\ queue' = queue \ {cur'}
    BY <1>1 DEF UnblockRead, ReconcileNext, UnblockClient, RevertClient, CalmInv,
                Control, OpState
  <2>2. Active' = Active
    BY <2>1 DEF Active
  <2>3. \A g \in GrantId : g \in Awaited => g \in Awaited'
    BY <2>1 DEF Awaited
  <2> QED BY <1>0, <2>1, <2>2, <2>3 DEF CalmInv
<1>2. CASE RevertList
  <2>1. /\ UNCHANGED <<phase, timers, status, endsAt, now, faulty, cur, queue>>
        /\ pc = "list" /\ pc' = "revert" /\ ~failed'
    BY <1>2 DEF RevertList, CalmInv
  <2>2. Active' = Active /\ Awaited' = Awaited
    BY <2>1 DEF Awaited, Active
  <2> QED BY <2>1, <2>2 DEF CalmInv
<1>3. CASE CreateReturn
  <2>1. /\ pc = "unblock" /\ Arm(cur) /\ pc' = "idle" /\ ~failed'
        /\ UNCHANGED <<phase, status, endsAt, now, faulty>>
    BY <1>3 DEF CreateReturn, Release
  <2>2. Active' = Active
    BY <2>1 DEF Active
  <2>3. phase = "boot" => Awaited' = GrantId
    BY <2>1 DEF Awaited
  <2>4. phase # "boot" => Awaited = {cur}
    BY <2>1 DEF Awaited
  <2> QED BY <1>0, <2>1, <2>2, <2>3, <2>4 DEF CalmInv, Arm
<1>4. CASE RevertReturn \/ RepairReturn
  <2>1. /\ pc \in {"revert", "repair"} /\ ~failed' /\ UNCHANGED <<phase, endsAt, now, faulty>>
        /\ \/ pc' = "idle"
           \/ pc' = "pass" /\ queue' = queue
    BY <1>4 DEF RevertReturn, RepairReturn, Return, Release
  <2>2. \A g \in Active' : g \in Active /\ (g # cur \/ g \in timers' \/ phase = "closed")
    <3>1. CASE RevertReturn
      <4>1. status' = [status EXCEPT ![cur] = FinalStatus]
        BY <3>1 DEF RevertReturn, CalmInv
      <4>2. FinalStatus # "active" /\ cur \in GrantId
        BY <1>0, <3>1 DEF FinalStatus, RevertReturn, Control, OpState
      <4> QED BY <4>1, <4>2 DEF Active, Control, TypeOK
    <3>2. CASE RepairReturn
      <4>1. UNCHANGED status /\ (cur \in timers' \/ phase = "closed")
        BY <3>2 DEF RepairReturn, Arm
      <4> QED BY <4>1 DEF Active
    <3> QED BY <1>4, <3>1, <3>2
  <2>3. \A g \in timers : g # cur => g \in timers'
    BY <1>4 DEF RevertReturn, RepairReturn, Arm
  <2>4. CASE phase = "boot"
    <3>1. Awaited = queue \cup {cur} /\ (Awaited' = GrantId \/ queue \subseteq Awaited')
      BY <2>1, <2>4 DEF Awaited
    <3> QED BY <1>0, <2>1, <2>2, <2>3, <2>4, <3>1 DEF CalmInv, Active
  <2>5. CASE phase # "boot"
    <3>1. Awaited = {}
      BY <2>1, <2>5 DEF Awaited
    <3> QED BY <2>1, <2>2, <2>3, <2>5, <3>1 DEF CalmInv
  <2> QED BY <2>4, <2>5
<1>5. CASE ReconcileRead
  <2>1. /\ UNCHANGED <<phase, timers, status, endsAt, now, faulty, failed, cur, queue>>
        /\ pc = "pass_read" /\ pc' = "pass"
    BY <1>5 DEF ReconcileRead, CalmInv
  <2>2. Active' = Active /\ Active \subseteq queue
    BY <2>1 DEF CalmInv, Active
  <2>3. phase = "boot" => Awaited' = queue \cup {cur}
    BY <2>1 DEF Awaited
  <2>4. phase # "boot" => Awaited = {}
    BY <2>1 DEF Awaited
  <2> QED BY <2>1, <2>2, <2>3, <2>4 DEF CalmInv
<1>6. CASE ReconcileReturn
  <2>1. /\ pc = "pass" /\ queue = {} /\ pc' = "idle" /\ ~failed' /\ cur = NoGrant
        /\ UNCHANGED <<timers, status, endsAt, now, faulty>>
        /\ phase' = IF phase = "boot" THEN "serving" ELSE phase
    BY <1>6 DEF ReconcileReturn, Release, Started, Control, OpState
  <2>2. Active' = Active /\ NoGrant \notin Active
    BY <1>0, <2>1 DEF Active
  <2>3. phase = "boot" => Awaited = {NoGrant}
    BY <2>1 DEF Awaited
  <2>4. phase # "boot" => Awaited = {}
    BY <2>1 DEF Awaited
  <2> QED BY <2>1, <2>2, <2>3, <2>4 DEF CalmInv
<1> QED BY <1>1, <1>2, <1>3, <1>4, <1>5, <1>6 DEF EngineStep

LEMMA CalmSurroundings ==
  ASSUME Control, CalmInv, Surroundings
  PROVE  CalmInv'
<1>1. CASE Close \/ Crash
  <2>1. /\ phase' \in {"closed", "down"} /\ UNCHANGED faulty /\ ~failed'
        /\ pc' = "idle"
    BY <1>1 DEF Close, Crash, Release, CalmInv
  <2> QED BY <2>1 DEF CalmInv
<1>2. CASE Restart
  <2>1. phase' = "boot" /\ UNCHANGED <<status, timers, pc, queue, failed, faulty>>
    BY <1>2 DEF Restart
  <2>2. pc = "idle"
    BY <1>2 DEF Restart, CalmInv
  <2>3. Awaited' = GrantId /\ Active' = Active /\ Active \subseteq GrantId
    BY <2>1, <2>2 DEF Awaited, Active
  <2> QED BY <2>1, <2>2, <2>3 DEF CalmInv
<1>3. CASE Tick \/ FaultsEnd \/ UI
  <2>1. /\ UNCHANGED <<status, endsAt, phase, timers, pc, cur, queue, failed>> /\ ~faulty'
        /\ now' = now \/ now' = now + 1
    BY <1>3 DEF Tick, FaultsEnd, UI, CalmInv
  <2>2. Awaited' = Awaited /\ Active' = Active
    BY <2>1 DEF Awaited, Active
  <2>3. now \in Nat /\ \A g \in Active : endsAt[g] \in Nat
    BY DEF Control, TypeOK, Active
  <2> QED BY <2>1, <2>2, <2>3 DEF CalmInv
<1> QED BY <1>1, <1>2, <1>3 DEF Surroundings

LEMMA CalmNext == Control /\ CalmInv /\ [Next]_vars => CalmInv'
<1> SUFFICES ASSUME Control, CalmInv, [Next]_vars PROVE CalmInv'
  OBVIOUS
<1>1. CASE UNCHANGED vars
  BY <1>1 DEF CalmInv, Awaited, Active
<1> QED BY <1>1, CalmBegin, CalmStep, CalmSurroundings DEF Next, Surroundings

\* As long as no call fails and the process does not crash, a served grant that
\* is not over has a timer that will call expire by its end: through stops and
\* restarts, extensions, and callbacks of timers already replaced (arm, expire,
\* Extend, Reconcile at start).
THEOREM LiveGrantsAreTimed == TimerSpec => LiveGrantHasTimer
<1> DEFINE Timed == phase = "serving" /\ pc = "idle" =>
                      \A g \in Active : now < endsAt[g] => WakeUp(g)
<1>1. Control /\ Rest /\ CalmInv => Timed
  <2> SUFFICES ASSUME Control, Rest, CalmInv, phase = "serving", pc = "idle",
                      NEW g \in Active, now < endsAt[g]
               PROVE  WakeUp(g)
    OBVIOUS
  <2>1. g \in timers
    BY DEF CalmInv, Awaited
  <2>2. /\ g \in GrantId /\ endsAt[g] \in Nat /\ now \in Nat
        /\ entry[g] \in Handle /\ handle[entry[g]].grant = g
        /\ handle[entry[g]].due \in Nat
    BY <2>1 DEF Rest, Shape, EntriesOK, HandlesOK, HandleType, Active, Control, TypeOK
  <2>3. handle[entry[g]].state # "free"
    BY <2>2 DEF Rest, Shape, HandlesOK
  <2>4. handle[entry[g]].due = endsAt[g] \/ handle[entry[g]].due <= now
    BY <2>1 DEF Rest, EntryDueAtEnd
  <2> QED BY <2>2, <2>3, <2>4 DEF WakeUp, Pending
<1>2. Control /\ Rest /\ CalmInv /\ [TimerNext]_tvars => CalmInv'
  BY StepIsStep, CalmNext DEF Rest
<1>3. TimerSpec /\ Calm => []CalmInv
  BY <1>2, CalmInit, TimersInvariant, PTL DEF TimerSpec
<1>4. TimerSpec => (Calm => []Timed)
  BY <1>1, <1>3, TimersInvariant, PTL
<1> QED BY <1>4 DEF LiveGrantHasTimer
=============================================================================
