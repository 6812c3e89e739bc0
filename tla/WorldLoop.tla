----------------------------- MODULE WorldLoop -----------------------------
(***************************************************************************)
(* The loop of the main thread: it reads the clock, updates the world with *)
(* the time that has passed since it read it before, and sleeps for what   *)
(* should be left of 50 ms.  The world hands the time on to the rooms when *)
(* their interval has passed.                                              *)
(*                                                                         *)
(* The clock is the system's: getMSTime counts its milliseconds since the  *)
(* start modulo 2^32, and somebody may set it back.                        *)
(***************************************************************************)
EXTENDS Integers

CONSTANTS Width,    \* 2^32
          SleepConst, \* WORLD_SLEEP_CONST
          Interval, \* RoomUpdateInterval
          Ticks,    \* how long an update of the world takes
          Lates,    \* by how much a sleep is too long
          Backs,    \* by how much the clock is set back
          MaxClock, \* a bound on the clock
          MaxGiven  \* a bound on the time the world is given

WorldLoopAssumption ==
  /\ Width \in Nat \ {0} /\ SleepConst \in 0 .. Width - 1 /\ Interval \in Nat
  /\ MaxClock \in Nat /\ MaxGiven \in Nat
  /\ Ticks \subseteq Nat /\ Lates \subseteq Nat /\ Backs \subseteq Nat

VARIABLES clock,     \* the time of the system since the start
          pc,        \* what the loop does next
          prev,      \* realPrevTime
          curr,      \* realCurrTime
          diff,      \* diff
          prevSleep, \* prevSleepTime
          current,   \* _i_timer._current of the RoomManager
          begun,     \* the clock when curr was read
          planned,   \* the sleep before that
          work,      \* the time since the reading before, without that sleep
          toWorld,   \* the time the world has been given
          toRooms    \* the time the rooms have been given

vars == <<clock, pc, prev, curr, diff, prevSleep, current, begun, planned, work, toWorld, toRooms>>

getMSTime == clock % Width

\* Mutant: the difference is taken the other way round.
getMSTimeDiff_Swapped(old, new) == (old - new) % Width

getMSTimeDiff(old, new) == IF old > new THEN (Width - 1 - old) + new ELSE new - old

Init ==
  /\ clock = 0 /\ pc = "read"
  /\ prev = getMSTime /\ curr = 0 /\ diff = 0 /\ prevSleep = 0
  /\ current = 0
  /\ begun = clock /\ planned = 0 /\ work = 0
  /\ toWorld = 0 /\ toRooms = 0

ReadClock ==
  /\ pc = "read"
  /\ curr' = getMSTime
  /\ diff' = getMSTimeDiff(prev, getMSTime)
  /\ begun' = clock /\ planned' = prevSleep
  /\ work' = (clock - begun) - prevSleep
  /\ toWorld' = toWorld + diff' /\ toWorld' <= MaxGiven
  /\ pc' = "update"
  /\ UNCHANGED <<clock, prev, prevSleep, current, toRooms>>

\* Mutant: the rooms are given the time of the tick, not of the interval.
UpdateRooms_Tick ==
  IF current + diff >= Interval
  THEN toRooms' = toRooms + diff /\ current' = 0
  ELSE current' = current + diff /\ UNCHANGED toRooms

\* Mutant: the interval that has passed is not taken off.
UpdateRooms_Keeps ==
  IF current + diff >= Interval
  THEN toRooms' = toRooms + current + diff /\ current' = current + diff
  ELSE current' = current + diff /\ UNCHANGED toRooms

\* RoomManager::Update: the interval that has passed goes to the rooms.
UpdateRooms ==
  IF current + diff >= Interval
  THEN toRooms' = toRooms + current + diff /\ current' = 0
  ELSE current' = current + diff /\ UNCHANGED toRooms

\* Mutant: the sleep that diff holds is forgotten.
Balance_Forgets ==
  IF diff <= SleepConst
  THEN prevSleep' = SleepConst - diff /\ pc' = "sleep"
  ELSE prevSleep' = 0 /\ pc' = "read"

Balance ==
  IF diff <= (SleepConst + prevSleep) % Width
  THEN prevSleep' = ((SleepConst + prevSleep) % Width) - diff /\ pc' = "sleep"
  ELSE prevSleep' = 0 /\ pc' = "read"

Update(t) ==
  /\ pc = "update"
  /\ clock + t <= MaxClock
  /\ clock' = clock + t
  /\ UpdateRooms
  /\ prev' = curr
  /\ Balance
  /\ UNCHANGED <<curr, diff, begun, planned, work, toWorld>>

Sleep(late) ==
  /\ pc = "sleep"
  /\ clock + prevSleep + late <= MaxClock
  /\ clock' = clock + prevSleep + late
  /\ pc' = "read"
  /\ UNCHANGED <<prev, curr, diff, prevSleep, current, begun, planned, work, toWorld, toRooms>>

\* Somebody sets the clock of the system back.
SetBack(b) ==
  /\ clock >= b
  /\ clock' = clock - b
  /\ UNCHANGED <<pc, prev, curr, diff, prevSleep, current, begun, planned, work, toWorld, toRooms>>

Next ==
  \/ ReadClock
  \/ \E t \in Ticks : Update(t)
  \/ \E l \in Lates : Sleep(l)
  \/ \E b \in Backs : SetBack(b)

Spec == Init /\ [][Next]_vars

------------------------------------------------------------------------------
TypeOK ==
  /\ clock \in 0 .. MaxClock /\ pc \in {"read", "update", "sleep"}
  /\ prev \in 0 .. Width - 1 /\ curr \in 0 .. Width - 1 /\ diff \in 0 .. Width - 1
  /\ current \in 0 .. Interval - 1 /\ prevSleep \in 0 .. Width - 1

\* The world has been given the time up to the last reading of the clock, however long
\* the updates took and the sleeps came late: getMSTime and getMSTimeDiff lose nothing.
\* (Timer.h:35: "getMSTime() have limited data range and this is case when it overflow in
\* this tick"; when it does, a millisecond is lost.)
TimeAddsUp == toWorld = begun

\* The rooms get all of it, interval by interval: what is left waits in the timer.
RoomsGetAll == pc # "update" => toRooms + current = toWorld

\* Main.cpp:91: the next sleep and the work it comes after make up WORLD_SLEEP_CONST,
\* when the work before took no longer (d1 = WORLD_SLEEP_CONST - t0).
SleepBalances ==
  pc = "update" /\ pc' # "update" =>
    prevSleep' = IF work <= SleepConst THEN SleepConst - work ELSE 0

SleepIsBalanced == [][SleepBalances]_vars
=============================================================================
