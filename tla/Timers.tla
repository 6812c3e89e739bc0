------------------------------- MODULE Timers -------------------------------
(***************************************************************************)
(* The timers of Timer.h, all given the same time: a timer of intervals    *)
(* that is reset when it has passed, two trackers of one deadline (of      *)
(* time_t and of int32) that are set again when they have passed, and a    *)
(* periodic timer that is used through Update or through its tracker       *)
(* interface.  Time comes in steps of any length.                          *)
(*                                                                         *)
(* The counts of what has passed, and the time itself, are the caller's.   *)
(***************************************************************************)
EXTENDS Integers

CONSTANTS IntervalTime, \* _interval, not 0: Reset divides by it
          Period,       \* i_period
          Start,        \* the first expiry of the trackers and of the periodic timer
          Steps,        \* the differences of time
          Half,         \* 2^31, where an int32 becomes negative
          MaxTime       \* a bound on the time that passes

TimersAssumption ==
  /\ IntervalTime \in Nat \ {0} /\ Period \in Nat \ {0} /\ Start \in Nat \ {0}
  /\ Steps \subseteq Nat /\ Half \in Nat \ {0} /\ MaxTime \in Nat

VARIABLES tick,      \* IntervalTimer::_current
          intervals, \* how often it has passed
          expiry,    \* TimeTracker::i_expiryTime
          small,     \* TimeTrackerSmall::i_expiryTime
          expire,    \* PeriodicTimer::i_expireTime, used through Update
          tracked,   \* and of another, used through its tracker interface
          fired,     \* how often the first has passed
          longest,   \* the longest step it has seen
          elapsed    \* the time since the start

timerVars == <<tick, intervals, expiry, small, expire, tracked, fired, longest, elapsed>>

\* A value that is kept in an int32.
Int32(x) == ((x + Half) % (2 * Half)) - Half

TimersInit ==
  /\ tick = 0 /\ intervals = 0
  /\ expiry = Start /\ small = Int32(Start)
  /\ expire = Start /\ tracked = Start /\ fired = 0
  /\ longest = 0 /\ elapsed = 0

Larger(a, b) == IF a > b THEN a ELSE b

\* Mutant: what is left of the interval is lost.
IntervalUpdate_Zero(d) ==
  IF tick + d >= IntervalTime THEN tick' = 0 /\ intervals' = intervals + 1
  ELSE tick' = tick + d /\ UNCHANGED intervals

\* IntervalTimer::Update, Passed and Reset; the caller counts the intervals.
IntervalUpdate(d) ==
  LET now == Larger(tick + d, 0)
  IN  IF now >= IntervalTime
      THEN tick' = now % IntervalTime /\ intervals' = intervals + (now \div IntervalTime)
      ELSE tick' = now /\ UNCHANGED intervals

\* Mutant: a deadline that has been met is not set again.
Restarted_Not(x, interval) == x

\* Reset, once Passed.
Restarted(x, interval) == IF x <= 0 THEN interval ELSE x

\* TimeTracker::Update, TimeTrackerSmall::Update, Passed and Reset.
TrackersUpdate(d) ==
  /\ expiry' = Restarted(expiry - d, Start)
  /\ small' = Int32(Restarted(Int32(small - d), Start))

\* Mutant: a long step is not made up for: the timer stays behind.
Extended_Period(x, d) == Int32(x + Period)

\* The next expiry of a periodic timer, after a step of d: a step longer than the period
\* counts once.
Extended(x, d) == Int32(x + Larger(Period, d))

\* Mutant: the timer starts anew when it has passed.
PeriodicUpdate_Anew(d) ==
  IF Int32(expire - d) > 0 THEN expire' = Int32(expire - d) /\ UNCHANGED fired
  ELSE expire' = Period /\ fired' = fired + 1

\* Mutant: it passes a unit of time early.
PeriodicUpdate_Early(d) ==
  IF Int32(expire - d) > 1 THEN expire' = Int32(expire - d) /\ UNCHANGED fired
  ELSE expire' = Extended(Int32(expire - d), d) /\ fired' = fired + 1

\* PeriodicTimer::Update
PeriodicUpdate(d) ==
  IF Int32(expire - d) > 0 THEN expire' = Int32(expire - d) /\ UNCHANGED fired
  ELSE expire' = Extended(Int32(expire - d), d) /\ fired' = fired + 1

\* TUpdate, TPassed and TReset
TrackerUpdate(d) ==
  tracked' = LET left == Int32(tracked - d) IN IF left <= 0 THEN Extended(left, d) ELSE left

UpdateTimers(d) ==
  /\ elapsed + d <= MaxTime
  /\ elapsed' = elapsed + d
  /\ longest' = Larger(longest, d)
  /\ IntervalUpdate(d) /\ TrackersUpdate(d) /\ PeriodicUpdate(d) /\ TrackerUpdate(d)

TimersNext == \E d \in Steps : UpdateTimers(d)

TimersSpec == TimersInit /\ [][TimersNext]_timerVars

------------------------------------------------------------------------------
\* Between two updates no timer has passed.
TimersTypeOK ==
  /\ tick \in 0 .. IntervalTime - 1
  /\ expiry \in 1 .. Start /\ small \in 1 .. Start
  /\ expire \in 1 .. Larger(Start, Period) /\ tracked \in 1 .. Larger(Start, Period)

\* IntervalTimer, Timer.h:69: no time is lost between the intervals.
IntervalsAddUp == intervals * IntervalTime + tick = elapsed

\* Timer.h:100, 134: the trackers of the two widths pass together, and so do the two
\* interfaces of the periodic timer.
TrackersAgree == small = expiry /\ tracked = expire

\* Timer.h:168: the periodic timer passes no more often than its period allows...
NeverEarly == fired > 0 => elapsed >= Start + (fired - 1) * Period

\* ...and does not fall behind as long as no step is longer than the period, though each
\* step may end long after the deadline.
KeepsPace == longest <= Period => expire = Start + fired * Period - elapsed
=============================================================================
