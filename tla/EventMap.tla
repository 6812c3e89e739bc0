------------------------------ MODULE EventMap ------------------------------
(***************************************************************************)
(* EventMap: a timer, a set of phases, and events that are scheduled at    *)
(* times of the timer, may belong to groups, and may be limited to phases. *)
(* Its user schedules, repeats, delays and cancels in any order, and asks  *)
(* for the next event to execute.                                          *)
(*                                                                         *)
(* The multimap is a sequence in the order of its iteration: by time, and  *)
(* in the order of insertion among equal times.  An event's word           *)
(* 0xPPGGEEEE is a record of its id, groups and phases.  For the           *)
(* properties an event remembers how long its user wants it to wait, which *)
(* is counted without the timer, and whether a delay has been cut.         *)
(***************************************************************************)
EXTENDS Integers, SequencesExt

CONSTANTS Ids,       \* event ids, of 16 bits and not 0
          Times,     \* the times and delays its user passes
          GroupArgs, \* the groups and phases its user passes: 1 .. 8, 0 for none,
          PhaseArgs, \* and others, which are ignored
          MaxEvents, \* a bound: events in the map
          MaxTime,   \* a bound: the timer and the times of events
          Width      \* 2^32, the range of uint32

EventMapAssumption ==
  /\ Times \subseteq Nat /\ GroupArgs \subseteq Nat /\ PhaseArgs \subseteq Nat
  /\ MaxEvents \in Nat /\ MaxTime \in Nat /\ Width \in Nat \ {0}
  /\ 0 \notin Ids

VARIABLES time,   \* _time
          phase,  \* _phase
          events, \* _eventMap
          last    \* _lastEvent

vars == <<time, phase, events, last>>

Bits == 1 .. 8
NoEvent == [id |-> 0, groups |-> {}, phases |-> {}]

\* Mutant: what is out of range is shifted too.
Bit_Any(b) == {b}

\* The bits that a group or a phase sets: none for 0 and for what is out of range.
Bit(b) == Bits \cap {b}

Init ==
  /\ time = 0 /\ phase = {} /\ events = <<>>
  /\ last = NoEvent

\* multimap::insert
Insert(map, e) ==
  InsertAt(map, 1 + Len(SelectSeq(map, LAMBDA x : x.at <= e.at)), e)

At(t) == (time + t) % Width
Event(word, t) == [word |-> word, at |-> At(t), left |-> t, cut |-> FALSE]

\* Its user wants the event to wait longer, or shorter.
Later(e, t) == [e EXCEPT !.left = IF e.cut THEN 0 ELSE @ + t]
Word(id, group, ph) == [id |-> id, groups |-> Bit(group), phases |-> Bit(ph)]

------------------------------------------------------------------------------
Reset ==
  /\ events' = <<>> /\ time' = 0 /\ phase' = {}
  /\ UNCHANGED last

Update(t) ==
  /\ time + t <= MaxTime
  /\ time' = (time + t) % Width
  /\ events' = [i \in DOMAIN events |-> Later(events[i], -t)]
  /\ UNCHANGED <<phase, last>>

SetPhase(p) ==
  /\ phase' = IF p = 0 THEN {} ELSE IF p \in Bits THEN {p} ELSE phase
  /\ UNCHANGED <<time, events, last>>

AddPhase(p) ==
  /\ phase' = phase \union Bit(p)
  /\ UNCHANGED <<time, events, last>>

RemovePhase(p) ==
  /\ phase' = phase \ Bit(p)
  /\ UNCHANGED <<time, events, last>>

IsInPhase(p) == p = 0 \/ (p \in Bits /\ p \in phase)

ScheduleEvent(id, t, group, ph) ==
  /\ Len(events) < MaxEvents /\ time + t <= MaxTime
  /\ events' = Insert(events, Event(Word(id, group, ph), t))
  /\ UNCHANGED <<time, phase, last>>

\* CancelEvent
Without(map, id) == SelectSeq(map, LAMBDA e : e.word.id # id)

CancelEvent(id) ==
  /\ events' = Without(events, id)
  /\ UNCHANGED <<time, phase, last>>

RescheduleEvent(id, t, group, ph) ==
  /\ Len(Without(events, id)) < MaxEvents /\ time + t <= MaxTime
  /\ events' = Insert(Without(events, id), Event(Word(id, group, ph), t))
  /\ UNCHANGED <<time, phase, last>>

\* Repeat: the event of the last ExecuteEvent, with its groups and phases.
Repeat(t) ==
  /\ last # NoEvent
  /\ Len(events) < MaxEvents /\ time + t <= MaxTime
  /\ events' = Insert(events, Event(last, t))
  /\ UNCHANGED <<time, phase, last>>

CancelEventGroup(group) ==
  /\ events' = SelectSeq(events, LAMBDA e : Bit(group) \cap e.word.groups = {})
  /\ UNCHANGED <<time, phase, last>>

\* Mutant: the timer is put forward.
DelayEvents_Forward(delay) ==
  /\ time + delay <= MaxTime
  /\ time' = time + delay
  /\ events' = [i \in DOMAIN events |-> Later(events[i], delay)]
  /\ UNCHANGED <<phase, last>>

\* DelayEvents of all: the timer is put back, but not below 0.  Of a delay that is
\* greater than the timer the events wait for a part only, and the rest is cut off.
DelayEvents(delay) ==
  /\ time' = IF delay < time THEN time - delay ELSE 0
  /\ events' = [i \in DOMAIN events |->
       IF delay > time THEN [events[i] EXCEPT !.left = 0, !.cut = TRUE]
       ELSE Later(events[i], delay)]
  /\ UNCHANGED <<phase, last>>

\* Mutant: the delayed events stay at their places.
DelayGroup_InPlace(delay, group) ==
  /\ \A i \in DOMAIN events : events[i].at + delay <= MaxTime
  /\ events' = [i \in DOMAIN events |->
       IF Bit(group) \cap events[i].word.groups = {} THEN events[i]
       ELSE [Later(events[i], delay) EXCEPT !.at = @ + delay]]
  /\ UNCHANGED <<time, phase, last>>

\* DelayEvents of a group: its events are taken out, and inserted later.
DelayGroup(delay, group) ==
  /\ \A i \in DOMAIN events : events[i].at + delay <= MaxTime
  /\ LET In(e) == Bit(group) \cap e.word.groups # {}
         delayed == SelectSeq(events, In)
         later == [i \in DOMAIN delayed |->
                     [Later(delayed[i], delay) EXCEPT !.at = (@ + delay) % Width]]
     IN  events' = FoldLeft(Insert, SelectSeq(events, LAMBDA e : ~ In(e)), later)
  /\ UNCHANGED <<time, phase, last>>

\* The events at the front that are due and belong to other phases are thrown away.
Blocked(e) == phase # {} /\ e.word.phases # {} /\ e.word.phases \cap phase = {}
Skipped == SelectInSeq(events, LAMBDA e : e.at > time \/ ~ Blocked(e))
FirstKept == IF Skipped = 0 THEN Len(events) + 1 ELSE Skipped

\* Mutant: nothing is executed when an event has been thrown away.
ExecuteEvent_StopsAtBlocked ==
  /\ LET rest == SubSeq(events, FirstKept, Len(events))
     IN  IF FirstKept = 1 /\ rest # <<>> /\ Head(rest).at <= time
           THEN events' = Tail(rest) /\ last' = Head(rest).word
           ELSE events' = rest /\ UNCHANGED last
  /\ UNCHANGED <<time, phase>>

ExecuteEvent ==
  /\ LET rest == SubSeq(events, FirstKept, Len(events))
     IN  IF rest # <<>> /\ Head(rest).at <= time
           THEN events' = Tail(rest) /\ last' = Head(rest).word
           ELSE events' = rest /\ UNCHANGED last
  /\ UNCHANGED <<time, phase>>

\* GetNextEventTime and GetTimeUntilEvent of an id, and GetNextEventTime of all.
FirstOf(id) == SelectInSeq(events, LAMBDA e : e.word.id = id)
GetNextEventTime(id) == IF FirstOf(id) = 0 THEN 0 ELSE events[FirstOf(id)].at
GetTimeUntilEvent(id) ==
  IF FirstOf(id) = 0 THEN Width - 1 ELSE (events[FirstOf(id)].at - time) % Width
GetNextTime == IF events = <<>> THEN 0 ELSE events[1].at

Next ==
  \/ Reset
  \/ \E t \in Times : Update(t) \/ DelayEvents(t) \/ Repeat(t)
  \/ \E p \in PhaseArgs : SetPhase(p) \/ AddPhase(p) \/ RemovePhase(p)
  \/ \E id \in Ids, t \in Times, g \in GroupArgs, p \in PhaseArgs :
       ScheduleEvent(id, t, g, p) \/ RescheduleEvent(id, t, g, p)
  \/ \E id \in Ids : CancelEvent(id)
  \/ \E g \in GroupArgs : CancelEventGroup(g) \/ \E t \in Times : DelayGroup(t, g)
  \/ ExecuteEvent

Spec == Init /\ [][Next]_vars

------------------------------------------------------------------------------
TypeOK ==
  /\ time \in 0 .. MaxTime
  /\ phase \in SUBSET Bits
  /\ events \in Seq([word : [id : Ids, groups : SUBSET Bits, phases : SUBSET Bits],
                     at : 0 .. Width - 1, left : Int, cut : BOOLEAN])
  /\ Len(events) <= MaxEvents

\* The timer and the times of the events are moved by Update, by both DelayEvents and
\* by Repeat: through all of them an event has to wait as long as its user asked, less
\* what has passed, plus all it was delayed (while the timer does not wrap), unless
\* events were delayed by more than the timer: DelayEvents puts that back to 0 only,
\* so that they wait less than was asked (Util.h:733; by the comment, Util.h:728, such a
\* delay, and one that equals the timer, "will be 0": the code then delays by the timer).
Wait(e) == e.at - time
WaitIsReal == \A i \in DOMAIN events : events[i].cut \/ Wait(events[i]) = events[i].left

\* GetTimeUntilEvent answers for the occurrence of the id that comes first, and
\* GetNextEventTime for the one of all, wherever delays have moved them to (of an
\* event that is overdue the difference wraps: Util.cpp:568).
QueriesAreExact ==
  LET waits(S) == {Wait(events[i]) : i \in S}
      Least(S) == CHOOSE w \in waits(S) : \A v \in waits(S) : w <= v
  IN  /\ \A id \in Ids :
           LET S == {i \in DOMAIN events : events[i].word.id = id}
           IN  /\ S # {} => GetNextEventTime(id) = time + Least(S)
               /\ (S # {} /\ Least(S) >= 0) => GetTimeUntilEvent(id) = Least(S)
      /\ events # <<>> => GetNextTime = time + Least(DOMAIN events)

\* ExecuteEvent takes the due event that comes first among those that may occur in a
\* phase that is active, the one scheduled earlier if two are due at one time, and
\* throws away exactly the blocked ones before it (Util.h:704-724).
ExecutesTheNext ==
  [][ExecuteEvent =>
       LET due == {i \in DOMAIN events : Wait(events[i]) <= 0}
           free == {i \in due : ~ Blocked(events[i])}
           before(i, j) == \/ Wait(events[i]) < Wait(events[j])
                           \/ Wait(events[i]) = Wait(events[j]) /\ i <= j
           next == CHOOSE i \in free : \A j \in free : before(i, j)
           gone == IF free = {} THEN due ELSE {i \in due : before(i, next)}
       IN  /\ free # {} => last' = events[next].word
           /\ free = {} => last' = last
           /\ ToSet(events') = {events[i] : i \in DOMAIN events \ gone}
           /\ Len(events') = Len(events) - Cardinality(gone)]_vars
=============================================================================
