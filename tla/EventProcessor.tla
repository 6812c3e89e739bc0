--------------------------- MODULE EventProcessor ---------------------------
(***************************************************************************)
(* EventProcessor: events are added with a time; Update moves the clock    *)
(* and executes what is due, and KillAllEvents aborts what is left.  An    *)
(* Execute is a callback that runs inside Update: while it runs it may add *)
(* events (itself among them), abort others, or kill them all, so that     *)
(* every call below also happens in the middle of the loop of Update.      *)
(*                                                                         *)
(* The multimap is a sequence in the order of its iteration.  The events   *)
(* and their callers are outside of src/: an event is added again only by  *)
(* whoever owns it, and never for a time already due while Update runs     *)
(* (Update would not return).                                              *)
(***************************************************************************)
EXTENDS Integers, SequencesExt

CONSTANTS Events,    \* the events
          Deletable, \* those whose IsDeletable answers TRUE
          Offsets,   \* how far ahead events are added
          MaxTime,   \* a bound on the clock
          None

EventProcessorAssumption ==
  /\ Deletable \subseteq Events /\ Offsets \subseteq Nat
  /\ MaxTime \in Nat /\ None \notin Events

VARIABLES time,     \* m_time
          queue,    \* m_events
          aborting, \* m_aborting
          toAbort,  \* the events whose to_Abort is set
          running,  \* the event that Update is executing
          updating, \* whether Update is in its loop
          owner,    \* who holds an event: its caller, the processor, or nobody
          aborted,  \* the events whose Abort has been called
          executed  \* the events whose Execute has been called

vars == <<time, queue, aborting, toAbort, running, updating, owner, aborted, executed>>

Waiting == {queue[i].event : i \in DOMAIN queue}

\* Mutant: the constructor leaves the clock as it finds it, any 64 bits.
Init_Unset ==
  /\ time \in {0, MaxTime + 1} /\ queue = <<>> /\ aborting = FALSE
  /\ toAbort = {} /\ running = None /\ updating = FALSE
  /\ owner = [e \in Events |-> "caller"]
  /\ aborted = {} /\ executed = {}

Init ==
  /\ time = 0 /\ queue = <<>> /\ aborting = FALSE
  /\ toAbort = {} /\ running = None /\ updating = FALSE
  /\ owner = [e \in Events |-> "caller"]
  /\ aborted = {} /\ executed = {}

\* Mutant: an event goes to the end of the list.
Insert_Last(q, x) == Append(q, x)

\* multimap::insert
Insert(q, x) == InsertAt(q, 1 + Len(SelectSeq(q, LAMBDA y : y.at <= x.at)), x)

AddEvent(e, offset) ==
  /\ owner[e] = "caller" \/ (e = running /\ e \notin Waiting)
  /\ updating => offset > 0
  /\ time + offset <= MaxTime
  /\ queue' = Insert(queue, [event |-> e, at |-> time + offset])
  /\ owner' = [owner EXCEPT ![e] = "processor"]
  /\ UNCHANGED <<time, aborting, toAbort, running, updating, aborted, executed>>

\* Whoever knows a live event may set its to_Abort.
SetToAbort(e) ==
  /\ owner[e] # "deleted"
  /\ toAbort' = toAbort \union {e}
  /\ UNCHANGED <<time, queue, aborting, running, updating, owner, aborted, executed>>

Dead(force) == IF force THEN Waiting ELSE Waiting \cap Deletable

\* Mutant: what is not deletable is only aborted, not marked.
KillAllEvents_Unmarked(force) ==
  /\ aborting' = TRUE
  /\ toAbort' = toAbort \union Dead(force)
  /\ aborted' = aborted \union Waiting
  /\ owner' = [e \in Events |-> IF e \in Dead(force) THEN "deleted" ELSE owner[e]]
  /\ queue' = SelectSeq(queue, LAMBDA x : x.event \notin Dead(force))
  /\ UNCHANGED <<time, running, updating, executed>>

\* Mutant: only force takes the deleted events out of the list.
KillAllEvents_Keeps(force) ==
  /\ aborting' = TRUE
  /\ toAbort' = toAbort \union Waiting
  /\ aborted' = aborted \union Waiting
  /\ owner' = [e \in Events |-> IF e \in Dead(force) THEN "deleted" ELSE owner[e]]
  /\ queue' = IF force THEN <<>> ELSE queue
  /\ UNCHANGED <<time, running, updating, executed>>

KillAllEvents(force) ==
  /\ aborting' = TRUE
  /\ toAbort' = toAbort \union Waiting
  /\ aborted' = aborted \union Waiting
  /\ owner' = [e \in Events |-> IF e \in Dead(force) THEN "deleted" ELSE owner[e]]
  /\ queue' = SelectSeq(queue, LAMBDA x : x.event \notin Dead(force))
  /\ UNCHANGED <<time, running, updating, executed>>

BeginUpdate(p) ==
  /\ ~updating
  /\ time + p <= MaxTime
  /\ time' = time + p
  /\ updating' = TRUE
  /\ UNCHANGED <<queue, aborting, toAbort, running, owner, aborted, executed>>

Due == queue # <<>> /\ Head(queue).at <= time

\* Mutant: the event stays in the list until it has been executed.
Execute_LeavesIt ==
  /\ updating /\ running = None /\ Due
  /\ LET e == Head(queue).event IN
     /\ e \notin toAbort
     /\ running' = e
     /\ executed' = executed \union {e}
  /\ UNCHANGED <<time, queue, aborting, toAbort, updating, owner, aborted>>

\* The loop takes the first event out of the list and calls Execute ...
Execute ==
  /\ updating /\ running = None /\ Due
  /\ LET e == Head(queue).event IN
     /\ e \notin toAbort
     /\ running' = e
     /\ executed' = executed \union {e}
  /\ queue' = Tail(queue)
  /\ UNCHANGED <<time, aborting, toAbort, updating, owner, aborted>>

\* Mutant: the event is deleted whatever Execute answers.
Executed_Deletes ==
  /\ running # None
  /\ owner' = [owner EXCEPT ![running] = "deleted"]
  /\ running' = None
  /\ UNCHANGED <<time, queue, aborting, toAbort, updating, aborted, executed>>

\* ... which answers TRUE for the event to be deleted; an event that added itself
\* again answers FALSE, and so may one that its caller keeps.
Executed ==
  /\ running # None
  /\ \/ /\ running \notin Waiting
        /\ owner' = [owner EXCEPT ![running] = "deleted"]
     \/ /\ running \in Waiting
        /\ UNCHANGED owner
     \/ /\ running \notin Waiting /\ owner[running] = "processor"
        /\ owner' = [owner EXCEPT ![running] = "caller"]
  /\ running' = None
  /\ UNCHANGED <<time, queue, aborting, toAbort, updating, aborted, executed>>

\* Mutant: an event that was to be aborted is deleted only.
Abort_Silent ==
  /\ updating /\ running = None /\ Due
  /\ LET e == Head(queue).event IN
     /\ e \in toAbort
     /\ owner' = [owner EXCEPT ![e] = "deleted"]
  /\ queue' = Tail(queue)
  /\ UNCHANGED <<time, aborting, toAbort, running, updating, aborted, executed>>

\* ... or aborts it and deletes it.
Abort ==
  /\ updating /\ running = None /\ Due
  /\ LET e == Head(queue).event IN
     /\ e \in toAbort
     /\ aborted' = aborted \union {e}
     /\ owner' = [owner EXCEPT ![e] = "deleted"]
  /\ queue' = Tail(queue)
  /\ UNCHANGED <<time, aborting, toAbort, running, updating, executed>>

EndUpdate ==
  /\ updating /\ running = None /\ ~Due
  /\ updating' = FALSE
  /\ UNCHANGED <<time, queue, aborting, toAbort, running, owner, aborted, executed>>

\* The calls of the outside happen between updates or inside an Execute; one that has
\* added itself again does not kill all events, which would delete it while it runs.
Call ==
  /\ updating => running # None
  /\ \/ \E e \in Events, o \in Offsets : AddEvent(e, o)
     \/ \E e \in Events : SetToAbort(e)
     \/ \E force \in BOOLEAN : running \notin Dead(force) /\ KillAllEvents(force)

Update == Execute \/ Executed \/ Abort \/ EndUpdate

Next == Call \/ Update \/ \E p \in 0 .. MaxTime : BeginUpdate(p)

Spec == Init /\ [][Next]_vars

\* An Execute returns; the loop goes on.
FairSpec == Spec /\ WF_vars(Update)

------------------------------------------------------------------------------
TypeOK ==
  /\ time \in 0 .. MaxTime /\ aborting \in BOOLEAN /\ updating \in BOOLEAN
  /\ queue \in Seq([event : Events, at : 0 .. MaxTime])
  /\ toAbort \subseteq Events /\ aborted \subseteq Events /\ executed \subseteq Events
  /\ running \in Events \union {None}
  /\ owner \in [Events -> {"caller", "processor", "deleted"}]

\* What the list holds, or Update is executing, is what the processor owns, once: no
\* deleted event is left in the list, whichever callback killed it, and none leaks
\* (KillAllEvents, and the delete of Update after an Execute that added itself again).
OwnedOnce ==
  /\ Len(queue) = Cardinality(Waiting)
  /\ {e \in Events : owner[e] = "processor"} = Waiting \union ({running} \ {None})

\* An event that has been aborted is not executed afterwards, though KillAllEvents
\* leaves the ones that are not deletable in the list.
AbortedDontExecute == [][running' # running => running' \notin aborted]_vars

\* An event is deleted after its Execute or after its Abort, never without a call.
DeletedAfterCall == {e \in Events : owner[e] = "deleted"} \subseteq executed \union aborted

\* What Update executes is due, and no event in the list at that time is due earlier.
ExecutesTheEarliest ==
  [][running' \notin {running, None} =>
       \E i \in DOMAIN queue :
         /\ queue[i].event = running' /\ queue[i].at <= time
         /\ \A j \in DOMAIN queue : queue[i].at <= queue[j].at]_vars

\* Update returns, though what it executes adds events and adds itself again.
UpdateReturns == updating ~> ~updating
=============================================================================
