----------------------------- MODULE RoomUpdater -----------------------------
(***************************************************************************)
(* One tick of the rooms: RoomManager::Update on the world thread, the     *)
(* pool of worker threads of RoomUpdater, and the ProducerConsumerQueue    *)
(* between them, down to UnloadAll and RoomUpdater::deactivate.            *)
(*                                                                         *)
(* A critical section of the code is one action.  A condition variable is  *)
(* the "asleep" value of the threads that wait on it: notify moves them    *)
(* back to the test of their loop, and a spurious wakeup may do so at any  *)
(* time.  What happens inside Room::Update is the subject of Room.tla.     *)
(***************************************************************************)
EXTENDS Integers, Sequences, FiniteSets

CONSTANTS NumRooms,     \* RoomNumbers of the configuration
          Workers,      \* the threads of the pool, {} for RoomUpdate.Threads = 0
          Interval,     \* RoomUpdateInterval, in units of time
          MaxDiff,      \* bound: the longest time between two world updates
          NoRequest     \* nullptr

\* InitRooms gives the rooms the ids 0, 1, ... of the ordered _roomMap.
Rooms == 0 .. NumRooms - 1

\* RoomUpdateRequest: a room and the time its Update is told has passed.
Request == [room : Rooms, diff : Nat]

ASSUME NumRoomsAssumption == NumRooms \in Nat
ASSUME TimeAssumption == Interval \in Nat /\ MaxDiff \in Nat
ASSUME WorkersAssumption == IsFiniteSet(Workers)
ASSUME NoRequestAssumption == NoRequest \notin Request

VARIABLES
  main,      \* where the world thread is
  next,      \* the iterator of the loop of RoomManager::Update
  current,   \* _i_timer's _current
  queue,     \* ProducerConsumerQueue::_queue
  shutdown,  \* ProducerConsumerQueue::_shutdown
  pending,   \* RoomUpdater::pending_requests
  token,     \* RoomUpdater::_cancelationToken
  loaded,    \* the rooms of _roomMap exist (UnloadAll deletes them)
  worker,    \* where each worker thread is
  request,   \* the local variable request of each WorkerThread
  lag        \* history: the time that passed and room r has not been told of

vars == <<main, next, current, queue, shutdown, pending, token, loaded,
          worker, request, lag>>

mainVars   == <<main, next, current>>
updater    == <<queue, shutdown, pending, token>>
workerVars == <<worker, request>>

Activated == Workers # {}

Init == /\ main = "sessions"
        /\ next = 0
        /\ current = 0
        /\ queue = <<>>
        /\ shutdown = FALSE
        /\ pending = 0
        /\ token = FALSE
        /\ loaded = TRUE
        /\ worker = [w \in Workers |-> "pop"]
        /\ request = [w \in Workers |-> NoRequest]
        /\ lag = [r \in Rooms |-> 0]

------------------------------------------------------------------------------
(* The world thread.                                                       *)

\* World::Update(d): UpdateSessions has run, then RoomManager::Update adds d to
\* its timer and either returns or starts the loop over the rooms.
WorldUpdate(d) ==
  /\ main = "sessions"
  /\ current' = current + d
  /\ lag' = [r \in Rooms |-> lag[r] + d]
  /\ IF current + d >= Interval
       THEN main' = "schedule" /\ next' = 0
       ELSE UNCHANGED <<main, next>>
  /\ UNCHANGED <<updater, workerVars, loaded>>

\* The workers that are awake after a notify_one: one sleeper, if there is any.
NotifyOne ==
  IF \E w \in Workers : worker[w] = "asleep"
    THEN \E w \in Workers : /\ worker[w] = "asleep"
                            /\ worker' = [worker EXCEPT ![w] = "pop"]
    ELSE UNCHANGED worker

\* Mutant: the loop runs one room too far.
ScheduleUpdate_OneTooMany ==
  /\ main = "schedule"
  /\ next <= NumRooms
  /\ Activated
  /\ pending' = pending + 1
  /\ queue' = Append(queue, [room |-> next, diff |-> current])
  /\ NotifyOne
  /\ next' = next + 1
  /\ UNCHANGED <<main, current, shutdown, token, loaded, request, lag>>

\* Mutant: the request is pushed and not counted.
ScheduleUpdate_Uncounted ==
  /\ main = "schedule"
  /\ next < NumRooms
  /\ Activated
  /\ queue' = Append(queue, [room |-> next, diff |-> current])
  /\ NotifyOne
  /\ next' = next + 1
  /\ UNCHANGED <<main, current, pending, shutdown, token, loaded, request, lag>>

\* schedule_update for the next room: the count, the Push and its notify_one
\* are one critical section of _lock.
ScheduleUpdate ==
  /\ main = "schedule"
  /\ next < NumRooms
  /\ Activated
  /\ pending' = pending + 1
  /\ queue' = Append(queue, [room |-> next, diff |-> current])
  /\ NotifyOne
  /\ next' = next + 1
  /\ UNCHANGED <<main, current, shutdown, token, loaded, request, lag>>

\* Mutant: the last room is not told of the time.
InlineUpdate_SkipsLast ==
  /\ main = "schedule"
  /\ next < NumRooms
  /\ ~ Activated
  /\ lag' = IF next = NumRooms - 1 THEN lag ELSE [lag EXCEPT ![next] = @ - current]
  /\ next' = next + 1
  /\ UNCHANGED <<main, current, updater, loaded, workerVars>>

\* Without worker threads the world thread calls Room::Update itself.
InlineUpdate ==
  /\ main = "schedule"
  /\ next < NumRooms
  /\ ~ Activated
  /\ lag' = [lag EXCEPT ![next] = @ - current]
  /\ next' = next + 1
  /\ UNCHANGED <<main, current, updater, loaded, workerVars>>

\* The loop is over: wait() for the workers, or rewind the timer and return.
EndSchedule ==
  /\ main = "schedule"
  /\ next = NumRooms
  /\ IF Activated
       THEN main' = "wait" /\ UNCHANGED current
       ELSE main' = "sessions" /\ current' = 0
  /\ UNCHANGED <<next, updater, workerVars, loaded, lag>>

\* Mutant: the wait returns without looking at the count.
WaitReturn_Early ==
  /\ main = "wait"
  /\ IF loaded
       THEN main' = "sessions" /\ current' = 0
       ELSE main' = "cancel" /\ UNCHANGED current
  /\ UNCHANGED <<next, updater, workerVars, loaded, lag>>

\* RoomUpdater::wait with the request count at zero: RoomManager::Update sets
\* its timer to 0 and returns; deactivate goes on to cancel the queue.
WaitReturn ==
  /\ main = "wait"
  /\ pending = 0
  /\ IF loaded
       THEN main' = "sessions" /\ current' = 0
       ELSE main' = "cancel" /\ UNCHANGED current
  /\ UNCHANGED <<next, updater, workerVars, loaded, lag>>

\* The count is not zero: sleep on the condition of the updater.
WaitSleep ==
  /\ main = "wait"
  /\ pending > 0
  /\ main' = "asleep"
  /\ UNCHANGED <<next, current, updater, workerVars, loaded, lag>>

\* A spurious wakeup of the world thread.
MainWakesUp ==
  /\ main = "asleep"
  /\ main' = "wait"
  /\ UNCHANGED <<next, current, updater, workerVars, loaded, lag>>

\* RoomManager::UnloadAll between two ticks: it deletes the rooms first ...
UnloadAll ==
  /\ main = "sessions"
  /\ loaded' = FALSE
  /\ main' = IF Activated THEN "deactivate" ELSE "stopped"
  /\ UNCHANGED <<next, current, updater, workerVars, lag>>

\* ... and deactivates the updater afterwards: the token, the wait, ...
Deactivate ==
  /\ main = "deactivate"
  /\ token' = TRUE
  /\ main' = "wait"
  /\ UNCHANGED <<next, current, queue, shutdown, pending, workerVars, loaded, lag>>

\* ... ProducerConsumerQueue::Cancel, which empties the queue and sets
\* _shutdown in one critical section ...
Cancel ==
  /\ main = "cancel"
  /\ queue' = <<>>
  /\ shutdown' = TRUE
  /\ main' = "notify"
  /\ UNCHANGED <<next, current, pending, token, workerVars, loaded, lag>>

\* Mutant: notify_one where the code has notify_all.
NotifyAll_One ==
  /\ main = "notify"
  /\ NotifyOne
  /\ main' = "join"
  /\ UNCHANGED <<next, current, updater, request, loaded, lag>>

\* ... and notifies all the sleepers after it has unlocked ...
NotifyAll ==
  /\ main = "notify"
  /\ worker' = [w \in Workers |-> IF worker[w] = "asleep" THEN "pop" ELSE worker[w]]
  /\ main' = "join"
  /\ UNCHANGED <<next, current, updater, request, loaded, lag>>

\* ... and the joins.
Join ==
  /\ main = "join"
  /\ \A w \in Workers : worker[w] = "exited"
  /\ main' = "stopped"
  /\ UNCHANGED <<next, current, updater, workerVars, loaded, lag>>

------------------------------------------------------------------------------
(* A worker thread: RoomUpdater::WorkerThread.                             *)

\* Mutant: the request that is taken stays in the queue.
WaitAndPop_Peek(w) ==
  /\ worker[w] = "pop"
  /\ \/ /\ shutdown
        /\ worker' = [worker EXCEPT ![w] = "popped"]
        /\ UNCHANGED request
     \/ /\ ~ shutdown
        /\ queue # <<>>
        /\ worker' = [worker EXCEPT ![w] = "popped"]
        /\ request' = [request EXCEPT ![w] = Head(queue)]
     \/ /\ ~ shutdown
        /\ queue = <<>>
        /\ worker' = [worker EXCEPT ![w] = "asleep"]
        /\ UNCHANGED request
  /\ UNCHANGED <<mainVars, queue, shutdown, pending, token, loaded, lag>>

\* WaitAndPop: take the first request; or return with the null request when the
\* queue has been shut down; or sleep.
WaitAndPop(w) ==
  /\ worker[w] = "pop"
  /\ \/ /\ shutdown
        /\ worker' = [worker EXCEPT ![w] = "popped"]
        /\ UNCHANGED <<queue, request>>
     \/ /\ ~ shutdown
        /\ queue # <<>>
        /\ worker' = [worker EXCEPT ![w] = "popped"]
        /\ request' = [request EXCEPT ![w] = Head(queue)]
        /\ queue' = Tail(queue)
     \/ /\ ~ shutdown
        /\ queue = <<>>
        /\ worker' = [worker EXCEPT ![w] = "asleep"]
        /\ UNCHANGED <<queue, request>>
  /\ UNCHANGED <<mainVars, shutdown, pending, token, loaded, lag>>

\* A spurious wakeup of a worker.
WorkerWakesUp(w) ==
  /\ worker[w] = "asleep"
  /\ worker' = [worker EXCEPT ![w] = "pop"]
  /\ UNCHANGED <<mainVars, updater, loaded, request, lag>>

\* Mutant: the token is not tested.
CallRequest_NoToken(w) ==
  /\ worker[w] = "popped"
  /\ worker' = [worker EXCEPT ![w] = "updating"]
  /\ lag' = IF request[w] = NoRequest THEN lag
            ELSE [lag EXCEPT ![request[w].room] = @ - request[w].diff]
  /\ UNCHANGED <<mainVars, updater, loaded, request>>

\* The thread has its request: it ends if the token is set, and otherwise
\* calls the request, which enters Room::Update with the request's diff.
CallRequest(w) ==
  /\ worker[w] = "popped"
  /\ IF token
       THEN /\ worker' = [worker EXCEPT ![w] = "exited"]
            /\ UNCHANGED lag
       ELSE /\ worker' = [worker EXCEPT ![w] = "updating"]
            /\ lag' = IF request[w] = NoRequest THEN lag
                      ELSE [lag EXCEPT ![request[w].room] = @ - request[w].diff]
  /\ UNCHANGED <<mainVars, updater, loaded, request>>

\* Room::Update returns; update_finished has not been called yet.
RoomUpdateReturns(w) ==
  /\ worker[w] = "updating"
  /\ worker' = [worker EXCEPT ![w] = "finishing"]
  /\ UNCHANGED <<mainVars, updater, loaded, request, lag>>

\* Mutant: the world thread is not notified.
UpdateFinished_Silent(w) ==
  /\ worker[w] = "finishing"
  /\ pending' = pending - 1
  /\ worker' = [worker EXCEPT ![w] = "pop"]
  /\ request' = [request EXCEPT ![w] = NoRequest]
  /\ UNCHANGED <<mainVars, queue, shutdown, token, loaded, lag>>

\* update_finished: the count goes down and the world thread is notified in one
\* critical section of _lock; then the request is deleted.
UpdateFinished(w) ==
  /\ worker[w] = "finishing"
  /\ pending' = pending - 1
  /\ main' = IF main = "asleep" THEN "wait" ELSE main
  /\ worker' = [worker EXCEPT ![w] = "pop"]
  /\ request' = [request EXCEPT ![w] = NoRequest]
  /\ UNCHANGED <<next, current, queue, shutdown, token, loaded, lag>>

------------------------------------------------------------------------------
\* Everything has ended: the process may stutter.
Terminated == /\ main = "stopped"
              /\ \A w \in Workers : worker[w] = "exited"
              /\ UNCHANGED vars

MainStep == \/ ScheduleUpdate \/ InlineUpdate \/ EndSchedule
            \/ WaitReturn \/ WaitSleep
            \/ Deactivate \/ Cancel \/ NotifyAll \/ Join

WorkerStep(w) == \/ WaitAndPop(w) \/ CallRequest(w)
                 \/ RoomUpdateReturns(w) \/ UpdateFinished(w)

Next == \/ \E d \in 0 .. MaxDiff : WorldUpdate(d)
        \/ MainStep
        \/ UnloadAll
        \/ MainWakesUp
        \/ \E w \in Workers : WorkerStep(w) \/ WorkerWakesUp(w)
        \/ Terminated

Spec == Init /\ [][Next]_vars

\* The threads run: the world thread leaves no loop or critical section half
\* way, and neither does a worker.  No fairness is given to UnloadAll, to the
\* world loop's next tick, or to spurious wakeups.
FairSpec == /\ Spec
            /\ WF_vars(MainStep)
            /\ \A w \in Workers : WF_vars(WorkerStep(w))

------------------------------------------------------------------------------
(* Correctness.                                                            *)

TypeOK ==
  /\ main \in {"sessions", "schedule", "wait", "asleep", "deactivate", "cancel",
               "notify", "join", "stopped"}
  /\ next \in 0 .. NumRooms
  /\ current \in Nat
  /\ queue \in Seq(Request)
  /\ shutdown \in BOOLEAN
  /\ pending \in Int
  /\ token \in BOOLEAN
  /\ loaded \in BOOLEAN
  /\ worker \in [Workers -> {"pop", "asleep", "popped", "updating", "finishing",
                             "exited"}]
  /\ request \in [Workers -> Request \union {NoRequest}]
  /\ lag \in [Rooms -> Int]

\* The rooms of the queue, of the workers' requests, and both: the requests
\* that RoomUpdater has accepted and not finished.
Queued == {queue[i].room : i \in 1 .. Len(queue)}
Holders == {w \in Workers : request[w] # NoRequest}
Held == {request[w].room : w \in Holders}
Outstanding == Queued \union Held

\* The rooms this tick has not begun to update, and those it is updating.
Due == (IF main = "schedule" THEN next .. NumRooms - 1 ELSE {})
       \union Queued
       \union {request[w].room : w \in {v \in Holders : worker[v] = "popped"}}
Active == {request[w].room : w \in {v \in Holders : worker[v] = "updating"}}

\* A tick of this module is a tick of the abstract barrier.
Barrier == INSTANCE TickBarrier WITH
             phase <- IF ~ loaded THEN "stopped"
                      ELSE IF main = "sessions" THEN "sessions" ELSE "rooms",
             due <- Due,
             active <- Active

\* The scheduler implements the barrier: session handlers never run while a room
\* is in Room::Update, every room is updated exactly once per tick, and no two
\* threads are ever in one room.
ImplementsBarrier == Barrier!Spec

\* The request count that wait() looks at is the number of requests in flight,
\* each of a different room (pending_requests, RoomUpdater.cpp:84 and 98).
CountIsExact ==
  /\ pending = Cardinality(Outstanding)
  /\ \A i, j \in 1 .. Len(queue) : queue[i].room = queue[j].room => i = j
  /\ \A v, w \in Holders : request[v].room = request[w].room => v = w
  /\ Queued \intersect Held = {}

\* Session handlers run alone: while the world thread is outside the rooms'
\* part of the tick no request is queued or held by a worker, and each room has
\* been told of all the time that passed except what the timer still holds.
SessionsRunAlone ==
  main = "sessions" => /\ Outstanding = {}
                       /\ \A r \in Rooms : lag[r] = current

\* No worker calls a null request or a request of a deleted room, also when
\* the pool is taken down after UnloadAll has deleted the rooms.
NoDanglingCall ==
  \A w \in Workers : worker[w] = "updating" => request[w] # NoRequest /\ loaded

\* A worker holds a request exactly from the pop to the end of update_finished,
\* and pops the null request only from a queue that has been shut down.
HoldsItsRequest ==
  \A w \in Workers :
    /\ worker[w] \in {"pop", "asleep", "exited"} => request[w] = NoRequest
    /\ worker[w] \in {"updating", "finishing"} => request[w] # NoRequest
    /\ worker[w] = "popped" /\ request[w] = NoRequest => shutdown

\* The requests that are still to be called carry the timer's present value.
DiffIsCurrent ==
  /\ \A i \in 1 .. Len(queue) : queue[i].diff = current
  /\ \A w \in Holders : worker[w] = "popped" => request[w].diff = current

\* The rooms go first, then the token, then the queue.
TeardownOrder ==
  /\ shutdown => token
  /\ token => ~ loaded
  /\ ~ loaded /\ main \notin {"deactivate", "stopped"} => token
  /\ loaded => main \in {"sessions", "schedule", "wait", "asleep"}
  /\ ~ loaded => main \in {"deactivate", "wait", "asleep", "cancel", "notify", "join",
                           "stopped"}

\* Requests are in flight only during a tick, and only those it has scheduled.
QuietOutsideTicks ==
  /\ ~ loaded \/ main = "sessions" => Outstanding = {}
  /\ ~ Activated => queue = <<>>
  /\ main = "schedule" => \A r \in Outstanding : r < next

\* What each room has not been told: the whole of the timer or nothing.
LagIsKnown ==
  loaded => \A r \in Rooms :
    lag[r] = IF main = "sessions" \/ r \in Due THEN current ELSE 0

\* The inductive invariant: where each request can be while the world thread is
\* at a given point, and what each room has been told so far in the tick.
IndInv == /\ TypeOK
          /\ CountIsExact
          /\ HoldsItsRequest
          /\ DiffIsCurrent
          /\ TeardownOrder
          /\ QuietOutsideTicks
          /\ LagIsKnown

\* Every tick that starts ends (the wait of RoomManager::Update is not lost).
TickCompletes == (main = "schedule") ~> (main = "sessions")

\* Once UnloadAll has begun, the pool is joined: no worker sleeps through it.
ShutdownCompletes == (~ loaded) ~> (main = "stopped" /\ \A w \in Workers : worker[w] = "exited")

\* The world thread always comes out of wait and of deactivate (RoomUpdater.cpp:27, 70).
WaitsEnd == TickCompletes /\ ShutdownCompletes
==============================================================================
