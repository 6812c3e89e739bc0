-------------------------- MODULE RoomUpdater_proof --------------------------
(***************************************************************************)
(* Proofs about RoomUpdater, for every number of rooms, every finite set   *)
(* of workers (none included), every interval and every step of the clock. *)
(***************************************************************************)
EXTENDS RoomUpdater, TLAPS, FiniteSetTheorems, SequenceTheorems

Stages == {"sessions", "schedule", "wait", "asleep", "deactivate", "cancel",
           "notify", "join", "stopped"}

------------------------------------------------------------------------------
(* Type correctness.                                                       *)

\* The initial state has the declared types.
LEMMA InitTypeOK == Init => TypeOK
<1> SUFFICES ASSUME Init PROVE TypeOK
  OBVIOUS
<1>1. queue \in Seq(Request)
  BY DEF Init
<1>2. lag \in [Rooms -> Int]
  BY DEF Init
<1>3. worker \in [Workers -> {"pop", "asleep", "popped", "updating", "finishing",
                             "exited"}]
  BY DEF Init
<1>4. request \in [Workers -> Request \union {NoRequest}]
  BY DEF Init
<1>5. main \in Stages
  BY DEF Init, Stages
<1>6. next \in 0 .. NumRooms /\ current \in Nat /\ pending \in Int
  BY NumRoomsAssumption DEF Init
<1>7. shutdown \in BOOLEAN /\ token \in BOOLEAN /\ loaded \in BOOLEAN
  BY DEF Init
<1>8. QED BY <1>1, <1>2, <1>3, <1>4, <1>5, <1>6, <1>7 DEF TypeOK, Stages

\* Every step keeps the declared types.
LEMMA NextTypeOK == TypeOK /\ [Next]_vars => TypeOK'
<1> SUFFICES ASSUME TypeOK, [Next]_vars PROVE TypeOK'
  OBVIOUS
<1> USE NumRoomsAssumption, TimeAssumption DEF TypeOK, mainVars, updater, workerVars
<1>1. ASSUME NEW d \in 0 .. MaxDiff, WorldUpdate(d) PROVE TypeOK'
  BY <1>1 DEF WorldUpdate
<1>2. CASE ScheduleUpdate
  <2>1. [room |-> next, diff |-> current] \in Request
    BY <1>2 DEF ScheduleUpdate, Request, Rooms
  <2>2. queue' \in Seq(Request)
    BY <1>2, <2>1 DEF ScheduleUpdate
  <2>3. worker' \in [Workers -> {"pop", "asleep", "popped", "updating",
                                  "finishing", "exited"}]
    BY <1>2 DEF ScheduleUpdate, NotifyOne
  <2>4. QED BY <1>2, <2>2, <2>3 DEF ScheduleUpdate
<1>3. CASE InlineUpdate
  BY <1>3 DEF InlineUpdate, Rooms
<1>4. CASE EndSchedule
  BY <1>4 DEF EndSchedule
<1>5. CASE WaitReturn
  BY <1>5 DEF WaitReturn
<1>6. CASE WaitSleep
  BY <1>6 DEF WaitSleep
<1>7. CASE Deactivate
  BY <1>7 DEF Deactivate
<1>8. CASE Cancel
  BY <1>8 DEF Cancel
<1>9. CASE NotifyAll
  BY <1>9 DEF NotifyAll
<1>10. CASE Join
  BY <1>10 DEF Join
<1>11. CASE UnloadAll
  BY <1>11 DEF UnloadAll
<1>12. CASE MainWakesUp
  BY <1>12 DEF MainWakesUp
<1>13. ASSUME NEW w \in Workers, WaitAndPop(w) PROVE TypeOK'
  <2>1. queue # <<>> => Head(queue) \in Request /\ Tail(queue) \in Seq(Request)
    BY HeadTailProperties
  <2>2. QED BY <1>13, <2>1 DEF WaitAndPop
<1>14. ASSUME NEW w \in Workers, CallRequest(w) PROVE TypeOK'
  <2>1. request[w] # NoRequest => request[w].room \in Rooms /\ request[w].diff \in Int
    BY DEF Request
  <2>2. lag' \in [Rooms -> Int]
    BY <1>14, <2>1 DEF CallRequest
  <2>3. QED BY <1>14, <2>2 DEF CallRequest
<1>15. ASSUME NEW w \in Workers, RoomUpdateReturns(w) PROVE TypeOK'
  BY <1>15 DEF RoomUpdateReturns
<1>16. ASSUME NEW w \in Workers, UpdateFinished(w) PROVE TypeOK'
  BY <1>16 DEF UpdateFinished
<1>17. ASSUME NEW w \in Workers, WorkerWakesUp(w) PROVE TypeOK'
  BY <1>17 DEF WorkerWakesUp
<1>18. CASE UNCHANGED vars \/ Terminated
  BY <1>18 DEF vars, Terminated
<1>19. QED
  BY <1>1, <1>2, <1>3, <1>4, <1>5, <1>6, <1>7, <1>8, <1>9, <1>10, <1>11, <1>12,
     <1>13, <1>14, <1>15, <1>16, <1>17, <1>18
     DEF Next, MainStep, WorkerStep

\* The updater's variables always have the types TypeOK gives them: in
\* particular the loop of RoomManager::Update never schedules a room that
\* does not exist.
THEOREM UpdaterTypeCorrect == Spec => []TypeOK
<1>1. QED BY InitTypeOK, NextTypeOK, PTL DEF Spec
------------------------------------------------------------------------------
(* The queue and the requests in flight.                                   *)

\* What Push does to the rooms of the queue.
LEMMA PushQueued ==
  ASSUME NEW q \in Seq(Request), NEW e \in Request
  PROVE  {Append(q, e)[i].room : i \in 1 .. Len(Append(q, e))}
           = {q[i].room : i \in 1 .. Len(q)} \union {e.room}
<1> DEFINE A == Append(q, e)
<1>1. /\ Len(A) = Len(q) + 1
      /\ \A i \in 1 .. Len(q) : A[i] = q[i]
      /\ A[Len(q) + 1] = e
  BY AppendProperties
<1>2. 1 .. Len(A) = (1 .. Len(q)) \union {Len(q) + 1}
  BY <1>1, LenProperties
<1> HIDE DEF A
<1>3. {A[i].room : i \in 1 .. Len(A)} = {q[i].room : i \in 1 .. Len(q)} \union {e.room}
  BY <1>1, <1>2
<1>4. QED BY <1>3 DEF A

\* What taking the front of the queue does to its rooms.
LEMMA PopQueued ==
  ASSUME NEW q \in Seq(Request), q # <<>>
  PROVE  /\ Head(q) = q[1] /\ Head(q) \in Request
         /\ Tail(q) \in Seq(Request) /\ Len(Tail(q)) = Len(q) - 1
         /\ \A i \in 1 .. Len(Tail(q)) : Tail(q)[i] = q[i + 1]
         /\ {q[i].room : i \in 1 .. Len(q)}
              = {Tail(q)[i].room : i \in 1 .. Len(Tail(q))} \union {Head(q).room}
<1> DEFINE T == Tail(q)
<1>1. /\ Head(q) = q[1] /\ Head(q) \in Request /\ T \in Seq(Request)
      /\ Len(T) = Len(q) - 1
      /\ \A i \in 1 .. Len(T) : T[i] = q[i + 1]
      /\ Len(q) \in Nat /\ Len(q) > 0
  BY HeadTailProperties, LenProperties, EmptySeq
<1> HIDE DEF T
<1>2. ASSUME NEW i \in 1 .. Len(q), i # 1
      PROVE  i - 1 \in 1 .. Len(T) /\ T[i - 1] = q[i]
  <2>1. i - 1 \in 1 .. Len(T) /\ (i - 1) + 1 = i
    BY <1>1, <1>2
  <2>2. T[i - 1] = q[(i - 1) + 1]
    BY <1>1, <2>1
  <2>3. QED BY <2>1, <2>2
<1>3. {q[i].room : i \in 1 .. Len(q)} \subseteq {T[i].room : i \in 1 .. Len(T)} \union {q[1].room}
  BY <1>2
<1>4. \A i \in 1 .. Len(T) : i + 1 \in 1 .. Len(q) /\ T[i] = q[i + 1]
  BY <1>1
<1>5. {T[i].room : i \in 1 .. Len(T)} \union {q[1].room} \subseteq {q[i].room : i \in 1 .. Len(q)}
  BY <1>1, <1>4
<1>6. QED BY <1>1, <1>3, <1>5 DEF T

\* The rooms in flight are finitely many, so they can be counted.
LEMMA OutstandingFinite == TypeOK => Outstanding \subseteq Rooms /\ IsFiniteSet(Outstanding)
<1> SUFFICES ASSUME TypeOK PROVE Outstanding \subseteq Rooms /\ IsFiniteSet(Outstanding)
  OBVIOUS
<1>1. Queued \subseteq Rooms
  <2>1. \A i \in 1 .. Len(queue) : queue[i] \in Request
    BY ElementOfSeq DEF TypeOK
  <2>2. QED BY <2>1 DEF Queued, Request
<1>2. Held \subseteq Rooms
  BY DEF TypeOK, Held, Holders, Request
<1>3. IsFiniteSet(Rooms)
  BY FS_Interval, NumRoomsAssumption DEF Rooms
<1>4. QED BY <1>1, <1>2, <1>3, FS_Subset DEF Outstanding

\* Only an empty set of requests is counted as none.
LEMMA NonePending ==
  ASSUME TypeOK, CountIsExact, pending = 0
  PROVE  Outstanding = {}
<1>1. QED BY OutstandingFinite, FS_EmptySet DEF CountIsExact
------------------------------------------------------------------------------
(* The inductive invariant.                                                *)

\* Nothing is in flight in the initial state.
LEMMA InitIndInv == Init => IndInv
<1> SUFFICES ASSUME Init PROVE IndInv
  OBVIOUS
<1>1. TypeOK
  BY InitTypeOK
<1>2. Queued = {} /\ Holders = {} /\ Held = {} /\ Outstanding = {}
  BY DEF Init, Queued, Holders, Held, Outstanding
<1>3. CountIsExact
  BY <1>2, FS_EmptySet DEF Init, CountIsExact
<1>4. HoldsItsRequest /\ DiffIsCurrent /\ TeardownOrder
  BY <1>2 DEF Init, HoldsItsRequest, DiffIsCurrent, TeardownOrder
<1>5. QuietOutsideTicks /\ LagIsKnown
  BY <1>2 DEF Init, QuietOutsideTicks, LagIsKnown
<1>6. QED BY <1>1, <1>3, <1>4, <1>5 DEF IndInv

\* The steps of the world thread between two critical sections leave every
\* request where it is.
LEMMA QuietStep ==
  ASSUME IndInv, UNCHANGED <<queue, shutdown, pending, worker, request>>
  PROVE  /\ CountIsExact' /\ HoldsItsRequest'
         /\ UNCHANGED <<Queued, Holders, Held, Outstanding, Active>>
         /\ current' = current => DiffIsCurrent'
         /\ main # "schedule" /\ main' # "schedule" => Due' = Due
<1>1. UNCHANGED <<Queued, Holders, Held, Outstanding, Active>>
  BY DEF Queued, Holders, Held, Outstanding, Active
<1>2. CountIsExact' /\ HoldsItsRequest'
  BY <1>1 DEF IndInv, CountIsExact, HoldsItsRequest
<1>3. current' = current => DiffIsCurrent'
  BY <1>1 DEF IndInv, DiffIsCurrent
<1>4. main # "schedule" /\ main' # "schedule" => Due' = Due
  BY <1>1 DEF Due
<1>5. QED BY <1>1, <1>2, <1>3, <1>4

\* A tick begins or the clock advances.
LEMMA WorldUpdateIndInv ==
  ASSUME IndInv, TypeOK', NEW d \in 0 .. MaxDiff, WorldUpdate(d)
  PROVE  IndInv'
<1> USE DEF WorldUpdate, updater, workerVars
<1>1. CountIsExact' /\ HoldsItsRequest' /\ UNCHANGED <<Queued, Holders, Held, Outstanding>>
  BY QuietStep
<1>2. loaded /\ Outstanding = {} /\ Queued = {} /\ Held = {} /\ queue = <<>>
  <2>1. loaded /\ Outstanding = {}
    BY DEF IndInv, TeardownOrder, QuietOutsideTicks
  <2>2. queue = <<>>
    <3>1. ASSUME queue # <<>> PROVE FALSE
      <4>1. Len(queue) \in Nat \ {0}
        BY <3>1, EmptySeq DEF IndInv, TypeOK
      <4>2. queue[1].room \in Queued
        BY <4>1 DEF Queued
      <4>3. QED BY <2>1, <4>2 DEF Outstanding
    <3>2. QED BY <3>1
  <2>3. QED BY <2>1, <2>2 DEF Outstanding
<1>3. DiffIsCurrent'
  <2>1. Holders = {}
    BY <1>2 DEF Held
  <2>2. Len(queue) = 0
    BY <1>2, EmptySeq
  <2>3. QED BY <1>1, <2>1, <2>2 DEF DiffIsCurrent
<1>4. TeardownOrder'
  BY <1>2 DEF IndInv, TeardownOrder
<1>5. QuietOutsideTicks'
  BY <1>1, <1>2 DEF QuietOutsideTicks, Activated
<1>6. LagIsKnown'
  <2>1. \A r \in Rooms : lag'[r] = current'
    BY <1>2 DEF IndInv, LagIsKnown
  <2>2. main' # "sessions" => main' = "schedule" /\ next' = 0
    BY DEF IndInv, TypeOK
  <2>3. main' = "schedule" => Rooms \subseteq Due'
    BY <2>2 DEF Due, Rooms
  <2>4. QED BY <2>1, <2>2, <2>3 DEF LagIsKnown
<1>7. QED BY <1>1, <1>3, <1>4, <1>5, <1>6 DEF IndInv

\* The loop without threads tells the rooms one after the other.
LEMMA InlineUpdateIndInv ==
  ASSUME IndInv, TypeOK', InlineUpdate
  PROVE  IndInv'
<1> USE DEF InlineUpdate, updater, workerVars
<1>1. /\ CountIsExact' /\ HoldsItsRequest' /\ DiffIsCurrent'
      /\ UNCHANGED <<Queued, Holders, Held, Outstanding>>
  BY QuietStep
<1>2. queue = <<>> /\ Workers = {} /\ Len(queue) = 0
  BY EmptySeq DEF IndInv, QuietOutsideTicks, Activated
<1>3. Queued = {} /\ Holders = {} /\ Outstanding = {}
  BY <1>2 DEF Queued, Holders, Held, Outstanding
<1>4. TeardownOrder'
  BY DEF IndInv, TeardownOrder
<1>5. QuietOutsideTicks'
  BY <1>1, <1>3 DEF IndInv, QuietOutsideTicks, Activated
<1>6. LagIsKnown'
  <2>1. Due = next .. NumRooms - 1 /\ Due' = next + 1 .. NumRooms - 1
    BY <1>1, <1>3 DEF Due
  <2>2. \A r \in Rooms : r # next => (r \in Due <=> r \in Due')
    BY <2>1, NumRoomsAssumption DEF IndInv, TypeOK, Rooms
  <2>3. next \in Rooms /\ next \in Due /\ next \notin Due'
    BY <2>1, NumRoomsAssumption DEF IndInv, TypeOK, Rooms
  <2>4. ASSUME loaded', NEW r \in Rooms
        PROVE  lag'[r] = IF main' = "sessions" \/ r \in Due' THEN current' ELSE 0
    <3>1. lag[r] = IF r \in Due THEN current ELSE 0
      BY <2>4 DEF IndInv, LagIsKnown
    <3>2. lag'[r] = IF r = next THEN lag[r] - current ELSE lag[r]
      BY DEF IndInv, TypeOK
    <3>3. QED BY <2>2, <2>3, <3>1, <3>2 DEF IndInv, TypeOK
  <2>5. QED BY <2>4 DEF LagIsKnown
<1>7. QED BY <1>1, <1>4, <1>5, <1>6 DEF IndInv

\* The end of the loop: either the world thread waits, or the tick is over.
LEMMA EndScheduleIndInv ==
  ASSUME IndInv, TypeOK', EndSchedule
  PROVE  IndInv'
<1> USE DEF EndSchedule, updater, workerVars
<1>1. /\ CountIsExact' /\ HoldsItsRequest'
      /\ UNCHANGED <<Queued, Holders, Held, Outstanding>>
  BY QuietStep
<1>2. TeardownOrder'
  BY DEF IndInv, TeardownOrder
<1>3. ~ Activated => Queued = {} /\ Holders = {} /\ Outstanding = {} /\ Len(queue) = 0
  BY EmptySeq DEF IndInv, QuietOutsideTicks, Activated, Queued, Holders, Held, Outstanding
<1>4. DiffIsCurrent'
  BY <1>1, <1>3 DEF IndInv, DiffIsCurrent
<1>5. QuietOutsideTicks'
  BY <1>1, <1>3 DEF IndInv, QuietOutsideTicks, TeardownOrder, Activated
<1>6. LagIsKnown'
  <2>1. next .. NumRooms - 1 = {}
    BY NumRoomsAssumption DEF IndInv, TypeOK
  <2>2. Activated => Due' = Due
    BY <1>1, <2>1 DEF Due
  <2>3. ~ Activated => Due = {}
    BY <1>3, <2>1 DEF Due
  <2>4. QED BY <2>2, <2>3 DEF IndInv, LagIsKnown
<1>7. QED BY <1>1, <1>2, <1>4, <1>5, <1>6 DEF IndInv

\* The wait returns only when nothing is in flight.
LEMMA WaitReturnIndInv ==
  ASSUME IndInv, TypeOK', WaitReturn
  PROVE  IndInv'
<1> USE DEF WaitReturn, updater, workerVars
<1>1. /\ CountIsExact' /\ HoldsItsRequest'
      /\ UNCHANGED <<Queued, Holders, Held, Outstanding>>
  BY QuietStep
<1>2. Outstanding = {} /\ Queued = {} /\ Held = {}
  BY NonePending DEF IndInv, Outstanding
<1>3. Holders = {} /\ \A i \in 1 .. Len(queue) : FALSE
  BY <1>2 DEF Held, Queued
<1>4. DiffIsCurrent'
  BY <1>1, <1>3 DEF DiffIsCurrent
<1>5. TeardownOrder'
  BY DEF IndInv, TeardownOrder
<1>6. QuietOutsideTicks'
  BY <1>1, <1>2 DEF IndInv, QuietOutsideTicks, Activated
<1>7. LagIsKnown'
  <2>1. Due = {}
    BY <1>2, <1>3 DEF Due
  <2>2. QED BY <2>1 DEF IndInv, LagIsKnown
<1>8. QED BY <1>1, <1>4, <1>5, <1>6, <1>7 DEF IndInv

\* Going to sleep, waking up, the steps of the teardown that touch no request.
LEMMA OtherMainIndInv ==
  ASSUME IndInv, TypeOK',
         WaitSleep \/ MainWakesUp \/ UnloadAll \/ Deactivate \/ Join
  PROVE  IndInv'
<1> USE DEF WaitSleep, MainWakesUp, UnloadAll, Deactivate, Join, updater, workerVars
<1>1. /\ CountIsExact' /\ HoldsItsRequest' /\ DiffIsCurrent'
      /\ UNCHANGED <<Queued, Holders, Held, Outstanding>>
      /\ main # "schedule" /\ main' # "schedule" => Due' = Due
  BY QuietStep
<1>2. TeardownOrder'
  BY DEF IndInv, TeardownOrder, TypeOK
<1>3. QuietOutsideTicks'
  BY <1>1 DEF IndInv, QuietOutsideTicks, Activated
<1>4. LagIsKnown'
  <2>1. SUFFICES ASSUME loaded' PROVE LagIsKnown'
    BY DEF LagIsKnown
  <2>2. WaitSleep \/ MainWakesUp
    BY <2>1 DEF IndInv, TeardownOrder
  <2>3. QED BY <1>1, <2>2 DEF IndInv, LagIsKnown
<1>5. QED BY <1>1, <1>2, <1>3, <1>4 DEF IndInv

\* Cancel finds the queue empty, and sets _shutdown after the token.
LEMMA CancelIndInv ==
  ASSUME IndInv, TypeOK', Cancel
  PROVE  IndInv'
<1> USE DEF Cancel, workerVars
<1>1. ~ loaded /\ ~ loaded' /\ Outstanding = {} /\ Queued = {} /\ Held = {}
  BY DEF IndInv, TeardownOrder, QuietOutsideTicks, Outstanding
<1>2. Queued' = {} /\ Len(queue') = 0
  BY EmptySeq DEF Queued
<1>3. Holders' = Holders /\ Held' = {} /\ Outstanding' = {}
  BY <1>1, <1>2 DEF Holders, Held, Outstanding
<1>4. CountIsExact'
  BY <1>1, <1>2, <1>3 DEF IndInv, CountIsExact
<1>5. HoldsItsRequest'
  BY DEF IndInv, HoldsItsRequest
<1>6. DiffIsCurrent'
  BY <1>2, <1>3 DEF IndInv, DiffIsCurrent
<1>7. TeardownOrder'
  BY <1>1 DEF IndInv, TeardownOrder
<1>8. QuietOutsideTicks' /\ LagIsKnown'
  BY <1>1, <1>3 DEF QuietOutsideTicks, LagIsKnown
<1>9. QED BY <1>4, <1>5, <1>6, <1>7, <1>8 DEF IndInv

\* A step that wakes sleepers up, and leaves every other worker alone.
WakesSleepers ==
  /\ UNCHANGED request
  /\ worker' \in [Workers -> {"pop", "asleep", "popped", "updating", "finishing",
                              "exited"}]
  /\ \A w \in Workers : \/ worker'[w] = worker[w]
                        \/ (worker[w] = "asleep" /\ worker'[w] = "pop")

\* Waking up changes neither who holds what nor what is due or active.
LEMMA WakingUp ==
  ASSUME IndInv, WakesSleepers
  PROVE  /\ UNCHANGED <<Holders, Held, Active>>
         /\ {v \in Holders : worker[v] = "popped"}' = {v \in Holders : worker[v] = "popped"}
         /\ shutdown' = shutdown => HoldsItsRequest'
<1>1. Holders' = Holders /\ Held' = Held
  BY DEF WakesSleepers, Holders, Held
<1>2. \A w \in Workers : \A k \in {"popped", "updating"} : worker'[w] = k <=> worker[w] = k
  BY DEF WakesSleepers
<1>3. Holders \subseteq Workers
  BY DEF Holders
<1>4. {v \in Holders : worker[v] = "popped"}' = {v \in Holders : worker[v] = "popped"}
  BY <1>1, <1>2, <1>3
<1>5. {v \in Holders : worker[v] = "updating"}' = {v \in Holders : worker[v] = "updating"}
  BY <1>1, <1>2, <1>3
<1>6. Active' = Active
  BY <1>5 DEF Active, WakesSleepers
<1>7. shutdown' = shutdown => HoldsItsRequest'
  BY DEF IndInv, HoldsItsRequest, WakesSleepers
<1>8. QED BY <1>1, <1>4, <1>6, <1>7

\* notify_all, the spurious wakeup of a worker, and notify_one wake sleepers.
LEMMA WakeSteps ==
  ASSUME TypeOK
  PROVE  /\ NotifyAll => WakesSleepers
         /\ \A w \in Workers : WorkerWakesUp(w) => WakesSleepers
         /\ NotifyOne /\ UNCHANGED request => WakesSleepers
<1>1. NotifyAll => WakesSleepers
  BY DEF NotifyAll, WakesSleepers, TypeOK
<1>2. \A w \in Workers : WorkerWakesUp(w) => WakesSleepers
  BY DEF WorkerWakesUp, WakesSleepers, TypeOK
<1>3. NotifyOne /\ UNCHANGED request => WakesSleepers
  BY DEF NotifyOne, WakesSleepers, TypeOK
<1>4. QED BY <1>1, <1>2, <1>3

\* The steps that only wake workers up.
LEMMA WakeUpIndInv ==
  ASSUME IndInv, TypeOK', NotifyAll \/ \E w \in Workers : WorkerWakesUp(w)
  PROVE  IndInv'
<1> USE DEF NotifyAll, WorkerWakesUp, mainVars, updater
<1>1. WakesSleepers
  BY WakeSteps DEF IndInv
<1>2. UNCHANGED <<next, current, queue, shutdown, pending, token, loaded, lag>>
  OBVIOUS
<1>3. /\ UNCHANGED <<Queued, Holders, Held, Outstanding>>
      /\ HoldsItsRequest'
      /\ {v \in Holders : worker[v] = "popped"}' = {v \in Holders : worker[v] = "popped"}
  BY <1>1, <1>2, WakingUp DEF Queued, Outstanding
<1>4. UNCHANGED request
  BY <1>1 DEF WakesSleepers
<1>5. CountIsExact'
  BY <1>2, <1>3, <1>4 DEF IndInv, CountIsExact
<1>6. DiffIsCurrent'
  <2>1. \A w \in Holders' : worker'[w] = "popped" => worker[w] = "popped" /\ w \in Holders
    BY <1>1, <1>3 DEF WakesSleepers, Holders
  <2>2. QED BY <1>2, <1>4, <2>1 DEF IndInv, DiffIsCurrent
<1>7. TeardownOrder'
  BY <1>2 DEF IndInv, TeardownOrder
<1>8. QuietOutsideTicks'
  BY <1>2, <1>3 DEF IndInv, QuietOutsideTicks, TeardownOrder, Activated
<1>9. LagIsKnown'
  <2>1. SUFFICES ASSUME loaded' PROVE LagIsKnown'
    BY DEF LagIsKnown
  <2>2. main' = main
    BY <1>2, <2>1 DEF IndInv, TeardownOrder
  <2>3. Due' = Due
    BY <1>2, <1>3, <1>4, <2>2 DEF Due
  <2>4. QED BY <1>2, <2>2, <2>3 DEF IndInv, LagIsKnown
<1>10. QED BY <1>3, <1>5, <1>6, <1>7, <1>8, <1>9 DEF IndInv

\* Scheduling moves the next room from the loop into the queue.
LEMMA ScheduleUpdateIndInv ==
  ASSUME IndInv, TypeOK', ScheduleUpdate
  PROVE  IndInv' /\ UNCHANGED <<Due, Active>>
<1> USE DEF ScheduleUpdate
<1> DEFINE e == [room |-> next, diff |-> current]
<1>1. next \in Rooms /\ e \in Request /\ queue \in Seq(Request) /\ next \in Nat
  BY NumRoomsAssumption DEF IndInv, TypeOK, Rooms, Request
<1>2. WakesSleepers
  BY WakeSteps DEF IndInv
<1>3. /\ UNCHANGED <<Holders, Held, Active>> /\ HoldsItsRequest'
      /\ {v \in Holders : worker[v] = "popped"}' = {v \in Holders : worker[v] = "popped"}
  BY <1>2, WakingUp
<1>4. Queued' = Queued \union {next}
  BY <1>1, PushQueued DEF Queued
<1>5. Outstanding' = Outstanding \union {next}
  BY <1>3, <1>4 DEF Outstanding
<1>6. next \notin Outstanding
  BY <1>1 DEF IndInv, QuietOutsideTicks
<1>7. /\ Len(queue') = Len(queue) + 1 /\ queue'[Len(queue) + 1] = e /\ Len(queue) \in Nat
      /\ \A i \in 1 .. Len(queue) : queue'[i] = queue[i]
  BY <1>1, AppendProperties, LenProperties
<1>8. CountIsExact'
  <2>1. pending' = Cardinality(Outstanding')
    BY <1>5, <1>6, OutstandingFinite, FS_AddElement DEF IndInv, CountIsExact
  <2>2. \A i \in 1 .. Len(queue) : queue'[i].room # next
    BY <1>6, <1>7 DEF Queued, Outstanding
  <2>3. ASSUME NEW i \in 1 .. Len(queue'), NEW j \in 1 .. Len(queue'),
               queue'[i].room = queue'[j].room
        PROVE  i = j
    <3>1. CASE i # Len(queue) + 1 /\ j # Len(queue) + 1
      <4>1. i \in 1 .. Len(queue) /\ j \in 1 .. Len(queue)
        BY <1>7, <3>1
      <4>2. QED BY <1>7, <2>3, <4>1 DEF IndInv, CountIsExact
    <3>2. CASE i = Len(queue) + 1 /\ j # Len(queue) + 1
      BY <1>7, <2>2, <2>3, <3>2
    <3>3. CASE i # Len(queue) + 1 /\ j = Len(queue) + 1
      BY <1>7, <2>2, <2>3, <3>3
    <3>4. QED BY <3>1, <3>2, <3>3
  <2>4. Queued' \intersect Held' = {}
    BY <1>3, <1>4, <1>6 DEF IndInv, CountIsExact, Outstanding
  <2>5. \A v, w \in Holders' : request'[v].room = request'[w].room => v = w
    BY <1>3 DEF IndInv, CountIsExact
  <2>6. QED BY <2>1, <2>3, <2>4, <2>5 DEF CountIsExact
<1>9. DiffIsCurrent'
  <2>1. \A i \in 1 .. Len(queue') : queue'[i].diff = current'
    <3>1. \A i \in 1 .. Len(queue') : i \in 1 .. Len(queue) \/ i = Len(queue) + 1
      BY <1>7
    <3>2. QED BY <1>7, <3>1 DEF IndInv, DiffIsCurrent
  <2>2. \A w \in Holders' : worker'[w] = "popped" => worker[w] = "popped" /\ w \in Holders
    BY <1>2, <1>3 DEF WakesSleepers, Holders
  <2>3. QED BY <2>1, <2>2 DEF IndInv, DiffIsCurrent
<1>10. TeardownOrder'
  BY DEF IndInv, TeardownOrder
<1>11. QuietOutsideTicks'
  <2>1. \A r \in Outstanding : r \in Nat
    BY OutstandingFinite, NumRoomsAssumption DEF IndInv, Rooms
  <2>2. \A r \in Outstanding' : r < next'
    BY <1>1, <1>5, <2>1 DEF IndInv, QuietOutsideTicks
  <2>3. QED BY <2>2 DEF IndInv, QuietOutsideTicks, TeardownOrder, Activated
<1>12. Due' = Due
  <2>1. next .. NumRooms - 1 = (next + 1 .. NumRooms - 1) \union {next}
    BY <1>1, NumRoomsAssumption
  <2>2. QED BY <1>3, <1>4, <2>1 DEF Due
<1>13. LagIsKnown'
  BY <1>12 DEF IndInv, LagIsKnown
<1>14. QED BY <1>3, <1>8, <1>9, <1>10, <1>11, <1>12, <1>13 DEF IndInv

\* A worker that takes the first request moves its room out of the queue; one
\* that finds the queue empty or shut down moves nothing.
LEMMA WaitAndPopIndInv ==
  ASSUME IndInv, TypeOK', NEW w \in Workers, WaitAndPop(w)
  PROVE  IndInv' /\ UNCHANGED <<Due, Active>>
<1> USE DEF WaitAndPop, mainVars
<1>1. worker[w] = "pop" /\ request[w] = NoRequest /\ w \notin Holders
  BY DEF IndInv, HoldsItsRequest, Holders
<1>2. UNCHANGED <<main, next, current, shutdown, pending, token, loaded, lag>>
  OBVIOUS
<1>3. TeardownOrder'
  BY <1>2 DEF IndInv, TeardownOrder
<1>4. CASE UNCHANGED <<queue, request>>
  <2>1. /\ UNCHANGED <<Queued, Holders, Held, Outstanding>>
        /\ CountIsExact'
    <3>1. UNCHANGED <<Queued, Holders, Held, Outstanding>>
      BY <1>4 DEF Queued, Holders, Held, Outstanding
    <3>2. QED BY <1>2, <1>4, <3>1 DEF IndInv, CountIsExact
  <2>2. HoldsItsRequest'
    BY <1>4, <1>1 DEF IndInv, HoldsItsRequest, TypeOK
  <2>3. \A v \in Holders : worker'[v] = worker[v]
    BY <1>1 DEF Holders, IndInv, TypeOK
  <2>4. DiffIsCurrent'
    BY <1>4, <2>1, <2>3 DEF IndInv, DiffIsCurrent
  <2>5. QuietOutsideTicks'
    BY <1>4, <2>1 DEF IndInv, QuietOutsideTicks, Activated
  <2>6. {v \in Holders : worker[v] = "popped"}' = {v \in Holders : worker[v] = "popped"}
    BY <2>1, <2>3
  <2>7. Due' = Due
    BY <1>4, <2>1, <2>6 DEF Due
  <2>8. LagIsKnown'
    BY <2>7 DEF IndInv, LagIsKnown
  <2>9. Active' = Active
    BY <1>4, <2>1, <2>3 DEF Active
  <2>10. QED BY <1>3, <2>1, <2>2, <2>4, <2>5, <2>7, <2>8, <2>9 DEF IndInv
<1>5. CASE /\ ~ shutdown /\ queue # <<>>
           /\ worker' = [worker EXCEPT ![w] = "popped"]
           /\ request' = [request EXCEPT ![w] = Head(queue)]
           /\ queue' = Tail(queue)
  <2> DEFINE h == Head(queue)
  <2>1. /\ h = queue[1] /\ h \in Request /\ h # NoRequest
        /\ Len(queue') = Len(queue) - 1
        /\ \A i \in 1 .. Len(queue') : queue'[i] = queue[i + 1]
        /\ Queued = Queued' \union {h.room}
        /\ Len(queue) \in Nat \ {0}
    <3>1. queue \in Seq(Request)
      BY DEF IndInv, TypeOK
    <3>2. Len(queue) \in Nat \ {0}
      BY <1>5, <3>1, EmptySeq
    <3>3. h \in Request /\ h # NoRequest
      BY <1>5, <3>1, PopQueued, NoRequestAssumption
    <3>4. /\ h = queue[1] /\ Len(Tail(queue)) = Len(queue) - 1
          /\ \A i \in 1 .. Len(Tail(queue)) : Tail(queue)[i] = queue[i + 1]
          /\ {queue[i].room : i \in 1 .. Len(queue)}
               = {Tail(queue)[i].room : i \in 1 .. Len(Tail(queue))} \union {h.room}
      BY <1>5, <3>1, PopQueued
    <3>5. queue' = Tail(queue)
      BY <1>5
    <3>6. Queued = Queued' \union {h.room}
      BY <3>4, <3>5, ZenonT(60) DEF Queued
    <3>7. QED BY <3>2, <3>3, <3>4, <3>5, <3>6
  <2>2. \A v \in Workers : /\ worker'[v] = IF v = w THEN "popped" ELSE worker[v]
                           /\ request'[v] = IF v = w THEN h ELSE request[v]
    BY <1>5 DEF IndInv, TypeOK
  <2>3. Holders' = Holders \union {w}
    BY <2>1, <2>2 DEF Holders
  <2>4. Held' = Held \union {h.room}
    <3>1. \A v \in Holders : v # w /\ request'[v] = request[v]
      BY <1>1, <2>2 DEF Holders
    <3>2. request'[w] = h
      BY <2>2
    <3>3. QED BY <2>3, <3>1, <3>2 DEF Held
  <2>5. Outstanding' = Outstanding
    BY <2>1, <2>4 DEF Outstanding
  <2>6. \A i \in 1 .. Len(queue') : /\ i + 1 \in 1 .. Len(queue) /\ i + 1 # 1
                                    /\ queue'[i].room # h.room
    <3>1. \A i \in 1 .. Len(queue') : i + 1 \in 1 .. Len(queue) /\ i + 1 # 1
      BY <2>1
    <3>2. 1 \in 1 .. Len(queue)
      BY <2>1
    <3>3. QED BY <2>1, <3>1, <3>2 DEF IndInv, CountIsExact
  <2>7. h.room \notin Queued' /\ h.room \notin Held
    <3>1. h.room \notin Queued'
      BY <2>6 DEF Queued
    <3>2. h.room \in Queued
      BY <2>1
    <3>3. QED BY <3>1, <3>2 DEF IndInv, CountIsExact
  <2>8. CountIsExact'
    <3>1. pending' = Cardinality(Outstanding')
      BY <2>5 DEF IndInv, CountIsExact
    <3>2. ASSUME NEW i \in 1 .. Len(queue'), NEW j \in 1 .. Len(queue'),
                 queue'[i].room = queue'[j].room
          PROVE  i = j
      <4>1. i + 1 = j + 1
        BY <2>1, <2>6, <3>2, SMTT(30) DEF IndInv, CountIsExact
      <4>2. QED BY <2>1, <4>1
    <3>3. ASSUME NEW u \in Holders', NEW v \in Holders', request'[u].room = request'[v].room
          PROVE  u = v
      <4>1. \A x \in Holders : x # w /\ request'[x] = request[x] /\ request[x].room \in Held
        BY <1>1, <2>2 DEF Holders, Held
      <4>2. request'[w] = h
        BY <2>2
      <4>3. QED BY <2>3, <2>7, <3>3, <4>1, <4>2 DEF IndInv, CountIsExact
    <3>4. Queued' \intersect Held' = {}
      BY <2>1, <2>4, <2>7 DEF IndInv, CountIsExact
    <3>5. QED BY <3>1, <3>2, <3>3, <3>4 DEF CountIsExact
  <2>9. HoldsItsRequest'
    <3>1. \A v \in Workers : v # w => worker'[v] = worker[v] /\ request'[v] = request[v]
      BY <2>2
    <3>2. worker'[w] = "popped" /\ request'[w] # NoRequest
      BY <2>1, <2>2
    <3>3. QED BY <1>2, <3>1, <3>2 DEF IndInv, HoldsItsRequest
  <2>10. DiffIsCurrent'
    <3>1. \A i \in 1 .. Len(queue') : queue'[i].diff = current
      BY <2>1, <2>6 DEF IndInv, DiffIsCurrent
    <3>2. h.diff = current
      <4>1. 1 \in 1 .. Len(queue)
        BY <2>1
      <4>2. QED BY <2>1, <4>1 DEF IndInv, DiffIsCurrent
    <3>3. \A v \in Holders' : v = w \/ (v \in Holders /\ v \in Workers /\ v # w)
      BY <1>1, <2>3 DEF Holders
    <3>4. QED BY <2>2, <3>1, <3>2, <3>3 DEF IndInv, DiffIsCurrent
  <2>11. QuietOutsideTicks'
    BY <2>5 DEF IndInv, QuietOutsideTicks, Activated
  <2>12. Due' = Due
    <3> DEFINE P == {v \in Holders : worker[v] = "popped"}
    <3>1. P' = P \union {w}
      BY <1>1, <2>2, <2>3 DEF Holders
    <3>2. {request[v].room : v \in P}' = {request[v].room : v \in P} \union {h.room}
      <4>1. \A v \in P : v # w /\ request'[v] = request[v]
        BY <1>1, <2>2 DEF Holders
      <4>2. request'[w] = h
        BY <2>2
      <4>3. QED BY <3>1, <4>1, <4>2
    <3>3. QED BY <2>1, <3>2 DEF Due
  <2>13. LagIsKnown'
    BY <2>12 DEF IndInv, LagIsKnown
  <2>14. Active' = Active
    <3> DEFINE U == {v \in Holders : worker[v] = "updating"}
    <3>1. U' = U
      BY <1>1, <2>2, <2>3 DEF Holders
    <3>2. \A v \in U : request'[v] = request[v]
      BY <1>1, <2>2 DEF Holders
    <3>3. {request[v].room : v \in U}' = {request[v].room : v \in U}
      BY <3>1, <3>2
    <3>4. QED BY <3>3 DEF Active
  <2>15. QED BY <1>3, <2>8, <2>9, <2>10, <2>11, <2>12, <2>13, <2>14 DEF IndInv
<1>6. QED BY <1>4, <1>5

\* A worker that finds the token unset has a request, and moves its room from
\* the ones that are due to the ones that are active.
LEMMA CallRequestMoves ==
  ASSUME IndInv, NEW w \in Workers, CallRequest(w), ~ token
  PROVE  /\ request[w] \in Request /\ w \in Holders
         /\ loaded /\ main # "sessions" /\ request[w].diff = current
         /\ request[w].room \in Due
         /\ Due' = Due \ {request[w].room}
         /\ Active' = Active \union {request[w].room}
<1> USE DEF CallRequest, mainVars, updater
<1> DEFINE q == request[w].room
           P == {v \in Holders : worker[v] = "popped"}
           U == {v \in Holders : worker[v] = "updating"}
<1>1. /\ worker[w] = "popped" /\ UNCHANGED <<main, next, queue, request>>
      /\ \A v \in Workers : worker'[v] = IF v = w THEN "updating" ELSE worker[v]
  BY DEF IndInv, TypeOK
<1>2. request[w] \in Request /\ w \in Holders /\ q \in Held
  BY <1>1 DEF IndInv, TeardownOrder, HoldsItsRequest, Holders, Held, TypeOK
<1>3. loaded /\ main # "sessions"
  BY <1>2 DEF IndInv, QuietOutsideTicks, Outstanding
<1>4. q \notin Queued
  BY <1>2 DEF IndInv, CountIsExact
<1>5. main = "schedule" => q \notin next .. NumRooms - 1
  <2>1. main = "schedule" => q < next
    BY <1>2 DEF IndInv, QuietOutsideTicks, Outstanding
  <2>2. q \in Rooms
    BY <1>2 DEF Request
  <2>3. QED BY <2>1, <2>2, NumRoomsAssumption DEF Rooms, IndInv, TypeOK
<1>6. Holders' = Holders /\ Queued' = Queued
  BY <1>1 DEF Holders, Queued
<1>7. P' = P \ {w} /\ w \in P /\ U' = U \union {w}
  BY <1>1, <1>2, <1>6 DEF Holders
<1>8. \A v \in P' : v # w /\ request[v].room # q
  BY <1>2, <1>7 DEF IndInv, CountIsExact
<1>9. {request[v].room : v \in P}' = {request[v].room : v \in P} \ {q}
  BY <1>1, <1>7, <1>8
<1>10. q \in Due /\ Due' = Due \ {q}
  <2>1. q \in Due
    BY <1>7 DEF Due
  <2>2. Due' = Due \ {q}
    BY <1>1, <1>4, <1>5, <1>6, <1>9 DEF Due
  <2>3. QED BY <2>1, <2>2
<1>11. Active' = Active \union {q}
  <2>1. {request[v].room : v \in U}' = {request[v].room : v \in U} \union {q}
    BY <1>1, <1>7
  <2>2. QED BY <2>1 DEF Active
<1>12. request[w].diff = current
  BY <1>1, <1>2 DEF IndInv, DiffIsCurrent
<1>13. QED BY <1>2, <1>3, <1>10, <1>11, <1>12

\* A worker enters Room::Update only with a request and before the token, and
\* tells the room everything it has not been told.
LEMMA CallRequestIndInv ==
  ASSUME IndInv, TypeOK', NEW w \in Workers, CallRequest(w)
  PROVE  IndInv' /\ (token => UNCHANGED <<Due, Active>>)
<1> USE DEF CallRequest, mainVars, updater
<1>1. /\ worker[w] = "popped"
      /\ UNCHANGED <<main, next, current, queue, shutdown, pending, token, loaded, request>>
  OBVIOUS
<1>2. /\ UNCHANGED <<Queued, Holders, Held, Outstanding>> /\ CountIsExact'
  <2>1. UNCHANGED <<Queued, Holders, Held, Outstanding>>
    BY <1>1 DEF Queued, Holders, Held, Outstanding
  <2>2. QED BY <1>1, <2>1 DEF IndInv, CountIsExact
<1>3. TeardownOrder' /\ QuietOutsideTicks'
  BY <1>2 DEF IndInv, TeardownOrder, QuietOutsideTicks, Activated
<1>4. token => Holders = {} /\ ~ loaded
  <2>1. token => Held = {} /\ ~ loaded
    BY DEF IndInv, TeardownOrder, QuietOutsideTicks, Outstanding
  <2>2. Held = {} => Holders = {}
    BY DEF Held
  <2>3. QED BY <2>1, <2>2
<1>5. ~ token => w \in Holders
  BY CallRequestMoves
<1>6. \A v \in Workers : worker'[v] = IF v # w THEN worker[v]
                                     ELSE IF token THEN "exited" ELSE "updating"
  BY DEF IndInv, TypeOK
<1>7. HoldsItsRequest'
  BY <1>4, <1>5, <1>6 DEF IndInv, HoldsItsRequest, Holders
<1>8. DiffIsCurrent'
  BY <1>2, <1>6 DEF IndInv, DiffIsCurrent, Holders
<1>9. LagIsKnown'
  <2>1. SUFFICES ASSUME loaded PROVE LagIsKnown'
    BY DEF LagIsKnown
  <2> DEFINE q == request[w].room
  <2>2. /\ ~ token /\ q \in Rooms /\ request[w] # NoRequest /\ request[w].diff = current
        /\ main # "sessions" /\ q \in Due /\ Due' = Due \ {q}
    BY <2>1, <1>4, CallRequestMoves, NoRequestAssumption DEF Request
  <2>3. lag' = [lag EXCEPT ![q] = @ - current]
    BY <2>2
  <2>4. ASSUME NEW r \in Rooms
        PROVE  lag'[r] = IF r \in Due' THEN current ELSE 0
    <3>1. lag[r] = IF r \in Due THEN current ELSE 0
      BY <2>1, <2>2 DEF IndInv, LagIsKnown
    <3>2. lag'[r] = IF r = q THEN lag[r] - current ELSE lag[r]
      BY <2>3 DEF IndInv, TypeOK
    <3>3. QED BY <2>2, <3>1, <3>2 DEF IndInv, TypeOK
  <2>5. QED BY <2>2, <2>4 DEF LagIsKnown
<1>10. token => UNCHANGED <<Due, Active>>
  BY <1>2, <1>4 DEF Due, Active
<1>11. QED BY <1>2, <1>3, <1>7, <1>8, <1>9, <1>10 DEF IndInv

\* The room's update returns; the request stays in flight.
LEMMA RoomUpdateReturnsIndInv ==
  ASSUME IndInv, TypeOK', NEW w \in Workers, RoomUpdateReturns(w)
  PROVE  IndInv' /\ Due' = Due
<1> USE DEF RoomUpdateReturns, mainVars, updater
<1>1. UNCHANGED <<main, next, current, queue, shutdown, pending, token, loaded, request, lag>>
  OBVIOUS
<1>2. UNCHANGED <<Queued, Holders, Held, Outstanding>>
  BY <1>1 DEF Queued, Holders, Held, Outstanding
<1>3. CountIsExact'
  BY <1>1, <1>2 DEF IndInv, CountIsExact
<1>4. \A v \in Workers : /\ v # w => worker'[v] = worker[v]
                         /\ worker'[w] = "finishing"
  BY DEF IndInv, TypeOK
<1>5. HoldsItsRequest'
  BY <1>1, <1>4 DEF IndInv, HoldsItsRequest
<1>6. \A v \in Workers : worker'[v] = "popped" <=> worker[v] = "popped"
  BY <1>4
<1>7. DiffIsCurrent'
  BY <1>1, <1>2, <1>6 DEF IndInv, DiffIsCurrent, Holders
<1>8. TeardownOrder' /\ QuietOutsideTicks'
  BY <1>1, <1>2 DEF IndInv, TeardownOrder, QuietOutsideTicks, Activated
<1>9. {v \in Holders : worker[v] = "popped"}' = {v \in Holders : worker[v] = "popped"}
  BY <1>2, <1>6 DEF Holders
<1>10. Due' = Due
  BY <1>1, <1>2, <1>9 DEF Due
<1>11. LagIsKnown'
  BY <1>1, <1>10 DEF IndInv, LagIsKnown
<1>12. QED BY <1>3, <1>5, <1>7, <1>8, <1>10, <1>11 DEF IndInv

\* update_finished takes exactly one request off the count.
LEMMA UpdateFinishedIndInv ==
  ASSUME IndInv, TypeOK', NEW w \in Workers, UpdateFinished(w)
  PROVE  IndInv' /\ UNCHANGED <<Due, Active>>
<1> USE DEF UpdateFinished
<1> DEFINE q == request[w].room
<1>1. /\ UNCHANGED <<next, current, queue, shutdown, token, loaded, lag>>
      /\ pending' = pending - 1
      /\ main' = IF main = "asleep" THEN "wait" ELSE main
  OBVIOUS
<1>2. \A v \in Workers : /\ worker'[v] = IF v = w THEN "pop" ELSE worker[v]
                         /\ request'[v] = IF v = w THEN NoRequest ELSE request[v]
  BY DEF IndInv, TypeOK
<1>3. worker[w] = "finishing" /\ request[w] # NoRequest /\ w \in Holders
  BY DEF IndInv, HoldsItsRequest, Holders
<1>4. Holders' = Holders \ {w}
  BY <1>2 DEF Holders
<1>5. q \in Held /\ q \notin Queued /\ q \in Outstanding
  <2>1. q \in Held
    BY <1>3 DEF Held
  <2>2. QED BY <2>1 DEF IndInv, CountIsExact, Outstanding
<1>6. \A v \in Holders' : v # w /\ request'[v] = request[v] /\ request[v].room # q
  BY <1>2, <1>3, <1>4 DEF IndInv, CountIsExact, Holders
<1>7. Held' = Held \ {q}
  BY <1>4, <1>6 DEF Held
<1>8. Queued' = Queued /\ Outstanding' = Outstanding \ {q}
  BY <1>1, <1>5, <1>7 DEF Queued, Outstanding
<1>9. CountIsExact'
  <2>1. pending' = Cardinality(Outstanding')
    BY <1>1, <1>5, <1>8, OutstandingFinite, FS_RemoveElement DEF IndInv, CountIsExact
  <2>2. \A u, v \in Holders' : request'[u].room = request'[v].room => u = v
    BY <1>4, <1>6 DEF IndInv, CountIsExact
  <2>3. Queued' \intersect Held' = {}
    BY <1>7, <1>8 DEF IndInv, CountIsExact
  <2>4. QED BY <1>1, <2>1, <2>2, <2>3 DEF IndInv, CountIsExact
<1>10. HoldsItsRequest'
  BY <1>1, <1>2 DEF IndInv, HoldsItsRequest
<1>11. DiffIsCurrent'
  BY <1>1, <1>2, <1>4, <1>6 DEF IndInv, DiffIsCurrent, Holders
<1>12. TeardownOrder'
  BY <1>1 DEF IndInv, TeardownOrder
<1>13. QuietOutsideTicks'
  BY <1>1, <1>8 DEF IndInv, QuietOutsideTicks, Activated
<1>14. UNCHANGED <<Due, Active>>
  <2> DEFINE In(k) == {v \in Holders : worker[v] = k}
  <2>1. In("popped")' = In("popped") /\ In("updating")' = In("updating")
    BY <1>2, <1>3, <1>4 DEF Holders
  <2>2. \A k \in {"popped", "updating"} : \A v \in In(k) : request'[v] = request[v]
    BY <1>3, <1>4, <1>6
  <2>3. /\ {request[v].room : v \in In("popped")}' = {request[v].room : v \in In("popped")}
        /\ {request[v].room : v \in In("updating")}' = {request[v].room : v \in In("updating")}
    BY <2>1, <2>2
  <2>4. QED BY <1>1, <1>8, <2>3 DEF Due, Active
<1>15. LagIsKnown'
  BY <1>1, <1>14 DEF IndInv, LagIsKnown
<1>16. QED BY <1>9, <1>10, <1>11, <1>12, <1>13, <1>14, <1>15 DEF IndInv

\* No step leaves the inductive invariant.
LEMMA NextIndInv == IndInv /\ [Next]_vars => IndInv'
<1> SUFFICES ASSUME IndInv, [Next]_vars PROVE IndInv'
  OBVIOUS
<1>1. TypeOK'
  BY NextTypeOK DEF IndInv
<1>2. ASSUME NEW d \in 0 .. MaxDiff, WorldUpdate(d) PROVE IndInv'
  BY <1>1, <1>2, WorldUpdateIndInv
<1>3. CASE MainStep
  BY <1>1, <1>3, ScheduleUpdateIndInv, InlineUpdateIndInv, EndScheduleIndInv,
     WaitReturnIndInv, OtherMainIndInv, CancelIndInv, WakeUpIndInv DEF MainStep
<1>4. CASE UnloadAll \/ MainWakesUp
  BY <1>1, <1>4, OtherMainIndInv
<1>5. ASSUME NEW w \in Workers, WorkerStep(w) PROVE IndInv'
  BY <1>1, <1>5, WaitAndPopIndInv, CallRequestIndInv, RoomUpdateReturnsIndInv,
     UpdateFinishedIndInv DEF WorkerStep
<1>6. ASSUME NEW w \in Workers, WorkerWakesUp(w) PROVE IndInv'
  BY <1>1, <1>6, WakeUpIndInv
<1>7. CASE UNCHANGED vars
  <2>1. UNCHANGED <<Queued, Holders, Held, Outstanding, Due>>
    BY <1>7 DEF vars, Queued, Holders, Held, Outstanding, Due
  <2>2. CountIsExact' /\ HoldsItsRequest' /\ DiffIsCurrent'
    BY <1>7, <2>1 DEF vars, IndInv, CountIsExact, HoldsItsRequest, DiffIsCurrent
  <2>3. TeardownOrder' /\ QuietOutsideTicks' /\ LagIsKnown'
    BY <1>7, <2>1 DEF vars, IndInv, TeardownOrder, QuietOutsideTicks, LagIsKnown, Activated
  <2>4. QED BY <1>1, <2>2, <2>3 DEF IndInv
<1>8. QED BY <1>2, <1>3, <1>4, <1>5, <1>6, <1>7 DEF Next, Terminated

\* The inductive invariant holds in every state of every behaviour.
THEOREM UpdaterInvariant == Spec => []IndInv
<1>1. QED BY InitIndInv, NextIndInv, PTL DEF Spec

\* wait() looks at the right number: pending_requests counts the requests in
\* flight, which are of different rooms.
THEOREM PendingIsExact == Spec => []CountIsExact
<1>1. IndInv => CountIsExact
  BY DEF IndInv
<1>2. QED BY <1>1, UpdaterInvariant, PTL

\* The session handlers never run beside a room's update, and by then every
\* room has been told of the time that has passed.
THEOREM SessionsAreAlone == Spec => []SessionsRunAlone
<1>1. IndInv => SessionsRunAlone
  BY DEF IndInv, SessionsRunAlone, QuietOutsideTicks, LagIsKnown, TeardownOrder
<1>2. QED BY <1>1, UpdaterInvariant, PTL

\* No worker ever calls a null request or a request of a deleted room.
THEOREM CallsAreSafe == Spec => []NoDanglingCall
<1>1. IndInv => NoDanglingCall
  <2> SUFFICES ASSUME IndInv, NEW w \in Workers, worker[w] = "updating"
               PROVE  request[w] # NoRequest /\ loaded
    BY DEF NoDanglingCall
  <2>1. request[w] # NoRequest /\ w \in Holders
    BY DEF IndInv, HoldsItsRequest, Holders
  <2>2. QED BY <2>1 DEF IndInv, QuietOutsideTicks, Outstanding, Held
<1>2. QED BY <1>1, UpdaterInvariant, PTL

------------------------------------------------------------------------------
(* Refinement: the scheduler implements TickBarrier.                       *)

\* Nothing is due or active when no request is in flight, outside the loop.
LEMMA NothingLeft ==
  ASSUME Outstanding = {}
  PROVE  /\ Active = {}
         /\ Due = IF main = "schedule" THEN next .. NumRooms - 1 ELSE {}
<1>1. Queued = {} /\ Held = {}
  BY DEF Outstanding
<1>2. Holders = {}
  BY <1>1 DEF Held
<1>3. QED BY <1>1, <1>2 DEF Active, Due

\* Each step of the world thread is a step of the barrier or none.
LEMMA MainRefines ==
  ASSUME IndInv, IndInv',
         \/ \E d \in 0 .. MaxDiff : WorldUpdate(d)
         \/ MainStep \/ UnloadAll \/ MainWakesUp
  PROVE  [Barrier!Next]_(Barrier!vars)
<1> USE DEF updater, workerVars, Barrier!vars, Barrier!Next
<1>1. ASSUME NEW d \in 0 .. MaxDiff, WorldUpdate(d) PROVE Barrier!Begin \/ UNCHANGED Barrier!vars
  <2> USE <1>1 DEF WorldUpdate
  <2>1. Outstanding = {} /\ Outstanding' = {} /\ loaded /\ loaded'
    BY DEF IndInv, QuietOutsideTicks, TeardownOrder, Outstanding, Queued, Held, Holders
  <2>2. Active = {} /\ Active' = {} /\ Due = {}
    BY <2>1, NothingLeft DEF Active, Holders, Due
  <2>3. Due' = IF main' = "schedule" THEN next' .. NumRooms - 1 ELSE {}
    BY <2>1 DEF Due, Outstanding, Queued, Held, Holders
  <2>4. QED BY <2>1, <2>2, <2>3 DEF Barrier!Begin, Rooms
<1>2. CASE ScheduleUpdate
  <2>1. UNCHANGED <<Due, Active>>
    BY <1>2, ScheduleUpdateIndInv DEF IndInv
  <2>2. QED BY <1>2, <2>1 DEF ScheduleUpdate
<1>3. CASE InlineUpdate
  <2> USE <1>3 DEF InlineUpdate
  <2>1. queue = <<>> /\ Workers = {} /\ Len(queue) = 0
    BY EmptySeq DEF IndInv, QuietOutsideTicks, Activated
  <2>2. Active = {} /\ Active' = {}
    BY <2>1 DEF Active, Holders
  <2>3. Due = next .. NumRooms - 1 /\ Due' = next + 1 .. NumRooms - 1
    BY <2>1 DEF Due, Queued, Holders
  <2>4. next \in Rooms /\ next \in Due /\ Due' = Due \ {next} /\ loaded
    BY <2>3, NumRoomsAssumption DEF Rooms, IndInv, TypeOK, TeardownOrder
  <2>5. Barrier!Pass(next)
    BY <2>2, <2>4 DEF Barrier!Pass
  <2>6. QED BY <2>4, <2>5
<1>4. CASE EndSchedule
  <2> USE <1>4 DEF EndSchedule
  <2>1. loaded /\ loaded' /\ next .. NumRooms - 1 = {}
    BY NumRoomsAssumption DEF IndInv, TypeOK, TeardownOrder
  <2>2. UNCHANGED <<Active, Queued, Holders>> /\ Due' = Due
    <3>1. UNCHANGED <<Active, Queued, Holders>>
      BY DEF Active, Queued, Holders
    <3>2. QED BY <2>1, <3>1 DEF Due
  <2>3. CASE Activated
    BY <2>1, <2>2, <2>3
  <2>4. CASE ~ Activated
    <3>1. Queued = {} /\ Holders = {}
      BY <2>4, EmptySeq DEF IndInv, QuietOutsideTicks, Activated, Queued, Holders
    <3>2. Due = {} /\ Active = {}
      BY <2>1, <3>1 DEF Due, Active
    <3>3. QED BY <2>1, <2>2, <2>4, <3>2 DEF Barrier!End
  <2>5. QED BY <2>3, <2>4
<1>5. CASE WaitReturn
  <2> USE <1>5 DEF WaitReturn
  <2>1. Outstanding = {} /\ Active = {} /\ Due = {}
    BY NonePending, NothingLeft DEF IndInv
  <2>2. UNCHANGED <<Active, Due>>
    BY DEF Active, Due, Queued, Holders
  <2>3. QED BY <2>1, <2>2 DEF Barrier!End
<1>6. CASE WaitSleep \/ MainWakesUp \/ Deactivate \/ Join
  <2> USE <1>6 DEF WaitSleep, MainWakesUp, Deactivate, Join
  <2>1. UNCHANGED <<Active, Due>>
    BY DEF Active, Due, Queued, Holders
  <2>2. loaded' = loaded /\ main # "sessions" /\ (loaded => main' # "sessions")
    BY DEF IndInv, TeardownOrder
  <2>3. QED BY <2>1, <2>2
<1>7. CASE UnloadAll
  <2> USE <1>7 DEF UnloadAll
  <2>1. UNCHANGED <<Active, Due>>
    BY DEF Active, Due, Queued, Holders
  <2>2. loaded /\ ~ loaded'
    BY DEF IndInv, TeardownOrder
  <2>3. QED BY <2>1, <2>2 DEF Barrier!Stop
<1>8. CASE Cancel
  <2> USE <1>8 DEF Cancel
  <2>1. ~ loaded /\ ~ loaded' /\ Outstanding = {} /\ Outstanding' = {}
    BY DEF IndInv, TeardownOrder, QuietOutsideTicks
  <2>2. Active = {} /\ Due = {}
    BY <2>1, NothingLeft
  <2>3. Active' = {} /\ Due' = {}
    BY <2>1 DEF Active, Due, Outstanding, Queued, Held, Holders
  <2>4. QED BY <2>1, <2>2, <2>3
<1>9. CASE NotifyAll
  <2> USE <1>9 DEF NotifyAll
  <2>1. ~ loaded /\ ~ loaded' /\ UNCHANGED <<queue, request>>
    BY DEF IndInv, TeardownOrder
  <2>2. UNCHANGED <<Active, Due>>
    BY WakeSteps, WakingUp DEF IndInv, Due, Queued
  <2>3. QED BY <2>1, <2>2
<1>10. QED
  BY <1>1, <1>2, <1>3, <1>4, <1>5, <1>6, <1>7, <1>8, <1>9 DEF MainStep

\* Each step of a worker is a step of the barrier or none.
LEMMA WorkerRefines ==
  ASSUME IndInv, IndInv', NEW w \in Workers, WorkerStep(w) \/ WorkerWakesUp(w)
  PROVE  [Barrier!Next]_(Barrier!vars)
<1> USE DEF mainVars, updater, Barrier!vars, Barrier!Next
<1> DEFINE q == request[w].room
           Same == UNCHANGED <<Due, Active>>
<1>1. CASE WaitAndPop(w)
  <2>1. Same
    BY <1>1, WaitAndPopIndInv DEF IndInv
  <2>2. QED BY <1>1, <2>1 DEF WaitAndPop
<1>2. CASE CallRequest(w) /\ token
  <2>1. Same
    BY <1>2, CallRequestIndInv DEF IndInv
  <2>2. QED BY <1>2, <2>1 DEF CallRequest
<1>3. CASE CallRequest(w) /\ ~ token
  <2>1. /\ q \in Rooms /\ q \in Due /\ loaded /\ main # "sessions"
        /\ Due' = Due \ {q} /\ Active' = Active \union {q}
    BY <1>3, CallRequestMoves DEF Request
  <2>2. loaded' = loaded /\ main' = main
    BY <1>3 DEF CallRequest
  <2>3. Barrier!Enter(q)
    BY <2>1, <2>2 DEF Barrier!Enter
  <2>4. QED BY <2>1, <2>3
<1>4. CASE RoomUpdateReturns(w)
  <2> DEFINE U == {v \in Holders : worker[v] = "updating"}
  <2> USE <1>4 DEF RoomUpdateReturns
  <2>1. Due' = Due
    BY RoomUpdateReturnsIndInv DEF IndInv
  <2>2. w \in U /\ request[w] \in Request /\ request[w] # NoRequest /\ q \in Rooms
    BY DEF IndInv, HoldsItsRequest, Holders, TypeOK, Request
  <2>3. U' = U \ {w}
    <3>1. \A v \in Workers : worker'[v] = IF v = w THEN "finishing" ELSE worker[v]
      BY DEF IndInv, TypeOK
    <3>2. QED BY <3>1 DEF Holders
  <2>4. \A v \in U' : v # w /\ request[v].room # q
    BY <2>2, <2>3 DEF IndInv, CountIsExact
  <2>5. {request[v].room : v \in U}' = {request[v].room : v \in U} \ {q}
    BY <2>3, <2>4
  <2>6. q \in Active /\ Active' = Active \ {q}
    <3>1. q \in Active
      BY <2>2 DEF Active
    <3>2. Active' = Active \ {q}
      BY <2>5 DEF Active
    <3>3. QED BY <3>1, <3>2
  <2>7. Barrier!Leave(q)
    BY <2>1, <2>6 DEF Barrier!Leave
  <2>8. QED BY <2>2, <2>7
<1>5. CASE UpdateFinished(w)
  <2>1. Same
    BY <1>5, UpdateFinishedIndInv DEF IndInv
  <2>2. loaded' = loaded /\ (main' = "sessions" <=> main = "sessions")
    BY <1>5 DEF UpdateFinished
  <2>3. QED BY <2>1, <2>2
<1>6. CASE WorkerWakesUp(w)
  <2>1. WakesSleepers /\ UNCHANGED <<main, next, queue, loaded>>
    BY <1>6, WakeSteps DEF IndInv, WorkerWakesUp
  <2>2. Same
    BY <2>1, WakingUp DEF IndInv, Due, Queued, WakesSleepers
  <2>3. QED BY <2>1, <2>2
<1>7. QED BY <1>1, <1>2, <1>3, <1>4, <1>5, <1>6 DEF WorkerStep

\* The scheduler implements the abstract barrier: every room is updated exactly
\* once in a tick, by one thread, while no session handler runs.
THEOREM UpdaterRefinesBarrier == Spec => ImplementsBarrier
<1>1. Init => Barrier!Init
  <2> SUFFICES ASSUME Init PROVE Barrier!Init
    OBVIOUS
  <2>1. Outstanding = {}
    BY InitIndInv DEF Init, IndInv, QuietOutsideTicks
  <2>2. QED BY <2>1, NothingLeft DEF Init, Barrier!Init
<1>2. IndInv /\ IndInv' /\ [Next]_vars => [Barrier!Next]_(Barrier!vars)
  <2> SUFFICES ASSUME IndInv, IndInv', [Next]_vars PROVE [Barrier!Next]_(Barrier!vars)
    OBVIOUS
  <2>1. CASE UNCHANGED vars
    <3>1. UNCHANGED <<Due, Active>>
      BY <2>1 DEF vars, Due, Active, Queued, Holders
    <3>2. QED BY <2>1, <3>1 DEF vars, Barrier!vars
  <2>2. QED BY <2>1, MainRefines, WorkerRefines DEF Next, Terminated
<1>3. QED BY <1>1, <1>2, UpdaterInvariant, PTL DEF Spec, ImplementsBarrier, Barrier!Spec
==============================================================================
