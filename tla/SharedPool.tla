----------------------------- MODULE SharedPool -----------------------------
(***************************************************************************)
(* The AIs of AiPlayerPool, shared by the rooms that the workers update at *)
(* the same time.                                                          *)
(*                                                                         *)
(* Of a room's update only what touches AIs is kept: the loop over the map *)
(* forgets those that have left, UpdateOne and UpdateTwo take AIs for      *)
(* their tables, UpdateThree releases those of tables that have ended.     *)
(* What a table is and why it ends is in Room.tla.                         *)
(***************************************************************************)
EXTENDS Integers, Sequences, SequencesExt

CONSTANTS Rooms,    \* the rooms, each updated by a worker of its own
          Ais,      \* the Player objects of AIs that are ever allocated
          PoolSize, \* CONFIG_AI_PLAYER_COUNT
          MaxSeats, \* a bound on the AIs at the tables of a room
          None

ASSUME SharedPoolAssumption ==
  /\ PoolSize \in Nat /\ MaxSeats \in Nat /\ None \notin Rooms \union Ais
  /\ \E s \in [1 .. PoolSize -> Ais] : IsInjective(s)

VARIABLES pool,   \* _aiPlayerList
          lock,   \* who holds _aiPlayerPoolLock
          out,    \* the AIs whose _gameStatus is GAME_STATUS_LOG_OUTED
          map,    \* the AIs in the _playerMap of each room
          seats,  \* the AIs at the tables of each room
          held,   \* the AI a worker has in a local variable
          pc      \* where the worker of each room is

vars == <<pool, lock, out, map, seats, held, pc>>

Allocated == ToSet(pool) \union (UNION {seats[r] : r \in Rooms}) \union ({held[r] : r \in Rooms} \ {None})

\* AiPlayerPool::AiPlayerPool
Init == /\ pool = CHOOSE s \in [1 .. PoolSize -> Ais] : IsInjective(s)
        /\ lock = None /\ out = {}
        /\ map = [r \in Rooms |-> {}] /\ seats = [r \in Rooms |-> {}]
        /\ held = [r \in Rooms |-> None] /\ pc = [r \in Rooms |-> "visit"]

Goes(r, from, to) == pc[r] = from /\ pc' = [pc EXCEPT ![r] = to]

\* Room::Update: an AI that has left is forgotten.
Visit(r) == /\ Goes(r, "visit", "lists")
            /\ map' = [map EXCEPT ![r] = @ \ out]
            /\ UNCHANGED <<pool, lock, out, seats, held>>

\* Mutant: the pool is read without its lock.
Lock_Not(r) == UNCHANGED lock

\* lock_guard of a recursive_mutex.
Lock(r) == lock = None /\ lock' = r

\* UpdateOne and UpdateTwo: somebody has waited long enough.
GetAiPlayer(r) == /\ Goes(r, "lists", "back")
                  /\ Cardinality(seats[r]) < MaxSeats
                  /\ Lock(r)
                  /\ UNCHANGED <<pool, out, map, seats, held>>

\* An empty pool is given a new Player first.
Back(r) == /\ Goes(r, "back", "pop")
           /\ IF pool # <<>> THEN held' = [held EXCEPT ![r] = Last(pool)] /\ UNCHANGED pool
              ELSE \E a \in Ais \ Allocated :
                     a \notin out /\ held' = [held EXCEPT ![r] = a] /\ pool' = <<a>>
           /\ UNCHANGED <<lock, out, map, seats>>

Pop(r) == /\ Goes(r, "pop", "configure")
          /\ pool' = IF pool = <<>> THEN pool ELSE Front(pool)
          /\ UNCHANGED <<lock, out, map, seats, held>>

\* Mutant: the status of the round before is left.
Configure_Not(r) == /\ Goes(r, "configure", "sit")
                    /\ lock' = IF lock = r THEN None ELSE lock
                    /\ UNCHANGED <<out, pool, map, seats, held>>

\* configureAiPlayer: GAME_STATUS_STARTING; the lock is given back.
Configure(r) == /\ Goes(r, "configure", "sit")
                /\ out' = out \ {held[r]}
                /\ lock' = IF lock = r THEN None ELSE lock
                /\ UNCHANGED <<pool, map, seats, held>>

\* addPlayer, and Room::AddPlayer.
Sit(r) == /\ Goes(r, "sit", "lists")
          /\ seats' = [seats EXCEPT ![r] = @ \union {held[r]}]
          /\ map' = [map EXCEPT ![r] = @ \union {held[r]}]
          /\ held' = [held EXCEPT ![r] = None]
          /\ UNCHANGED <<pool, lock, out>>

UpdateThree(r) == Goes(r, "lists", "three") /\ UNCHANGED <<pool, lock, out, map, seats, held>>

\* Mutant: an AI has not left when it is given back.
LeaveTable_Starting(r, a) == UNCHANGED out

\* releaseAiPlayer sets the status before it gives the AI back, and so does the logging
\* out that ends a table.
LeaveTable(r, a) == out' = out \union {a}

Release(r) == /\ Goes(r, "three", "release")
              /\ \E a \in seats[r] :
                   /\ LeaveTable(r, a)
                   /\ seats' = [seats EXCEPT ![r] = @ \ {a}]
                   /\ held' = [held EXCEPT ![r] = a]
              /\ UNCHANGED <<pool, lock, map>>

\* Mutant: what is given back is kept as well.
ReleasePlayer_Kept(r) == /\ Goes(r, "release", "three") /\ lock = None
                         /\ pool' = Append(pool, held[r])
                         /\ UNCHANGED <<lock, out, map, seats, held>>

ReleasePlayer(r) == /\ Goes(r, "release", "three") /\ lock = None
                    /\ pool' = Append(pool, held[r])
                    /\ held' = [held EXCEPT ![r] = None]
                    /\ UNCHANGED <<lock, out, map, seats>>

Finish(r) == Goes(r, "three", "done") /\ UNCHANGED <<pool, lock, out, map, seats, held>>

\* RoomUpdater::wait: the next tick begins when every room has been updated.
Tick == /\ \A r \in Rooms : pc[r] = "done"
        /\ pc' = [r \in Rooms |-> "visit"]
        /\ UNCHANGED <<pool, lock, out, map, seats, held>>

Update(r) == \/ Visit(r) \/ GetAiPlayer(r) \/ Back(r) \/ Pop(r) \/ Configure(r) \/ Sit(r)
             \/ UpdateThree(r) \/ Release(r) \/ ReleasePlayer(r) \/ Finish(r)

Next == Tick \/ \E r \in Rooms : Update(r)

Spec == Init /\ [][Next]_vars
-----------------------------------------------------------------------------
\* AiPlayerPool.cpp:28, 67: an AI is in the pool once, or at the tables of one room, or in
\* the hands of one worker; while a worker takes it, it is at the end of the pool too.
OwnedOnce ==
  LET At(a) == {r \in Rooms : a \in seats[r]} \union {r \in Rooms : held[r] = a /\ pc[r] # "pop"}
  IN  /\ IsInjective(pool)
      /\ \A a \in Ais : Cardinality(At(a)) <= (IF a \in ToSet(pool) THEN 0 ELSE 1)
      /\ \A r \in Rooms : pc[r] = "pop" => pool # <<>> /\ Last(pool) = held[r]

\* Room.cpp:366: the AIs at the tables of a room are visited by its updates: none of them
\* has left, and the map lists them.
SeatedIsVisited == \A r \in Rooms : seats[r] \subseteq map[r] \ out

\* Room.cpp:38: a map that lists an AI that is not at its tables lists one that has left,
\* so that its next update forgets it, or one that has been taken again before it could:
\* by another room, which then shares the AI's updates with this one.
ForgottenUnlessTaken ==
  \A r \in Rooms : \A a \in map[r] \ seats[r] :
    a \in out \/ \E s \in Rooms : a \in seats[s] \/ held[s] = a

\* AiPlayerPool.cpp:28, 67: an AI is in the pool, at a table or with a worker.
\* Room.cpp:38, 366: a room's updates visit the AIs at its tables, and a room forgets an AI
\* that has left, unless it has been taken again before.
AisHaveOnePlace == OwnedOnce /\ SeatedIsVisited /\ ForgottenUnlessTaken
=============================================================================
