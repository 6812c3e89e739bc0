----------------------------- MODULE TickBarrier -----------------------------
(***************************************************************************)
(* What the room scheduler promises the rest of the server (abstract).     *)
(*                                                                         *)
(* The world loop alternates between two phases.  In the session phase the *)
(* handlers of the client sessions run and touch the players of every      *)
(* room, so no room may be in its Update.  In the room phase each room is  *)
(* updated exactly once, by one thread at a time.  The phase ends when all *)
(* of them are done.  Nothing of the threads, the queue, the counter or    *)
(* the condition variables of the code appears here: RoomUpdater.tla has   *)
(* them and is shown to implement this module.                             *)
(***************************************************************************)

CONSTANTS Rooms         \* the rooms of RoomManager::_roomMap

VARIABLES phase,        \* "sessions", "rooms" or "stopped"
          due,          \* the rooms this tick has yet to update
          active        \* the rooms that are inside Room::Update

vars == <<phase, due, active>>

Init == /\ phase = "sessions"
        /\ due = {}
        /\ active = {}

\* A tick starts: every room is due.
Begin == /\ phase = "sessions"
         /\ phase' = "rooms"
         /\ due' = Rooms
         /\ UNCHANGED active

\* Room r enters its update ...
Enter(r) == /\ r \in due
            /\ phase = "rooms"
            /\ due' = due \ {r}
            /\ active' = active \union {r}
            /\ UNCHANGED phase

\* ... and leaves it.
Leave(r) == /\ r \in active
            /\ active' = active \ {r}
            /\ UNCHANGED <<phase, due>>

\* The world thread updates the room itself.
Pass(r) == /\ r \in due
           /\ phase = "rooms"
           /\ due' = due \ {r}
           /\ UNCHANGED <<phase, active>>

\* The tick is over only when no room is due and none is active.
End == /\ phase = "rooms"
       /\ due = {}
       /\ active = {}
       /\ phase' = "sessions"
       /\ UNCHANGED <<due, active>>

\* The rooms are unloaded between two ticks.
Stop == /\ phase = "sessions"
        /\ phase' = "stopped"
        /\ UNCHANGED <<due, active>>

Next == \/ Begin \/ End \/ Stop
        \/ \E r \in Rooms : Enter(r) \/ Leave(r) \/ Pass(r)

Spec == Init /\ [][Next]_vars
==============================================================================
