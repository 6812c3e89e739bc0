---------------------------- MODULE MCRoomUpdater ----------------------------
(* Instances of RoomUpdater for TLC. The rooms are numbers and the workers are  *)
(* compared by temporal properties, so no symmetry is used.                    *)
EXTENDS RoomUpdater

CONSTANTS w1, w2, w3    \* worker threads

ThreeWorkers == {w1, w2, w3}
NoWorkers == {}
==============================================================================
