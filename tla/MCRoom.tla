------------------------------- MODULE MCRoom -------------------------------
(* Instances of Room.tla for TLC. *)
EXTENDS Room

\* Clients are interchangeable: nothing chooses among them.
ClientSymmetry == Permutations(Clients)
==============================================================================
