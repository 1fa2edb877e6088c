------------------------------- MODULE MCRooms -------------------------------
(* Rooms for model checking.                                               *)
EXTENDS Rooms, TLC

Symmetry == Permutations(Task) \cup Permutations(Conn) \cup Permutations(Edit)
=============================================================================
