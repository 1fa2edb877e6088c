------------------------------ MODULE MCCollab ------------------------------
(* Small instances of Collab for TLC.                                        *)
EXTENDS Collab

CONSTANTS a, b, r

(* The shape drawn first is the one that may be erased.                      *)
EraseA == [x \in Removes |-> a]
=============================================================================
