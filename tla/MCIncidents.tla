----------------------------- MODULE MCIncidents ----------------------------
(* Instances of Incidents for TLC: two or three presses about the same     *)
(* problem in the same restroom, and a press on the smiley (positive       *)
(* feedback).                                                              *)
EXTENDS Incidents, TLC

CONSTANTS c1, c2, c3, c4, g1, gp

ThreeAndSmiley == [c \in Client |-> IF c = c4 THEN gp ELSE g1]
TwoDuplicates  == (c1 :> g1) @@ (c2 :> g1)
OneReport      == c1 :> g1

(* All presses at time 0 (queued on an offline tablet or just made), or    *)
(* the later ones a tick later.                                            *)
AtOnce    == [c \in Client |-> 0]
OneLater  == [c \in Client |-> IF c = c1 THEN 0 ELSE 1]
MuchLater == (c1 :> 0) @@ (c2 :> 3)

(* Primary keys and request slots are interchangeable.                     *)
RowAndRequestSymmetry == Permutations(Row) \cup Permutations(Request)
=============================================================================
