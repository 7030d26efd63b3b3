--------------------------- MODULE MCOfflineSync ---------------------------
(* Two presses on one tablet, two batches: a first one the tablet gave up  *)
(* on and the server still works at, and the one that repeats it.          *)
EXTENDS OfflineSync, TLC

CONSTANTS p1, p2, g1, g2, b1, b2

SameIssue == [p \in Press |-> g1]
TwoIssues == [p \in Press |-> IF p = p1 THEN g1 ELSE g2]

(* For SameIssue: the presses are interchangeable, the batch slots always. *)
PressAndBatchSymmetry == Permutations(Press) \cup Permutations(Batch)
=============================================================================
