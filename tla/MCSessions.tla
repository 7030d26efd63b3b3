----------------------------- MODULE MCSessions -----------------------------
(* Instances of Sessions for TLC.                                          *)
EXTENDS Sessions, TLC

CONSTANTS b1, b2, t1, t2, t3

(* One browser with two tabs, another with one.                            *)
TwoAndOne == (t1 :> b1) @@ (t2 :> b1) @@ (t3 :> b2)
TwoTabs   == (t1 :> b1) @@ (t2 :> b1)

Symmetry == Permutations(Token) \cup Permutations(Call)
=============================================================================
