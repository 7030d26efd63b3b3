------------------------------ MODULE MCDevices ------------------------------
(* Instances of Devices for TLC.                                           *)
EXTENDS Devices, TLC

CONSTANTS c1, c2, r1, r2, b1, b2, D, X

Homes == [c \in Code |-> IF c = c1 THEN r1 ELSE r2]
OneBuilding == [r \in Restroom |-> b1]
=============================================================================
