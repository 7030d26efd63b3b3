------------------------------ MODULE MCShifts ------------------------------
(* Instances of Shifts for TLC.                                            *)
EXTENDS Shifts, TLC

CONSTANTS w1, w2, b1, b2, P, Q

PropertyOfBuilding == (b1 :> P) @@ (b2 :> Q)
KioskInP == [known |-> TRUE, property |-> P]

Person(role, property, building) == [active |-> TRUE, role |-> role,
  property |-> property, building |-> building, manages |-> {}]

(* w1 belongs to the kiosk's property; w2 is a worker of the other         *)
(* property, a supervisor of the kiosk's, or a manager.                    *)
Staffs == {(w1 :> Person("CLEANER", P, NULL)) @@ (w2 :> x) : x \in {
  Person("CLEANER", NULL, b2), Person("SHIFT_SUPERVISOR", NULL, b1),
  Person("MANAGER", NULL, NULL)}}

(* w2 is moved away from the kiosk's property.                             *)
MovedAway == {<<w2, b2>>}
=============================================================================
