---------------------------- MODULE MCBackOffice ----------------------------
(* Instances of BackOffice for TLC.                                        *)
EXTENDS BackOffice

CONSTANTS allPlaces, somePlace, firstTask, firstFloor, secondFloor, cleaner, manager

(* One worker belongs to a building, the other to all of them.             *)
PlaceOfOwner == [u \in Owner |-> IF u = allPlaces THEN NULL ELSE somePlace]

(* A common day, the night the clock is put back and the one it is put on. *)
Days == {<<0, 1>>, <<0, 0, 1>>, <<1>>}

(* A cleaner of both floors, a supervisor and a manager of one.            *)
FloorOfTask == [i \in Task |-> IF i = firstTask THEN firstFloor ELSE secondFloor]
PageOfUser == [u \in User |-> IF u = manager THEN "manager"
                              ELSE IF u = cleaner THEN "cleaner" ELSE "supervisor"]
SeesOfUser == [u \in User |-> IF u = cleaner THEN Floor ELSE {secondFloor}]
ChipOfUser == [u \in User |-> IF u = cleaner THEN {firstFloor} ELSE {}]
=============================================================================
