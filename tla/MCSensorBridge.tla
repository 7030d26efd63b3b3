--------------------------- MODULE MCSensorBridge ---------------------------
(* Instances of SensorBridge for TLC.                                      *)
EXTENDS SensorBridge, TLC

(* The dialog saves both values; a client may send one, or values out of   *)
(* range.                                                                  *)
BothEnds == {[occupiedAfterSec |-> 60, emptyAfterSec |-> 1],
             [occupiedAfterSec |-> NULL, emptyAfterSec |-> 15]}
=============================================================================
