------------------------------ MODULE MCAlerts ------------------------------
(***************************************************************************)
(* Three settings of Alerts for TLC over one set of variables.  The        *)
(* initial state picks one and the behaviour stays in it:                  *)
(*   modes      Alerts as the .cfg gives it: one problem while the manager *)
(*              switches mode and interval and the building closes;        *)
(*   batched    a batched property with two problems, reports that were    *)
(*              queued, opening and closing hours;                         *)
(*   immediate  two reports of one problem while a tick fails or the       *)
(*              process restarts.                                          *)
(***************************************************************************)
EXTENDS Alerts, TLC

CONSTANTS i1, i2, p1, g1, g2

VARIABLE setting

HomeOf == [i \in Incident |-> p1]
Same   == [i \in Incident |-> g1]
Different == (i1 :> g1) @@ (i2 :> g2)
Starts(mode, d) == {[mode |-> mode, interval |-> d, lastPulse |-> NULL]}
ImmediateEvery2 == Starts("immediate", 2)
BatchedEvery2   == Starts("batched", 2)
ImmediateEvery1 == Starts("immediate", 1)
Every2 == {2}
Every1 == {1}

B == INSTANCE Alerts WITH
  BatchInterval <- Every2, GroupOf <- Different, StartPolicies <- BatchedEvery2,
  CleanerInterval <- 1, SupervisorInterval <- 1, EscalationEnabled <- FALSE,
  ManagerActs <- FALSE, HoursChange <- TRUE, MaxLag <- 1, MaxTime <- 5, MaxFaults <- 0

I == INSTANCE Alerts WITH
  BatchInterval <- Every1, StartPolicies <- ImmediateEvery1,
  CleanerInterval <- 1, SupervisorInterval <- 1, EscalationEnabled <- TRUE,
  ManagerActs <- FALSE, HoursChange <- FALSE, MaxLag <- 1, MaxTime <- 3, MaxFaults <- 1

ASSUME SettingsAssumption == B!ConstantsOK /\ I!ConstantsOK

mcVars == <<setting, vars>>

MCInit ==
  \/ setting = "modes" /\ Init
  \/ setting = "batched" /\ B!Init
  \/ setting = "immediate" /\ I!Init

(* In modes the second incident is never reported.                         *)
Modes      == setting = "modes" /\ setting' = setting /\ Next /\ inc'[i2] = inc[i2]
BatchedOne == setting = "batched" /\ setting' = setting /\ B!Next
Immediate  == setting = "immediate" /\ setting' = setting /\ I!Next

MCNext == Modes \/ BatchedOne \/ Immediate
MCSpec == MCInit /\ [][MCNext]_mcVars

-----------------------------------------------------------------------------
(* An issue nobody resolved is escalated, whatever fails in between, where  *)
(* the policy is immediate and the building stays open.                    *)
EscalatedDespiteFaults == [][setting = "immediate" => I!EscalatedInTime]_mcVars
=============================================================================
