------------------------------- MODULE Outbox -------------------------------
(***************************************************************************)
(* What the kiosk promises of a report, without saying how: once the       *)
(* tablet has accepted a press it holds the report until the server has    *)
(* it, and the server gets it in the end.  A report may also reach the     *)
(* server before the tablet knows that it did.                             *)
(***************************************************************************)
CONSTANT Press
VARIABLE report   \* report[p]: "none", "held" by the tablet, "delivered"

Init == report = [p \in Press |-> "none"]

Accept(p)  == report[p] = "none" /\ report' = [report EXCEPT ![p] = "held"]
Deliver(p) == report[p] # "delivered" /\ report' = [report EXCEPT ![p] = "delivered"]

Next == \E p \in Press : Accept(p) \/ Deliver(p)

Spec == Init /\ [][Next]_report
FairSpec ==
  Spec /\ \A p \in Press : WF_report(report[p] = "held" /\ Deliver(p))
=============================================================================
