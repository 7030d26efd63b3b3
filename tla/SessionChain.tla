---------------------------- MODULE SessionChain ----------------------------
(***************************************************************************)
(* What the server promises of a login, without saying how: a login is a   *)
(* chain of refresh credentials of which at most one works at a time.  A   *)
(* credential that is taken in to be renewed works no more, and is         *)
(* followed by at most one other; a chain that was revoked while nobody    *)
(* was renewing it stays dead.                                             *)
(***************************************************************************)
CONSTANT Credential
VARIABLES
  live,      (* live[l]: the working credentials of login l, which is      *)
             (*   named after its first credential                         *)
  renewing,  (* the logins whose credential has been taken in              *)
  issued     (* all credentials ever handed out                            *)

vars == <<live, renewing, issued>>

Init == live = [l \in Credential |-> {}] /\ renewing = {} /\ issued = {}

Issue(l, k) ==
  /\ k \notin issued
  /\ issued' = issued \cup {k}
  /\ live' = [live EXCEPT ![l] = {k}]

Close(l) == live[l] # {} /\ live' = [live EXCEPT ![l] = {}] /\ UNCHANGED issued

Open(k)     == Issue(k, k) /\ UNCHANGED renewing
TakeIn(l)   == Close(l) /\ renewing' = renewing \cup {l}
Renew(l, k) == l \in renewing /\ Issue(l, k) /\ renewing' = renewing \ {l}
Abandon(l)  == l \in renewing /\ renewing' = renewing \ {l} /\ UNCHANGED <<live, issued>>
Revoke(l)   == Close(l) /\ UNCHANGED renewing

Next == \E l \in Credential :
  Open(l) \/ TakeIn(l) \/ Abandon(l) \/ Revoke(l) \/ \E k \in Credential : Renew(l, k)

Spec == Init /\ [][Next]_vars
=============================================================================
