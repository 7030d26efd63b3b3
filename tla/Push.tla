-------------------------------- MODULE Push --------------------------------
(***************************************************************************)
(* Push: the web push subscriptions of the workers' phones.  A phone       *)
(* registers when a page of a logged-in worker opens (lib/push.ts), the    *)
(* service worker moves the subscription when the browser rotates it       *)
(* (sw.ts), logging out removes it, and PushService sends to the rows and  *)
(* prunes those the push service calls gone.  Requests of a phone are      *)
(* served in any order, may be lost, and nobody waits for them.            *)
(***************************************************************************)
EXTENDS Naturals, FiniteSets

CONSTANTS
  NULL,
  Phone, User, Building,
  PlaceOf,       (* PlaceOf[u]: the building of user u, NULL for all       *)
  Endpoint,      (* what the push services can hand out                    *)
  MaxPhoneSteps, (* bound: logins, logouts, rotations, expiries, new keys  *)
  MaxPhoneLosses (* bound: requests lost                                   *)

PushAssumption ==
  /\ MaxPhoneSteps \in Nat /\ MaxPhoneLosses \in Nat
  /\ PlaceOf \in [User -> Building \cup {NULL}]
  /\ NULL \notin User \cup Building \cup Endpoint

VARIABLES
  login,    (* login[p]: who is logged in on phone p                       *)
  granted,  (* phones whose owner allowed notifications                    *)
  sub,      (* sub[p]: the endpoint the browser holds                      *)
  status,   (* status[e]: free, live, gone, or stale (made for an old key) *)
  row,      (* row[e]: the user of the row of endpoint e in the database   *)
  asked,    (* requests under way                                          *)
  left,     (* the send under way: notifications left for each endpoint    *)
  got,      (* history: got[p], notifications p showed of this send        *)
  steps, losses

pushVars == <<login, granted, sub, status, row, asked, left, got, steps, losses>>
phone == <<login, granted, sub, status, steps>>
sending == <<left, got>>

Init ==
  /\ login = [p \in Phone |-> NULL] /\ granted = {} /\ sub = [p \in Phone |-> NULL]
  /\ status = [e \in Endpoint |-> "free"] /\ row = [e \in Endpoint |-> NULL]
  /\ asked = {} /\ left = [e \in Endpoint |-> 0] /\ got = [p \in Phone |-> 0]
  /\ steps = 0 /\ losses = 0

-----------------------------------------------------------------------------
(* The phone.                                                              *)

PhoneStep == steps < MaxPhoneSteps /\ steps' = steps + 1
Free == {e \in Endpoint : status[e] = "free"}
Request(op, e, old, u) == [op |-> op, e |-> e, old |-> old, user |-> u]

Login(p, u) ==
  /\ login[p] = NULL /\ PhoneStep /\ login' = [login EXCEPT ![p] = u]
  /\ UNCHANGED <<granted, sub, status, row, asked, sending, losses>>

(* handleLogout with unregisterPush: the browser keeps its subscription.   *)
Logout(p) ==
  /\ login[p] # NULL /\ PhoneStep /\ login' = [login EXCEPT ![p] = NULL]
  /\ asked' = IF sub[p] = NULL THEN asked ELSE asked \cup {Request("remove", sub[p], NULL, NULL)}
  /\ UNCHANGED <<granted, sub, status, row, sending, losses>>

(* The button of the banner, and the answer to the browser's question.     *)
Allow(p) ==
  /\ login[p] # NULL /\ p \notin granted /\ granted' = granted \cup {p}
  /\ UNCHANGED <<login, sub, status, row, asked, sending, steps, losses>>

(* registerPush, whenever a page opens: the subscription is kept if it was *)
(* made for today's key, and sent to the server in any case.               *)
Registered(p, e, st) ==
  /\ sub' = [sub EXCEPT ![p] = e] /\ status' = st
  /\ asked' = asked \cup {Request("save", e, NULL, login[p])}

(* Mutant: a subscription that is there already is not sent again.         *)
RegisterOnce(p) ==
  /\ login[p] # NULL /\ p \in granted
  /\ (sub[p] # NULL => status[sub[p]] = "stale")
  /\ \E e \in Free : Registered(p, e, [status EXCEPT ![e] = "live"])
  /\ UNCHANGED <<login, granted, row, sending, steps, losses>>

Register(p) ==
  /\ login[p] # NULL /\ p \in granted
  /\ \/ /\ sub[p] # NULL /\ status[sub[p]] = "live"
        /\ Registered(p, sub[p], status)
     \/ /\ sub[p] = NULL
        /\ \E e \in Free : Registered(p, e, [status EXCEPT ![e] = "live"])
     \/ /\ sub[p] # NULL /\ status[sub[p]] = "stale"
        /\ \E e \in Free : Registered(p, e, [status EXCEPT ![sub[p]] = "gone", ![e] = "live"])
  /\ UNCHANGED <<login, granted, row, sending, steps, losses>>

(* 'pushsubscriptionchange': the service worker reports old and new.       *)
Rotate(p) ==
  /\ sub[p] # NULL /\ PhoneStep
  /\ \E e \in Free :
       /\ sub' = [sub EXCEPT ![p] = e]
       /\ status' = [status EXCEPT ![sub[p]] = "gone", ![e] = "live"]
       /\ asked' = asked \cup {Request("rotate", e, sub[p], NULL)}
  /\ UNCHANGED <<login, granted, row, sending, losses>>

(* The subscription expires and nobody is told.                            *)
Expire(p) ==
  /\ sub[p] # NULL /\ PhoneStep
  /\ sub' = [sub EXCEPT ![p] = NULL] /\ status' = [status EXCEPT ![sub[p]] = "gone"]
  /\ UNCHANGED <<login, granted, row, asked, sending, losses>>

(* A release with another VAPID key: sends to the old ones answer 403.     *)
NewKey ==
  /\ PhoneStep /\ \E e \in Endpoint : status[e] = "live"
  /\ status' = [e \in Endpoint |-> IF status[e] = "live" THEN "stale" ELSE status[e]]
  /\ UNCHANGED <<login, granted, sub, row, asked, sending, losses>>

Lose(r) ==
  /\ r.op \in {"save", "remove", "rotate"}
  /\ losses < MaxPhoneLosses /\ losses' = losses + 1 /\ asked' = asked \ {r}
  /\ UNCHANGED <<phone, row, sending>>

-----------------------------------------------------------------------------
(* PushService                                                             *)

Write(r, e, u) == row' = [row EXCEPT ![e] = u] /\ asked' = asked \ {r}

Subscribe(r) ==
  r.op = "save" /\ Write(r, r.e, r.user) /\ UNCHANGED <<phone, sending, losses>>
Unsubscribe(r) ==
  r.op = "remove" /\ Write(r, r.e, NULL) /\ UNCHANGED <<phone, sending, losses>>

(* rotate: find the old row, upsert the new one, delete the old one.       *)
RotateFind(r) ==
  /\ r.op = "rotate"
  /\ asked' = (asked \ {r}) \cup
       (IF row[r.old] = NULL THEN {} ELSE {Request("found", r.e, r.old, row[r.old])})
  /\ UNCHANGED <<phone, row, sending, losses>>
RotateUpsert(r) ==
  /\ r.op = "found"
  /\ row' = [row EXCEPT ![r.e] = r.user]
  /\ asked' = (asked \ {r}) \cup {Request("remove old", r.old, NULL, NULL)}
  /\ UNCHANGED <<phone, sending, losses>>
RotateDelete(r) ==
  r.op = "remove old" /\ Write(r, r.e, NULL) /\ UNCHANGED <<phone, sending, losses>>

(* sendToBuildings: one send to the rows of the workers of the buildings   *)
(* and of those without a building.                                        *)
Audience(B) == {e \in Endpoint : row[e] # NULL /\ PlaceOf[row[e]] \in B \cup {NULL}}

(* Mutant: one send for each building.                                     *)
CopiesPerBuilding(e) == Cardinality({b \in Building : e \in Audience({b})})
Copies(e) == IF e \in Audience(Building) THEN 1 ELSE 0

Send ==
  /\ \A e \in Endpoint : left[e] = 0
  /\ Audience(Building) # {}
  /\ left' = [e \in Endpoint |-> Copies(e)] /\ got' = [p \in Phone |-> 0]
  /\ UNCHANGED <<phone, row, asked, losses>>

(* The push service shows it, says 410 (the row is pruned), or 403.        *)
Deliver(e) ==
  /\ left[e] > 0 /\ left' = [left EXCEPT ![e] = @ - 1]
  /\ got' = [p \in Phone |-> IF sub[p] = e /\ status[e] = "live" THEN got[p] + 1 ELSE got[p]]
  /\ row' = IF status[e] = "gone" THEN [row EXCEPT ![e] = NULL] ELSE row
  /\ UNCHANGED <<phone, asked, losses>>

-----------------------------------------------------------------------------
Serve == \E r \in asked :
  Subscribe(r) \/ Unsubscribe(r) \/ RotateFind(r) \/ RotateUpsert(r) \/ RotateDelete(r)

Next ==
  \/ \E p \in Phone :
       Logout(p) \/ Allow(p) \/ Register(p) \/ Rotate(p) \/ Expire(p) \/ \E u \in User : Login(p, u)
  \/ NewKey \/ Serve \/ Send
  \/ \E e \in Endpoint : Deliver(e)
  \/ \E r \in asked : Lose(r)

(* Pages are opened again, requests are served, a send comes to an end.    *)
Spec == Init /\ [][Next]_pushVars
FairSpec ==
  /\ Spec /\ WF_pushVars(Serve)
  /\ \A p \in Phone : WF_pushVars(Register(p))

-----------------------------------------------------------------------------
(* The rows and the browsers' endpoints stay consistent.                   *)
TypeOK ==
  /\ \A p \in Phone : login[p] \in User \cup {NULL} /\ sub[p] \in Endpoint \cup {NULL}
  /\ \A e \in Endpoint : row[e] \in User \cup {NULL} /\ (status[e] = "free" => row[e] = NULL)
  /\ \A p \in Phone : sub[p] # NULL => status[sub[p]] \in {"live", "stale"}

(* "each device notified exactly once" (push.service.ts:90-92): no phone   *)
(* shows one send twice, whether its worker belongs to one building or to  *)
(* all, and whether its subscription is being moved or not.                *)
OnePerSend == \A p \in Phone : got[p] <= 1

(* A phone whose worker is logged in and allowed notifications ends up     *)
(* with a row of that worker for the endpoint the browser holds, whatever  *)
(* was rotated, lost or reordered: pages are opened again.                 *)
Reached(p) == sub[p] # NULL /\ status[sub[p]] = "live" /\ row[sub[p]] = login[p]
PhoneIsReached ==
  <>[](\A p \in Phone : login[p] # NULL /\ p \in granted => Reached(p))

(* Not kept, see the README: "Remove server-side subscription on logout"   *)
(* (push.ts): with no request under way a phone nobody is logged in on has *)
(* no row.                                                                 *)
LoggedOutIsSilent ==
  asked = {} => \A p \in Phone : login[p] = NULL /\ sub[p] # NULL => row[sub[p]] = NULL
=============================================================================
