--------------------------- MODULE BackOfficeProofs ---------------------------
(***************************************************************************)
(* What Push, DailyReport, Screens and Office keep, for any phones, plans  *)
(* of a day, tasks, pages, accounts and bounds.                            *)
(***************************************************************************)
EXTENDS BackOffice, Sequences, TLAPS

-----------------------------------------------------------------------------
(* The parts.                                                              *)

(* A step of the composition is a step of each part, or leaves it alone.   *)
LEMMA StepOfParts ==
  ASSUME [Next]_vars
  PROVE  /\ [P!Next]_(P!pushVars) /\ [D!Next]_(D!reportVars)
         /\ [S!Next]_(S!screenVars) /\ [O!Next]_(O!officeVars)
<1>1. CASE Alone("push") /\ P!Next
  BY <1>1 DEF Alone, reportVars, screenVars, officeVars, D!reportVars, S!screenVars, O!officeVars
<1>2. CASE Alone("report") /\ D!Next
  BY <1>2 DEF Alone, pushVars, screenVars, officeVars, P!pushVars, S!screenVars, O!officeVars
<1>3. CASE Alone("screens") /\ S!Next
  BY <1>3 DEF Alone, pushVars, reportVars, officeVars, P!pushVars, D!reportVars, O!officeVars
<1>4. CASE Alone("office") /\ O!Next
  BY <1>4 DEF Alone, pushVars, reportVars, screenVars, P!pushVars, D!reportVars, S!screenVars
<1>5. CASE UNCHANGED vars
  BY <1>5 DEF vars, pushVars, reportVars, screenVars, officeVars,
              P!pushVars, D!reportVars, S!screenVars, O!officeVars
<1> QED
  BY <1>1, <1>2, <1>3, <1>4, <1>5 DEF Next

(* The composition is an implementation of each of its parts.              *)
THEOREM ImplementsParts == Spec => P!Spec /\ D!Spec /\ S!Spec /\ O!Spec
<1>1. Init => P!Init /\ D!Init /\ S!Init /\ O!Init
  BY DEF Init
<1> QED
  BY <1>1, StepOfParts, PTL DEF Spec, P!Spec, D!Spec, S!Spec, O!Spec

-----------------------------------------------------------------------------
(* Screens: what is cached and what is on its way was answered to whoever  *)
(* is logged in now.                                                       *)

AnsweredInScope ==
  user # NULL => \A k \in S!Query :
    /\ cache[k] # NULL => cache[k] \subseteq S!Scope(user)
    /\ asking[k] \notin {NULL, S!Sent} => asking[k].items \subseteq S!Scope(user)

ScreenInv ==
  /\ filter \in Floor \cup {NULL} /\ user \in User \cup {NULL}
  /\ cache \in [S!Query -> (SUBSET Task) \cup {NULL}] /\ DOMAIN asking = S!Query
  /\ \A k \in S!Query : asking[k] \notin {NULL, S!Sent} => asking[k].items \subseteq Task
  /\ AnsweredInScope

LEMMA NothingAsked ==
  ASSUME user \in User \cup {NULL}, filter \in Floor \cup {NULL}, cache = S!Empty, asking = S!Empty
  PROVE  ScreenInv
<1>1. /\ cache \in [S!Query -> (SUBSET Task) \cup {NULL}] /\ DOMAIN asking = S!Query
      /\ \A k \in S!Query : cache[k] = NULL /\ asking[k] = NULL
  BY DEF S!Empty
<1> QED
  BY <1>1 DEF ScreenInv, AnsweredInScope

LEMMA ScreenInit == S!Init => ScreenInv
BY NothingAsked DEF S!Init

(* Whoever comes or goes leaves nothing behind.                            *)
LEMMA SessionStep ==
  ASSUME ScreenInv, S!Logout \/ \E u \in User : S!Login(u)
  PROVE  ScreenInv'
<1>1. /\ cache' = S!Empty /\ asking' = S!Empty
      /\ filter' \in Floor \cup {NULL} /\ user' \in User \cup {NULL}
  BY DEF S!Logout, S!Login, ScreenInv
<1> QED
  <2>1. /\ cache' \in [S!Query -> (SUBSET Task) \cup {NULL}] /\ DOMAIN asking' = S!Query
        /\ \A k \in S!Query : cache'[k] = NULL /\ asking'[k] = NULL
    BY <1>1 DEF S!Empty
  <2> QED
    BY <1>1, <2>1 DEF ScreenInv, AnsweredInScope

(* The answer to a query is in the scope of the one who asks.              *)
LEMMA AnswerInScope ==
  ASSUME NEW u, NEW k PROVE S!Answer(u, k) \subseteq S!Scope(u) /\ S!Answer(u, k) \subseteq Task
BY DEF S!Answer, S!Scope

LEMMA FetchStep ==
  ASSUME ScreenInv, NEW k \in S!Query, S!Refetch(k) \/ S!Serve(k) \/ S!Receive(k) \/ S!Fail(k)
  PROVE  ScreenInv'
<1>1. UNCHANGED <<user, filter>>
  BY DEF S!Refetch, S!Serve, S!Receive, S!Fail
<1>2. CASE S!Refetch(k)
  <2>1. asking' = [asking EXCEPT ![k] = S!Sent] /\ cache' = cache
    BY <1>2 DEF S!Refetch
  <2> QED
    BY <1>1, <2>1 DEF ScreenInv, AnsweredInScope, S!Scope
<1>3. CASE S!Serve(k)
  <2>1. /\ asking' = [asking EXCEPT ![k] = [at |-> "back", items |-> S!Answer(user, k)]]
        /\ cache' = cache
    BY <1>3 DEF S!Serve
  <2> QED
    BY <1>1, <2>1, AnswerInScope DEF ScreenInv, AnsweredInScope, S!Scope
<1>4. CASE S!Receive(k)
  <2>1. /\ cache' = [cache EXCEPT ![k] = asking[k].items] /\ asking' = [asking EXCEPT ![k] = NULL]
        /\ asking[k] \notin {NULL, S!Sent}
    BY <1>4 DEF S!Receive
  <2> QED
    BY <1>1, <2>1 DEF ScreenInv, AnsweredInScope, S!Scope
<1>5. CASE S!Fail(k)
  <2>1. asking' = [asking EXCEPT ![k] = NULL] /\ cache' = cache
    BY <1>5 DEF S!Fail
  <2> QED
    BY <1>1, <2>1 DEF ScreenInv, AnsweredInScope, S!Scope
<1> QED
  BY <1>2, <1>3, <1>4, <1>5

(* Everything else at most starts queries over.                            *)
LEMMA InvalidateStep ==
  ASSUME ScreenInv, cache' = cache, user' = user, filter' \in Floor \cup {NULL},
         asking' = asking \/ asking' = S!Invalidated
  PROVE  ScreenInv'
BY DEF ScreenInv, AnsweredInScope, S!Invalidated, S!Scope

LEMMA ScreenStep == ASSUME ScreenInv, [S!Next]_(S!screenVars) PROVE ScreenInv'
<1>0. filter \in Floor \cup {NULL} /\ user \in User \cup {NULL}
  BY DEF ScreenInv
<1>1. CASE S!Logout \/ \E u \in User : S!Login(u)
  BY <1>1, SessionStep
<1>2. CASE \E k \in S!Query : S!Refetch(k) \/ S!Fail(k) \/ S!Serve(k) \/ S!Receive(k)
  BY <1>2, FetchStep
<1>3. CASE S!Hear \/ S!Miss \/ S!Visitor
  BY <1>0, <1>3, InvalidateStep DEF S!Hear, S!Miss, S!Visitor
<1>4. ASSUME NEW f \in Floor \cup {NULL}, S!ChooseFilter(f) PROVE ScreenInv'
  BY <1>4, InvalidateStep DEF S!ChooseFilter
<1>5. ASSUME NEW i \in Task, S!Elsewhere(i) PROVE ScreenInv'
  BY <1>0, <1>5, InvalidateStep DEF S!Elsewhere
<1>6. ASSUME NEW i \in Task, NEW s, S!Change(i, s) PROVE ScreenInv'
  BY <1>0, <1>6, InvalidateStep DEF S!Change
<1>7. CASE UNCHANGED S!screenVars
  BY <1>0, <1>7, InvalidateStep DEF S!screenVars
<1> QED
  BY <1>1, <1>2, <1>3, <1>4, <1>5, <1>6, <1>7 DEF S!Next, S!Network, S!Resolve, S!RowButton

(* No list shows a task of a place the server hides from whoever is logged *)
(* in, although no key of the cache names a user and answers arrive late   *)
(* (CleanerPage.tsx, SupervisorPage.tsx, IncidentsPage.tsx).               *)
THEOREM ShownInScope == Spec => []OnlyInScope
<1>1. ScreenInv => S!OnlyInScope
  <2> SUFFICES ASSUME ScreenInv, user # NULL
               PROVE  S!Shown(cache, user, filter) \subseteq S!Scope(user)
    BY DEF S!OnlyInScope
  <2>1. S!Board \in S!Query /\ <<"queue", filter>> \in S!Query
    BY DEF ScreenInv, S!Query, S!Queue
  <2> QED
    BY <2>1 DEF ScreenInv, AnsweredInScope, S!Shown, S!ManagerList, S!WorkerList, S!Known
<1>2. Init => ScreenInv
  BY ScreenInit DEF Init
<1>3. ScreenInv /\ [Next]_vars => ScreenInv'
  BY StepOfParts, ScreenStep
<1> QED
  BY <1>1, <1>2, <1>3, PTL DEF Spec, OnlyInScope

-----------------------------------------------------------------------------
(* Office: what a property manager created is in its properties.           *)

(* What the pages ask for, about rows that were there when they asked.     *)
RequestOK(q) ==
  /\ q = [by |-> q.by, scope |-> q.scope, op |-> q.op, u |-> q.u, x |-> q.x, at |-> q.at]
  /\ q.op \in {"hire", "place", "toggle", "delete"} => q.u \in O!Worker
  /\ q.op = "place" => q.x \in houses \cup {NULL}
  /\ q.op = "manage" => q.u \in Pm
  /\ q.op = "build" => q.x \in Building
  /\ q.op = "assign house" => q.u \in houses

OfficeTypes ==
  /\ houses \subseteq Building
  /\ DOMAIN prop = O!Account /\ DOMAIN bld = O!Account /\ DOMAIN number = O!Account
  /\ DOMAIN houseProp = Building /\ DOMAIN managed = Pm
  /\ form \in [O!Manager -> [u : Supervisor, n : Number] \cup {NULL}]
  /\ \A q \in asked : RequestOK(q)

(* By its stamp, a worker or building is in a property its maker manages.  *)
SeenWorker(m, u) == u \in (O!Worker \cap alive) \ hidden /\ prop[u] \in managed[m]
SeenHouse(m, b) == b \in houses /\ houseProp[b] \in managed[m]
MadeIsSeen == \A t \in made : t[1] \in Pm /\ (SeenWorker(t[1], t[2]) \/ SeenHouse(t[1], t[2]))

OfficeInv == OfficeTypes /\ O!TypeOK /\ MadeIsSeen

LEMMA OfficeInit == O!Init => OfficeInv
<1> SUFFICES ASSUME O!Init PROVE OfficeInv
  OBVIOUS
<1>1. OfficeTypes
  BY DEF O!Init, OfficeTypes
<1>2. O!TypeOK
  BY DEF O!Init, O!TypeOK, O!Account, O!Manager, O!Worker
<1>3. MadeIsSeen
  BY DEF O!Init, MadeIsSeen
<1> QED
  BY <1>1, <1>2, <1>3 DEF OfficeInv

(* A request keeps its shape while it is worked on and the buildings stay. *)
LEMMA RequestStays ==
  ASSUME NEW q, RequestOK(q), houses \subseteq houses'
  PROVE  /\ RequestOK(q)' /\ RequestOK([q EXCEPT !.at = "checked"])'
         /\ RequestOK([q EXCEPT !.op = "unlinked"])'
<1>1. q = [by |-> q.by, scope |-> q.scope, op |-> q.op, u |-> q.u, x |-> q.x, at |-> q.at]
  BY DEF RequestOK
<1>2. RequestOK(q)'
  BY DEF RequestOK
<1> DEFINE c == [q EXCEPT !.at = "checked"]
           l == [q EXCEPT !.op = "unlinked"]
<1>3. /\ c = [by |-> q.by, scope |-> q.scope, op |-> q.op, u |-> q.u, x |-> q.x, at |-> "checked"]
      /\ l = [by |-> q.by, scope |-> q.scope, op |-> "unlinked", u |-> q.u, x |-> q.x, at |-> q.at]
  BY <1>1
<1> HIDE DEF c, l
<1>4. RequestOK(c)'
  BY <1>2, <1>3 DEF RequestOK
<1>5. RequestOK(l)'
  BY <1>3 DEF RequestOK
<1> QED
  BY <1>2, <1>4, <1>5 DEF c, l

(* Requests come and go, nothing is written.                               *)
LEMMA OnlyRequests ==
  ASSUME OfficeInv, UNCHANGED <<O!staff, managed, O!estate, made>>,
         form' \in [O!Manager -> [u : Supervisor, n : Number] \cup {NULL}],
         \A q \in asked' : RequestOK(q)'
  PROVE  OfficeInv'
<1>1. UNCHANGED <<alive, prop, bld, number, hidden, managed, props, houses, houseProp, made>>
  BY DEF O!staff, O!estate
<1>2. OfficeTypes'
  BY <1>1 DEF OfficeInv, OfficeTypes
<1>3. O!TypeOK'
  BY <1>1 DEF OfficeInv, O!TypeOK
<1>4. MadeIsSeen'
  BY <1>1 DEF OfficeInv, MadeIsSeen, SeenWorker, SeenHouse
<1> QED
  BY <1>2, <1>3, <1>4 DEF OfficeInv

LEMMA AskStep ==
  ASSUME OfficeInv, NEW a, NEW op, NEW u, NEW x, O!Ask(a, op, u, x),
         op \in {"hire", "place", "toggle", "delete"} => u \in O!Worker,
         op = "place" => x \in houses \cup {NULL},
         op = "manage" => u \in Pm,
         op = "build" => x \in Building,
         op = "assign house" => u \in houses
  PROVE  OfficeInv'
<1>1. /\ asked' = asked \cup {O!Request(a, op, u, x)}
      /\ UNCHANGED <<O!staff, managed, O!estate, form, made>> /\ houses' = houses
  BY DEF O!Ask, O!estate
<1>2. PICK new : asked' = asked \cup {new} /\ RequestOK(new)
  <2>1. RequestOK(O!Request(a, op, u, x))
    BY DEF O!Request, RequestOK
  <2> QED
    BY <1>1, <2>1
<1>3. \A q \in asked' : RequestOK(q)'
  BY <1>1, <1>2 DEF OfficeInv, OfficeTypes, RequestOK
<1>4. form' \in [O!Manager -> [u : Supervisor, n : Number] \cup {NULL}]
  BY <1>1 DEF OfficeInv, OfficeTypes
<1> QED
  BY <1>1, <1>3, <1>4, OnlyRequests

LEMMA SendStep == ASSUME OfficeInv, NEW a \in O!Manager, O!Send(a) PROVE OfficeInv'
<1>1. O!Structure(a) \subseteq houses /\ houses \subseteq Building
  BY DEF O!Structure, O!HousesOf, OfficeInv, OfficeTypes
<1>2. Cleaner \subseteq O!Worker /\ Supervisor \subseteq O!Worker
  BY DEF O!Worker
<1>3. CASE O!WorkerForm(a) \/ O!SupervisorForm(a)
  BY <1>2, <1>3, AskStep DEF O!WorkerForm, O!SupervisorForm
<1>4. CASE O!WorkerRow(a) \/ O!SupervisorRow(a)
  BY <1>1, <1>2, <1>4, AskStep DEF O!WorkerRow, O!SupervisorRow
<1>5. CASE O!EditDialog(a) \/ O!ManagerDialog(a)
  BY <1>5, AskStep DEF O!EditDialog, O!ManagerDialog
<1>6. CASE O!BuildingForm(a) \/ O!PropertiesPanel(a)
  BY <1>1, <1>6, AskStep DEF O!BuildingForm, O!PropertiesPanel
<1> QED
  BY <1>3, <1>4, <1>5, <1>6 DEF O!Send

LEMMA SendNumberStep == ASSUME OfficeInv, NEW a \in O!Manager, O!SendNumber(a) PROVE OfficeInv'
<1>1. /\ asked' \subseteq asked \cup {O!Request(a, "number", form[a].u, form[a].n)}
      /\ UNCHANGED <<O!staff, managed, O!estate, made>>
      /\ form' = [form EXCEPT ![a] = NULL] /\ houses' = houses
  BY DEF O!SendNumber, O!estate
<1>2. PICK new : asked' \subseteq asked \cup {new} /\ RequestOK(new)
  <2>1. RequestOK(O!Request(a, "number", form[a].u, form[a].n))
    BY DEF O!Request, RequestOK
  <2> QED
    BY <1>1, <2>1
<1>3. \A q \in asked' : RequestOK(q)'
  BY <1>1, <1>2 DEF OfficeInv, OfficeTypes, RequestOK
<1>4. form' \in [O!Manager -> [u : Supervisor, n : Number] \cup {NULL}]
  BY <1>1 DEF OfficeInv, OfficeTypes
<1> QED
  BY <1>1, <1>3, <1>4, OnlyRequests

LEMMA CheckStep ==
  ASSUME OfficeInv, NEW q \in asked, O!Check(q) \/ O!Refused(q) PROVE OfficeInv'
<1>1. /\ asked' \subseteq asked \cup {[q EXCEPT !.at = "checked"]}
      /\ UNCHANGED <<O!staff, managed, O!estate, form, made>> /\ houses' = houses
  BY DEF O!Check, O!Refused, O!Done, O!estate
<1>2. \A r \in asked : RequestOK(r)' /\ RequestOK([r EXCEPT !.at = "checked"])'
  BY <1>1, RequestStays DEF OfficeInv, OfficeTypes
<1> QED
  BY <1>1, <1>2, OnlyRequests DEF OfficeInv, OfficeTypes

(* The handlers that write: what each needs of OfficeTypes.                *)
LEMMA RequestsStay ==
  ASSUME OfficeInv, NEW q \in asked, asked' = asked \ {q}, houses \subseteq houses'
  PROVE  \A r \in asked' : RequestOK(r)'
BY RequestStays DEF OfficeInv, OfficeTypes

(* A new worker is stamped with a property of its maker.                   *)
LEMMA HireStep == ASSUME OfficeInv, NEW q \in asked, O!Hire(q) PROVE OfficeInv'
<1>1. /\ q.op = "hire" /\ q.u \notin alive /\ ~O!Taken(q.x, q.u)
      /\ alive' = alive \cup {q.u} /\ number' = [number EXCEPT ![q.u] = q.x]
      /\ bld' = [bld EXCEPT ![q.u] = NULL] /\ hidden' = hidden \ {q.u}
      /\ made' = made \cup O!Record(q, q.u)
      /\ UNCHANGED <<managed, props, houses, houseProp>> /\ asked' = asked \ {q}
  BY DEF O!Hire, O!Done, O!estate
<1>2. PICK p \in O!Stamp(q) : p \in props \cup {NULL} /\ prop' = [prop EXCEPT ![q.u] = p]
  BY DEF O!Hire
<1>3. q.u \in O!Worker /\ q.u \in O!Account /\ OfficeTypes /\ O!TypeOK /\ MadeIsSeen
  BY <1>1 DEF OfficeInv, OfficeTypes, RequestOK, O!Account
<1>4. form' \in [O!Manager -> [u : Supervisor, n : Number] \cup {NULL}]
  <2>1. form \in [O!Manager -> [u : Supervisor, n : Number] \cup {NULL}]
    BY <1>3 DEF OfficeTypes
  <2>2. CASE q.u \in Cleaner /\ UNCHANGED form
    BY <2>1, <2>2
  <2>3. ASSUME q.u \in Supervisor, NEW n \in Number \cup {NULL},
               form' = [form EXCEPT ![q.by] = IF n = NULL THEN NULL ELSE [u |-> q.u, n |-> n]]
        PROVE  form' \in [O!Manager -> [u : Supervisor, n : Number] \cup {NULL}]
    <3>1. (IF n = NULL THEN NULL ELSE [u |-> q.u, n |-> n]) \in [u : Supervisor, n : Number] \cup {NULL}
      BY <2>3
    <3> QED
      BY <2>1, <2>3, <3>1
  <2> QED
    BY <2>2, <2>3 DEF O!Hire
<1>5. OfficeTypes'
  BY <1>1, <1>2, <1>3, <1>4, RequestsStay DEF OfficeTypes
<1>6. O!TypeOK'
  <2>1. (O!Manager \subseteq alive /\ alive \subseteq O!Account)'
    BY <1>1, <1>3 DEF O!TypeOK
  <2>2. (\A u \in O!Account : prop[u] \in props \cup {NULL} /\ bld[u] \in houses \cup {NULL})'
    BY <1>1, <1>2, <1>3 DEF O!TypeOK, OfficeTypes
  <2>3. (\A u, v \in alive : number[u] = number[v] /\ number[u] # NULL => u = v)'
    BY <1>1, <1>3 DEF O!TypeOK, OfficeTypes, O!Taken
  <2> QED
    BY <1>1, <1>3, <2>1, <2>2, <2>3 DEF O!TypeOK
<1>7. MadeIsSeen'
  <2> SUFFICES ASSUME NEW t \in made'
               PROVE  t[1] \in Pm /\ (SeenWorker(t[1], t[2]) \/ SeenHouse(t[1], t[2]))'
    BY DEF MadeIsSeen
  <2>1. CASE t \in made
    <3>1. SeenWorker(t[1], t[2]) => t[2] # q.u
      BY <1>1 DEF SeenWorker
    <3> QED
      BY <1>1, <1>2, <1>3, <2>1, <3>1 DEF MadeIsSeen, SeenWorker, SeenHouse, OfficeTypes
  <2>2. CASE t \notin made
    <3>1. t = <<q.by, q.u>> /\ q.by \in Pm /\ q.scope # {} /\ q.scope \subseteq managed[q.by]
      BY <1>1, <2>2 DEF O!Record
    <3>2. p \in managed[q.by]
      BY <1>2, <3>1 DEF O!Stamp
    <3> QED
      BY <1>1, <1>2, <1>3, <3>1, <3>2 DEF SeenWorker, OfficeTypes
  <2> QED
    BY <2>1, <2>2
<1> QED
  BY <1>5, <1>6, <1>7 DEF OfficeInv

LEMMA SetNumberStep == ASSUME OfficeInv, NEW q \in asked, O!SetNumber(q) PROVE OfficeInv'
<1>1. /\ q.u \in alive /\ ~O!Taken(q.x, q.u) /\ number' = [number EXCEPT ![q.u] = q.x]
      /\ UNCHANGED <<alive, prop, bld, hidden, managed, props, houses, houseProp, form, made>>
      /\ asked' = asked \ {q}
  BY DEF O!SetNumber, O!Done, O!estate
<1>2. OfficeTypes'
  BY <1>1, RequestsStay DEF OfficeInv, OfficeTypes
<1>3. O!TypeOK'
  BY <1>1 DEF OfficeInv, OfficeTypes, O!TypeOK, O!Taken
<1>4. MadeIsSeen'
  BY <1>1 DEF OfficeInv, MadeIsSeen, SeenWorker, SeenHouse
<1> QED
  BY <1>2, <1>3, <1>4 DEF OfficeInv

LEMMA AssignBuildingStep == ASSUME OfficeInv, NEW q \in asked, O!AssignBuilding(q) PROVE OfficeInv'
<1>1. /\ q.op = "place" /\ bld' = [bld EXCEPT ![q.u] = q.x] /\ made' \subseteq made
      /\ UNCHANGED <<alive, prop, number, hidden, managed, props, houses, houseProp, form>>
      /\ asked' = asked \ {q}
  BY DEF O!AssignBuilding, O!Done, O!estate
<1>2. OfficeTypes'
  BY <1>1, RequestsStay DEF OfficeInv, OfficeTypes
<1>3. O!TypeOK'
  BY <1>1 DEF OfficeInv, OfficeTypes, O!TypeOK, RequestOK
<1>4. MadeIsSeen'
  BY <1>1 DEF OfficeInv, MadeIsSeen, SeenWorker, SeenHouse
<1> QED
  BY <1>2, <1>3, <1>4 DEF OfficeInv

LEMMA ToggleStep == ASSUME OfficeInv, NEW q \in asked, O!ToggleActive(q) PROVE OfficeInv'
<1>1. /\ UNCHANGED <<alive, prop, bld, number, hidden, managed, props, houses, houseProp, form, made>>
      /\ asked' = asked \ {q}
  BY DEF O!ToggleActive, O!Done, O!estate
<1>2. OfficeTypes'
  BY <1>1, RequestsStay DEF OfficeInv, OfficeTypes
<1>3. O!TypeOK'
  BY <1>1 DEF OfficeInv, O!TypeOK
<1>4. MadeIsSeen'
  BY <1>1 DEF OfficeInv, MadeIsSeen, SeenWorker, SeenHouse
<1> QED
  BY <1>2, <1>3, <1>4 DEF OfficeInv

LEMMA HideStep == ASSUME OfficeInv, NEW q \in asked, O!SetHidden(q) PROVE OfficeInv'
<1>1. /\ hidden' \subseteq hidden \cup {q.u} /\ made' = made \ O!Touched(q.u)
      /\ UNCHANGED <<alive, prop, bld, number, managed, props, houses, houseProp, form>>
      /\ asked' = asked \ {q}
  BY DEF O!SetHidden, O!Done, O!estate
<1>2. OfficeTypes'
  BY <1>1, RequestsStay DEF OfficeInv, OfficeTypes
<1>3. O!TypeOK'
  BY <1>1 DEF OfficeInv, O!TypeOK
<1>4. MadeIsSeen'
  BY <1>1 DEF OfficeInv, MadeIsSeen, SeenWorker, SeenHouse, O!Touched
<1> QED
  BY <1>2, <1>3, <1>4 DEF OfficeInv

LEMMA DeleteUserStep == ASSUME OfficeInv, NEW q \in asked, O!DeleteUser(q) PROVE OfficeInv'
<1>1. /\ q.op = "delete" /\ alive' = alive \ {q.u} /\ made' = made \ O!Touched(q.u)
      /\ prop' = [prop EXCEPT ![q.u] = NULL] /\ bld' = [bld EXCEPT ![q.u] = NULL]
      /\ number' = [number EXCEPT ![q.u] = NULL] /\ hidden' = hidden \ {q.u}
      /\ UNCHANGED <<managed, props, houses, houseProp, form>> /\ asked' = asked \ {q}
  BY DEF O!DeleteUser, O!Done, O!estate
<1>2. q.u \notin O!Manager
  BY <1>1, PartsAssumption DEF OfficeInv, OfficeTypes, RequestOK, O!OfficeAssumption
<1>3. OfficeTypes'
  BY <1>1, RequestsStay DEF OfficeInv, OfficeTypes
<1>4. O!TypeOK'
  BY <1>1, <1>2 DEF OfficeInv, OfficeTypes, O!TypeOK
<1>5. MadeIsSeen'
  BY <1>1 DEF OfficeInv, OfficeTypes, MadeIsSeen, SeenWorker, SeenHouse, O!Touched
<1> QED
  BY <1>3, <1>4, <1>5 DEF OfficeInv

(* A manager whose properties change may lose sight of what it created.    *)
LEMMA ManagedStep == ASSUME OfficeInv, NEW q \in asked, O!SetManagedProperties(q) PROVE OfficeInv'
<1>1. /\ q.op = "manage" /\ q.x \subseteq props /\ managed' = [managed EXCEPT ![q.u] = q.x]
      /\ made' = {t \in made : t[1] # q.u}
      /\ UNCHANGED <<alive, bld, number, hidden, props, houses, houseProp, form>>
      /\ asked' = asked \ {q}
  BY DEF O!SetManagedProperties, O!Done, O!estate
<1>2. PICK p \in props \cup {NULL} : prop' = [prop EXCEPT ![q.u] = p]
  BY <1>1 DEF O!SetManagedProperties
<1>3. q.u \in Pm /\ q.u \notin O!Worker
  BY <1>1, PartsAssumption DEF OfficeInv, OfficeTypes, RequestOK, O!OfficeAssumption, O!Manager
<1>4. OfficeTypes'
  BY <1>1, <1>2, RequestsStay DEF OfficeInv, OfficeTypes
<1>5. O!TypeOK'
  BY <1>1, <1>2 DEF OfficeInv, OfficeTypes, O!TypeOK
<1>6. MadeIsSeen'
  BY <1>1, <1>2, <1>3 DEF OfficeInv, OfficeTypes, MadeIsSeen, SeenWorker, SeenHouse
<1> QED
  BY <1>4, <1>5, <1>6 DEF OfficeInv

LEMMA CreateBuildingStep == ASSUME OfficeInv, NEW q \in asked, O!CreateBuilding(q) PROVE OfficeInv'
<1>1. /\ q.op = "build" /\ q.x \notin houses /\ houses' = houses \cup {q.x}
      /\ made' = made \cup O!Record(q, q.x)
      /\ UNCHANGED <<alive, prop, bld, number, hidden, managed, props, form>>
      /\ asked' = asked \ {q}
  BY DEF O!CreateBuilding, O!Done, O!staff
<1>2. PICK p \in O!Stamp(q) : p \in props \cup {NULL} /\ houseProp' = [houseProp EXCEPT ![q.x] = p]
  BY DEF O!CreateBuilding
<1>3. q.x \in Building
  BY <1>1 DEF OfficeInv, OfficeTypes, RequestOK
<1>4. OfficeTypes'
  BY <1>1, <1>2, <1>3, RequestsStay DEF OfficeInv, OfficeTypes
<1>5. O!TypeOK'
  BY <1>1, <1>2, <1>3 DEF OfficeInv, OfficeTypes, O!TypeOK
<1>6. MadeIsSeen'
  <2> SUFFICES ASSUME NEW t \in made'
               PROVE  t[1] \in Pm /\ (SeenWorker(t[1], t[2]) \/ SeenHouse(t[1], t[2]))'
    BY DEF MadeIsSeen
  <2>1. CASE t \in made
    <3>1. SeenHouse(t[1], t[2]) => t[2] # q.x
      BY <1>1 DEF SeenHouse
    <3> QED
      BY <1>1, <1>2, <2>1, <3>1 DEF OfficeInv, OfficeTypes, MadeIsSeen, SeenWorker, SeenHouse
  <2>2. CASE t \notin made
    <3>1. t = <<q.by, q.x>> /\ q.by \in Pm /\ q.scope # {} /\ q.scope \subseteq managed[q.by]
      BY <1>1, <2>2 DEF O!Record
    <3>2. p \in managed[q.by]
      BY <1>2, <3>1 DEF O!Stamp
    <3> QED
      BY <1>1, <1>2, <1>3, <3>1, <3>2 DEF SeenHouse, OfficeInv, OfficeTypes
  <2> QED
    BY <2>1, <2>2
<1> QED
  BY <1>4, <1>5, <1>6 DEF OfficeInv

LEMMA AssignHouseStep ==
  ASSUME OfficeInv, NEW q \in asked, O!AssignBuildingToProperty(q) PROVE OfficeInv'
<1>1. /\ q.op = "assign house" /\ q.x \in props \cup {NULL}
      /\ houseProp' = [houseProp EXCEPT ![q.u] = q.x] /\ made' = made \ O!Touched(q.u)
      /\ UNCHANGED <<alive, prop, bld, number, hidden, managed, props, houses, form>>
      /\ asked' = asked \ {q}
  BY DEF O!AssignBuildingToProperty, O!Done, O!staff
<1>2. q.u \in houses
  BY <1>1 DEF OfficeInv, OfficeTypes, RequestOK
<1>3. OfficeTypes'
  BY <1>1, RequestsStay DEF OfficeInv, OfficeTypes
<1>4. O!TypeOK'
  BY <1>1, <1>2 DEF OfficeInv, OfficeTypes, O!TypeOK
<1>5. MadeIsSeen'
  BY <1>1 DEF OfficeInv, OfficeTypes, MadeIsSeen, SeenWorker, SeenHouse, O!Touched
<1> QED
  BY <1>3, <1>4, <1>5 DEF OfficeInv

(* A property is unlinked, then deleted with the links made in between.    *)
LEMMA DropStep == ASSUME OfficeInv, NEW q \in asked, O!Unlink(q) \/ O!DeleteProperty(q) PROVE OfficeInv'
<1>1. /\ houseProp' = O!Unlinked(houseProp, q.x) /\ prop' = O!Unlinked(prop, q.x) /\ made' = {}
      /\ UNCHANGED <<alive, bld, number, hidden, houses, form>>
      /\ asked' \subseteq asked \cup {[q EXCEPT !.op = "unlinked"]}
      /\ \/ managed' = managed /\ props' = props
         \/ props' = props \ {q.x} /\ managed' = [m \in Pm |-> managed[m] \ {q.x}]
  BY DEF O!Unlink, O!DeleteProperty, O!Done
<1>2. \A r \in asked : RequestOK(r)' /\ RequestOK([r EXCEPT !.op = "unlinked"])'
  BY <1>1, RequestStays DEF OfficeInv, OfficeTypes
<1>3. /\ DOMAIN prop' = O!Account /\ DOMAIN houseProp' = Building
      /\ \A u \in O!Account : prop'[u] = IF prop[u] = q.x THEN NULL ELSE prop[u]
      /\ \A b \in Building : houseProp'[b] = IF houseProp[b] = q.x THEN NULL ELSE houseProp[b]
  BY <1>1 DEF OfficeInv, OfficeTypes, O!Unlinked
<1>4. OfficeTypes'
  BY <1>1, <1>2, <1>3 DEF OfficeInv, OfficeTypes
<1>5. O!TypeOK'
  BY <1>1, <1>3 DEF OfficeInv, OfficeTypes, O!TypeOK
<1>6. MadeIsSeen'
  BY <1>1 DEF MadeIsSeen
<1> QED
  BY <1>4, <1>5, <1>6 DEF OfficeInv

LEMMA OfficeStep == ASSUME OfficeInv, [O!Next]_(O!officeVars) PROVE OfficeInv'
<1>1. ASSUME NEW a \in O!Manager, O!Send(a) \/ O!SendNumber(a) PROVE OfficeInv'
  BY <1>1, SendStep, SendNumberStep
<1>2. ASSUME NEW q \in asked,
             \/ O!Check(q) \/ O!Refused(q) \/ O!Hire(q) \/ O!SetNumber(q) \/ O!AssignBuilding(q)
             \/ O!ToggleActive(q) \/ O!SetHidden(q) \/ O!DeleteUser(q)
      PROVE  OfficeInv'
  BY <1>2, CheckStep, HireStep, SetNumberStep, AssignBuildingStep, ToggleStep, HideStep,
     DeleteUserStep
<1>3. ASSUME NEW q \in asked,
             \/ O!SetManagedProperties(q) \/ O!CreateBuilding(q) \/ O!AssignBuildingToProperty(q)
             \/ O!Unlink(q) \/ O!DeleteProperty(q)
      PROVE  OfficeInv'
  BY <1>3, ManagedStep, CreateBuildingStep, AssignHouseStep, DropStep
<1>4. CASE UNCHANGED O!officeVars
  <2>1. UNCHANGED <<O!staff, managed, O!estate, made, form, asked, houses>>
    BY <1>4 DEF O!officeVars, O!staff, O!estate
  <2>2. \A q \in asked : RequestOK(q)'
    BY <2>1, RequestStays DEF OfficeInv, OfficeTypes
  <2> QED
    BY <2>1, <2>2, OnlyRequests DEF OfficeInv, OfficeTypes
<1> QED
  BY <1>1, <1>2, <1>3, <1>4 DEF O!Next

LEMMA OfficeAlways == Spec => []OfficeInv
<1>1. Init => OfficeInv
  BY OfficeInit DEF Init
<1>2. OfficeInv /\ [Next]_vars => OfficeInv'
  BY StepOfParts, OfficeStep
<1> QED
  BY <1>1, <1>2, PTL DEF Spec

(* Rows refer to rows that exist, no number is given twice, and managers   *)
(* are never deleted, although every check precedes its write and other    *)
(* requests run in between (users.service.ts, buildings.service.ts).       *)
THEOREM RowsReferToRows == Spec => []O!TypeOK
<1>1. OfficeInv => O!TypeOK
  BY DEF OfficeInv
<1> QED
  BY <1>1, OfficeAlways, PTL

(* What a property manager created stays in its view until somebody moves  *)
(* it or reassigns the manager (buildings.controller.ts:102-103).          *)
THEOREM CreatedStaysSeen == Spec => []CreatedIsSeen
<1>1. OfficeInv => O!CreatedIsSeen
  <2> SUFFICES ASSUME OfficeInv, NEW t \in made
               PROVE  t[2] \in O!FindAll(t[1]) \cup O!Structure(t[1])
    BY DEF O!CreatedIsSeen
  <2>1. t[1] \in Pm /\ t[1] \notin General /\ (SeenWorker(t[1], t[2]) \/ SeenHouse(t[1], t[2]))
    BY PartsAssumption DEF OfficeInv, MadeIsSeen, O!OfficeAssumption
  <2>2. SeenWorker(t[1], t[2]) => t[2] \in O!FindAll(t[1])
    BY <2>1 DEF SeenWorker, O!FindAll, O!PropertyFilter, O!Scope
  <2>3. SeenHouse(t[1], t[2]) => t[2] \in O!Structure(t[1])
    BY <2>1 DEF SeenHouse, O!Structure, O!HousesOf, O!Scope
  <2> QED
    BY <2>1, <2>2, <2>3
<1> QED
  BY <1>1, OfficeAlways, PTL DEF CreatedIsSeen

-----------------------------------------------------------------------------
(* Push: one notification of a send for each phone.                        *)

(* What a phone or the service asks for names endpoints handed out.        *)
Posts == [op : {"save", "remove", "rotate", "found", "remove old"}, e : Endpoint,
          old : Endpoint \cup {NULL}, user : Owner \cup {NULL}]
PostOK(r) ==
  /\ r \in Posts /\ endpoints[r.e] # "free"
  /\ r.op \in {"rotate", "found"} => r.old \in Endpoint /\ endpoints[r.old] # "free"

PushTypes ==
  /\ login \in [Phone -> Owner \cup {NULL}] /\ sub \in [Phone -> Endpoint \cup {NULL}]
  /\ endpoints \in [Endpoint -> {"free", "live", "stale", "gone"}]
  /\ row \in [Endpoint -> Owner \cup {NULL}]
  /\ left \in [Endpoint -> {0, 1}] /\ got \in [Phone -> {0, 1}]
  /\ \A r \in posts : PostOK(r)

(* What a browser holds is its own and was not given up.                   *)
Held ==
  /\ \A p \in Phone : sub[p] # NULL => endpoints[sub[p]] \in {"live", "stale"}
  /\ \A p, q \in Phone : sub[p] # NULL /\ sub[p] = sub[q] => p = q

(* A phone that showed the send holds an endpoint nothing is left for, and *)
(* whatever it holds next was not handed out when the send began.          *)
ShownOnce ==
  /\ \A e \in Endpoint : endpoints[e] = "free" => row[e] = NULL /\ left[e] = 0
  /\ \A p \in Phone : got[p] = 1 /\ sub[p] # NULL => left[sub[p]] = 0

PushInv == PushTypes /\ Held /\ ShownOnce

LEMMA NoneIsEndpoint == NULL \notin Endpoint /\ NULL \notin Owner
BY PartsAssumption DEF P!PushAssumption

LEMMA PushInit == P!Init => PushInv
<1> SUFFICES ASSUME P!Init PROVE PushInv
  OBVIOUS
<1>1. PushTypes
  BY DEF P!Init, PushTypes
<1>2. Held /\ ShownOnce
  BY DEF P!Init, Held, ShownOnce
<1> QED
  BY <1>1, <1>2 DEF PushInv

(* An endpoint is never free again, so requests keep their shape.          *)
LEMMA PostsStay ==
  ASSUME PushTypes, endpoints' \in [Endpoint -> {"free", "live", "stale", "gone"}],
         \A e \in Endpoint : endpoints[e] # "free" => endpoints'[e] # "free"
  PROVE  \A r \in posts : PostOK(r)'
BY DEF PushTypes, PostOK, Posts

(* Requests come and go; the browsers and the rows stay.                   *)
LEMMA PostsMove ==
  ASSUME PushInv, UNCHANGED <<sub, endpoints, row, left, got>>,
         login' \in [Phone -> Owner \cup {NULL}], \A r \in posts' : PostOK(r)
  PROVE  PushInv'
<1>1. PushTypes'
  BY DEF PushInv, PushTypes, PostOK
<1>2. Held' /\ ShownOnce'
  BY DEF PushInv, Held, ShownOnce
<1> QED
  BY <1>1, <1>2 DEF PushInv

LEMMA SignStep ==
  ASSUME PushInv, NEW p \in Phone,
         P!Logout(p) \/ P!Allow(p) \/ \E u \in Owner : P!Login(p, u)
  PROVE  PushInv'
<1>1. /\ UNCHANGED <<sub, endpoints, row, left, got>>
      /\ login' \in [Phone -> Owner \cup {NULL}]
  BY DEF P!Logout, P!Allow, P!Login, P!sending, PushInv, PushTypes
<1>2. \A r \in posts' : PostOK(r)
  <2>1. sub[p] # NULL => PostOK(P!Request("remove", sub[p], NULL, NULL))
    BY NoneIsEndpoint DEF PushInv, PushTypes, Held, PostOK, Posts, P!Request
  <2> QED
    BY <2>1 DEF P!Logout, P!Allow, P!Login, PushInv, PushTypes
<1> QED
  BY <1>1, <1>2, PostsMove

(* A phone gets a new endpoint that nobody held before.                    *)
LEMMA NewEndpoint ==
  ASSUME PushInv, NEW p \in Phone, NEW e \in P!Free,
         sub' = [sub EXCEPT ![p] = e],
         \/ endpoints' = [endpoints EXCEPT ![e] = "live"] /\ sub[p] = NULL
         \/ endpoints' = [endpoints EXCEPT ![sub[p]] = "gone", ![e] = "live"] /\ sub[p] # NULL,
         UNCHANGED <<login, row, left, got>>,
         \A r \in posts' : r \in posts \/ PostOK(r)'
  PROVE  PushInv'
<1>1. e \in Endpoint /\ endpoints[e] = "free" /\ PushTypes /\ Held /\ ShownOnce
  BY DEF P!Free, PushInv
<1>2. sub[p] # NULL => sub[p] \in Endpoint /\ sub[p] # e
  BY <1>1 DEF PushTypes, Held
<1>3. /\ endpoints' \in [Endpoint -> {"free", "live", "stale", "gone"}] /\ endpoints'[e] = "live"
      /\ \A x \in Endpoint : x # e /\ x # sub[p] => endpoints'[x] = endpoints[x]
      /\ \A x \in Endpoint : x # e /\ x = sub[p] => endpoints'[x] = "gone"
  BY <1>1, <1>2, NoneIsEndpoint DEF PushTypes
<1>4. PushTypes'
  <2>1. \A r \in posts : PostOK(r)'
    BY <1>1, <1>3, PostsStay
  <2> QED
    BY <1>1, <1>3, <2>1 DEF PushTypes
<1>5. \A q \in Phone : sub'[q] = IF q = p THEN e ELSE sub[q]
  BY <1>1 DEF PushTypes
<1>6. \A q \in Phone : sub[q] # NULL => sub[q] \in Endpoint /\ sub[q] # e
  BY <1>1 DEF PushTypes, Held
<1>7. Held'
  BY <1>1, <1>3, <1>5, <1>6 DEF Held
<1>8. ShownOnce'
  BY <1>1, <1>3, <1>5, <1>6 DEF ShownOnce
<1> QED
  BY <1>4, <1>7, <1>8 DEF PushInv

LEMMA RegisterStep == ASSUME PushInv, NEW p \in Phone, P!Register(p) PROVE PushInv'
<1>1. /\ login[p] # NULL /\ UNCHANGED <<login, row, left, got>> /\ login[p] \in Owner
  BY DEF P!Register, P!sending, PushInv, PushTypes
<1>2. CASE sub[p] # NULL /\ endpoints[sub[p]] = "live" /\ P!Registered(p, sub[p], endpoints)
  <2>1. sub' = sub /\ endpoints' = endpoints
    BY <1>2 DEF P!Registered, PushInv, PushTypes
  <2>2. PostOK(P!Request("save", sub[p], NULL, login[p]))
    BY <1>1, <1>2 DEF PostOK, Posts, P!Request, PushInv, PushTypes
  <2>3. \A r \in posts' : PostOK(r)
    BY <1>2, <2>2 DEF P!Registered, PushInv, PushTypes
  <2> QED
    BY <1>1, <2>1, <2>3, PostsMove DEF PushInv, PushTypes
<1>3. ASSUME NEW e \in P!Free, NEW st, P!Registered(p, e, st),
             \/ st = [endpoints EXCEPT ![e] = "live"] /\ sub[p] = NULL
             \/ st = [endpoints EXCEPT ![sub[p]] = "gone", ![e] = "live"] /\ sub[p] # NULL
      PROVE  PushInv'
  <2>1. sub' = [sub EXCEPT ![p] = e] /\ endpoints' = st
        /\ posts' = posts \cup {P!Request("save", e, NULL, login[p])}
    BY <1>3 DEF P!Registered
  <2>2. e \in Endpoint /\ st[e] = "live"
    BY <1>3 DEF P!Free, PushInv, PushTypes
  <2>3. \A r : r = P!Request("save", e, NULL, login[p]) => PostOK(r)'
    BY <1>1, <2>1, <2>2 DEF PostOK, Posts, P!Request
  <2>4. \A r \in posts' : r \in posts \/ PostOK(r)'
    BY <2>1, <2>3
  <2> QED
    BY <1>1, <1>3, <2>1, <2>4, NewEndpoint
<1> QED
  BY <1>2, <1>3 DEF P!Register

LEMMA RotateStep == ASSUME PushInv, NEW p \in Phone, P!Rotate(p) PROVE PushInv'
<1>1. sub[p] # NULL /\ sub[p] \in Endpoint /\ UNCHANGED <<login, row, left, got>>
  BY DEF P!Rotate, P!sending, PushInv, PushTypes
<1>2. PICK e \in P!Free :
        /\ sub' = [sub EXCEPT ![p] = e]
        /\ endpoints' = [endpoints EXCEPT ![sub[p]] = "gone", ![e] = "live"]
        /\ posts' = posts \cup {P!Request("rotate", e, sub[p], NULL)}
  BY DEF P!Rotate
<1>3. e \in Endpoint /\ endpoints'[e] = "live" /\ endpoints'[sub[p]] # "free"
  BY <1>1, <1>2 DEF P!Free, PushInv, PushTypes
<1>4. \A r : r = P!Request("rotate", e, sub[p], NULL) => PostOK(r)'
  BY <1>1, <1>3 DEF PostOK, Posts, P!Request
<1>5. \A r \in posts' : r \in posts \/ PostOK(r)'
  BY <1>2, <1>4
<1> QED
  BY <1>1, <1>2, <1>5, NewEndpoint

LEMMA ExpireStep == ASSUME PushInv, NEW p \in Phone, P!Expire(p) PROVE PushInv'
<1>1. /\ sub[p] # NULL /\ sub' = [sub EXCEPT ![p] = NULL]
      /\ endpoints' = [endpoints EXCEPT ![sub[p]] = "gone"]
      /\ UNCHANGED <<login, row, left, got, posts>>
  BY DEF P!Expire, P!sending
<1>2. PushTypes /\ Held /\ ShownOnce /\ sub[p] \in Endpoint
  BY <1>1 DEF PushInv, PushTypes
<1>3. /\ endpoints' \in [Endpoint -> {"free", "live", "stale", "gone"}]
      /\ \A x \in Endpoint : endpoints'[x] = IF x = sub[p] THEN "gone" ELSE endpoints[x]
      /\ \A q \in Phone : sub'[q] = IF q = p THEN NULL ELSE sub[q]
  BY <1>1, <1>2 DEF PushTypes
<1>4. PushTypes'
  BY <1>1, <1>2, <1>3, PostsStay DEF PushTypes
<1>5. Held'
  BY <1>1, <1>2, <1>3 DEF Held, PushTypes
<1>6. ShownOnce'
  BY <1>1, <1>2, <1>3 DEF ShownOnce
<1> QED
  BY <1>4, <1>5, <1>6 DEF PushInv

LEMMA NewKeyStep == ASSUME PushInv, P!NewKey PROVE PushInv'
<1>1. /\ endpoints' = [e \in Endpoint |-> IF endpoints[e] = "live" THEN "stale" ELSE endpoints[e]]
      /\ UNCHANGED <<login, sub, row, left, got, posts>>
  BY DEF P!NewKey, P!sending
<1>2. PushTypes'
  BY <1>1, PostsStay DEF PushInv, PushTypes
<1>3. Held' /\ ShownOnce'
  BY <1>1 DEF PushInv, PushTypes, Held, ShownOnce
<1> QED
  BY <1>2, <1>3 DEF PushInv

(* A row is written for an endpoint that was handed out, or removed.       *)
LEMMA RowWritten ==
  ASSUME PushInv, NEW e \in Endpoint, NEW u \in Owner \cup {NULL}, row' = [row EXCEPT ![e] = u],
         endpoints[e] # "free", UNCHANGED <<login, sub, endpoints, left, got>>,
         \A r \in posts' : PostOK(r)
  PROVE  PushInv'
<1>1. PushTypes'
  BY DEF PushInv, PushTypes, PostOK
<1>2. Held' /\ ShownOnce'
  BY DEF PushInv, PushTypes, Held, ShownOnce
<1> QED
  BY <1>1, <1>2 DEF PushInv

LEMMA ServeStep ==
  ASSUME PushInv, NEW r \in posts,
         \/ P!Subscribe(r) \/ P!Unsubscribe(r) \/ P!RotateFind(r) \/ P!RotateUpsert(r)
         \/ P!RotateDelete(r)
  PROVE  PushInv'
<1>1. /\ r \in Posts /\ r.e \in Endpoint /\ endpoints[r.e] # "free" /\ r.user \in Owner \cup {NULL}
      /\ r.op \in {"rotate", "found"} => r.old \in Endpoint /\ endpoints[r.old] # "free"
      /\ \A q \in posts : PostOK(q)
  BY DEF PushInv, PushTypes, PostOK, Posts
<1>2. UNCHANGED <<login, sub, endpoints, left, got>>
  BY DEF P!Subscribe, P!Unsubscribe, P!RotateFind, P!RotateUpsert, P!RotateDelete, P!phone, P!sending
<1>3. CASE P!Subscribe(r) \/ P!Unsubscribe(r) \/ P!RotateDelete(r)
  <2>1. posts' \subseteq posts /\ \E u \in {r.user, NULL} : row' = [row EXCEPT ![r.e] = u]
    BY <1>3 DEF P!Subscribe, P!Unsubscribe, P!RotateDelete, P!Write
  <2> QED
    BY <1>1, <1>2, <2>1, RowWritten
<1>4. CASE P!RotateFind(r)
  <2>1. PostOK(P!Request("found", r.e, r.old, row[r.old]))
    BY <1>1, <1>4 DEF P!RotateFind, PostOK, Posts, P!Request, PushInv, PushTypes
  <2>2. row' = row /\ \A q \in posts' : PostOK(q)
    BY <1>1, <1>4, <2>1 DEF P!RotateFind
  <2> QED
    BY <1>2, <2>2, PostsMove DEF PushInv, PushTypes
<1>5. CASE P!RotateUpsert(r)
  <2>1. PostOK(P!Request("remove old", r.old, NULL, NULL))
    BY <1>1, <1>5 DEF P!RotateUpsert, PostOK, Posts, P!Request
  <2>2. row' = [row EXCEPT ![r.e] = r.user] /\ \A q \in posts' : PostOK(q)
    BY <1>1, <1>5, <2>1 DEF P!RotateUpsert
  <2> QED
    BY <1>1, <1>2, <2>2, RowWritten
<1> QED
  BY <1>3, <1>4, <1>5

(* A send takes at most one notification for each row.                     *)
LEMMA SendCopies == ASSUME PushInv, P!Send PROVE PushInv'
<1>1. /\ left' = [e \in Endpoint |-> P!Copies(e)] /\ got' = [p \in Phone |-> 0]
      /\ UNCHANGED <<login, sub, endpoints, row, posts>>
  BY DEF P!Send, P!phone
<1>2. \A e \in Endpoint : P!Copies(e) \in {0, 1} /\ (row[e] = NULL => P!Copies(e) = 0)
  BY DEF P!Copies, P!Audience
<1>3. PushTypes'
  BY <1>1, <1>2 DEF PushInv, PushTypes, PostOK
<1>4. Held' /\ ShownOnce'
  BY <1>1, <1>2 DEF PushInv, PushTypes, Held, ShownOnce
<1> QED
  BY <1>3, <1>4 DEF PushInv

LEMMA DeliverStep == ASSUME PushInv, NEW e \in Endpoint, P!Deliver(e) PROVE PushInv'
<1>0. left[e] = 1
  BY DEF P!Deliver, PushInv, PushTypes
<1>1. /\ left[e] = 1 /\ left' = [left EXCEPT ![e] = 0]
      /\ got' = [p \in Phone |-> IF sub[p] = e /\ endpoints[e] = "live" THEN got[p] + 1 ELSE got[p]]
      /\ row' = IF endpoints[e] = "gone" THEN [row EXCEPT ![e] = NULL] ELSE row
      /\ UNCHANGED <<login, sub, endpoints, posts>>
  BY <1>0 DEF P!Deliver, P!phone
<1>2. \A p \in Phone : sub[p] = e => got[p] = 0
  BY <1>1, NoneIsEndpoint DEF PushInv, PushTypes, ShownOnce
<1>3. PushTypes'
  BY <1>1, <1>2 DEF PushInv, PushTypes, PostOK
<1>4. Held' /\ ShownOnce'
  BY <1>1, <1>2 DEF PushInv, PushTypes, Held, ShownOnce
<1> QED
  BY <1>3, <1>4 DEF PushInv

LEMMA PushStep == ASSUME PushInv, [P!Next]_(P!pushVars) PROVE PushInv'
<1>1. ASSUME NEW p \in Phone,
             \/ P!Logout(p) \/ P!Allow(p) \/ P!Register(p) \/ P!Rotate(p) \/ P!Expire(p)
             \/ \E u \in Owner : P!Login(p, u)
      PROVE  PushInv'
  BY <1>1, SignStep, RegisterStep, RotateStep, ExpireStep
<1>2. CASE P!NewKey \/ P!Serve \/ P!Send
  BY <1>2, NewKeyStep, ServeStep, SendCopies DEF P!Serve
<1>3. ASSUME NEW e \in Endpoint, P!Deliver(e) PROVE PushInv'
  BY <1>3, DeliverStep
<1>4. ASSUME NEW r \in posts, P!Lose(r) PROVE PushInv'
  BY <1>4, PostsMove DEF P!Lose, P!phone, P!sending, PushInv, PushTypes
<1>5. CASE UNCHANGED P!pushVars
  BY <1>5, PostsMove DEF P!pushVars, PushInv, PushTypes
<1> QED
  BY <1>1, <1>2, <1>3, <1>4, <1>5 DEF P!Next

LEMMA PushAlways == Spec => []PushInv
<1>1. Init => PushInv
  BY PushInit DEF Init
<1>2. PushInv /\ [Next]_vars => PushInv'
  BY StepOfParts, PushStep
<1> QED
  BY <1>1, <1>2, PTL DEF Spec

(* The rows belong to workers and to endpoints that were handed out, and   *)
(* no browser holds an endpoint its push service has given up.             *)
THEOREM RowsOfEndpoints == Spec => []P!TypeOK
<1>1. PushInv => P!TypeOK
  BY DEF PushInv, PushTypes, Held, ShownOnce, P!TypeOK
<1> QED
  BY <1>1, PushAlways, PTL

(* "each device notified exactly once" (push.service.ts:90-92): no phone   *)
(* shows one send twice, whatever subscriptions are moved meanwhile.       *)
THEOREM OneNotification == Spec => []OnePerSend
<1>1. PushInv => P!OnePerSend
  BY DEF PushInv, PushTypes, P!OnePerSend
<1> QED
  BY <1>1, PushAlways, PTL DEF OnePerSend

-----------------------------------------------------------------------------
(* DailyReport: at most one mail a day, and for whoever was left alone at  *)
(* least one.                                                              *)

Today(r) == D!Key(r) \in sentDates
Handled(r) == r \in Boss /\ cron.at = "mailing" /\ r \notin cron.left

CronOK ==
  /\ cron.at \in {"idle", "org", "mailing", "pms", "digests"}
  /\ cron.at \in {"org", "pms"} => cron = [at |-> cron.at, org |-> cron.org, own |-> cron.own]
  /\ cron.at = "mailing" =>
       /\ cron = [at |-> "mailing", org |-> cron.org, own |-> cron.own,
                  left |-> cron.left, out |-> cron.out]
       /\ cron.left \subseteq Boss /\ cron.out \in Nat
  /\ cron.at = "digests" =>
       cron = [at |-> "digests", left |-> cron.left] /\ cron.left \subseteq Digested

ReportTypes ==
  /\ day \in Nat /\ slot \in Nat /\ forgot \in Nat
  /\ mails \in [D!Reader -> Nat] /\ DOMAIN mailed = Digested
  /\ \A k \in sentDates : k[2] \in 0..day
  /\ CronOK

(* A run mails whose key is not set, and a restart forgets one mail.       *)
AtMostOnce ==
  /\ cron.at = "mailing" => <<"org", day>> \notin sentDates
  /\ cron.at = "digests" => \A m \in cron.left : ~Today(m)
  /\ \A r \in D!Reader :
       mails[r] <= forgot + (IF Today(r) \/ (Handled(r) /\ cron.out > 0) THEN 1 ELSE 0)

Sched(r) == D!Schedule(r, org, own, mailed)

(* What the run has read still holds for those nobody interfered with.     *)
RunIsCurrent ==
  cron.at \in {"org", "mailing", "pms"} =>
    \A r \in D!Reader \ excused : D!Schedule(r, cron.org, cron.own, mailed) = Sched(r)

(* The hours the cron is done with for r.                                  *)
Passed(r) ==
  IF r \in Boss THEN cron.at \in {"pms", "digests", "idle"}
  ELSE cron.at = "idle" \/ (cron.at = "digests" /\ r \notin cron.left)
WasDue(r) ==
  /\ Sched(r).on
  /\ \E i \in 1..Len(plan) : plan[i] = Sched(r).hour /\ (i < slot \/ (i = slot /\ Passed(r)))
AtLeastOnce ==
  \A r \in D!Reader \ excused : 
    forgot = 0 /\ (WasDue(r) \/ Today(r) \/ Handled(r) => mails[r] >= 1)

ReportInv == ReportTypes /\ AtMostOnce /\ RunIsCurrent /\ AtLeastOnce

LEMMA Roles == Boss \cap Digested = {} /\ "org" \notin Digested
BY PartsAssumption DEF D!ReportAssumption

LEMMA ReportInit == D!Init => ReportInv
<1> SUFFICES ASSUME D!Init PROVE ReportInv
  OBVIOUS
<1>1. /\ day = 0 /\ slot = 1 /\ forgot = 0 /\ sentDates = {} /\ excused = {}
      /\ mails = [r \in D!Reader |-> 0] /\ mailed = [m \in Digested |-> {}]
      /\ cron = [at |-> "org", org |-> org, own |-> own]
  BY DEF D!Init
<1>2. ReportTypes
  BY <1>1 DEF ReportTypes, CronOK
<1>3. AtMostOnce
  BY <1>1 DEF AtMostOnce
<1>4. RunIsCurrent
  BY <1>1 DEF RunIsCurrent, Sched
<1>5. AtLeastOnce
  BY <1>1 DEF AtLeastOnce, WasDue, Passed, Today, Handled
<1> QED
  BY <1>2, <1>3, <1>4, <1>5 DEF ReportInv

(* Steps of the run: the clock and the schedules stay.                     *)
LEMMA RunMoves ==
  ASSUME ReportInv, UNCHANGED <<plan, slot, org, own, mailed, forgot>>,
         excused \subseteq excused',
         \A r \in D!Reader : mails'[r] \in Nat /\ mails'[r] >= mails[r],
         \A r \in D!Reader \ excused' :
           /\ Today(r)' \/ Handled(r)' => Today(r) \/ Handled(r) \/ mails'[r] >= 1
           /\ Passed(r)' /\ Sched(r).on /\ Sched(r).hour = plan[slot]
                => Passed(r) \/ Handled(r) \/ mails'[r] >= 1,
         cron'.at \in {"org", "mailing", "pms"} =>
           /\ cron.at \in {"org", "mailing", "pms"}
           /\ cron'.org = cron.org /\ cron'.own = cron.own
  PROVE  AtLeastOnce' /\ RunIsCurrent'
<1>1. \A r : Sched(r)' = Sched(r)
  BY DEF Sched
<1>2. \A r \in D!Reader : mails[r] \in Nat
  BY DEF ReportInv, ReportTypes
<1>3. AtLeastOnce'
  <2> SUFFICES ASSUME NEW r \in D!Reader \ excused'
               PROVE  forgot' = 0 /\ ((WasDue(r) \/ Today(r) \/ Handled(r))' => mails'[r] >= 1)
    BY DEF AtLeastOnce
  <2>1. WasDue(r)' => WasDue(r) \/ Handled(r) \/ mails'[r] >= 1
    BY <1>1 DEF WasDue
  <2>2. forgot = 0 /\ (WasDue(r) \/ Today(r) \/ Handled(r) => mails[r] >= 1)
    BY DEF ReportInv, AtLeastOnce
  <2> QED
    BY <1>2, <2>1, <2>2
<1>4. RunIsCurrent'
  BY <1>1 DEF ReportInv, RunIsCurrent
<1> QED
  BY <1>3, <1>4

(* The clock strikes; nothing of the last hour is left.                    *)
LEMMA HandleCronStep == ASSUME ReportInv, D!HandleCron PROVE ReportInv'
<1>1. /\ cron.at = "idle" /\ slot' = slot + 1 /\ cron' = [at |-> "org", org |-> org, own |-> own]
      /\ UNCHANGED <<day, plan, org, own, mailed, sentDates, mails, excused, forgot>>
  BY DEF D!HandleCron, D!settings
<1>2. ReportTypes'
  BY <1>1 DEF ReportInv, ReportTypes, CronOK
<1>3. AtMostOnce'
  BY <1>1 DEF ReportInv, AtMostOnce, Handled, Today, D!Key
<1>4. RunIsCurrent'
  BY <1>1 DEF RunIsCurrent, Sched
<1>5. AtLeastOnce'
  <2> SUFFICES ASSUME NEW r \in D!Reader \ excused
               PROVE  forgot = 0 /\ ((WasDue(r) \/ Today(r) \/ Handled(r))' => mails[r] >= 1)
    BY <1>1 DEF AtLeastOnce
  <2>1. (Today(r)' => Today(r)) /\ ~Handled(r)'
    BY <1>1 DEF Today, Handled, D!Key
  <2>2. WasDue(r)' => WasDue(r)
    <3>1. Sched(r)' = Sched(r) /\ slot \in Nat
      BY <1>1 DEF Sched, ReportInv, ReportTypes
    <3>2. ~Passed(r)' /\ Passed(r)
      BY <1>1 DEF Passed
    <3> QED
      BY <1>1, <3>1, <3>2 DEF WasDue
  <2> QED
    BY <2>1, <2>2 DEF ReportInv, AtLeastOnce
<1> QED
  BY <1>2, <1>3, <1>4, <1>5 DEF ReportInv

(* A new day: no key of it is set.                                         *)
LEMMA MidnightStep == ASSUME ReportInv, D!Midnight PROVE ReportInv'
<1>1. /\ day' = day + 1 /\ slot' = 1 /\ cron' = [at |-> "org", org |-> org, own |-> own]
      /\ mails' = [r \in D!Reader |-> 0] /\ excused' = {} /\ forgot' = 0
      /\ UNCHANGED <<org, own, mailed, sentDates>>
  BY DEF D!Midnight, D!settings
<1>2. ReportTypes'
  <2>1. CronOK'
    BY <1>1 DEF CronOK
  <2>2. mails' \in [D!Reader -> Nat] /\ day' \in Nat /\ \A k \in sentDates' : k[2] \in 0..day
    BY <1>1 DEF ReportInv, ReportTypes
  <2>3. \A k \in sentDates' : k[2] \in 0..day'
    BY <1>1, <2>2 DEF ReportInv, ReportTypes
  <2> QED
    BY <1>1, <2>1, <2>2, <2>3 DEF ReportInv, ReportTypes
<1>3. \A r : ~Today(r)'
  BY <1>1 DEF ReportInv, ReportTypes, Today, D!Key
<1>4. AtMostOnce'
  BY <1>1 DEF AtMostOnce
<1>5. RunIsCurrent'
  BY <1>1 DEF RunIsCurrent, Sched
<1>6. AtLeastOnce'
  BY <1>1, <1>3 DEF AtLeastOnce, WasDue, Passed, Handled
<1> QED
  BY <1>2, <1>4, <1>5, <1>6 DEF ReportInv

(* Not at this hour, or the mail is out.                                   *)
LEMMA OrgNotDueStep == ASSUME ReportInv, D!OrgNotDue PROVE ReportInv'
<1>1. /\ cron.at = "org" /\ \A r \in Boss : ~D!Due(r, cron.org, cron.own)
      /\ cron' = [cron EXCEPT !.at = "pms"]
      /\ UNCHANGED <<day, plan, slot, org, own, mailed, sentDates, mails, excused, forgot>>
  BY DEF D!OrgNotDue, D!clock, D!settings
<1>2. cron = [at |-> "org", org |-> cron.org, own |-> cron.own] /\ ReportTypes
  BY <1>1 DEF ReportInv, ReportTypes, CronOK
<1>3. cron' = [at |-> "pms", org |-> cron.org, own |-> cron.own]
  BY <1>1, <1>2
<1>4. ReportTypes'
  BY <1>1, <1>2, <1>3 DEF ReportTypes, CronOK
<1>5. AtMostOnce'
  BY <1>1, <1>3 DEF ReportInv, AtMostOnce, Handled, Today, D!Key
<1>6. ASSUME NEW r \in D!Reader \ excused', Passed(r)', Sched(r).on, Sched(r).hour = plan[slot]
      PROVE  mails'[r] >= 1
  <2>1. r \in Boss
    BY <1>3, <1>6 DEF Passed
  <2>2. D!Schedule(r, cron.org, cron.own, mailed) = Sched(r)
    BY <1>1, <1>6 DEF ReportInv, RunIsCurrent
  <2>3. Today(r)
    BY <1>1, <1>6, <2>1, <2>2 DEF D!Due, Today
  <2> QED
    BY <1>1, <1>6, <2>3 DEF ReportInv, AtLeastOnce
<1>7. \A r : Today(r)' = Today(r) /\ ~Handled(r)'
  BY <1>1, <1>3 DEF Today, Handled, D!Key
<1>8. AtLeastOnce' /\ RunIsCurrent'
  BY <1>1, <1>2, <1>3, <1>6, <1>7, RunMoves DEF ReportTypes
<1> QED
  BY <1>4, <1>5, <1>8 DEF ReportInv

LEMMA OrgStartStep == ASSUME ReportInv, D!OrgStart PROVE ReportInv'
<1>1. /\ cron.at = "org"
      /\ cron' = [at |-> "mailing", org |-> cron.org, own |-> cron.own, left |-> Boss, out |-> 0]
      /\ UNCHANGED <<day, plan, slot, org, own, mailed, sentDates, mails, excused, forgot>>
  BY DEF D!OrgStart, D!clock, D!settings
<1>2. <<"org", day>> \notin sentDates
  BY DEF D!OrgStart, D!Due, D!Key
<1>3. ReportTypes /\ ReportTypes'
  <2>1. CronOK'
    BY <1>1 DEF CronOK
  <2> QED
    BY <1>1, <2>1 DEF ReportInv, ReportTypes
<1>4. AtMostOnce'
  BY <1>1, <1>2 DEF ReportInv, AtMostOnce, Handled, Today, D!Key
<1>5. \A r \in D!Reader : ~Passed(r)' /\ Today(r)' = Today(r) /\ ~Handled(r)'
  BY <1>1 DEF Passed, Today, Handled, D!Key
<1>6. AtLeastOnce' /\ RunIsCurrent'
  BY <1>1, <1>3, <1>5, RunMoves DEF ReportTypes
<1> QED
  BY <1>3, <1>4, <1>6 DEF ReportInv

(* One mail of the organisation's report, out or not.                      *)
LEMMA OrgMailStep ==
  ASSUME ReportInv, NEW b \in Boss, NEW out \in BOOLEAN, D!OrgMail(b, out) PROVE ReportInv'
<1>1. /\ cron.at = "mailing" /\ b \in cron.left
      /\ cron' = [cron EXCEPT !.left = @ \ {b}, !.out = IF out THEN @ + 1 ELSE @]
      /\ mails' = IF out THEN [mails EXCEPT ![b] = @ + 1] ELSE mails
      /\ excused' = IF out THEN excused ELSE excused \cup {b}
      /\ UNCHANGED <<day, plan, slot, org, own, mailed, sentDates, forgot>>
  BY DEF D!OrgMail, D!Mail, D!clock, D!settings
<1>2. /\ cron = [at |-> "mailing", org |-> cron.org, own |-> cron.own,
                 left |-> cron.left, out |-> cron.out]
      /\ cron.left \subseteq Boss /\ cron.out \in Nat /\ ReportTypes /\ b \in D!Reader
  BY <1>1 DEF ReportInv, ReportTypes, CronOK, D!Reader
<1>3. cron' = [at |-> "mailing", org |-> cron.org, own |-> cron.own,
               left |-> cron.left \ {b}, out |-> IF out THEN cron.out + 1 ELSE cron.out]
  BY <1>1, <1>2
<1>4. /\ mails' \in [D!Reader -> Nat]
      /\ \A r \in D!Reader : mails'[r] = IF r = b /\ out THEN mails[r] + 1 ELSE mails[r]
      /\ \A r \in D!Reader : mails[r] \in Nat
  BY <1>1, <1>2 DEF ReportTypes
<1>5. ReportTypes'
  <2>1. CronOK'
    BY <1>2, <1>3 DEF CronOK
  <2> QED
    BY <1>1, <1>2, <1>4, <2>1 DEF ReportTypes
<1>6. \A r : Today(r)' = Today(r)
  BY <1>1 DEF Today, D!Key
<1>7. \A r \in D!Reader : r # b => Handled(r)' = Handled(r)
  BY <1>1, <1>3 DEF Handled
<1>8. Handled(b)' /\ ~Handled(b) /\ ~Today(b)
  BY <1>1, <1>2, <1>3 DEF Handled, ReportInv, AtMostOnce, Today, D!Key
<1>9. AtMostOnce'
  <2>1. /\ cron'.out \in Nat /\ cron'.out >= cron.out /\ (out => cron'.out > 0)
        /\ cron'.at = "mailing"
    BY <1>2, <1>3
  <2>2. \A r \in D!Reader :
          mails[r] <= forgot + (IF Today(r) \/ (Handled(r) /\ cron.out > 0) THEN 1 ELSE 0)
    BY DEF ReportInv, AtMostOnce
  <2>3. ASSUME NEW r \in D!Reader
        PROVE  mails'[r] <= forgot' +
                 (IF Today(r)' \/ (Handled(r)' /\ cron'.out > 0) THEN 1 ELSE 0)
    <3>1. CASE r = b
      BY <1>1, <1>2, <1>4, <1>6, <1>8, <2>1, <2>2, <3>1 DEF ReportTypes
    <3>2. CASE r # b
      BY <1>1, <1>2, <1>4, <1>6, <1>7, <2>1, <2>2, <3>2 DEF ReportTypes
    <3> QED
      BY <3>1, <3>2
  <2> QED
    BY <1>1, <2>1, <2>3 DEF ReportInv, AtMostOnce
<1>10. ASSUME NEW r \in D!Reader \ excused', Handled(r)' PROVE Handled(r) \/ mails'[r] >= 1
  <2>1. CASE r = b
    BY <1>1, <1>2, <1>4, <2>1
  <2>2. CASE r # b
    BY <1>7, <1>10, <2>2
  <2> QED
    BY <2>1, <2>2
<1>11. \A r \in D!Reader : Passed(r)' => Passed(r)
  BY <1>1, <1>3 DEF Passed
<1>12. \A r \in D!Reader : mails'[r] \in Nat /\ mails'[r] >= mails[r]
  BY <1>4
<1>13. excused \subseteq excused'
  BY <1>1
<1>14. AtLeastOnce' /\ RunIsCurrent'
  BY <1>1, <1>3, <1>6, <1>10, <1>11, <1>12, <1>13, RunMoves
<1> QED
  BY <1>5, <1>9, <1>14 DEF ReportInv

LEMMA OrgEndStep == ASSUME ReportInv, D!OrgEnd PROVE ReportInv'
<1>1. /\ cron.at = "mailing" /\ cron.left = {}
      /\ sentDates' = IF cron.out > 0 THEN sentDates \cup {<<"org", day>>} ELSE sentDates
      /\ cron' = [at |-> "pms", org |-> cron.org, own |-> cron.own]
      /\ UNCHANGED <<day, plan, slot, org, own, mailed, mails, excused, forgot>>
  BY DEF D!OrgEnd, D!clock, D!settings
<1>2. ReportTypes /\ cron.out \in Nat
  BY <1>1 DEF ReportInv, ReportTypes, CronOK
<1>3. ReportTypes'
  BY <1>1, <1>2 DEF ReportTypes, CronOK
<1>4. \A r \in D!Reader : /\ Today(r) => Today(r)'
                          /\ Handled(r) /\ cron.out > 0 => Today(r)'
                          /\ Today(r)' => Today(r) \/ Handled(r)
  BY <1>1, Roles DEF Today, Handled, D!Key, D!Reader
<1>5. AtMostOnce'
  BY <1>1, <1>2, <1>4 DEF ReportInv, AtMostOnce, ReportTypes
<1>6. \A r \in D!Reader : ~Handled(r)' /\ (Passed(r)' => Handled(r))
  BY <1>1 DEF Passed, Handled
<1>7. AtLeastOnce' /\ RunIsCurrent'
  BY <1>1, <1>2, <1>4, <1>6, RunMoves DEF ReportTypes
<1> QED
  BY <1>3, <1>5, <1>7 DEF ReportInv

(* The digests: those due at this hour whose mail is not out.              *)
LEMMA PmStartStep == ASSUME ReportInv, D!PmStart PROVE ReportInv'
<1>1. /\ cron.at = "pms"
      /\ cron' = [at |-> "digests", left |-> {m \in Digested : D!Due(m, cron.org, cron.own)}]
      /\ UNCHANGED <<day, plan, slot, org, own, mailed, sentDates, mails, excused, forgot>>
  BY DEF D!PmStart, D!clock, D!settings
<1>2. ReportTypes /\ ReportTypes'
  BY <1>1 DEF ReportInv, ReportTypes, CronOK
<1>3. \A r : Today(r)' = Today(r) /\ ~Handled(r)' /\ ~Handled(r)
  BY <1>1 DEF Today, Handled, D!Key
<1>4. AtMostOnce'
  BY <1>1, <1>3 DEF ReportInv, AtMostOnce, Today, D!Due
<1>5. ASSUME NEW r \in D!Reader \ excused', Passed(r)', Sched(r).on, Sched(r).hour = plan[slot]
      PROVE  Passed(r) \/ mails'[r] >= 1
  <2>1. CASE r \in Boss
    BY <1>1, <2>1 DEF Passed
  <2>2. CASE r \notin Boss
    <3>1. r \in Digested /\ ~D!Due(r, cron.org, cron.own)
      BY <1>1, <1>5, <2>2 DEF Passed, D!Reader
    <3>2. D!Schedule(r, cron.org, cron.own, mailed) = Sched(r)
      BY <1>1, <1>5 DEF ReportInv, RunIsCurrent
    <3>3. Today(r)
      BY <1>5, <3>1, <3>2 DEF D!Due, Today
    <3> QED
      BY <1>1, <1>5, <3>3 DEF ReportInv, AtLeastOnce
  <2> QED
    BY <2>1, <2>2
<1>6. AtLeastOnce' /\ RunIsCurrent'
  BY <1>1, <1>2, <1>3, <1>5, RunMoves DEF ReportTypes
<1> QED
  BY <1>2, <1>4, <1>6 DEF ReportInv

LEMMA PmMailStep ==
  ASSUME ReportInv, NEW m \in Digested, NEW out \in BOOLEAN, D!PmMail(m, out) PROVE ReportInv'
<1>1. /\ cron.at = "digests" /\ m \in cron.left /\ cron' = [cron EXCEPT !.left = @ \ {m}]
      /\ mails' = IF out THEN [mails EXCEPT ![m] = @ + 1] ELSE mails
      /\ excused' = IF out THEN excused ELSE excused \cup {m}
      /\ sentDates' = IF out THEN sentDates \cup {<<m, day>>} ELSE sentDates
      /\ UNCHANGED <<day, plan, slot, org, own, mailed, forgot>>
  BY Roles DEF D!PmMail, D!Mail, D!clock, D!settings, D!Key
<1>2. /\ cron = [at |-> "digests", left |-> cron.left] /\ cron.left \subseteq Digested
      /\ ReportTypes /\ m \in D!Reader /\ m \notin Boss /\ m # "org"
  BY <1>1, Roles DEF ReportInv, ReportTypes, CronOK, D!Reader
<1>3. cron' = [at |-> "digests", left |-> cron.left \ {m}]
  BY <1>1, <1>2
<1>4. /\ mails' \in [D!Reader -> Nat]
      /\ \A r \in D!Reader : mails'[r] = IF r = m /\ out THEN mails[r] + 1 ELSE mails[r]
      /\ \A r \in D!Reader : mails[r] \in Nat
  BY <1>1, <1>2 DEF ReportTypes
<1>5. ReportTypes'
  <2>1. CronOK'
    BY <1>2, <1>3 DEF CronOK
  <2>2. \A k \in sentDates' : k[2] \in 0..day
    BY <1>1, <1>2 DEF ReportTypes
  <2> QED
    BY <1>1, <1>2, <1>4, <2>1, <2>2 DEF ReportTypes
<1>6. \A r \in D!Reader : Today(r)' = (Today(r) \/ (out /\ r = m))
  BY <1>1, <1>2, Roles DEF Today, D!Key, D!Reader
<1>7. \A r : ~Handled(r) /\ ~Handled(r)'
  BY <1>1, <1>3 DEF Handled
<1>8. AtMostOnce'
  <2>1. \A d \in cron'.left : ~Today(d)'
    BY <1>1, <1>2, <1>3, <1>6 DEF ReportInv, AtMostOnce, D!Reader
  <2>2. \A r \in D!Reader : mails[r] <= forgot + (IF Today(r) THEN 1 ELSE 0)
    BY <1>7 DEF ReportInv, AtMostOnce
  <2>3. ~Today(m)
    BY <1>1 DEF ReportInv, AtMostOnce
  <2>0. forgot' = forgot /\ forgot \in Nat
    BY <1>1, <1>2 DEF ReportTypes
  <2>4. ASSUME NEW r \in D!Reader PROVE mails'[r] <= forgot' + (IF Today(r)' THEN 1 ELSE 0)
    <3>1. CASE r = m /\ out
      <4>1. mails'[m] = mails[m] + 1 /\ mails[m] \in Nat
        BY <1>2, <1>4, <3>1
      <4>2. mails[m] <= forgot + 0
        BY <1>2, <2>2, <2>3
      <4>3. Today(m)'
        BY <1>2, <1>6, <3>1
      <4> QED
        BY <2>0, <3>1, <4>1, <4>2, <4>3
    <3>2. CASE ~(r = m /\ out)
      BY <1>4, <1>6, <2>0, <2>2, <3>2
    <3> QED
      BY <3>1, <3>2
  <2> QED
    BY <1>3, <1>7, <2>1, <2>4 DEF AtMostOnce
<1>9. ASSUME NEW r \in D!Reader \ excused' 
      PROVE  /\ Today(r)' => Today(r) \/ mails'[r] >= 1
             /\ Passed(r)' => Passed(r) \/ mails'[r] >= 1
  <2>1. CASE r = m
    <3>1. out
      BY <1>1, <1>9, <2>1
    <3> QED
      BY <1>4, <2>1, <3>1
  <2>2. CASE r # m
    BY <1>1, <1>3, <1>6, <2>2 DEF Passed
  <2> QED
    BY <2>1, <2>2
<1>10. \A r \in D!Reader : mails'[r] \in Nat /\ mails'[r] >= mails[r]
  BY <1>4
<1>11. excused \subseteq excused' /\ cron'.at = "digests"
  BY <1>1, <1>3
<1>12. AtLeastOnce' /\ RunIsCurrent'
  BY <1>1, <1>7, <1>9, <1>10, <1>11, RunMoves
<1> QED
  BY <1>5, <1>8, <1>12 DEF ReportInv

(* The run ends; those it leaves out manage nothing any more.              *)
LEMMA PmEndStep == ASSUME ReportInv, D!PmEnd PROVE ReportInv'
<1>1. /\ cron.at = "digests" /\ cron' = [at |-> "idle"]
      /\ \A m \in cron.left : mailed[m] = {}
      /\ UNCHANGED <<day, plan, slot, org, own, mailed, sentDates, mails, excused, forgot>>
  BY DEF D!PmEnd, D!Idle, D!clock, D!settings
<1>2. ReportTypes /\ ReportTypes'
  BY <1>1 DEF ReportInv, ReportTypes, CronOK
<1>3. \A r : Today(r)' = Today(r) /\ ~Handled(r)' /\ ~Handled(r)
  BY <1>1 DEF Today, Handled, D!Key
<1>4. AtMostOnce'
  BY <1>1, <1>3 DEF ReportInv, AtMostOnce
<1>5. ASSUME NEW r \in D!Reader, Sched(r).on PROVE Passed(r)
  <2>1. ~(r \notin Boss /\ mailed[r] = {})
    BY <1>5 DEF Sched, D!Schedule
  <2> QED
    BY <1>1, <2>1 DEF Passed
<1>6. AtLeastOnce' /\ RunIsCurrent'
  BY <1>1, <1>2, <1>3, <1>5, RunMoves DEF ReportTypes
<1> QED
  BY <1>2, <1>4, <1>6 DEF ReportInv

(* A query throws: those who were due are excused.                         *)
LEMMA QueryFailsStep == ASSUME ReportInv, D!QueryFails PROVE ReportInv'
<1>1. /\ cron.at \in {"org", "pms"} /\ cron' = [at |-> "idle"]
      /\ UNCHANGED <<day, plan, slot, org, own, mailed, sentDates, mails, forgot>>
      /\ excused \subseteq excused'
  BY DEF D!QueryFails, D!Idle, D!clock, D!settings
<1>2. \A r \in D!Reader \ excused' : r \notin excused /\ ~D!Due(r, cron.org, cron.own)
  BY DEF D!QueryFails
<1>3. /\ cron.at # "mailing" /\ cron'.at = "idle"
      /\ UNCHANGED <<day, plan, slot, org, own, mailed, sentDates, mails, forgot>>
  BY <1>1
<1>4. ReportTypes /\ ReportTypes'
  <2>1. CronOK'
    BY <1>1 DEF CronOK
  <2> QED
    BY <1>3, <2>1 DEF ReportInv, ReportTypes
<1>5. \A r : Today(r)' = Today(r) /\ ~Handled(r)' /\ ~Handled(r)
  BY <1>3 DEF Today, Handled, D!Key
<1>6. AtMostOnce'
  BY <1>5, <1>3 DEF ReportInv, AtMostOnce
<1>7. ASSUME NEW r \in D!Reader \ excused', Sched(r).on, Sched(r).hour = plan[slot]
      PROVE  mails'[r] >= 1
  <2>1. r \notin excused /\ ~D!Due(r, cron.org, cron.own)
    BY <1>2
  <2>2. D!Schedule(r, cron.org, cron.own, mailed) = Sched(r)
    BY <1>1, <2>1 DEF ReportInv, RunIsCurrent
  <2>3. Today(r)
    BY <1>7, <2>1, <2>2 DEF D!Due, Today
  <2> QED
    BY <1>1, <2>1, <2>3 DEF ReportInv, AtLeastOnce
<1>8. excused \subseteq excused'
  BY <1>1
<1>9. \A r \in D!Reader : mails'[r] \in Nat /\ mails'[r] >= mails[r]
  BY <1>4, <1>3 DEF ReportTypes
<1>10. AtLeastOnce' /\ RunIsCurrent'
  BY <1>5, <1>7, <1>3, <1>8, <1>9, RunMoves
<1> QED
  BY <1>4, <1>6, <1>10 DEF ReportInv

(* A restart forgets what is out, and excuses everybody.                   *)
LEMMA RestartStep == ASSUME ReportInv, D!Restart PROVE ReportInv'
<1>1. /\ sentDates' = {} /\ cron' = [at |-> "idle"] /\ excused' = D!Reader
      /\ forgot' = forgot + 1 /\ UNCHANGED <<day, plan, slot, org, own, mailed, mails>>
  BY DEF D!Restart, D!Idle, D!clock, D!settings
<1>2. ReportTypes /\ ReportTypes'
  BY <1>1 DEF ReportInv, ReportTypes, CronOK
<1>3. AtMostOnce'
  BY <1>1, <1>2 DEF ReportInv, AtMostOnce, ReportTypes
<1>4. RunIsCurrent' /\ AtLeastOnce'
  BY <1>1 DEF RunIsCurrent, AtLeastOnce
<1> QED
  BY <1>2, <1>3, <1>4 DEF ReportInv

(* Schedules change: those whose own schedule is another now are excused.  *)
LEMMA SettingsMove ==
  ASSUME ReportInv, UNCHANGED <<day, plan, slot, sentDates, cron, mails, forgot>>,
         DOMAIN mailed' = Digested, excused \subseteq excused',
         \A r \in D!Reader \ excused' :
           /\ Sched(r)' = Sched(r)
           /\ cron.at \in {"org", "mailing", "pms"} =>
                D!Schedule(r, cron.org, cron.own, mailed') = D!Schedule(r, cron.org, cron.own, mailed)
  PROVE  ReportInv'
<1>1. ReportTypes'
  BY DEF ReportInv, ReportTypes, CronOK
<1>2. \A r : Today(r)' = Today(r) /\ Handled(r)' = Handled(r) /\ Passed(r)' = Passed(r)
  BY DEF Today, Handled, Passed, D!Key
<1>3. AtMostOnce'
  BY <1>2 DEF ReportInv, AtMostOnce
<1>4. RunIsCurrent'
  BY DEF ReportInv, RunIsCurrent
<1>5. AtLeastOnce'
  BY <1>2 DEF ReportInv, AtLeastOnce, WasDue
<1> QED
  BY <1>1, <1>3, <1>4, <1>5 DEF ReportInv

LEMMA UpdateWriteStep == ASSUME ReportInv, NEW e \in edit, D!UpdateWrite(e) PROVE ReportInv'
<1>1. /\ org' = e.org /\ own' = e.own /\ excused' = excused \cup D!Disturbed(e.org, e.own, mailed)
      /\ UNCHANGED <<day, plan, slot, mailed, sentDates, cron, mails, forgot>>
  BY DEF D!UpdateWrite, D!clock
<1>2. \A r \in D!Reader \ excused' : Sched(r)' = Sched(r)
  BY <1>1 DEF D!Disturbed, Sched
<1> QED
  BY <1>1, <1>2, SettingsMove DEF ReportInv, ReportTypes

LEMMA SetManagedStep == ASSUME ReportInv, NEW m \in Digested, D!SetManaged(m) PROVE ReportInv'
<1>1. /\ excused' = excused \cup {m}
      /\ UNCHANGED <<day, plan, slot, org, own, sentDates, cron, mails, forgot>>
  BY DEF D!SetManaged, D!clock
<1>2. DOMAIN mailed' = Digested /\ \A r \in Digested : r # m => mailed'[r] = mailed[r]
  BY DEF D!SetManaged, ReportInv, ReportTypes
<1>3. \A r \in D!Reader \ excused' : \A o, w : D!Schedule(r, o, w, mailed') = D!Schedule(r, o, w, mailed)
  BY <1>1, <1>2 DEF D!Schedule, D!Reader
<1>4. \A r \in D!Reader \ excused' : Sched(r)' = Sched(r)
  BY <1>1, <1>3 DEF Sched
<1> QED
  BY <1>1, <1>2, <1>3, <1>4, SettingsMove

LEMMA ReportStep == ASSUME ReportInv, [D!Next]_(D!reportVars) PROVE ReportInv'
<1>1. CASE D!HandleCron \/ D!Midnight \/ D!OrgNotDue \/ D!OrgStart \/ D!OrgEnd
  BY <1>1, HandleCronStep, MidnightStep, OrgNotDueStep, OrgStartStep, OrgEndStep
<1>2. CASE D!PmStart \/ D!PmEnd \/ D!QueryFails \/ D!Restart
  BY <1>2, PmStartStep, PmEndStep, QueryFailsStep, RestartStep
<1>3. ASSUME NEW r \in Boss, NEW out \in BOOLEAN, D!OrgMail(r, out) PROVE ReportInv'
  BY <1>3, OrgMailStep
<1>4. ASSUME NEW m \in Digested, NEW out \in BOOLEAN, D!PmMail(m, out) PROVE ReportInv'
  BY <1>4, PmMailStep
<1>5. ASSUME NEW e \in edit, D!UpdateWrite(e) PROVE ReportInv'
  BY <1>5, UpdateWriteStep
<1>6. ASSUME NEW m \in Digested, D!SetManaged(m) PROVE ReportInv'
  BY <1>6, SetManagedStep
<1>7. ASSUME UNCHANGED <<day, plan, slot, org, own, mailed, sentDates, cron, mails, forgot, excused>>
      PROVE  ReportInv'
  <2>1. \A r : Sched(r)' = Sched(r)
    BY <1>7 DEF Sched
  <2> QED
    BY <1>7, <2>1, SettingsMove DEF ReportInv, ReportTypes
<1>8. CASE \E by \in D!Reader : D!UpdateRead(by)
  BY <1>7, <1>8 DEF D!UpdateRead, D!clock, D!settings
<1>9. CASE UNCHANGED D!reportVars
  BY <1>7, <1>9 DEF D!reportVars
<1> QED
  BY <1>1, <1>2, <1>3, <1>4, <1>5, <1>6, <1>8, <1>9 DEF D!Next

LEMMA ReportAlways == Spec => []ReportInv
<1>1. Init => ReportInv
  BY ReportInit DEF Init
<1>2. ReportInv /\ [Next]_vars => ReportInv'
  BY StepOfParts, ReportStep
<1> QED
  BY <1>1, <1>2, PTL DEF Spec

(* One automatic mail a day and reader, and one more for each restart: an  *)
(* hour that comes twice, an hour moved after the mail went out and a      *)
(* failed mail of somebody else repeat nobody's (daily-report.service.ts). *)
THEOREM OneMailADay == Spec => []OncePerDay
<1>1. ReportInv => D!OncePerDay
  <2> SUFFICES ASSUME ReportInv, NEW r \in D!Reader PROVE mails[r] <= 1 + forgot
    BY DEF D!OncePerDay
  <2> QED
    BY DEF ReportInv, ReportTypes, AtMostOnce
<1> QED
  BY <1>1, ReportAlways, PTL DEF OncePerDay

(* By midnight everybody has the mail who was due at an hour the clock     *)
(* showed, unless that very schedule was touched, the mail itself failed   *)
(* or the process went down that day (daily-report.service.ts).            *)
THEOREM EverybodyHasTheMail == Spec => []NobodyForgotten
<1>1. ReportInv => D!NobodyForgotten
  <2> SUFFICES ASSUME ReportInv, cron.at = "idle", slot = Len(plan), NEW r \in D!Reader \ excused,
                      Sched(r).on, NEW i \in 1..Len(plan), plan[i] = Sched(r).hour
               PROVE  mails[r] = 1
    BY DEF D!NobodyForgotten, Sched
  <2>1. Passed(r) /\ slot \in Nat
    BY DEF Passed, ReportInv, ReportTypes
  <2>2. WasDue(r)
    BY <2>1 DEF WasDue
  <2>3. mails[r] >= 1 /\ forgot = 0
    BY <2>2 DEF ReportInv, AtLeastOnce
  <2> QED
    BY <2>3 DEF ReportInv, ReportTypes, AtMostOnce
<1> QED
  BY <1>1, ReportAlways, PTL DEF NobodyForgotten
=============================================================================
