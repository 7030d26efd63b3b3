------------------------------- MODULE Office -------------------------------
(***************************************************************************)
(* Office: accounts, properties and buildings as the managers administer   *)
(* them.  General managers see and change everything, a property manager   *)
(* only the workers and buildings of the properties it manages.  A request *)
(* is a row of database calls: who asks and for which properties is read   *)
(* first, the target next, the change comes last, and other requests run   *)
(* in between.                                                             *)
(***************************************************************************)
EXTENDS Naturals, FiniteSets

CONSTANTS
  NULL,
  General, Pm, Supervisor, Cleaner, (* accounts by role; roles never change *)
  Property, Building,
  Number,       (* e-mail addresses and id numbers                         *)
  MaxRequests   (* bound: requests                                         *)

Worker == Cleaner \cup Supervisor
Manager == General \cup Pm
Account == Worker \cup Manager

OfficeAssumption ==
  /\ MaxRequests \in Nat /\ NULL \notin Property \cup Building \cup Number
  /\ Worker \cap Manager = {} /\ General \cap Pm = {} /\ Cleaner \cap Supervisor = {}

VARIABLES
  alive,     (* accounts with a row                                        *)
  prop, bld, (* User.propertyId and User.buildingId                        *)
  number,    (* User.idNumber                                              *)
  hidden,    (* User.hiddenFromPm                                          *)
  inactive,
  managed,   (* managed[m]: properties of a property manager               *)
  props,     (* properties with a row                                      *)
  houses,    (* buildings with a row                                       *)
  houseProp, (* Building.propertyId                                        *)
  asked,     (* requests under way                                         *)
  form,      (* form[a]: the supervisor a has just created, and the number typed *)
  made,      (* history: what a property manager created, untouched since  *)
  requests

officeVars == <<alive, prop, bld, number, hidden, inactive, managed, props, houses, houseProp,
                asked, form, made, requests>>
staff == <<alive, prop, bld, number, hidden, inactive>>
estate == <<props, houses, houseProp>>

Init ==
  /\ alive = Manager /\ props = Property /\ houses \in {{}, Building}
  /\ prop = [u \in Account |-> NULL] /\ bld = [u \in Account |-> NULL]
  /\ number = [u \in Account |-> NULL] /\ hidden = {} /\ inactive = {}
  /\ managed \in [Pm -> SUBSET Property]
  /\ houseProp \in [Building -> (IF houses = {} THEN {NULL} ELSE Property \cup {NULL})]
  /\ asked = {} /\ form = [a \in Manager |-> NULL] /\ made = {} /\ requests = 0

-----------------------------------------------------------------------------
(* Scopes                                                                  *)

(* JwtStrategy.validate reads the properties anew with every request;      *)
(* pmScope gives a property manager without any a scope nothing matches.   *)
Scope(a) == IF a \in Pm THEN managed[a] ELSE Property
HousesOf(S) == {b \in houses : houseProp[b] \in S}

(* userPropertyFilter, the query of findAll: workersOnly for a property    *)
(* manager, stamped with one of its properties or placed in one.           *)
PropertyFilter(S) == {u \in alive \ hidden : prop[u] \in S \/ bld[u] \in HousesOf(S)}
FindAll(a) == IF a \in General THEN alive ELSE PropertyFilter(Scope(a)) \cap Worker

(* assertCanManageUser asks again, for the one account and with the        *)
(* properties read at the start of the request.                            *)
InProperty(u, S) ==
  \/ prop[u] # NULL /\ prop[u] \in S
  \/ bld[u] # NULL /\ houseProp[bld[u]] # NULL /\ houseProp[bld[u]] \in S
CanManage(a, u, S) ==
  \/ a \in General \/ u = a
  \/ u \in alive /\ u \in Worker /\ InProperty(u, S) /\ u \notin hidden

(* getStructure, and assertScope for a building                            *)
Structure(a) == IF a \in General THEN houses ELSE HousesOf(Scope(a))

-----------------------------------------------------------------------------
(* Requests.  JwtAuthGuard, RolesGuard and validate                        *)

ForGenerals == {"hide", "manage", "drop property", "assign house"}
Request(a, op, u, x) == [by |-> a, scope |-> Scope(a), op |-> op, u |-> u, x |-> x, at |-> "read"]

Ask(a, op, u, x) ==
  /\ a \in alive \ inactive /\ requests < MaxRequests /\ requests' = requests + 1
  /\ op \in ForGenerals => a \in General
  /\ asked' = asked \cup {Request(a, op, u, x)}
  /\ UNCHANGED <<staff, managed, estate, form, made>>

(* What the pages send: the forms and the rows of the staff page, its two  *)
(* dialogs, the panels of the settings page.                               *)
WorkerForm(a) == \E u \in Cleaner, n \in Number : Ask(a, "hire", u, n)
SupervisorForm(a) ==
  form[a] = NULL /\ \E u \in Supervisor, n \in Number : Ask(a, "hire", u, n)
WorkerRow(a) ==
  \E u \in FindAll(a) \cap Cleaner :
    \/ \E b \in Structure(a) \cup {NULL} : Ask(a, "place", u, b)
    \/ \E op \in {"toggle", "delete", "hide"} : Ask(a, op, u, NULL)
SupervisorRow(a) ==
  \E u \in FindAll(a) \cap Supervisor : \E op \in {"delete", "hide"} : Ask(a, op, u, NULL)
EditDialog(a) == \E u \in FindAll(a) \cap Worker, n \in Number : Ask(a, "number", u, n)
ManagerDialog(a) == \E m \in Pm, S \in SUBSET props : Ask(a, "manage", m, S)
BuildingForm(a) == \E b \in Building \ houses : Ask(a, "build", NULL, b)
PropertiesPanel(a) ==
  \/ \E p \in props : Ask(a, "drop property", NULL, p)
  \/ \E b \in Structure(a), p \in props \cup {NULL} : Ask(a, "assign house", b, p)

Send(a) ==
  \/ WorkerForm(a) \/ SupervisorForm(a) \/ WorkerRow(a) \/ SupervisorRow(a) \/ EditDialog(a)
  \/ ManagerDialog(a) \/ BuildingForm(a) \/ PropertiesPanel(a)

Taken(n, u) == \E v \in alive \ {u} : number[v] = n

(* assertCanManageUser, assertIdNumberFree and the lookups of createCleaner *)
(* and createAdmin; whoever fails one of them is refused.                  *)
Allowed(q) ==
  /\ q.op \in {"number", "place", "toggle", "delete"} => CanManage(q.by, q.u, q.scope)
  /\ q.op \in {"hire", "number"} => ~Taken(q.x, q.u)
  /\ q.op = "drop property" => q.x \in props
  /\ q.op = "hire" => q.u \notin alive

Check(q) ==
  /\ q.at = "read"
  /\ asked' = (asked \ {q}) \cup (IF Allowed(q) THEN {[q EXCEPT !.at = "checked"]} ELSE {})
  /\ UNCHANGED <<staff, managed, estate, form, made, requests>>

Done(q) == q.at = "checked" /\ asked' = asked \ {q} /\ UNCHANGED requests

(* The database refuses what a unique index or a foreign key forbids.      *)
Refused(q) ==
  /\ Done(q)
  /\ \/ q.op \in {"hire", "number"} /\ Taken(q.x, q.u)
     \/ q.op = "hire" /\ (q.u \in alive \/ (q.by \in Pm /\ ~(q.scope \subseteq props)))
     \/ q.op \in {"number", "place", "toggle", "hide", "delete"} /\ q.u \notin alive
     \/ q.op = "manage" /\ ~(q.x \subseteq props)
     \/ q.op = "assign house" /\ q.x \notin props \cup {NULL}
     \/ q.op = "build" /\ (q.x \in houses \/ (q.by \in Pm /\ ~(q.scope \subseteq props)))
     \/ q.op \in {"drop property", "unlinked"} /\ q.x \notin props
  /\ UNCHANGED <<staff, managed, estate, form, made>>

(* A property manager's new worker or building is stamped with its first   *)
(* property.                                                               *)
(* Mutant: without a stamp.                                                *)
StampNone(q) == {NULL}
Stamp(q) == IF q.by \in Pm /\ q.scope # {} THEN q.scope ELSE {NULL}

Record(q, x) == IF q.by \in Pm /\ q.scope # {} /\ q.scope \subseteq managed[q.by] THEN {<<q.by, x>>} ELSE {}
Touched(x) == {t \in made : t[2] = x}

Hire(q) ==
  /\ Done(q) /\ q.op = "hire" /\ q.u \notin alive /\ ~Taken(q.x, q.u)
  /\ alive' = alive \cup {q.u} /\ number' = [number EXCEPT ![q.u] = q.x]
  /\ \E p \in Stamp(q) : p \in props \cup {NULL} /\ prop' = [prop EXCEPT ![q.u] = p]
  /\ bld' = [bld EXCEPT ![q.u] = NULL] /\ hidden' = hidden \ {q.u} /\ inactive' = inactive \ {q.u}
  /\ made' = made \cup Record(q, q.u)
  /\ \/ q.u \in Cleaner /\ UNCHANGED form
     \/ q.u \in Supervisor /\ \E n \in Number \cup {NULL} :
          form' = [form EXCEPT ![q.by] = IF n = NULL THEN NULL ELSE [u |-> q.u, n |-> n]]
  /\ UNCHANGED <<managed, estate>>

(* handleCreateAdmin and handleCreateSupervisor: the list is loaded and    *)
(* searched for the new account, whose id number is sent after it.         *)
SendNumber(a) ==
  /\ form[a] # NULL
  /\ form' = [form EXCEPT ![a] = NULL]
  /\ asked' = IF form[a].u \in FindAll(a)
              THEN asked \cup {Request(a, "number", form[a].u, form[a].n)} ELSE asked
  /\ UNCHANGED <<staff, managed, estate, made, requests>>

SetNumber(q) ==
  /\ Done(q) /\ q.op = "number" /\ q.u \in alive /\ ~Taken(q.x, q.u)
  /\ number' = [number EXCEPT ![q.u] = q.x]
  /\ UNCHANGED <<alive, prop, bld, hidden, inactive, managed, estate, form, made>>

AssignBuilding(q) ==
  /\ Done(q) /\ q.op = "place" /\ q.u \in alive
  /\ bld' = [bld EXCEPT ![q.u] = q.x] /\ made' = made \ Touched(q.u)
  /\ UNCHANGED <<alive, prop, number, hidden, inactive, managed, estate, form>>

ToggleActive(q) ==
  /\ Done(q) /\ q.op = "toggle" /\ q.u \in alive
  /\ inactive' = IF q.u \in inactive THEN inactive \ {q.u} ELSE inactive \cup {q.u}
  /\ UNCHANGED <<alive, prop, bld, number, hidden, managed, estate, form, made>>

SetHidden(q) ==
  /\ Done(q) /\ q.op = "hide" /\ q.u \in alive
  /\ hidden' = IF q.u \in hidden THEN hidden \ {q.u} ELSE hidden \cup {q.u}
  /\ made' = made \ Touched(q.u)
  /\ UNCHANGED <<alive, prop, bld, number, inactive, managed, estate, form>>

DeleteUser(q) ==
  /\ Done(q) /\ q.op = "delete" /\ q.u \in alive
  /\ alive' = alive \ {q.u} /\ made' = made \ Touched(q.u)
  /\ prop' = [prop EXCEPT ![q.u] = NULL] /\ bld' = [bld EXCEPT ![q.u] = NULL]
  /\ number' = [number EXCEPT ![q.u] = NULL]
  /\ hidden' = hidden \ {q.u} /\ inactive' = inactive \ {q.u}
  /\ UNCHANGED <<managed, estate, form>>

SetManagedProperties(q) ==
  /\ Done(q) /\ q.op = "manage" /\ q.x \subseteq props
  /\ managed' = [managed EXCEPT ![q.u] = q.x]
  /\ \E p \in (IF q.x = {} THEN {NULL} ELSE q.x) : prop' = [prop EXCEPT ![q.u] = p]
  /\ made' = {t \in made : t[1] # q.u}
  /\ UNCHANGED <<alive, bld, number, hidden, inactive, estate, form>>

CreateBuilding(q) ==
  /\ Done(q) /\ q.op = "build" /\ q.x \notin houses
  /\ houses' = houses \cup {q.x}
  /\ \E p \in Stamp(q) : p \in props \cup {NULL} /\ houseProp' = [houseProp EXCEPT ![q.x] = p]
  /\ made' = made \cup Record(q, q.x)
  /\ UNCHANGED <<staff, managed, props, form>>

AssignBuildingToProperty(q) ==
  /\ Done(q) /\ q.op = "assign house" /\ q.x \in props \cup {NULL}
  /\ houseProp' = [houseProp EXCEPT ![q.u] = q.x] /\ made' = made \ Touched(q.u)
  /\ UNCHANGED <<staff, managed, props, houses, form>>

(* deleteProperty: unlink the buildings and users, then delete; what was   *)
(* linked in between is set to null by the foreign key.                    *)
Unlinked(f, p) == [x \in DOMAIN f |-> IF f[x] = p THEN NULL ELSE f[x]]
Unlink(q) ==
  /\ q.at = "checked" /\ q.op = "drop property" /\ q.x \in props
  /\ houseProp' = Unlinked(houseProp, q.x) /\ prop' = Unlinked(prop, q.x)
  /\ asked' = (asked \ {q}) \cup {[q EXCEPT !.op = "unlinked"]} /\ made' = {}
  /\ UNCHANGED <<alive, bld, number, hidden, inactive, managed, props, houses, form, requests>>
DeleteProperty(q) ==
  /\ Done(q) /\ q.op = "unlinked" /\ q.x \in props
  /\ props' = props \ {q.x} /\ made' = {}
  /\ houseProp' = Unlinked(houseProp, q.x) /\ prop' = Unlinked(prop, q.x)
  /\ managed' = [m \in Pm |-> managed[m] \ {q.x}]
  /\ UNCHANGED <<alive, bld, number, hidden, inactive, houses, form>>

-----------------------------------------------------------------------------
Next ==
  \/ \E a \in Manager : Send(a) \/ SendNumber(a)
  \/ \E q \in asked :
       \/ Check(q) \/ Refused(q) \/ Hire(q) \/ SetNumber(q) \/ AssignBuilding(q) \/ ToggleActive(q)
       \/ SetHidden(q) \/ DeleteUser(q) \/ SetManagedProperties(q) \/ CreateBuilding(q)
       \/ AssignBuildingToProperty(q) \/ Unlink(q) \/ DeleteProperty(q)

Spec == Init /\ [][Next]_officeVars

-----------------------------------------------------------------------------
(* Accounts, buildings and properties refer to what exists.                *)
TypeOK ==
  /\ Manager \subseteq alive /\ alive \subseteq Account
  /\ \A u \in Account : prop[u] \in props \cup {NULL} /\ bld[u] \in houses \cup {NULL}
  /\ \A b \in Building : houseProp[b] \in props \cup {NULL} /\ (b \notin houses => houseProp[b] = NULL)
  /\ \A m \in Pm : managed[m] \subseteq props
  /\ \A u, v \in alive : number[u] = number[v] /\ number[u] # NULL => u = v

(* What a property manager creates lands "inside their own property -      *)
(* otherwise it would fall outside their scope and vanish from their view" *)
(* (buildings.controller.ts:102-103), and stays there until somebody moves *)
(* it or reassigns the manager.                                            *)
CreatedIsSeen == \A t \in made : t[2] \in FindAll(t[1]) \cup Structure(t[1])

(* Not kept, see the README: a supervisor created with an id number is     *)
(* found in the list afterwards, so that the number is sent.               *)
NumberIsSent ==
  \A a \in Manager : form[a] # NULL /\ form[a].u \in alive => form[a].u \in FindAll(a)
=============================================================================
