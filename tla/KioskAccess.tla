---------------------------- MODULE KioskAccess ----------------------------
(***************************************************************************)
(* Who may sign in at a kiosk, as UsersService decides it in four places:  *)
(* verifyCleaner (online), kioskRoster (what the tablet caches for an      *)
(* outage), kioskAccessDiagnose (what an administrator is told) and        *)
(* verifyAdminByIdNumber.                                                  *)
(*                                                                         *)
(* A user u is a record with active, role, property (the column            *)
(* propertyId), building (a building or NULL) and manages (the set         *)
(* managedProperties); propertyOf[b] is the property of building b or      *)
(* NULL.  Organisations are not modelled: all users belong to one.         *)
(***************************************************************************)
CONSTANT NULL

Workers  == {"CLEANER", "SHIFT_SUPERVISOR"}
OrgStaff == {"SUPER_ADMIN", "ORG_ADMIN", "MANAGER"}

BuildingProperty(u, propertyOf) == IF u.building = NULL THEN NULL ELSE propertyOf[u.building]

(* The properties a worker is tied to.                                     *)
Own(u, propertyOf) == {u.property, BuildingProperty(u, propertyOf)} \ {NULL}

(* The restroom of a device code: that of the device row, else the one a   *)
(* ROOM- code names; its building's property, NULL when there is none.     *)
(* restroomOf[code] and roomIn[code] are a restroom or NULL.               *)
KioskRestroom(code, restroomOf, roomIn) ==
  IF restroomOf[code] # NULL THEN restroomOf[code] ELSE roomIn[code]

ResolveKioskLocation(code, restroomOf, roomIn, buildingOf, propertyOf) ==
  LET r == KioskRestroom(code, restroomOf, roomIn) IN
    IF r = NULL THEN [known |-> FALSE, property |-> NULL]
    ELSE [known |-> TRUE, property |-> propertyOf[buildingOf[r]]]

(* The gate: a worker with no tie may sign in anywhere.                    *)
PropertyGate(u, loc, propertyOf) ==
  \/ loc.property = NULL
  \/ Own(u, propertyOf) = {}
  \/ loc.property \in Own(u, propertyOf)

VerifyCleaner(u, loc, propertyOf) ==
  CASE u.role \notin Workers             -> "notFound"
    [] ~u.active                         -> "inactive"
    [] ~PropertyGate(u, loc, propertyOf) -> "wrongProperty"
    [] OTHER                             -> "found"

VerifyAdmin(u) == u.role \in {"ORG_ADMIN", "MANAGER"} /\ u.active

(* Mutant: the roster of all workers of the organisation.                  *)
RosterCleanerOrgWide(u, loc, propertyOf) == loc.known /\ u.active /\ u.role \in Workers

(* Membership in kioskRoster().cleaners: the OR of its where clause.       *)
RosterCleaner(u, loc, propertyOf) ==
  /\ loc.known /\ u.active /\ u.role \in Workers
  /\ loc.property # NULL =>
       \/ u.property = loc.property
       \/ BuildingProperty(u, propertyOf) = loc.property
       \/ u.property = NULL /\ u.building = NULL
       \/ u.property = NULL /\ BuildingProperty(u, propertyOf) = NULL

(* Membership in kioskRoster().admins.                                     *)
RosterAdmin(u, loc) ==
  /\ loc.known /\ u.active
  /\ \/ u.role \in OrgStaff
     \/ /\ u.role = "PROPERTY_MANAGER"
        /\ loc.property # NULL => u.property = loc.property \/ loc.property \in u.manages

(* The verdict of kioskAccessDiagnose for a worker.                        *)
DiagnoseAllows(u, loc, propertyOf) ==
  CASE u.role \notin Workers          -> FALSE
    [] ~u.active                      -> FALSE
    [] loc.property = NULL            -> TRUE
    [] Own(u, propertyOf) = {}        -> TRUE
    [] OTHER                          -> loc.property \in Own(u, propertyOf)
=============================================================================
