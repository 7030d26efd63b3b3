-------------------------- MODULE IncidentsProofs --------------------------
(***************************************************************************)
(* Safety of the incident lifecycle, for any number of rows, reports,      *)
(* handlers in flight and faults.                                          *)
(*                                                                         *)
(* The invariants are not inductive by themselves: a handler acts on what  *)
(* it read several awaits ago.  IInv (module Incidents) adds what its      *)
(* record may still claim (HandlerOK), that no row was stored later than   *)
(* now and no deleted row keeps actions (AgesOK), and where the            *)
(* duplicates a resolution met are accounted for until it answers          *)
(* (OwedOK).  Three lemmas carry the steps: ReadStep/LogStep for an await  *)
(* that changes no row, WriteStep for one that updates a row, Assemble for *)
(* the rest.  Every step also respects Evolves, the only thing the other   *)
(* handlers' records need to know of it.                                   *)
(***************************************************************************)
EXTENDS Incidents, TLAPS, FiniteSetTheorems

(* One update of a row, with or without an entry nested in it.             *)
Writes(i, row) ==
  /\ incident' = [incident EXCEPT ![i] = row]
  /\ log' \in {log, [log EXCEPT ![i] = @ \cup {"HANDLED"}]}

(* A primary key is never reused and a row keeps the report it is about;   *)
(* a row that has been closed once keeps a resolvedAt until it is deleted. *)
Evolves ==
  \A i \in Row :
    \/ incident'[i] = incident[i]
    \/ incident[i].status = "UNUSED"
    \/ incident'[i] = Deleted
    \/ /\ Live(i) /\ Live(i)'
       /\ incident'[i].client = incident[i].client
       /\ incident'[i].createdAt = incident[i].createdAt
       /\ incident[i].resolvedAt # NULL => incident'[i].resolvedAt # NULL

-----------------------------------------------------------------------------
(* The parts of a step that all actions share.                             *)

(* A handler that is given a well-typed record leaves the slots well typed. *)
LEMMA GotoTask ==
  ASSUME TypeOK, NEW r \in Request, NEW t \in TaskType, Goto(r, t)
  PROVE  /\ task' \in [Request -> TaskType]
         /\ task'[r] = t
         /\ \A q \in Request \ {r} : task'[q] = task[q]
BY DEF TypeOK, Goto

(* The record of an answered or a just started handler is well typed.      *)
LEMMA NoTaskType ==
  ASSUME NEW pc \in Pc
  PROVE  NoTask(pc) \in TaskType /\ NoTask(pc).pc = pc
BY DEF NoTask, TaskType

(* The program counters, listed for the provers.                           *)
LEMMA Pcs ==
  {"ok", "refused", "checkOpen", "checkProgress", "insert",
                "ackWrite", "returnWrite", "resolveWrite", "adminWrite",
                "siblings", "closing", "findReport", "recordAction",
                "offlineClose", "erase", "deleteRows"} \subseteq Pc
BY DEF Pc, Finished

(* What a handler carries stays usable over a step of anybody.             *)
LEMMA HandlerKept ==
  ASSUME IInv, Evolves, now' \in Time, now <= now', incident' \in [Row -> RowType],
         \A i \in Row : incident'[i].client # NULL <=> Live(i)',
         NEW t \in TaskType, HandlerOK(t)
  PROVE  HandlerOK(t)'
<1> USE IncidentsAssumption DEF IInv, TypeOK
<1>1. \A i \in Row : incident[i].status # "UNUSED" => incident'[i].status # "UNUSED"
  BY DEF Evolves, Deleted, Unused, Live, Status
<1>2. \A i \in Row : incident[i].status # "UNUSED" /\ Live(i)'
                       => /\ incident'[i].client = incident[i].client /\ Live(i)
                          /\ incident'[i].createdAt = incident[i].createdAt
  BY DEF Evolves, Deleted, Unused, Live, Status
<1>3. \A i \in Row : incident[i].status # "UNUSED" /\ Live(i)' /\ incident[i].resolvedAt # NULL
                       => incident'[i].resolvedAt # NULL
  BY DEF Evolves, Deleted, Unused, Live, Status
<1>4. now \in Nat /\ now' \in Nat
  BY DEF Time
<1>5. t.at \in Time /\ t.at <= now => t.at <= now'
  BY <1>4 DEF Time
<1>. QED BY <1>1, <1>2, <1>3, <1>5 DEF HandlerOK, TaskType

(* One incident.update that keeps clientId and stamps keeps the table in order. *)
LEMMA WriteRow ==
  ASSUME IInv, NEW i \in Row, Live(i), NEW row \in RowType, Writes(i, row),
         row.status \in Status, row.client = incident[i].client,
         row.createdAt = incident[i].createdAt, Stamped(row),
         incident[i].resolvedAt # NULL => row.resolvedAt # NULL, now' = now
  PROVE  /\ Evolves
         /\ incident' \in [Row -> RowType]
         /\ \A j \in Row : incident'[j].client # NULL <=> Live(j)'
         /\ log' \in [Row -> SUBSET Entry] /\ incident'[i] = row
         /\ AgesOK' /\ StampsMatchStatus'
<1> USE IncidentsAssumption DEF IInv, TypeOK, Writes
<1>1. /\ incident' \in [Row -> RowType] /\ incident'[i] = row
      /\ log' \in [Row -> SUBSET Entry] /\ \A j \in Row \ {i} : log'[j] = log[j]
  BY DEF Entry
<1>2. \A j \in Row \ {i} : incident'[j] = incident[j]
  OBVIOUS
<1>3. Evolves
  BY <1>1, <1>2 DEF Evolves, Live
<1>4. \A j \in Row : /\ Live(j)' <=> Live(j)
                     /\ incident'[j].client = incident[j].client
                     /\ incident'[j].createdAt = incident[j].createdAt
  BY <1>1, <1>2 DEF Live
<1>5. AgesOK'
  BY <1>1, <1>4 DEF AgesOK
<1>7. StampsMatchStatus'
  BY <1>1, <1>2 DEF StampsMatchStatus
<1>. QED BY <1>1, <1>3, <1>4, <1>5, <1>7

(* A step of one handler, put together from its parts.                     *)
LEMMA Assemble ==
  ASSUME IInv, NEW r \in Request, NEW t \in TaskType, Goto(r, t), Evolves, now' = now,
         incident' \in [Row -> RowType],
         \A i \in Row : incident'[i].client # NULL <=> Live(i)',
         log' \in [Row -> SUBSET Entry], faults' \in 0..MaxFaults,
         owed' \in [Request -> SUBSET Row],
         AgesOK', StampsMatchStatus', OwedOK', HandlerOK(t)'
  PROVE  IInv' /\ Evolves
<1>1. /\ task' \in [Request -> TaskType]
      /\ task'[r] = t
      /\ \A q \in Request \ {r} : task'[q] = task[q]
  BY GotoTask DEF IInv
<1>2. now' \in Time /\ now <= now'
  BY IncidentsAssumption DEF IInv, TypeOK, Time
<1>3. TypeOK'
  BY <1>1, <1>2 DEF TypeOK
<1>4. ASSUME NEW q \in Request \ {r} PROVE HandlerOK(task[q])'
  <2>1. task[q] \in TaskType /\ HandlerOK(task[q])
    BY DEF IInv, TypeOK
  <2>2. ASSUME NEW u \in TaskType, HandlerOK(u) PROVE HandlerOK(u)'
    BY <1>2, <2>2, HandlerKept
  <2>3. ASSUME NEW u, u = task[q] PROVE task'[q] = u
    BY <1>1, <2>3
  <2>. QED BY <2>1, <2>2, <2>3
<1>5. \A q \in Request : HandlerOK(task[q])'
  BY <1>1, <1>4
<1>. QED BY <1>3, <1>5 DEF IInv

(* A step that changes action rows and the handler only.                   *)
LEMMA LogStep ==
  ASSUME IInv, NEW r \in Request, NEW t \in TaskType, Goto(r, t),
         UNCHANGED <<now, incident>>, faults' \in 0..MaxFaults,
         log' \in [Row -> SUBSET Entry],
         \A i \in Row : ~Live(i) => log'[i] = {},
         owed' \in {owed, [owed EXCEPT ![r] = {}]},
         t.pc = "siblings" => owed'[r] \subseteq Siblings(t.row, t.client),
         t.pc = "closing" => owed'[r] \subseteq t.todo,
         t.pc \notin {"siblings", "closing", "refused"} => owed'[r] = {},
         HandlerOK(t)
  PROVE  IInv' /\ Evolves
<1>1. Evolves /\ AgesOK' /\ StampsMatchStatus'
  BY DEF IInv, Evolves, AgesOK, StampsMatchStatus, Stamped, ClockPlausible, Live
<1>2. OwedOK'
  <2>1. /\ task'[r] = t
        /\ \A q \in Request \ {r} : task'[q] = task[q]
    BY GotoTask DEF IInv
  <2>2. /\ owed' \in [Request -> SUBSET Row]
        /\ \A q \in Request : owed'[q] \in {owed[q], {}}
        /\ \A q \in Request \ {r} : owed'[q] = owed[q]
    BY DEF IInv, TypeOK
  <2>. QED BY <2>1, <2>2 DEF OwedOK, IInv, Siblings, Waiting, group
<1>3. HandlerOK(t)'
  BY DEF HandlerOK, Live
<1>4. owed' \in [Request -> SUBSET Row]
  BY DEF IInv, TypeOK
<1>5. /\ log' \in [Row -> SUBSET Entry] /\ incident' \in [Row -> RowType]
      /\ \A i \in Row : incident'[i].client # NULL <=> Live(i)'
  BY DEF IInv, TypeOK, Live
<1>. QED BY <1>1, <1>2, <1>3, <1>4, <1>5, Assemble

(* A step that only reads: the handler moves on, nothing is written.       *)
LEMMA ReadStep ==
  ASSUME IInv, NEW r \in Request, NEW t \in TaskType, Goto(r, t),
         UNCHANGED <<now, incident, log>>, faults' \in 0..MaxFaults,
         owed' \in {owed, [owed EXCEPT ![r] = {}]},
         t.pc = "siblings" => owed'[r] \subseteq Siblings(t.row, t.client),
         t.pc = "closing" => owed'[r] \subseteq t.todo,
         t.pc \notin {"siblings", "closing", "refused"} => owed'[r] = {},
         HandlerOK(t)
  PROVE  IInv' /\ Evolves
<1>1. log' \in [Row -> SUBSET Entry] /\ \A i \in Row : ~Live(i) => log'[i] = {}
  BY DEF IInv, TypeOK, AgesOK
<1>. QED BY <1>1, LogStep

-----------------------------------------------------------------------------
(* One lemma per action.                                                   *)

(* create: the lookup of the clientId keeps the invariant.                 *)
LEMMA StartCreateStep ==
  ASSUME IInv, NEW r \in Request, NEW c \in Client, StartCreate(r, c)
  PROVE  IInv' /\ Evolves
<1> DEFINE t == IF RowsOf(c) # {} THEN NoTask("ok")
                ELSE [NoTask("checkOpen") EXCEPT !.client = c, !.at = now]
<1>1. t \in TaskType /\ t.pc \in {"ok", "checkOpen"}
  BY Pcs, NoTaskType DEF IInv, TypeOK, TaskType, NoTask
<1>2. t.pc = "checkOpen" => t.client = c /\ t.at = now
  BY DEF NoTask
<1>3. Goto(r, t)
  BY DEF StartCreate, Finish
<1>4. HandlerOK(t)
  BY <1>1, <1>2, IncidentsAssumption DEF HandlerOK, IInv, TypeOK, Time
<1>5. owed'[r] = {} /\ faults' \in 0..MaxFaults
  BY DEF StartCreate, IInv, TypeOK
<1> HIDE DEF t
<1>. QED BY <1>1, <1>3, <1>4, <1>5, ReadStep DEF StartCreate

(* create: both checks of the window keep the invariant.                   *)
LEMMA CheckOpenStep ==
  ASSUME IInv, NEW r \in Request, CheckOpen(r) \/ CheckInProgress(r)
  PROVE  IInv' /\ Evolves
<1> DEFINE ok == [task[r] EXCEPT !.pc = IF CheckOpen(r) THEN "checkProgress" ELSE "insert"]
<1>1. PICK t : t \in {NoTask("refused"), ok} /\ Goto(r, t)
  BY DEF CheckOpen, CheckInProgress, Finish, Step
<1>2. ok \in TaskType /\ ok.pc \in {"checkProgress", "insert"} /\ ok.client = task[r].client /\ ok.at = task[r].at
  BY Pcs DEF IInv, TypeOK, TaskType
<1>3. task[r].pc \in {"checkOpen", "checkProgress"} /\ owed[r] = {} /\ HandlerOK(task[r])
  BY DEF CheckOpen, CheckInProgress, IInv, OwedOK
<1>4. HandlerOK(ok)
  BY <1>2, <1>3 DEF HandlerOK
<1>5. NoTask("refused") \in TaskType /\ NoTask("refused").pc = "refused" 
  BY Pcs, NoTaskType
<1>6. HandlerOK(NoTask("refused"))
  BY <1>5 DEF HandlerOK
<1>7. UNCHANGED <<now, incident, log, faults, owed>> /\ faults \in 0..MaxFaults
  BY DEF CheckOpen, CheckInProgress, IInv, TypeOK
<1> HIDE DEF ok
<1>8. t \in TaskType /\ HandlerOK(t) /\ t.pc \in {"refused", "checkProgress", "insert"}
  BY <1>1, <1>2, <1>4, <1>5, <1>6
<1>. QED BY <1>1, <1>3, <1>7, <1>8, ReadStep

(* The first call of acknowledge, return and resolve keeps the invariant.  *)
LEMMA StartCleanerStep ==
  ASSUME IInv, NEW r \in Request, NEW op, NEW pc \in {"ackWrite", "returnWrite", "resolveWrite"},
         NEW i \in Row, NEW k \in Cleaner \cup {NULL}, StartCleaner(r, op, pc, i, k)
  PROVE  IInv' /\ Evolves
<1> DEFINE t == [NoTask(pc) EXCEPT !.row = i, !.cleaner = k]
<1>1. t \in TaskType /\ t.pc = pc /\ t.row = i
  BY Pcs DEF TaskType, NoTask
<1>2. NoTask("refused") \in TaskType /\ NoTask("refused").pc = "refused"
  BY Pcs, NoTaskType
<1>3. HandlerOK(t) /\ HandlerOK(NoTask("refused"))
  BY <1>1, <1>2 DEF HandlerOK
<1>4. Goto(r, t) \/ Goto(r, NoTask("refused"))
  BY DEF StartCleaner, Finish
<1>5. owed'[r] = {} /\ faults' \in 0..MaxFaults
  BY DEF StartCleaner, IInv, TypeOK
<1> HIDE DEF t
<1>6. PICK u \in TaskType : HandlerOK(u) /\ Goto(r, u) /\ u.pc \in {pc, "refused"}
  BY <1>1, <1>2, <1>3, <1>4
<1>. QED BY <1>5, <1>6, ReadStep DEF StartCleaner

(* adminUpdate: the ownership check keeps the invariant.                   *)
LEMMA StartAdminUpdateStep ==
  ASSUME IInv, NEW r \in Request, NEW i \in Row, NEW s \in Status \cup {NULL},
         NEW k \in Cleaner \cup {NULL}, StartAdminUpdate(r, i, s, k)
  PROVE  IInv' /\ Evolves
<1> DEFINE t == [NoTask("adminWrite") EXCEPT !.row = i, !.status = s, !.cleaner = k]
<1>1. t \in TaskType /\ t.pc = "adminWrite" /\ t.row = i
  BY Pcs DEF TaskType, NoTask
<1>2. NoTask("refused") \in TaskType /\ NoTask("refused").pc = "refused"
  BY Pcs, NoTaskType
<1>3. HandlerOK(t) /\ HandlerOK(NoTask("refused"))
  BY <1>1, <1>2 DEF HandlerOK
<1>4. Goto(r, t) \/ Goto(r, NoTask("refused"))
  BY DEF StartAdminUpdate, Finish
<1>5. owed'[r] = {} /\ faults' \in 0..MaxFaults
  BY DEF StartAdminUpdate, IInv, TypeOK
<1> HIDE DEF t
<1>6. PICK u \in TaskType : HandlerOK(u) /\ Goto(r, u) /\ u.pc \in {"adminWrite", "refused"}
  BY <1>1, <1>2, <1>3, <1>4
<1>. QED BY <1>5, <1>6, ReadStep DEF StartAdminUpdate

(* applyOfflineAction: the lookup of the action keeps the invariant.       *)
LEMMA StartOfflineStep ==
  ASSUME IInv, NEW r \in Request, NEW c \in Client, NEW k \in Cleaner \cup {NULL},
         StartOffline(r, c, k)
  PROVE  IInv' /\ Evolves
<1> DEFINE t == [NoTask("findReport") EXCEPT !.client = c, !.cleaner = k]
<1>1. t \in TaskType /\ t.pc = "findReport" /\ t.client = c
  BY Pcs DEF TaskType, NoTask
<1>2. NoTask("ok") \in TaskType /\ NoTask("ok").pc = "ok"
  BY Pcs, NoTaskType
<1>3. HandlerOK(t) /\ HandlerOK(NoTask("ok"))
  BY <1>1, <1>2 DEF HandlerOK
<1>4. Goto(r, t) \/ Goto(r, NoTask("ok"))
  BY DEF StartOffline, Finish
<1>5. owed'[r] = {} /\ faults' \in 0..MaxFaults
  BY DEF StartOffline, IInv, TypeOK
<1> HIDE DEF t
<1>6. PICK u \in TaskType : HandlerOK(u) /\ Goto(r, u) /\ u.pc \in {"findReport", "ok"}
  BY <1>1, <1>2, <1>3, <1>4
<1>. QED BY <1>5, <1>6, ReadStep DEF StartOffline

(* A bulk delete or a sweep: the listing keeps the invariant.              *)
LEMMA StartDeleteStep ==
  ASSUME IInv, NEW r \in Request, NEW op \in AllOps, StartDelete(r, op)
  PROVE  IInv' /\ Evolves
<1> DEFINE found == Matching(op, now)
           t == [NoTask("erase") EXCEPT !.op = op, !.todo = found, !.at = now]
<1>1. found \subseteq Row
  BY DEF Matching
<1>2. t \in TaskType /\ t.pc = "erase"
  BY <1>1, Pcs DEF TaskType, NoTask, IInv, TypeOK
<1>3. NoTask("ok") \in TaskType /\ NoTask("ok").pc = "ok"
  BY Pcs, NoTaskType
<1>4. HandlerOK(t) /\ HandlerOK(NoTask("ok"))
  BY <1>2, <1>3 DEF HandlerOK
<1>5. Goto(r, t) \/ Goto(r, NoTask("ok"))
  BY DEF StartDelete, Finish
<1>6. owed'[r] = {} /\ faults' \in 0..MaxFaults
  BY DEF StartDelete, IInv, TypeOK
<1> HIDE DEF t, found
<1>7. PICK u \in TaskType : HandlerOK(u) /\ Goto(r, u) /\ u.pc \in {"erase", "ok"}
  BY <1>2, <1>3, <1>4, <1>5
<1>. QED BY <1>6, <1>7, ReadStep DEF StartDelete

(* The list of siblings holds every row owed, none younger than the clock. *)
LEMMA FindSiblingsStep ==
  ASSUME IInv, NEW r \in Request, FindSiblings(r)
  PROVE  IInv' /\ Evolves
<1> USE DEF IInv
<1> DEFINE found == Siblings(task[r].row, task[r].client)
           t == [task[r] EXCEPT !.pc = "closing", !.todo = found, !.at = now]
<1>1. found \subseteq Row /\ owed[r] \subseteq found
      /\ \A j \in found : incident[j].status \in Status
  BY DEF Siblings, FindSiblings, OwedOK, Waiting, Status
<1>2. /\ t \in TaskType /\ t.pc = "closing" /\ t.todo = found /\ t.at = now
      /\ t.row = task[r].row /\ t.client = task[r].client
  BY <1>1, Pcs DEF TypeOK, TaskType
<1>3. NoTask("ok") \in TaskType /\ NoTask("ok").pc = "ok"
  BY Pcs, NoTaskType
<1>4. HandlerOK(t)
  BY <1>1, <1>2 DEF HandlerOK, FindSiblings, AgesOK, Live, Status, TypeOK
<1>5. HandlerOK(NoTask("ok"))
  BY <1>3 DEF HandlerOK
<1>6. IF found = {} THEN Goto(r, NoTask("ok")) ELSE Goto(r, t)
  BY DEF FindSiblings, Finish
<1>7. faults' \in 0..MaxFaults
  BY DEF FindSiblings, TypeOK
<1> HIDE DEF t, found
<1>8. PICK u \in TaskType : /\ HandlerOK(u) /\ Goto(r, u) /\ u.pc \in {"closing", "ok"}
                            /\ u.pc = "closing" => owed[r] \subseteq u.todo
                            /\ u.pc = "ok" => owed[r] = {}
  BY <1>1, <1>2, <1>3, <1>4, <1>5, <1>6
<1>. QED BY <1>7, <1>8, ReadStep DEF FindSiblings

(* applyOfflineAction: the row found is the one of the report.             *)
LEMMA FindReportStep ==
  ASSUME IInv, NEW r \in Request, FindReport(r)
  PROVE  IInv' /\ Evolves
<1> USE DEF IInv
<1>1. owed[r] = {} /\ faults' \in 0..MaxFaults /\ HandlerOK(task[r])
  BY DEF FindReport, OwedOK, TypeOK
<1>2. CASE Goto(r, NoTask("refused"))
  <2>1. NoTask("refused") \in TaskType /\ NoTask("refused").pc = "refused"
    BY Pcs, NoTaskType
  <2>2. HandlerOK(NoTask("refused"))
    BY <2>1 DEF HandlerOK
  <2>. QED BY <1>1, <1>2, <2>1, <2>2, ReadStep DEF FindReport
<1>3. ASSUME NEW i \in RowsOf(task[r].client),
             Goto(r, [task[r] EXCEPT !.pc = "recordAction", !.row = i,
                     !.status = incident[i].status,
                     !.cleaner = IF @ = NULL THEN incident[i].assignedCleaner ELSE @])
      PROVE  IInv' /\ Evolves
  <2> DEFINE k == IF task[r].cleaner = NULL THEN incident[i].assignedCleaner ELSE task[r].cleaner
             t == [task[r] EXCEPT !.pc = "recordAction", !.row = i,
                     !.status = incident[i].status, !.cleaner = k]
  <2>1. i \in Row /\ Live(i) /\ incident[i].client = task[r].client
    BY DEF RowsOf
  <2>2. k \in Cleaner \cup {NULL}
    BY <2>1 DEF TypeOK, TaskType, RowType
  <2>3. t \in TaskType /\ t.pc = "recordAction" /\ t.row = i /\ t.status = incident[i].status
        /\ t.client = task[r].client
    BY ZenonT(60), <2>1, <2>2, Pcs DEF TypeOK, TaskType, Live
  <2>4. incident[i].status = "RESOLVED" => incident[i].resolvedAt # NULL
    BY <2>1 DEF StampsMatchStatus, Stamped
  <2>5. HandlerOK(t)
    BY <1>1, <2>1, <2>3, <2>4 DEF HandlerOK, FindReport, Live, Status
  <2>6. Goto(r, t)
    BY <1>3
  <2> HIDE DEF t
  <2>. QED BY <1>1, <2>3, <2>5, <2>6, ReadStep DEF FindReport
<1>. QED BY <1>2, <1>3 DEF FindReport, Finish

(* A rejected call ends the handler and leaves the rows alone.             *)
LEMMA FaultStep ==
  ASSUME IInv, NEW r \in Request, Fault(r)
  PROVE  IInv' /\ Evolves
<1>1. NoTask("refused") \in TaskType /\ NoTask("refused").pc = "refused"
  BY Pcs, NoTaskType
<1>2. HandlerOK(NoTask("refused"))
  BY <1>1 DEF HandlerOK
<1>3. faults' \in 0..MaxFaults
  BY IncidentsAssumption DEF Fault, IInv, TypeOK
<1>. QED BY <1>1, <1>2, <1>3, ReadStep DEF Fault, Finish

(* An update of a deleted row ends the handler and leaves the rows alone.  *)
LEMMA RowGoneStep ==
  ASSUME IInv, NEW r \in Request, RowGone(r), UNCHANGED <<now, faults>>
  PROVE  IInv' /\ Evolves
<1>1. NoTask("refused") \in TaskType /\ NoTask("refused").pc = "refused"
  BY Pcs, NoTaskType
<1>2. HandlerOK(NoTask("refused"))
  BY <1>1 DEF HandlerOK
<1>. QED BY <1>1, <1>2, ReadStep DEF RowGone, Finish, IInv, TypeOK

(* A handler writes one row in good order and owes nobody anything.        *)
LEMMA WriteStep ==
  ASSUME IInv, NEW r \in Request, NEW t \in TaskType, Goto(r, t), HandlerOK(t),
         NEW i \in Row, Live(i), NEW row \in RowType, Writes(i, row),
         row.status \in Status, row.client = incident[i].client,
         row.createdAt = incident[i].createdAt, Stamped(row),
         incident[i].resolvedAt # NULL => row.resolvedAt # NULL,
         UNCHANGED <<now, faults>>, owed' \in [Request -> SUBSET Row],
         \A q \in Request \ {r} : owed'[q] \subseteq owed[q],
         owed'[r] \subseteq owed[r] \cup Siblings(i, incident[i].client),
         row.status \in Waiting \/ \A q \in Request : i \notin owed'[q],
         t.pc = "siblings" => /\ t.row = i /\ t.client = incident[i].client
                              /\ owed'[r] \subseteq Siblings(i, incident[i].client),
         t.pc = "closing" => owed'[r] \subseteq t.todo,
         t.pc \notin {"siblings", "closing", "refused"} => owed'[r] = {}
  PROVE  IInv' /\ Evolves
<1>1. /\ Evolves
      /\ incident' \in [Row -> RowType]
      /\ \A j \in Row : incident'[j].client # NULL <=> Live(j)'
      /\ log' \in [Row -> SUBSET Entry] /\ incident'[i] = row
      /\ AgesOK' /\ StampsMatchStatus'
  BY WriteRow
<1>2. /\ task' \in [Request -> TaskType]
      /\ task'[r] = t
      /\ \A q \in Request \ {r} : task'[q] = task[q]
  BY GotoTask DEF IInv
<1>3. \A j \in Row \ {i} : incident'[j] = incident[j]
  BY DEF Writes, IInv, TypeOK
<1>4. \A j \in Row : incident'[j].client = incident[j].client
  BY <1>1, <1>3
<1>5. \A q \in Request : \A j \in owed'[q] : j \in Row /\ incident'[j].status \in Waiting
  <2>1. ASSUME NEW q \in Request, NEW j \in owed'[q]
        PROVE  incident[j].status \in Waiting /\ j \in Row
    BY <2>1 DEF IInv, OwedOK, Siblings, TypeOK
  <2>. QED BY <1>1, <1>3, <2>1
<1>6. ASSUME NEW q \in Request, task'[q].pc = "siblings"
      PROVE  owed'[q] \subseteq Siblings(task[q].row, task[q].client)'
  <2>1. CASE q = r
    BY <1>2, <1>4, <1>5, <1>6, <2>1 DEF Siblings, group
  <2>2. CASE q # r
    <3>1. owed[q] \subseteq Siblings(task[q].row, task[q].client) /\ owed'[q] \subseteq owed[q]
      BY <1>2, <1>6, <2>2 DEF IInv, OwedOK
    <3>. QED BY <1>2, <1>4, <1>5, <2>2, <3>1 DEF Siblings, group
  <2>. QED BY <2>1, <2>2
<1>7. OwedOK'
  BY <1>2, <1>5, <1>6 DEF OwedOK, IInv
<1>8. HandlerOK(t)'
  BY <1>1, HandlerKept, IncidentsAssumption DEF IInv, TypeOK, Time
<1>9. log' \in [Row -> SUBSET Entry] /\ faults' \in 0..MaxFaults
  BY <1>1 DEF IInv, TypeOK
<1>. QED BY <1>1, <1>7, <1>8, <1>9, Assemble

(* A stamp not older than the row is not older than a plausible report.    *)
LEMMA StampedNow ==
  ASSUME IInv, NEW i \in Row, Live(i), NEW at \in Time, incident[i].createdAt <= at,
         NEW row \in RowType, row.client = incident[i].client,
         row.createdAt = incident[i].createdAt
  PROVE  at # NULL /\ (ClockPlausible(row) => ReportedAt[row.client] <= at)
<1>1. incident[i].createdAt \in Nat /\ at \in Nat /\ at # NULL
  BY IncidentsAssumption DEF IInv, AgesOK, Time
<1>2. row.client \in Client
  BY DEF IInv, TypeOK, RowType
<1>3. ReportedAt[row.client] \in Nat
  BY <1>2, IncidentsAssumption
<1>. QED BY <1>1, <1>3 DEF ClockPlausible

(* What the handlers write into a row.                                     *)
LEMMA AcknowledgedRow ==
  ASSUME IInv, NEW i \in Row, NEW k \in Cleaner \cup {NULL}
  PROVE  LET row == [incident[i] EXCEPT !.status = "IN_PROGRESS", !.acknowledgedAt = now,
                                        !.assignedCleaner = k]
         IN  /\ row \in RowType /\ row.status = "IN_PROGRESS"
             /\ row.client = incident[i].client /\ row.acknowledgedAt = now
             /\ row.createdAt = incident[i].createdAt
             /\ row.resolvedAt = incident[i].resolvedAt
BY DEF IInv, TypeOK, RowType, Status

(* The row returnToQueue writes.                                           *)
LEMMA ReturnedRow ==
  ASSUME IInv, NEW i \in Row
  PROVE  LET row == [incident[i] EXCEPT !.status = "OPEN", !.acknowledgedAt = NULL,
                                        !.assignedCleaner = NULL]
         IN  /\ row \in RowType /\ row.status = "OPEN"
             /\ row.client = incident[i].client /\ row.createdAt = incident[i].createdAt
             /\ row.resolvedAt = incident[i].resolvedAt
BY DEF IInv, TypeOK, RowType, Status

(* The row a resolution writes, given that it is no older than the report. *)
LEMMA ClosedRow ==
  ASSUME IInv, NEW i \in Row, NEW at \in Time, NEW k \in Cleaner \cup {NULL}
  PROVE  LET row == Closed(i, at, k)
         IN  /\ row \in RowType /\ row.status = "RESOLVED"
             /\ row.client = incident[i].client /\ row.resolvedAt = at
             /\ row.createdAt = incident[i].createdAt
BY DEF IInv, TypeOK, RowType, Status, Closed

(* The row the admin's update writes.                                      *)
LEMMA AdminRow ==
  ASSUME IInv, NEW i \in Row, NEW s \in Status \cup {NULL}, NEW k \in Cleaner \cup {NULL}
  PROVE  LET row == AdminFields(i, s, k)
         IN  /\ row \in RowType /\ row.client = incident[i].client
             /\ row.createdAt = incident[i].createdAt
             /\ row.status = IF s = NULL THEN incident[i].status ELSE s
             /\ row.acknowledgedAt = IF s = "IN_PROGRESS" THEN now ELSE incident[i].acknowledgedAt
             /\ row.resolvedAt = IF s = "RESOLVED" THEN now ELSE incident[i].resolvedAt
BY ZenonT(60) DEF IInv, TypeOK, RowType, Status, AdminFields

(* acknowledge: its update keeps the invariant.                            *)
LEMMA AcknowledgeStep ==
  ASSUME IInv, NEW r \in Request, AcknowledgeWrite(r)
  PROVE  IInv' /\ Evolves
<1> USE IncidentsAssumption DEF IInv
<1>1. CASE RowGone(r)
  BY <1>1, RowGoneStep DEF AcknowledgeWrite
<1>2. CASE ~RowGone(r)
  <2> DEFINE i == task[r].row
             row == [incident[i] EXCEPT !.status = "IN_PROGRESS", !.acknowledgedAt = now,
                                        !.assignedCleaner = task[r].cleaner]
  <2>1. i \in Row /\ owed[r] = {} /\ task[r].cleaner \in Cleaner \cup {NULL}
    BY DEF AcknowledgeWrite, HandlerOK, OwedOK, TypeOK, TaskType
  <2>2. Live(i) /\ Writes(i, row) /\ Goto(r, NoTask("ok")) /\ UNCHANGED <<now, faults, owed>>
    BY <1>2 DEF AcknowledgeWrite, Finish, Write, Writes
  <2>3. row \in RowType /\ row.status = "IN_PROGRESS" /\ row.client = incident[i].client
        /\ row.acknowledgedAt = now /\ row.resolvedAt = incident[i].resolvedAt
        /\ row.createdAt = incident[i].createdAt
    BY ZenonT(60), <2>1, AcknowledgedRow
  <2>4. incident[i].createdAt <= now /\ now \in Time
    BY <2>1, <2>2 DEF AgesOK, TypeOK
  <2>5. Stamped(row)
    <3> HIDE DEF i, row
    <3>. QED BY <2>1, <2>2, <2>3, <2>4, StampedNow DEF Stamped
  <2>6. NoTask("ok") \in TaskType /\ NoTask("ok").pc = "ok"
    BY Pcs, NoTaskType
  <2>7. HandlerOK(NoTask("ok"))
    BY <2>6 DEF HandlerOK
  <2>8. owed' \in [Request -> SUBSET Row]
    BY <2>2 DEF TypeOK
  <2> HIDE DEF i, row
  <2>. QED BY <2>1, <2>2, <2>3, <2>5, <2>6, <2>7, <2>8, WriteStep DEF Status, Waiting
<1>. QED BY <1>1, <1>2

(* returnToQueue: its update keeps the invariant.                          *)
LEMMA ReturnStep ==
  ASSUME IInv, NEW r \in Request, ReturnWrite(r)
  PROVE  IInv' /\ Evolves
<1> USE IncidentsAssumption DEF IInv
<1>1. CASE RowGone(r)
  BY <1>1, RowGoneStep DEF ReturnWrite
<1>2. CASE ~RowGone(r)
  <2> DEFINE i == task[r].row
             row == [incident[i] EXCEPT !.status = "OPEN", !.acknowledgedAt = NULL,
                                        !.assignedCleaner = NULL]
  <2>1. i \in Row /\ owed[r] = {}
    BY DEF ReturnWrite, HandlerOK, OwedOK
  <2>2. Live(i) /\ Writes(i, row) /\ Goto(r, NoTask("ok")) /\ UNCHANGED <<now, faults, owed>>
    BY <1>2 DEF ReturnWrite, Finish, Write, Writes
  <2>3. row \in RowType /\ row.status = "OPEN" /\ row.client = incident[i].client
        /\ row.resolvedAt = incident[i].resolvedAt /\ row.createdAt = incident[i].createdAt
    BY <2>1, ReturnedRow
  <2>5. Stamped(row)
    BY <2>3 DEF Stamped
  <2>6. NoTask("ok") \in TaskType /\ NoTask("ok").pc = "ok"
    BY Pcs, NoTaskType
  <2>7. HandlerOK(NoTask("ok"))
    BY <2>6 DEF HandlerOK
  <2>8. owed' \in [Request -> SUBSET Row]
    BY <2>2 DEF TypeOK
  <2> HIDE DEF i, row
  <2>. QED BY <2>1, <2>2, <2>3, <2>5, <2>6, <2>7, <2>8, WriteStep DEF Status, Waiting
<1>. QED BY <1>1, <1>2

(* The target is closed and the handler goes on to its siblings.           *)
LEMMA MeetSiblingsStep ==
  ASSUME IInv, NEW r \in Request, NEW i \in Row, Live(i), NEW k \in Cleaner \cup {NULL},
         NEW row \in RowType, Writes(i, row), row.status = "RESOLVED",
         row.client = incident[i].client, row.createdAt = incident[i].createdAt,
         row.resolvedAt = now,
         MeetSiblings(r, i, k), UNCHANGED <<now, faults>>
  PROVE  IInv' /\ Evolves
<1> USE IncidentsAssumption DEF IInv
<1> DEFINE t == [NoTask("siblings") EXCEPT !.row = i, !.client = incident[i].client,
                                           !.cleaner = k]
<1>1. t \in TaskType /\ t.pc = "siblings" /\ t.row = i /\ t.client = incident[i].client
  BY Pcs DEF TaskType, NoTask, TypeOK, RowType
<1>2. incident[i].client \in Client
  BY DEF TypeOK, RowType
<1>3. HandlerOK(t)
  BY <1>1, <1>2 DEF HandlerOK
<1>4. Stamped(row) /\ row.resolvedAt # NULL
  BY StampedNow DEF Stamped, AgesOK, TypeOK
<1>5. Goto(r, t)
  BY DEF MeetSiblings
<1>6. /\ owed' \in [Request -> SUBSET Row]
      /\ \A q \in Request \ {r} : owed'[q] \subseteq owed[q]
      /\ owed'[r] = Siblings(i, incident[i].client)
      /\ \A q \in Request : i \notin owed'[q]
  BY DEF MeetSiblings, TypeOK, Siblings
<1> HIDE DEF t
<1>. QED BY <1>1, <1>3, <1>4, <1>5, <1>6, WriteStep DEF Status

(* resolve: closing the target keeps the invariant.                        *)
LEMMA ResolveStep ==
  ASSUME IInv, NEW r \in Request, ResolveWrite(r)
  PROVE  IInv' /\ Evolves
<1> USE IncidentsAssumption DEF IInv
<1>1. CASE RowGone(r)
  BY <1>1, RowGoneStep DEF ResolveWrite
<1>2. CASE ~RowGone(r)
  <2> DEFINE i == task[r].row
             row == Closed(i, now, task[r].cleaner)
  <2>1. i \in Row /\ task[r].cleaner \in Cleaner \cup {NULL}
    BY DEF ResolveWrite, HandlerOK, TypeOK, TaskType
  <2>2. Live(i) /\ Writes(i, row) /\ MeetSiblings(r, i, task[r].cleaner) /\ UNCHANGED <<now, faults>>
    BY <1>2 DEF ResolveWrite, Write, Writes
  <2>3. row \in RowType /\ row.status = "RESOLVED" /\ row.client = incident[i].client
        /\ row.resolvedAt = now /\ row.createdAt = incident[i].createdAt
    BY <2>1, ClosedRow DEF TypeOK
  <2> HIDE DEF i, row
  <2>. QED BY <2>1, <2>2, <2>3, MeetSiblingsStep
<1>. QED BY <1>1, <1>2

(* adminUpdate: its update keeps the invariant, closing or not.            *)
LEMMA AdminStep ==
  ASSUME IInv, NEW r \in Request, AdminWrite(r)
  PROVE  IInv' /\ Evolves
<1> USE IncidentsAssumption DEF IInv
<1>1. CASE RowGone(r)
  BY <1>1, RowGoneStep DEF AdminWrite
<1>2. CASE ~RowGone(r)
  <2> DEFINE i == task[r].row
             s == task[r].status
             row == AdminFields(i, s, task[r].cleaner)
  <2>1. i \in Row /\ owed[r] = {} /\ s \in Status \cup {NULL}
        /\ task[r].cleaner \in Cleaner \cup {NULL}
    BY DEF AdminWrite, HandlerOK, OwedOK, TypeOK, TaskType
  <2>2. Live(i) /\ Writes(i, row) /\ UNCHANGED <<now, faults>>
    BY <1>2 DEF AdminWrite, Write, Writes
  <2>3. /\ row \in RowType /\ row.client = incident[i].client
        /\ row.createdAt = incident[i].createdAt
        /\ row.status = IF s = NULL THEN incident[i].status ELSE s
        /\ row.acknowledgedAt = IF s = "IN_PROGRESS" THEN now ELSE incident[i].acknowledgedAt
        /\ row.resolvedAt = IF s = "RESOLVED" THEN now ELSE incident[i].resolvedAt
    BY SMTT(20), <2>1, AdminRow
  <2>4. incident[i].createdAt <= now /\ now \in Time /\ Stamped(incident[i])
    BY <2>1, <2>2 DEF AgesOK, TypeOK, StampsMatchStatus
  <2>5. /\ Stamped(row)
        /\ row.status \in Status
        /\ incident[i].resolvedAt # NULL => row.resolvedAt # NULL
    <3>1. now # NULL /\ (ClockPlausible(row) => ReportedAt[row.client] <= now)
      <4> HIDE DEF i, row
      <4>. QED BY <2>1, <2>2, <2>3, <2>4, StampedNow
    <3>2. ClockPlausible(row) <=> ClockPlausible(incident[i])
      BY <2>3 DEF ClockPlausible
    <3> HIDE DEF i, row, s
    <3>. QED BY <2>1, <2>2, <2>3, <2>4, <3>1, <3>2 DEF Stamped, Live, Status
  <2>6. CASE s = "RESOLVED"
    <3>1. MeetSiblings(r, i, NULL)
      BY <1>2, <2>6 DEF AdminWrite
    <3>2. row.status = "RESOLVED" /\ row.resolvedAt = now
      BY <2>3, <2>6 DEF TypeOK
    <3> HIDE DEF i, row
    <3>. QED BY <2>1, <2>2, <2>3, <3>1, <3>2, MeetSiblingsStep
  <2>7. CASE s # "RESOLVED"
    <3>1. Goto(r, NoTask("ok")) /\ owed' = owed
      BY <1>2, <2>7 DEF AdminWrite, Finish
    <3>2. NoTask("ok") \in TaskType /\ NoTask("ok").pc = "ok"
      BY Pcs, NoTaskType
    <3>3. HandlerOK(NoTask("ok"))
      BY <3>2 DEF HandlerOK
    <3>4. owed' \in [Request -> SUBSET Row] /\ owed'[r] = {}
      BY <2>1, <3>1 DEF TypeOK
    <3>5. row.status \in Waiting \/ \A q \in Request : i \notin owed'[q]
      BY <2>1, <2>3, <2>5, <2>7, <3>1 DEF OwedOK, Waiting, Status
    <3> HIDE DEF i, row, s
    <3>. QED BY <2>1, <2>2, <2>3, <2>5, <3>1, <3>2, <3>3, <3>4, <3>5, WriteStep
  <2>. QED BY <2>6, <2>7
<1>. QED BY <1>1, <1>2

(* One turn of the sibling loop keeps the invariant.                       *)
LEMMA CloseSiblingStep ==
  ASSUME IInv, NEW r \in Request, NEW j \in Row, CloseSibling(r, j)
  PROVE  IInv' /\ Evolves
<1> USE IncidentsAssumption DEF IInv
<1>1. CASE ~Live(j)
  <2>1. NoTask("refused") \in TaskType /\ NoTask("refused").pc = "refused"
    BY Pcs, NoTaskType
  <2>2. HandlerOK(NoTask("refused"))
    BY <2>1 DEF HandlerOK
  <2>3. UNCHANGED <<now, incident, log, faults, owed>> /\ Goto(r, NoTask("refused"))
    BY <1>1 DEF CloseSibling, Finish
  <2>. QED BY <2>1, <2>2, <2>3, ReadStep DEF TypeOK
<1>2. CASE Live(j)
  <2> DEFINE row == Closed(j, task[r].at, task[r].cleaner)
             more == [task[r] EXCEPT !.todo = @ \ {j}]
             t == IF task[r].todo = {j} THEN NoTask("ok") ELSE more
  <2>1. /\ task[r].pc = "closing" /\ task[r].at \in Time /\ j \in task[r].todo
        /\ task[r].cleaner \in Cleaner \cup {NULL} /\ HandlerOK(task[r])
        /\ incident[j].createdAt <= task[r].at /\ owed[r] \subseteq task[r].todo
    BY <1>2 DEF CloseSibling, HandlerOK, TypeOK, TaskType, OwedOK
  <2>2. Writes(j, row) /\ Settle(j) /\ Goto(r, t) /\ UNCHANGED <<now, faults>>
    BY <1>2 DEF CloseSibling, Finish, Write, Writes
  <2>3. row \in RowType /\ row.status = "RESOLVED" /\ row.client = incident[j].client
        /\ row.resolvedAt = task[r].at /\ row.createdAt = incident[j].createdAt
    BY <2>1, ClosedRow
  <2>4. Stamped(row) /\ row.resolvedAt # NULL
    BY <1>2, <2>1, <2>3, StampedNow DEF Stamped
  <2>5. /\ more \in TaskType /\ more.pc = "closing" /\ more.todo = task[r].todo \ {j}
        /\ more.at = task[r].at /\ more.row = task[r].row /\ more.client = task[r].client
    <3>1. task[r] \in TaskType
      BY DEF TypeOK
    <3>2. task[r].todo \ {j} \in SUBSET Row
      BY <3>1 DEF TaskType
    <3> QED BY <2>1, <3>1, <3>2 DEF TaskType
  <2>6. NoTask("ok") \in TaskType /\ NoTask("ok").pc = "ok"
    BY Pcs, NoTaskType
  <2>7. HandlerOK(NoTask("ok")) /\ HandlerOK(more)
    BY <2>1, <2>5, <2>6 DEF HandlerOK
  <2>8. /\ owed' \in [Request -> SUBSET Row]
        /\ \A q \in Request : owed'[q] = owed[q] \ {j}
    BY <2>2 DEF Settle, TypeOK
  <2> HIDE DEF row, more
  <2>9. /\ t \in TaskType /\ HandlerOK(t)
        /\ t.pc = "closing" => owed'[r] \subseteq t.todo
        /\ t.pc = "ok" => owed'[r] = {}
        /\ t.pc \in {"ok", "closing"}
    BY <2>1, <2>5, <2>6, <2>7, <2>8
  <2> HIDE DEF t
  <2>. QED BY <1>2, <2>2, <2>3, <2>4, <2>8, <2>9, WriteStep DEF Status
<1>. QED BY <1>1, <1>2

(* applyOfflineAction: closing the incident keeps the invariant.           *)
LEMMA OfflineCloseStep ==
  ASSUME IInv, NEW r \in Request, OfflineClose(r)
  PROVE  IInv' /\ Evolves
<1> USE IncidentsAssumption DEF IInv
<1>1. CASE RowGone(r)
  BY <1>1, RowGoneStep DEF OfflineClose
<1>2. CASE ~RowGone(r)
  <2> DEFINE i == task[r].row
             c == task[r].client
             row == Closed(i, HandledAt[c], task[r].cleaner)
  <2>1. /\ i \in Row /\ c \in Client /\ owed[r] = {}
        /\ task[r].cleaner \in Cleaner \cup {NULL}
    BY DEF OfflineClose, HandlerOK, OwedOK, TypeOK, TaskType
  <2>2. /\ Live(i) /\ Writes(i, row) /\ Settle(i) /\ Goto(r, NoTask("ok"))
        /\ UNCHANGED <<now, faults>>
    BY <1>2 DEF OfflineClose, Finish, Writes
  <2>3. HandledAt[c] \in Time /\ incident[i].client = c
    BY <2>1, <2>2 DEF OfflineClose, HandlerOK, Time
  <2>4. row \in RowType /\ row.status = "RESOLVED" /\ row.client = incident[i].client
        /\ row.resolvedAt = HandledAt[c] /\ row.createdAt = incident[i].createdAt
    BY <2>1, <2>3, ClosedRow
  <2>5. Stamped(row) /\ row.resolvedAt # NULL
    BY <2>3, <2>4 DEF Stamped, ClockPlausible, Time
  <2>6. NoTask("ok") \in TaskType /\ NoTask("ok").pc = "ok"
    BY Pcs, NoTaskType
  <2>7. HandlerOK(NoTask("ok"))
    BY <2>6 DEF HandlerOK
  <2>8. /\ owed' \in [Request -> SUBSET Row]
        /\ \A q \in Request : owed'[q] = owed[q] \ {i}
    BY <2>2 DEF Settle, TypeOK
  <2> HIDE DEF i, c, row
  <2>. QED BY <2>1, <2>2, <2>4, <2>5, <2>6, <2>7, <2>8, WriteStep DEF Status
<1>. QED BY <1>1, <1>2

(* create: the insert keeps the invariant.                                 *)
LEMMA InsertStep ==
  ASSUME IInv, NEW r \in Request, Insert(r)
  PROVE  IInv' /\ Evolves
<1> USE IncidentsAssumption DEF IInv
<1> DEFINE c == task[r].client
<1>1. c \in Client /\ owed[r] = {}
  BY DEF Insert, HandlerOK, OwedOK
<1>2. CASE ClientIdTaken(c) /\ Finish(r, "refused") /\ UNCHANGED <<incident, log>>
  <2>1. NoTask("refused") \in TaskType /\ NoTask("refused").pc = "refused"
    BY Pcs, NoTaskType
  <2>2. HandlerOK(NoTask("refused"))
    BY <2>1 DEF HandlerOK
  <2>. QED BY <1>2, <2>1, <2>2, ReadStep DEF Insert, Finish, TypeOK
<1>3. ASSUME NEW i \in Row, ~ClientIdTaken(c), incident[i].status = "UNUSED",
             incident' = [incident EXCEPT ![i] = NewRow(c)],
             log' = [log EXCEPT ![i] = {"REPORTED"}], Finish(r, "ok")
      PROVE  IInv' /\ Evolves
  <2>1. /\ NewRow(c) \in RowType /\ NewRow(c).client = c /\ NewRow(c).createdAt = now
        /\ NewRow(c).status \in {"OPEN", "RESOLVED"}
        /\ NewRow(c).status = "RESOLVED" => NewRow(c).resolvedAt = ReportedAt[c]
    BY <1>1 DEF NewRow, Unused, RowType, Status, Time, TypeOK
  <2>2. /\ incident' \in [Row -> RowType] /\ incident'[i] = NewRow(c)
        /\ \A j \in Row \ {i} : incident'[j] = incident[j]
    BY <1>3, <2>1 DEF TypeOK
  <2>3. /\ ~Live(i) /\ Live(i)'
        /\ \A j \in Row \ {i} : Live(j)' <=> Live(j)
        /\ \A j \in Row : incident'[j].client # NULL <=> Live(j)'
    BY <1>1, <1>3, <2>1, <2>2 DEF Live, Status, TypeOK
  <2>4. Evolves
    BY <1>3, <2>2 DEF Evolves
  <2>5. AgesOK' /\ log' \in [Row -> SUBSET Entry]
    <3>1. log' \in [Row -> SUBSET Entry] /\ \A j \in Row \ {i} : log'[j] = log[j]
      BY <1>3 DEF TypeOK, Entry
    <3>2. now' = now /\ now \in Time /\ now <= now
      BY DEF Insert, TypeOK, Time
    <3>. QED BY <2>1, <2>2, <2>3, <3>1, <3>2 DEF AgesOK
  <2>8. Stamped(NewRow(c))
    BY <1>1, <2>1 DEF Stamped, Time
  <2>9. StampsMatchStatus'
    BY <2>2, <2>8 DEF StampsMatchStatus
  <2>10. NoTask("ok") \in TaskType /\ NoTask("ok").pc = "ok" /\ Goto(r, NoTask("ok"))
    BY <1>3, Pcs, NoTaskType DEF Finish
  <2>11. /\ task'[r].pc = "ok"
         /\ \A q \in Request \ {r} : task'[q] = task[q]
    BY <2>10, GotoTask
  <2>12. UNCHANGED <<now, faults, owed>>
    BY DEF Insert
  <2>13. \A q \in Request : i \notin owed[q]
    BY <1>3 DEF OwedOK, Waiting
  <2>14. ASSUME NEW q \in Request, task'[q].pc = "siblings"
         PROVE  owed'[q] \subseteq Siblings(task[q].row, task[q].client)'
    <3>1. owed[q] \subseteq Siblings(task[q].row, task[q].client) /\ task'[q] = task[q]
      BY <2>11, <2>14 DEF OwedOK
    <3>. QED BY <2>2, <2>12, <2>13, <3>1 DEF Siblings, group
  <2>15. OwedOK'
    BY <1>1, <2>2, <2>11, <2>12, <2>13, <2>14 DEF OwedOK, TypeOK
  <2>16. HandlerOK(NoTask("ok"))'
    BY <2>10 DEF HandlerOK
  <2>. QED BY <2>2, <2>3, <2>4, <2>5, <2>9, <2>10, <2>12, <2>15, <2>16, Assemble DEF TypeOK
<1>. QED BY <1>2, <1>3 DEF Insert

(* applyOfflineAction: inserting the action row keeps the invariant.       *)
LEMMA RecordActionStep ==
  ASSUME IInv, NEW r \in Request, RecordAction(r)
  PROVE  IInv' /\ Evolves
<1> USE DEF IInv
<1> DEFINE i == task[r].row
           t == [task[r] EXCEPT !.pc = "offlineClose"]
<1>1. task[r].pc = "recordAction" /\ HandlerOK(task[r]) /\ owed[r] = {} /\ i \in Row
  BY DEF RecordAction, OwedOK, HandlerOK
<1>2. PICK u \in {NoTask("ok"), NoTask("refused"), t} : Goto(r, u)
  BY DEF RecordAction, Finish, Step
<1>3. /\ t \in TaskType /\ t.pc = "offlineClose" /\ t.client = task[r].client
      /\ t.row = task[r].row
  BY Pcs DEF TypeOK, TaskType
<1>4. HandlerOK(t)
  BY <1>1, <1>3 DEF HandlerOK
<1>5. /\ NoTask("ok") \in TaskType /\ NoTask("ok").pc = "ok"
      /\ NoTask("refused") \in TaskType /\ NoTask("refused").pc = "refused"
  BY Pcs, NoTaskType
<1>6. HandlerOK(NoTask("ok")) /\ HandlerOK(NoTask("refused"))
  BY <1>5 DEF HandlerOK
<1>7. log' \in [Row -> SUBSET Entry] /\ \A j \in Row : ~Live(j) => log'[j] = {}
  BY <1>1 DEF RecordAction, TypeOK, AgesOK, Entry
<1> HIDE DEF t
<1>8. u \in TaskType /\ HandlerOK(u) /\ u.pc \in {"ok", "refused", "offlineClose"}
  BY <1>2, <1>3, <1>4, <1>5, <1>6
<1>9. UNCHANGED <<now, incident, faults, owed>> /\ faults \in 0..MaxFaults
  BY DEF RecordAction, TypeOK
<1>. QED BY <1>1, <1>2, <1>7, <1>8, <1>9, LogStep

(* Erasing the actions of the listed rows keeps the invariant.             *)
LEMMA EraseStep ==
  ASSUME IInv, NEW r \in Request, EraseActions(r)
  PROVE  IInv' /\ Evolves
<1> USE DEF IInv
<1> DEFINE t == [task[r] EXCEPT !.pc = "deleteRows"]
<1>1. t \in TaskType /\ t.pc = "deleteRows" /\ Goto(r, t)
  BY Pcs DEF TypeOK, TaskType, EraseActions, Step
<1>2. HandlerOK(t)
  BY <1>1 DEF HandlerOK
<1>3. owed[r] = {} /\ UNCHANGED <<now, incident, faults, owed>> /\ faults \in 0..MaxFaults
  BY DEF EraseActions, OwedOK, TypeOK
<1>4. log' \in [Row -> SUBSET Entry] /\ \A j \in Row : ~Live(j) => log'[j] = {}
  BY DEF EraseActions, TypeOK, AgesOK
<1> HIDE DEF t
<1>. QED BY <1>1, <1>2, <1>3, <1>4, LogStep

(* Deleting the rows keeps the invariant: what is gone is owed to nobody.  *)
LEMMA DeleteRowsStep ==
  ASSUME IInv, NEW r \in Request, DeleteRows(r)
  PROVE  IInv' /\ Evolves
<1> USE DEF IInv
<1> DEFINE doomed == IF task[r].op = "sweep" THEN {i \in task[r].todo : Live(i)}
                                             ELSE Matching(task[r].op, task[r].at)
<1>1. /\ doomed \subseteq Row
      /\ incident' = [i \in Row |-> IF i \in doomed THEN Deleted ELSE incident[i]]
      /\ log' = [i \in Row |-> IF i \in doomed THEN {} ELSE log[i]]
      /\ owed' = [q \in Request |-> owed[q] \ doomed]
      /\ task[r].pc = "deleteRows" /\ Goto(r, NoTask("ok")) /\ UNCHANGED <<now, faults>>
  BY DEF DeleteRows, Finish, Matching, TypeOK, TaskType
<1> HIDE DEF doomed
<1>2. /\ Deleted \in RowType /\ Deleted.status = "DELETED" /\ Deleted.client = NULL
  BY DEF Deleted, Unused, RowType
<1>3. /\ \A i \in Row \ doomed : incident'[i] = incident[i] /\ log'[i] = log[i]
      /\ \A i \in doomed : incident'[i] = Deleted /\ log'[i] = {}
  BY <1>1
<1>4. /\ \A i \in Row \ doomed : Live(i)' <=> Live(i)
      /\ \A i \in doomed : ~Live(i)'
  BY <1>2, <1>3 DEF Live, Status
<1>5. /\ incident' \in [Row -> RowType] /\ log' \in [Row -> SUBSET Entry]
      /\ owed' \in [Request -> SUBSET Row]
      /\ \A q \in Request : owed'[q] = owed[q] \ doomed
  BY <1>1, <1>2 DEF TypeOK
<1>6. \A i \in Row : incident'[i].client # NULL <=> Live(i)'
  BY <1>2, <1>3, <1>4 DEF TypeOK
<1>7. Evolves
  BY <1>3 DEF Evolves
<1>8. AgesOK'
  BY <1>1, <1>3, <1>4 DEF AgesOK
<1>10. StampsMatchStatus'
  BY <1>2, <1>3 DEF StampsMatchStatus, Stamped
<1>11. NoTask("ok") \in TaskType /\ NoTask("ok").pc = "ok"
  BY Pcs, NoTaskType
<1>12. /\ task'[r].pc = "ok" /\ owed[r] = {}
       /\ \A q \in Request \ {r} : task'[q] = task[q]
  BY <1>1, <1>11, GotoTask DEF OwedOK
<1>13. ASSUME NEW q \in Request, task'[q].pc = "siblings"
       PROVE  owed'[q] \subseteq Siblings(task[q].row, task[q].client)'
  <2>1. owed[q] \subseteq Siblings(task[q].row, task[q].client) /\ task'[q] = task[q]
    BY <1>12, <1>13 DEF OwedOK
  <2>. QED BY <1>3, <1>5, <2>1 DEF Siblings, group
<1>14. OwedOK'
  BY <1>3, <1>5, <1>12, <1>13 DEF OwedOK, TypeOK
<1>15. HandlerOK(NoTask("ok"))'
  BY <1>11 DEF HandlerOK
<1>. QED BY <1>1, <1>5, <1>6, <1>7, <1>8, <1>10, <1>11, <1>14, <1>15, Assemble DEF TypeOK

(* The clock only makes stamps older.                                      *)
LEMMA TickStep ==
  ASSUME IInv, Tick
  PROVE  IInv' /\ Evolves
<1> USE IncidentsAssumption DEF IInv
<1>1. now' \in Time /\ now <= now' /\ now \in Nat /\ now' = now + 1
  BY DEF Tick, TypeOK, Time
<1>2. TypeOK' /\ Evolves
  BY <1>1 DEF Tick, TypeOK, Evolves, Live
<1>3. AgesOK'
  <2>1. \A i \in Row : Live(i) => incident[i].createdAt \in Nat
    BY DEF AgesOK, Time
  <2>. QED BY <1>1, <2>1 DEF Tick, AgesOK, Live
<1>4. StampsMatchStatus' /\ OwedOK'
  BY DEF Tick, StampsMatchStatus, Stamped, ClockPlausible, OwedOK, Siblings, group, Live
<1>5. ASSUME NEW q \in Request PROVE HandlerOK(task[q])'
  <2>1. ASSUME NEW u \in TaskType, HandlerOK(u) PROVE HandlerOK(u)'
    BY <1>1, <1>2, <2>1, HandlerKept DEF TypeOK
  <2>2. task[q] \in TaskType /\ HandlerOK(task[q]) /\ task' = task
    BY DEF TypeOK, Tick
  <2>3. ASSUME NEW u, u = task[q] PROVE task'[q] = u
    BY <2>2, <2>3
  <2>. QED BY <2>1, <2>2, <2>3
<1>. QED BY <1>2, <1>3, <1>4, <1>5
-----------------------------------------------------------------------------
(* The inductive invariant, and what follows from it.                      *)

(* The empty database satisfies the invariant.                             *)
LEMMA InitIInv == Init => IInv
<1> SUFFICES ASSUME Init PROVE IInv
  OBVIOUS
<1> USE IncidentsAssumption DEF Init
<1>1. /\ Unused \in RowType /\ Unused.status = "UNUSED" /\ Unused.client = NULL
  BY DEF Unused, RowType
<1>2. NoTask("ok") \in TaskType /\ NoTask("ok").pc = "ok"
  BY Pcs, NoTaskType
<1>3. \A i \in Row : ~Live(i) /\ incident[i].client = NULL
  BY <1>1 DEF Live, Status
<1>4. TypeOK
  BY <1>1, <1>2, <1>3 DEF TypeOK, Time
<1>5. AgesOK
  BY <1>3 DEF AgesOK
<1>6. OwedOK
  BY <1>2 DEF OwedOK
<1>7. StampsMatchStatus
  BY <1>1 DEF StampsMatchStatus, Stamped
<1>8. HandlerOK(NoTask("ok"))
  BY <1>2 DEF HandlerOK
<1>. QED BY <1>4, <1>5, <1>6, <1>7, <1>8 DEF IInv

(* Every first call of a handler keeps the invariant.                      *)
LEMMA StartStep ==
  ASSUME IInv, NEW r \in Request, Start(r)
  PROVE  IInv' /\ Evolves
<1>1. ASSUME NEW c \in Client, StartCreate(r, c) PROVE IInv' /\ Evolves
  BY <1>1, StartCreateStep
<1>2. ASSUME NEW c \in Client, NEW k \in Cleaner \cup {NULL}, StartOffline(r, c, k)
      PROVE  IInv' /\ Evolves
  BY <1>2, StartOfflineStep
<1>3. ASSUME NEW i \in Row, NEW k \in Cleaner \cup {NULL},
             StartAcknowledge(r, i, k) \/ StartReturn(r, i, k) \/ StartResolve(r, i, k)
      PROVE  IInv' /\ Evolves
  BY <1>3, StartCleanerStep DEF StartAcknowledge, StartReturn, StartResolve
<1>4. ASSUME NEW i \in Row, NEW k \in Cleaner \cup {NULL}, NEW s \in Status \cup {NULL},
             StartAdminUpdate(r, i, s, k)
      PROVE  IInv' /\ Evolves
  BY <1>4, StartAdminUpdateStep
<1>5. ASSUME NEW op \in AllOps, StartDelete(r, op) PROVE IInv' /\ Evolves
  BY <1>5, StartDeleteStep
<1>. QED BY <1>1, <1>2, <1>3, <1>4, <1>5 DEF Start

(* Every later call of a handler keeps the invariant.                      *)
LEMMA ContinueStep ==
  ASSUME IInv, NEW r \in Request, Continue(r)
  PROVE  IInv' /\ Evolves
BY CheckOpenStep, InsertStep, AcknowledgeStep, ReturnStep, ResolveStep, AdminStep,
   FindSiblingsStep, CloseSiblingStep, FindReportStep, RecordActionStep,
   OfflineCloseStep, EraseStep, DeleteRowsStep DEF Continue

(* The invariant is inductive.                                             *)
LEMMA NextIInv ==
  ASSUME IInv, [Next]_vars
  PROVE  IInv' /\ Evolves
<1>1. CASE Tick
  BY <1>1, TickStep
<1>2. ASSUME NEW r \in Request, Start(r) \/ Continue(r) \/ Fault(r)
      PROVE  IInv' /\ Evolves
  BY <1>2, StartStep, ContinueStep, FaultStep
<1>3. CASE UNCHANGED vars
  BY <1>3 DEF vars, IInv, TypeOK, AgesOK, OwedOK, HandlerOK,
              StampsMatchStatus, Stamped, ClockPlausible, Live, Siblings, group, Evolves
<1>. QED BY <1>1, <1>2, <1>3 DEF Next

(* The inductive invariant holds in every reachable state.                 *)
(* It is what a handler may rely on after an await: the row it read is     *)
(* still about the same report, no younger than its stamps, and the        *)
(* duplicates it owes are on its list.                                     *)
THEOREM IInvAlways == Spec => []IInv
<1>1. IInv /\ [Next]_vars => IInv'
  BY NextIInv
<1>. QED BY InitIInv, <1>1, PTL DEF Spec

(* Every variable keeps its type, a row has a clientId exactly while it is *)
(* stored, and every handler only carries values it can use.               *)
THEOREM TypeCorrect == Spec => []TypeOK
BY IInvAlways, PTL DEF IInv

(* No race of create, acknowledge, return, resolve, admin update and       *)
(* offline resolution leaves a row IN_PROGRESS or RESOLVED without its     *)
(* stamp, or, unless the tablet's clock was ahead, with one older than the *)
(* report.                                                                 *)
THEOREM StampsCorrect == Spec => []StampsMatchStatus
BY IInvAlways, PTL DEF IInv

(* A resolve() or an admin's RESOLVED that answers 2xx has closed every    *)
(* duplicate that waited when it closed its target.                        *)
THEOREM DuplicatesClosed == Spec => []AnsweredResolveClosedGroup
<1>1. IInv => AnsweredResolveClosedGroup
  BY DEF IInv, OwedOK, AnsweredResolveClosedGroup
<1>. QED BY IInvAlways, <1>1, PTL

(* A step of one handler leaves the records of the others alone.           *)
LEMMA OthersKept ==
  ASSUME IInv, NEW r \in Request, Start(r) \/ Continue(r)
  PROVE  \A q \in Request \ {r} : task'[q] = task[q]
<1> USE DEF IInv, TypeOK, Goto, Finish, Step
<1>1. CASE Start(r)
  BY <1>1 DEF Start, StartCreate, StartOffline, StartAcknowledge, StartReturn, StartResolve,
              StartCleaner, StartAdminUpdate, StartDelete
<1>2. CASE CheckOpen(r) \/ CheckInProgress(r) \/ Insert(r)
  BY <1>2 DEF CheckOpen, CheckInProgress, Insert
<1>3. CASE AcknowledgeWrite(r) \/ ReturnWrite(r) \/ ResolveWrite(r) \/ AdminWrite(r)
  BY <1>3 DEF AcknowledgeWrite, ReturnWrite, ResolveWrite, AdminWrite, RowGone, MeetSiblings
<1>4. CASE FindSiblings(r) \/ \E j \in Row : CloseSibling(r, j)
  BY <1>4 DEF FindSiblings, CloseSibling
<1>5. CASE FindReport(r) \/ RecordAction(r) \/ OfflineClose(r)
  BY <1>5 DEF FindReport, RecordAction, OfflineClose, RowGone
<1>6. CASE EraseActions(r) \/ DeleteRows(r)
  BY <1>6 DEF EraseActions, DeleteRows
<1>. QED BY <1>1, <1>2, <1>3, <1>4, <1>5, <1>6 DEF Continue

(* Which records the handlers move on to.                                  *)
LEMMA NextTask ==
  ASSUME TypeOK, NEW r \in Request
  PROVE  /\ \A t : Goto(r, t) => task'[r] = t
         /\ \A pc : Finish(r, pc) => task'[r].pc = pc
         /\ \A pc : Step(r, pc) => task'[r].pc = pc
<1>1. \A t : Goto(r, t) => task'[r] = t
  BY DEF TypeOK, Goto
<1>2. \A pc : NoTask(pc).pc = pc
  BY DEF NoTask
<1>3. \A pc : [task[r] EXCEPT !.pc = pc].pc = pc
  BY DEF TypeOK, TaskType
<1>. QED BY <1>1, <1>2, <1>3 DEF Finish, Step

(* Which calls lead to a check, an insert or a deletion.                   *)
LEMMA NextPc ==
  ASSUME IInv, NEW r \in Request, Start(r) \/ Continue(r),
         task'[r].pc \in {"checkProgress", "insert", "erase", "deleteRows"}
  PROVE  \/ CheckOpen(r) \/ CheckInProgress(r) \/ EraseActions(r)
         \/ \E op \in AllOps : StartDelete(r, op)
<1>1. CASE Start(r) /\ ~\E op \in AllOps : StartDelete(r, op)
  <2> USE NextTask DEF IInv, NoTask
  <2>1. ASSUME NEW c \in Client, StartCreate(r, c)
        PROVE  task'[r].pc \notin {"checkProgress", "insert", "erase", "deleteRows"}
    BY <2>1 DEF StartCreate
  <2>2. ASSUME NEW c \in Client, NEW k \in Cleaner \cup {NULL}, StartOffline(r, c, k)
        PROVE  task'[r].pc \notin {"checkProgress", "insert", "erase", "deleteRows"}
    BY ZenonT(60), <2>2 DEF StartOffline
  <2>3. ASSUME NEW i \in Row, NEW k \in Cleaner \cup {NULL},
               StartAcknowledge(r, i, k) \/ StartReturn(r, i, k) \/ StartResolve(r, i, k)
        PROVE  task'[r].pc \notin {"checkProgress", "insert", "erase", "deleteRows"}
    <3>1. \/ Finish(r, "refused")
          \/ \E pc \in {"ackWrite", "returnWrite", "resolveWrite"} :
               Goto(r, [NoTask(pc) EXCEPT !.row = i, !.cleaner = k])
      BY <2>3 DEF StartAcknowledge, StartReturn, StartResolve, StartCleaner
    <3>. QED BY ZenonT(60), <3>1
  <2>4. ASSUME NEW i \in Row, NEW s \in Status \cup {NULL}, NEW k \in Cleaner \cup {NULL},
               StartAdminUpdate(r, i, s, k)
        PROVE  task'[r].pc \notin {"checkProgress", "insert", "erase", "deleteRows"}
    BY ZenonT(60), <2>4 DEF StartAdminUpdate
  <2>. QED BY <1>1, <2>1, <2>2, <2>3, <2>4 DEF Start
<1>2. CASE Continue(r) /\ ~CheckOpen(r) /\ ~CheckInProgress(r) /\ ~EraseActions(r)
  <2> USE NextTask DEF IInv
  <2>1. CASE Insert(r)
    BY <2>1 DEF Insert
  <2>2. CASE AcknowledgeWrite(r) \/ ReturnWrite(r) \/ ResolveWrite(r) \/ AdminWrite(r)
    BY ZenonT(60), <2>2 DEF AcknowledgeWrite, ReturnWrite, ResolveWrite, AdminWrite, RowGone, MeetSiblings,
       NoTask
  <2>3. CASE FindSiblings(r) \/ \E j \in Row : CloseSibling(r, j)
    <3>1. task[r] \in TaskType
      BY DEF TypeOK
    <3>2. CASE FindSiblings(r)
      <4>1. \/ Finish(r, "ok")
            \/ Goto(r, [task[r] EXCEPT !.pc = "closing", !.at = now,
                          !.todo = Siblings(task[r].row, task[r].client)])
        BY <3>2 DEF FindSiblings
      <4>2. [task[r] EXCEPT !.pc = "closing", !.at = now,
                            !.todo = Siblings(task[r].row, task[r].client)].pc = "closing"
        BY <3>1 DEF TaskType
      <4>. QED BY <4>1, <4>2
    <3>3. ASSUME NEW j \in Row, CloseSibling(r, j)
          PROVE  task'[r].pc \notin {"checkProgress", "insert", "erase", "deleteRows"}
      BY <3>1, <3>3 DEF CloseSibling, TaskType
    <3>. QED BY <2>3, <3>2, <3>3
  <2>4. CASE FindReport(r) \/ RecordAction(r) \/ OfflineClose(r)
    <3>1. task[r] \in TaskType
      BY DEF TypeOK
    <3>2. CASE FindReport(r)
      <4>1. \/ Finish(r, "refused")
            \/ \E i, s, k : Goto(r, [task[r] EXCEPT !.pc = "recordAction", !.row = i,
                                        !.status = s, !.cleaner = k])
        BY <3>2 DEF FindReport
      <4>2. \A i, s, k : [task[r] EXCEPT !.pc = "recordAction", !.row = i, !.status = s,
                                        !.cleaner = k].pc = "recordAction"
        BY <3>1 DEF TaskType
      <4>3. ASSUME NEW i, NEW s, NEW k,
                   Goto(r, [task[r] EXCEPT !.pc = "recordAction", !.row = i,
                              !.status = s, !.cleaner = k])
            PROVE  task'[r].pc = "recordAction"
        <5> DEFINE u == [task[r] EXCEPT !.pc = "recordAction", !.row = i,
                                      !.status = s, !.cleaner = k]
        <5>1. u.pc = "recordAction" /\ Goto(r, u)
          BY <4>2, <4>3
        <5> HIDE DEF u
        <5>. QED BY <5>1
      <4>4. CASE Finish(r, "refused")
        BY <4>4
      <4>. QED BY <4>1, <4>3, <4>4
    <3>3. CASE RecordAction(r) \/ OfflineClose(r)
      BY <3>3 DEF RecordAction, OfflineClose, RowGone
    <3>. QED BY <2>4, <3>2, <3>3
  <2>5. CASE DeleteRows(r)
    BY <2>5 DEF DeleteRows
  <2>. QED BY <1>2, <2>1, <2>2, <2>3, <2>4, <2>5 DEF Continue
<1>. QED BY <1>1, <1>2

(* Only a tick moves the clock.                                            *)
LEMMA ClockStands ==
  ASSUME NEW r \in Request, Start(r) \/ Continue(r)
  PROVE  now' = now
<1>1. CASE Start(r)
  BY <1>1 DEF Start, StartCreate, StartOffline, StartAcknowledge, StartReturn, StartResolve,
              StartCleaner, StartAdminUpdate, StartDelete
<1>2. CASE Continue(r)
  BY <1>2 DEF Continue, CheckOpen, CheckInProgress, Insert, AcknowledgeWrite, ReturnWrite,
     ResolveWrite, AdminWrite, FindSiblings, CloseSibling, FindReport, RecordAction,
     OfflineClose, EraseActions, DeleteRows
<1>. QED BY <1>1, <1>2

(* Only RecordAction writes the row of an offline resolution, and it is    *)
(* followed by the update of the incident unless that was closed already.  *)
LEMMA OfflineEntry ==
  ASSUME IInv, NEW r \in Request, Start(r) \/ Continue(r),
         NEW i \in Row, "OFFLINE" \in log'[i], "OFFLINE" \notin log[i]
  PROVE  \/ incident'[i].resolvedAt # NULL
         \/ task'[r].pc = "offlineClose" /\ task'[r].row = i
<1> USE DEF IInv, TypeOK
<1>1. RecordAction(r)
  <2>1. CASE Start(r)
    BY <2>1 DEF Start, StartCreate, StartOffline, StartAcknowledge, StartReturn, StartResolve,
                StartCleaner, StartAdminUpdate, StartDelete
  <2>2. CASE Insert(r) \/ EraseActions(r) \/ DeleteRows(r)
    BY <2>2 DEF Insert, EraseActions, DeleteRows
  <2>3. CASE AcknowledgeWrite(r) \/ ReturnWrite(r) \/ ResolveWrite(r) \/ AdminWrite(r)
    BY <2>3 DEF AcknowledgeWrite, ReturnWrite, ResolveWrite, AdminWrite, RowGone, Write
  <2>4. CASE OfflineClose(r) \/ \E j \in Row : CloseSibling(r, j)
    <3>1. log' = log \/ \E j \in Row : log' = [log EXCEPT ![j] = @ \cup {"HANDLED"}]
      BY <2>4 DEF OfflineClose, CloseSibling, RowGone, Write
    <3>. QED BY <3>1
  <2>5. CASE CheckOpen(r) \/ CheckInProgress(r) \/ FindSiblings(r) \/ FindReport(r)
    BY <2>5 DEF CheckOpen, CheckInProgress, FindSiblings, FindReport
  <2>. QED BY <2>1, <2>2, <2>3, <2>4, <2>5 DEF Continue
<1>2. task[r].row = i /\ Live(i)
  BY <1>1 DEF RecordAction
<1>3. CASE task[r].status = "RESOLVED"
  BY <1>1, <1>2, <1>3 DEF RecordAction, HandlerOK
<1>4. CASE task[r].status # "RESOLVED"
  BY <1>1, <1>2, <1>4 DEF RecordAction, Step, Goto, TaskType
<1>. QED BY <1>3, <1>4

(* As long as no database call fails and the process is not killed, an     *)
(* incident that carries an offline resolution has been closed or is about *)
(* to be, whoever else writes the row meanwhile.                           *)
THEOREM OfflineLands == ASSUME MaxFaults = 0 PROVE Spec => []OfflineResolutionLands
<1>1. Init => OfflineResolutionLands
  BY DEF Init, OfflineResolutionLands
<1>2. ASSUME IInv, OfflineResolutionLands, [Next]_vars
      PROVE  OfflineResolutionLands'
  <2>1. IInv' /\ Evolves
    BY <1>2, NextIInv
  <2>2. SUFFICES ASSUME NEW i \in Row, "OFFLINE" \in log'[i], incident'[i].resolvedAt = NULL
                 PROVE  \E r \in Request : task'[r].pc = "offlineClose" /\ task'[r].row = i
    BY DEF OfflineResolutionLands
  <2>3. Live(i)'
    BY <2>1, <2>2 DEF IInv, AgesOK
  <2>4. CASE UNCHANGED vars \/ Tick
    BY <1>2, <2>2, <2>4 DEF vars, Tick, OfflineResolutionLands
  <2>5. ASSUME NEW r \in Request, Start(r) \/ Continue(r)
        PROVE  \E q \in Request : task'[q].pc = "offlineClose" /\ task'[q].row = i
    <3>1. CASE "OFFLINE" \notin log[i]
      BY <1>2, <2>2, <2>5, <3>1, OfflineEntry
    <3>2. CASE "OFFLINE" \in log[i]
      <4>1. Live(i) /\ incident[i].resolvedAt = NULL
        BY <1>2, <2>1, <2>2, <2>3, <3>2 DEF IInv, AgesOK, Evolves, Deleted, Unused, Live, Status
      <4>2. PICK q \in Request : task[q].pc = "offlineClose" /\ task[q].row = i
        BY <1>2, <3>2, <4>1 DEF OfflineResolutionLands
      <4>3. q # r
        <5>1. SUFFICES ASSUME q = r PROVE FALSE
          OBVIOUS
        <5>2. OfflineClose(r)
          <6>1. task[r].pc = "offlineClose"
            BY <4>2, <5>1
          <6>2. ~Start(r)
            BY <6>1 DEF Start, StartCreate, StartOffline, StartAcknowledge, StartReturn,
                        StartResolve, StartCleaner, StartAdminUpdate, StartDelete, Begin, Finished
          <6>. QED BY <2>5, <6>1, <6>2 DEF Continue, CheckOpen, CheckInProgress, Insert,
                 AcknowledgeWrite, ReturnWrite, ResolveWrite, AdminWrite, FindSiblings,
                 CloseSibling, FindReport, RecordAction, EraseActions, DeleteRows
        <5>3. Writes(i, Closed(i, HandledAt[task[r].client], task[r].cleaner))
          BY <4>1, <4>2, <5>1, <5>2 DEF OfflineClose, RowGone, Writes
        <5>4. /\ HandledAt[task[r].client] \in Time
              /\ task[r].cleaner \in Cleaner \cup {NULL}
          BY <1>2, <4>2, <5>1, IncidentsAssumption DEF IInv, HandlerOK, TypeOK, TaskType, Time
        <5>5. incident'[i].resolvedAt = HandledAt[task[r].client]
          BY <1>2, <5>3, <5>4, ClosedRow DEF Writes, IInv, TypeOK
        <5>. QED BY <2>2, <5>4, <5>5, IncidentsAssumption DEF Time
      <4>. QED BY <1>2, <2>5, <4>2, <4>3, OthersKept
    <3>. QED BY <3>1, <3>2
  <2>6. \A r \in Request : ~Fault(r)
    BY <1>2 DEF Fault, IInv, TypeOK
  <2>. QED BY <1>2, <2>4, <2>5, <2>6 DEF Next
<1>3. IInv /\ OfflineResolutionLands /\ [Next]_vars => OfflineResolutionLands'
  BY <1>2
<1>. QED BY <1>1, <1>3, IInvAlways, PTL DEF Spec
-----------------------------------------------------------------------------
(* Bulk deletion and the history of the rows.                              *)

(* What a deletion between its two calls will delete includes what it took *)
(* the actions of.                                                         *)
Doomed(t, i) ==
  /\ t.op \in {"deleteOlder", "deleteAll", "sweep"} /\ t.at \in Time
  /\ incident[i].status # "UNUSED"
  /\ t.op = "deleteOlder" /\ Live(i) => reportedAt(i) + Retention <= t.at

(* A row without its REPORTED action is about to go.                       *)
HistoryOK ==
  /\ \A r \in Request : task[r].pc \in {"erase", "deleteRows"} =>
       \A i \in task[r].todo : Doomed(task[r], i)
  /\ \A i \in Row : Live(i) /\ "REPORTED" \notin log[i] =>
       \E r \in Request : task[r].pc = "deleteRows" /\ i \in task[r].todo

LEMMA HistoryInit == Init => HistoryOK
<1> SUFFICES ASSUME Init PROVE HistoryOK
  OBVIOUS
<1>1. \A r \in Request : task[r].pc = "ok"
  BY Pcs, NoTaskType DEF Init
<1>2. \A i \in Row : ~Live(i)
  BY DEF Init, Live, Unused, Status
<1>. QED BY <1>1, <1>2 DEF HistoryOK

(* Only EraseActions takes a REPORTED action from a row that stays.        *)
LEMMA ReportedEntry ==
  ASSUME IInv, NEW r \in Request, Start(r) \/ Continue(r),
         NEW i \in Row, Live(i)', "REPORTED" \notin log'[i]
  PROVE  \/ EraseActions(r) /\ i \in task[r].todo
         \/ Live(i) /\ "REPORTED" \notin log[i]
<1> USE DEF IInv, TypeOK
<1>1. CASE Start(r)
  BY <1>1 DEF Start, StartCreate, StartOffline, StartAcknowledge, StartReturn, StartResolve,
              StartCleaner, StartAdminUpdate, StartDelete, Live
<1>2. CASE Insert(r)
  BY <1>2 DEF Insert, Live
<1>3. CASE AcknowledgeWrite(r) \/ ReturnWrite(r) \/ ResolveWrite(r) \/ AdminWrite(r)
  <2>1. \/ UNCHANGED <<incident, log>>
        \/ /\ Live(task[r].row) /\ log' = [log EXCEPT ![task[r].row] = @ \cup {"HANDLED"}]
           /\ \E f : incident' = [incident EXCEPT ![task[r].row] = f]
    BY <1>3 DEF AcknowledgeWrite, ReturnWrite, ResolveWrite, AdminWrite, RowGone, Write
  <2>. QED BY <2>1 DEF Live
<1>4. CASE OfflineClose(r) \/ \E j \in Row : CloseSibling(r, j)
  <2>1. \/ UNCHANGED <<incident, log>>
        \/ \E j \in Row : /\ Live(j) /\ log' \in {log, [log EXCEPT ![j] = @ \cup {"HANDLED"}]}
                           /\ \E f : incident' = [incident EXCEPT ![j] = f]
    <3>1. CASE OfflineClose(r)
      BY <3>1 DEF OfflineClose, RowGone, HandlerOK
    <3>2. CASE \E j \in Row : CloseSibling(r, j)
      BY <3>2 DEF CloseSibling, Write
    <3>. QED BY <1>4, <3>1, <3>2
  <2>. QED BY <2>1 DEF Live
<1>5. CASE CheckOpen(r) \/ CheckInProgress(r) \/ FindSiblings(r) \/ FindReport(r)
  BY <1>5 DEF CheckOpen, CheckInProgress, FindSiblings, FindReport, Live
<1>6. CASE RecordAction(r)
  BY <1>6 DEF RecordAction, Live
<1>7. CASE EraseActions(r)
  BY <1>7 DEF EraseActions, Live
<1>8. CASE DeleteRows(r)
  BY <1>8 DEF DeleteRows, Live, Deleted, Unused, Status
<1>. QED BY <1>1, <1>2, <1>3, <1>4, <1>5, <1>6, <1>7, <1>8 DEF Continue

(* What a deletion has listed still falls under its where clause when it   *)
(* comes to the rows, so nothing that lost its actions survives.           *)
LEMMA DeleteCovers ==
  ASSUME IInv, HistoryOK, NEW r \in Request, DeleteRows(r), NEW i \in task[r].todo
  PROVE  ~Live(i)'
<1> USE DEF IInv, TypeOK
<1>1. task[r].pc = "deleteRows" /\ i \in Row /\ Doomed(task[r], i)
  BY DEF DeleteRows, HistoryOK, TaskType
<1>2. SUFFICES ASSUME Live(i) PROVE incident'[i] = Deleted
  BY <1>1 DEF DeleteRows, Live, Deleted, Unused, Status
<1>3. CASE task[r].op = "sweep"
  BY <1>1, <1>2, <1>3 DEF DeleteRows
<1>4. CASE task[r].op \in {"deleteOlder", "deleteAll"}
  BY <1>1, <1>2, <1>4 DEF DeleteRows, Matching, Doomed
<1>. QED BY <1>1, <1>3, <1>4 DEF Doomed

LEMMA HistoryNext ==
  ASSUME MaxFaults = 0, "deleteResolved" \notin Ops, IInv, HistoryOK, [Next]_vars
  PROVE  HistoryOK'
<1> USE IncidentsAssumption
<1>1. IInv' /\ Evolves
  BY NextIInv
<1>2. ASSUME NEW q \in Request, task'[q] = task[q], task[q].pc \in {"erase", "deleteRows"},
             NEW i \in task[q].todo
      PROVE  Doomed(task[q], i)'
  <2>1. Doomed(task[q], i) /\ i \in Row
    BY <1>2 DEF HistoryOK, IInv, TypeOK, TaskType
  <2>2. incident'[i].status # "UNUSED"
    BY <1>1, <2>1 DEF Doomed, Evolves, Live, Deleted, Unused, Status
  <2>3. Live(i)' => Live(i) /\ reportedAt(i)' = reportedAt(i)
    BY <1>1, <2>1 DEF Doomed, Evolves, Live, Deleted, Unused, Status, reportedAt
  <2>. QED BY <1>2, <2>1, <2>2, <2>3 DEF Doomed
<1>3. CASE UNCHANGED vars \/ Tick
  <2>1. UNCHANGED <<incident, log, task>>
    BY <1>3 DEF vars, Tick
  <2>. QED BY <1>2, <2>1 DEF HistoryOK, Live
<1>4. ASSUME NEW r \in Request, Start(r) \/ Continue(r) PROVE HistoryOK'
  <2>1. \A q \in Request \ {r} : task'[q] = task[q]
    BY <1>4, OthersKept
  <2>2. ASSUME task'[r].pc \in {"erase", "deleteRows"}, NEW d \in task'[r].todo
        PROVE  Doomed(task[r], d)'
    <3>1. CASE \E op \in AllOps : StartDelete(r, op)
      <4>1. PICK op \in AllOps : StartDelete(r, op)
        BY <3>1
      <4>2. \/ Finish(r, "ok")
            \/ Goto(r, [NoTask("erase") EXCEPT !.op = op, !.todo = Matching(op, now), !.at = now])
        BY <4>1 DEF StartDelete
      <4>3. /\ task'[r].op = op /\ task'[r].at = now /\ task'[r].todo = Matching(op, now)
            /\ op \in {"deleteOlder", "deleteAll", "sweep"}
            /\ UNCHANGED incident
        <5>1. task'[r] = [NoTask("erase") EXCEPT !.op = op, !.todo = Matching(op, now), !.at = now]
          BY <2>2, <4>2, NextTask DEF IInv
        <5>2. /\ op \in {"deleteOlder", "deleteAll", "sweep"} /\ UNCHANGED incident
          BY <4>1 DEF StartDelete, Begin
        <5>. QED BY <5>1, <5>2 DEF NoTask
      <4>. QED BY <2>2, <4>3 DEF Doomed, Matching, Live, Status, reportedAt, IInv, TypeOK
    <3>2. CASE EraseActions(r)
      <4>1. /\ task[r].pc = "erase" /\ task'[r].todo = task[r].todo
            /\ task'[r].op = task[r].op /\ task'[r].at = task[r].at
            /\ UNCHANGED incident
        BY <3>2 DEF EraseActions, Step, Goto, IInv, TypeOK, TaskType
      <4>. QED BY <2>2, <4>1 DEF HistoryOK, Doomed, Live, reportedAt
    <3>3. CASE CheckOpen(r) \/ CheckInProgress(r)
      BY <2>2, <3>3, NextTask DEF CheckOpen, CheckInProgress, IInv
    <3>. QED BY <1>4, <2>2, <3>1, <3>2, <3>3, NextPc
  <2>3. ASSUME NEW i \in Row, Live(i)', "REPORTED" \notin log'[i]
        PROVE  \E q \in Request : task'[q].pc = "deleteRows" /\ i \in task'[q].todo
    <3>1. CASE EraseActions(r) /\ i \in task[r].todo
      BY <3>1 DEF EraseActions, Step, Goto, IInv, TypeOK, TaskType
    <3>2. CASE Live(i) /\ "REPORTED" \notin log[i]
      <4>1. PICK q \in Request : task[q].pc = "deleteRows" /\ i \in task[q].todo
        BY <3>2 DEF HistoryOK
      <4>2. q # r
        <5>1. SUFFICES ASSUME q = r PROVE FALSE
          OBVIOUS
        <5>2. DeleteRows(r)
          <6>1. ~Start(r)
            BY <4>1, <5>1 DEF Start, StartCreate, StartOffline, StartAcknowledge, StartReturn,
                   StartResolve, StartCleaner, StartAdminUpdate, StartDelete, Begin, Finished
          <6>. QED BY <1>4, <4>1, <5>1, <6>1 DEF Continue, CheckOpen, CheckInProgress, Insert,
                 AcknowledgeWrite, ReturnWrite, ResolveWrite, AdminWrite, FindSiblings,
                 CloseSibling, FindReport, RecordAction, OfflineClose, EraseActions
        <5>. QED BY <2>3, <4>1, <5>1, <5>2, DeleteCovers
      <4>. QED BY <2>1, <4>1, <4>2
    <3>. QED BY <1>4, <2>3, <3>1, <3>2, ReportedEntry
  <2>4. ASSUME NEW q \in Request, task'[q].pc \in {"erase", "deleteRows"}, NEW i \in task'[q].todo
        PROVE  Doomed(task[q], i)'
    BY <1>2, <2>1, <2>2, <2>4
  <2>. QED BY <2>3, <2>4 DEF HistoryOK
<1>5. \A r \in Request : ~Fault(r)
  BY DEF Fault, IInv, TypeOK
<1>. QED BY <1>3, <1>4, <1>5 DEF Next

(* As long as no database call fails, deleting by age, deleting everything *)
(* and the retention sweep, which take the actions first and the rows      *)
(* second, leave no surviving incident without its history, whatever       *)
(* handlers write between the two calls.                                   *)
THEOREM HistorySurvives ==
  ASSUME MaxFaults = 0, "deleteResolved" \notin Ops PROVE Spec => []EveryRowHasHistory
<1>1. IInv /\ HistoryOK /\ [Next]_vars => HistoryOK'
  BY HistoryNext
<1>2. HistoryOK => EveryRowHasHistory
  BY DEF HistoryOK, EveryRowHasHistory, Finished
<1>. QED BY HistoryInit, <1>1, <1>2, IInvAlways, PTL DEF Spec
-----------------------------------------------------------------------------
(* Duplicates are bounded by the requests under way.                       *)

(* The reports of a group that have passed the look for an open one.       *)
Inserting(g) ==
  {r \in Request : task[r].pc \in {"checkProgress", "insert"} /\ GroupOf[task[r].client] = g}

(* Each of them may still add a row to those that are fresh.               *)
DuplicatesOK ==
  \A g \in Group :
    /\ IsFiniteSet(FreshDuplicates(g))
    /\ Cardinality(FreshDuplicates(g)) + Cardinality(Inserting(g)) <= Cardinality(Request)

(* Fewer rows and fewer requests keep the bound.                           *)
LEMMA FewerKeepBound ==
  ASSUME NEW F, NEW N \in SUBSET Request, NEW F2, NEW N2,
         IsFiniteSet(F), F2 \subseteq F, N2 \subseteq N,
         Cardinality(F) + Cardinality(N) <= Cardinality(Request)
  PROVE  IsFiniteSet(F2) /\ Cardinality(F2) + Cardinality(N2) <= Cardinality(Request)
<1>1. IsFiniteSet(N) /\ IsFiniteSet(Request)
  BY IncidentsAssumption, FS_Subset
<1>2. /\ IsFiniteSet(F2) /\ Cardinality(F2) <= Cardinality(F)
      /\ IsFiniteSet(N2) /\ Cardinality(N2) <= Cardinality(N)
  BY <1>1, FS_Subset
<1>3. /\ Cardinality(F) \in Nat /\ Cardinality(F2) \in Nat
      /\ Cardinality(N) \in Nat /\ Cardinality(N2) \in Nat /\ Cardinality(Request) \in Nat
  BY <1>1, <1>2, FS_CardinalityType
<1>. QED BY <1>2, <1>3

(* A request that becomes a row keeps it.                                  *)
LEMMA RowForRequest ==
  ASSUME NEW F, NEW N \in SUBSET Request, NEW i, NEW r \in N, IsFiniteSet(F),
         Cardinality(F) + Cardinality(N) <= Cardinality(Request)
  PROVE  /\ IsFiniteSet(F \cup {i})
         /\ Cardinality(F \cup {i}) + Cardinality(N \ {r}) <= Cardinality(Request)
<1>1. IsFiniteSet(N) /\ IsFiniteSet(Request)
  BY IncidentsAssumption, FS_Subset
<1>2. /\ IsFiniteSet(F \cup {i})
      /\ Cardinality(F \cup {i}) \in {Cardinality(F), Cardinality(F) + 1}
  BY FS_AddElement
<1>3. Cardinality(N \ {r}) = Cardinality(N) - 1
  BY <1>1, FS_RemoveElement
<1>4. /\ Cardinality(F) \in Nat /\ Cardinality(N) \in Nat /\ Cardinality(Request) \in Nat
  BY <1>1, FS_CardinalityType
<1>. QED BY <1>2, <1>3, <1>4

(* No call but an insert makes a row fresh: an update leaves an entry, and *)
(* the clock only ages.                                                    *)
LEMMA FreshOnlyByInsert ==
  ASSUME IInv, IInv', NEW r \in Request, Start(r) \/ Continue(r), ~Insert(r), now' = now,
         NEW g \in Group
  PROVE  FreshDuplicates(g)' \subseteq FreshDuplicates(g)
<1> USE DEF IInv, TypeOK
<1>1. SUFFICES ASSUME NEW i \in Row, i \in FreshDuplicates(g)'
               PROVE  incident'[i] = incident[i] /\ log'[i] = log[i]
  BY DEF FreshDuplicates, group, reportedAt
<1>2. incident'[i].status = "OPEN" /\ log'[i] = {"REPORTED"}
  BY <1>1 DEF FreshDuplicates
<1>3. CASE Start(r)
  BY <1>3 DEF Start, StartCreate, StartOffline, StartAcknowledge, StartReturn, StartResolve,
              StartCleaner, StartAdminUpdate, StartDelete
<1>4. CASE AcknowledgeWrite(r) \/ ReturnWrite(r) \/ ResolveWrite(r) \/ AdminWrite(r)
           \/ \E j \in Row : CloseSibling(r, j)
  <2>1. \/ UNCHANGED <<incident, log>>
        \/ \E j \in Row : /\ log' = [log EXCEPT ![j] = @ \cup {"HANDLED"}]
                          /\ \E f : incident' = [incident EXCEPT ![j] = f]
    <3>1. CASE AcknowledgeWrite(r) \/ ReturnWrite(r) \/ ResolveWrite(r) \/ AdminWrite(r)
      <4>1. task[r].row \in Row
        BY <3>1 DEF AcknowledgeWrite, ReturnWrite, ResolveWrite, AdminWrite, HandlerOK
      <4>2. UNCHANGED <<incident, log>> \/ \E f : Write(task[r].row, f)
        BY <3>1 DEF AcknowledgeWrite, ReturnWrite, ResolveWrite, AdminWrite, RowGone
      <4>. QED BY <4>1, <4>2 DEF Write
    <3>2. CASE \E j \in Row : CloseSibling(r, j)
      BY <3>2 DEF CloseSibling, Write
    <3>. QED BY <1>4, <3>1, <3>2
  <2>. QED BY <1>2, <2>1
<1>5. CASE OfflineClose(r)
  <2>1. CASE RowGone(r)
    BY <2>1 DEF RowGone
  <2>2. CASE ~RowGone(r)
    <3> DEFINE j == task[r].row
               row == Closed(j, HandledAt[task[r].client], task[r].cleaner)
    <3>1. incident' = [incident EXCEPT ![j] = row] /\ log' = log
      BY <1>5, <2>2 DEF OfflineClose
    <3>2. j \in Row /\ task[r].client \in Client /\ task[r].cleaner \in Cleaner \cup {NULL}
      BY <1>5 DEF OfflineClose, HandlerOK, TaskType
    <3>3. row.status = "RESOLVED"
      BY <3>2, ClosedRow, IncidentsAssumption DEF Time
    <3> HIDE DEF row, j
    <3>. QED BY <1>2, <3>1, <3>3
  <2>. QED BY <2>1, <2>2
<1>6. CASE CheckOpen(r) \/ CheckInProgress(r) \/ FindSiblings(r) \/ FindReport(r)
  BY <1>6 DEF CheckOpen, CheckInProgress, FindSiblings, FindReport
<1>7. CASE RecordAction(r)
  BY <1>2, <1>7 DEF RecordAction
<1>8. CASE EraseActions(r)
  BY <1>2, <1>8 DEF EraseActions
<1>9. CASE DeleteRows(r)
  BY <1>2, <1>9 DEF DeleteRows, Deleted, Unused
<1>. QED BY <1>3, <1>4, <1>5, <1>6, <1>7, <1>8, <1>9 DEF Continue

(* A request joins those that will insert by finding no open report.       *)
LEMMA InsertingOnlyByCheck ==
  ASSUME IInv, NEW r \in Request, Start(r) \/ Continue(r), ~CheckOpen(r), NEW g \in Group
  PROVE  Inserting(g)' \subseteq Inserting(g)
<1> USE DEF IInv, TypeOK
<1>1. \A q \in Request \ {r} : task'[q] = task[q]
  BY OthersKept
<1>2. SUFFICES ASSUME task'[r].pc \in {"checkProgress", "insert"}
               PROVE  /\ task[r].pc \in {"checkProgress", "insert"}
                      /\ task'[r].client = task[r].client
  BY <1>1 DEF Inserting
<1>3. CheckInProgress(r)
  <2>1. CASE EraseActions(r)
    BY <1>2, <2>1, NextTask DEF EraseActions
  <2>2. ASSUME NEW op \in AllOps, StartDelete(r, op) PROVE FALSE
    <3>1. task'[r].pc \in {"ok", "erase"}
      BY <2>2, NextTask DEF StartDelete, NoTask
    <3>. QED BY <1>2, <3>1
  <2>. QED BY <1>2, <2>1, <2>2, NextPc
<1>4. task[r] \in TaskType
  OBVIOUS
<1>5. [task[r] EXCEPT !.pc = "insert"].client = task[r].client
  BY <1>4 DEF TaskType
<1>6. Finish(r, "refused") \/ Goto(r, [task[r] EXCEPT !.pc = "insert"])
  BY <1>3 DEF CheckInProgress, Step
<1>. QED BY <1>2, <1>3, <1>5, <1>6, NextTask DEF CheckInProgress

(* The bound is inductive: a look for an open report that lets one through *)
(* found none, so all that will be fresh is still under way.               *)
LEMMA DuplicatesNext ==
  ASSUME IInv, DuplicatesOK, [Next]_vars
  PROVE  DuplicatesOK'
<1> USE IncidentsAssumption
<1>1. IInv'
  BY NextIInv
<1>2. SUFFICES ASSUME NEW g \in Group
               PROVE  /\ IsFiniteSet(FreshDuplicates(g)')
                      /\ Cardinality(FreshDuplicates(g)') + Cardinality(Inserting(g)')
                           <= Cardinality(Request)
  BY DEF DuplicatesOK
<1>3. /\ IsFiniteSet(FreshDuplicates(g)) /\ Inserting(g) \subseteq Request
      /\ Cardinality(FreshDuplicates(g)) + Cardinality(Inserting(g)) <= Cardinality(Request)
  BY DEF DuplicatesOK, Inserting
<1>4. \A i \in Row : Live(i) => reportedAt(i) \in Nat
  BY DEF IInv, TypeOK, RowType, reportedAt
<1>5. CASE /\ FreshDuplicates(g)' \subseteq FreshDuplicates(g)
           /\ Inserting(g)' \subseteq Inserting(g)
  <2> HIDE DEF FreshDuplicates, Inserting
  <2>. QED BY <1>3, <1>5, FewerKeepBound
<1>6. CASE UNCHANGED vars
  BY <1>5, <1>6 DEF vars, FreshDuplicates, Inserting, group, reportedAt
<1>7. CASE Tick
  <2>1. now \in Nat /\ now' = now + 1
    BY <1>7 DEF Tick, IInv, TypeOK, Time
  <2>2. \A i \in Row : Live(i) /\ Recent(reportedAt(i), now') => Recent(reportedAt(i), now)
    BY <1>4, <2>1 DEF Recent
  <2>3. FreshDuplicates(g)' \subseteq FreshDuplicates(g) /\ Inserting(g)' \subseteq Inserting(g)
    BY <1>7, <2>2 DEF Tick, FreshDuplicates, Inserting, group, reportedAt, Live, Status
  <2>. QED BY <1>5, <2>3
<1>8. ASSUME NEW r \in Request, Fault(r)
      PROVE  FreshDuplicates(g)' \subseteq FreshDuplicates(g) /\ Inserting(g)' \subseteq Inserting(g)
  <2>1. task'[r].pc = "refused" /\ \A q \in Request \ {r} : task'[q] = task[q]
    BY <1>8, NextTask DEF Fault, Finish, Goto, IInv, TypeOK
  <2>2. UNCHANGED <<now, incident, log>>
    BY <1>8 DEF Fault
  <2>. QED BY <2>1, <2>2 DEF FreshDuplicates, Inserting, group, reportedAt
<1>9. ASSUME NEW r \in Request, Start(r) \/ Continue(r), ~Insert(r), ~CheckOpen(r)
      PROVE  FreshDuplicates(g)' \subseteq FreshDuplicates(g) /\ Inserting(g)' \subseteq Inserting(g)
  <2>1. now' = now
    BY <1>9, ClockStands
  <2>. QED BY <1>1, <1>9, <2>1, FreshOnlyByInsert, InsertingOnlyByCheck
<1>10. ASSUME NEW r \in Request, CheckOpen(r)
       PROVE  /\ IsFiniteSet(FreshDuplicates(g)')
              /\ Cardinality(FreshDuplicates(g)') + Cardinality(Inserting(g)')
                   <= Cardinality(Request)
  <2>1. /\ UNCHANGED <<now, incident, log>> /\ task[r].pc = "checkOpen"
        /\ \A q \in Request \ {r} : task'[q] = task[q]
    BY <1>10, OthersKept DEF CheckOpen, Continue
  <2>2. FreshDuplicates(g)' = FreshDuplicates(g)
    BY <2>1 DEF FreshDuplicates, group, reportedAt
  <2>3. CASE Inserting(g)' \subseteq Inserting(g)
    BY <1>5, <2>2, <2>3
  <2>4. CASE ~(Inserting(g)' \subseteq Inserting(g))
    <3>1. task'[r].pc = "checkProgress" /\ GroupOf[task'[r].client] = g
      <4>1. r \in Inserting(g)'
        BY <2>1, <2>4 DEF Inserting
      <4>2. task'[r].pc \in {"refused", "checkProgress"}
        BY <1>10, NextTask DEF CheckOpen, IInv
      <4>. QED BY <4>1, <4>2 DEF Inserting
    <3>2. task'[r].client = task[r].client /\ RecentOpen(GroupOf[task[r].client], task[r].at) = {}
      <4>1. task[r] \in TaskType
        BY DEF IInv, TypeOK
      <4>2. [task[r] EXCEPT !.pc = "checkProgress"].client = task[r].client
        BY <4>1 DEF TaskType
      <4>. QED BY <1>10, <3>1, <4>2, NextTask DEF CheckOpen, Step, IInv
    <3>3. task[r].at \in Nat /\ now \in Nat /\ task[r].at <= now
      BY <2>1 DEF IInv, TypeOK, HandlerOK, Time
    <3>4. \A i \in Row : Live(i) /\ Recent(reportedAt(i), now) => Recent(reportedAt(i), task[r].at)
      BY <1>4, <3>3 DEF Recent
    <3>5. FreshDuplicates(g) = {}
      BY <3>1, <3>2, <3>4 DEF FreshDuplicates, RecentOpen, Live, Status
    <3>6. Cardinality(FreshDuplicates(g)') = 0 /\ IsFiniteSet(FreshDuplicates(g)')
      BY <2>2, <3>5, FS_EmptySet
    <3>7. Inserting(g)' \subseteq Request
      BY DEF Inserting
    <3>8. Cardinality(Inserting(g)') <= Cardinality(Request) /\ Cardinality(Inserting(g)') \in Nat
      BY <3>7, FS_Subset, FS_CardinalityType
    <3>. QED BY <3>6, <3>8
  <2>. QED BY <2>3, <2>4
<1>11. ASSUME NEW r \in Request, Insert(r)
       PROVE  /\ IsFiniteSet(FreshDuplicates(g)')
              /\ Cardinality(FreshDuplicates(g)') + Cardinality(Inserting(g)')
                   <= Cardinality(Request)
  <2>1. /\ task[r].pc = "insert" /\ now' = now
        /\ \A q \in Request \ {r} : task'[q] = task[q]
    BY <1>11, OthersKept DEF Insert, Continue
  <2>2. task'[r].pc \in {"ok", "refused"}
    BY <1>11, NextTask DEF Insert, IInv
  <2>3. Inserting(g)' \subseteq Inserting(g) \ {r}
    BY <2>1, <2>2 DEF Inserting
  <2>4. CASE UNCHANGED <<incident, log>>
    BY <1>5, <2>1, <2>3, <2>4 DEF FreshDuplicates, group, reportedAt
  <2>5. ASSUME NEW i \in Row, incident' = [incident EXCEPT ![i] = NewRow(task[r].client)],
               log' = [log EXCEPT ![i] = {"REPORTED"}]
        PROVE  /\ IsFiniteSet(FreshDuplicates(g)')
               /\ Cardinality(FreshDuplicates(g)') + Cardinality(Inserting(g)')
                    <= Cardinality(Request)
    <3>1. incident'[i].client = task[r].client
      <4>1. NewRow(task[r].client).client = task[r].client
        BY DEF NewRow, Unused
      <4>. QED BY <2>5, <4>1 DEF IInv, TypeOK
    <3>2. \A j \in Row \ {i} : incident'[j] = incident[j] /\ log'[j] = log[j]
      BY <2>5 DEF IInv, TypeOK
    <3>3. FreshDuplicates(g)' \subseteq FreshDuplicates(g) \cup {i}
      BY <2>1, <3>2 DEF FreshDuplicates, group, reportedAt
    <3>4. CASE GroupOf[task[r].client] = g
      <4>1. r \in Inserting(g)
        BY <2>1, <3>4 DEF Inserting
      <4> HIDE DEF FreshDuplicates, Inserting
      <4>2. /\ IsFiniteSet(FreshDuplicates(g) \cup {i})
            /\ Cardinality(FreshDuplicates(g) \cup {i}) + Cardinality(Inserting(g) \ {r})
                 <= Cardinality(Request)
        BY <1>3, <4>1, RowForRequest
      <4>3. Inserting(g) \ {r} \in SUBSET Request
        BY <1>3
      <4>. QED BY <2>3, <3>3, <4>2, <4>3, FewerKeepBound
    <3>5. CASE GroupOf[task[r].client] # g
      <4>1. i \notin FreshDuplicates(g)'
        BY <3>1, <3>5 DEF FreshDuplicates, group
      <4>. QED BY <1>5, <2>3, <3>3, <4>1
    <3>. QED BY <3>4, <3>5
  <2>. QED BY <1>11, <2>4, <2>5 DEF Insert
<1>. QED BY <1>5, <1>6, <1>7, <1>8, <1>9, <1>10, <1>11 DEF Next

(* However many reports of one problem come in, and whatever handlers,     *)
(* deletions and failures run between their awaits: at any time no more of *)
(* the recent open rows that nobody has handled are about one problem than *)
(* requests run together.                                                  *)
THEOREM DuplicatesAreBounded == Spec => []DuplicatesBounded
<1>1. Init => DuplicatesOK
  <2> SUFFICES ASSUME Init, NEW g \in Group
               PROVE  /\ IsFiniteSet(FreshDuplicates(g))
                      /\ Cardinality(FreshDuplicates(g)) + Cardinality(Inserting(g))
                           <= Cardinality(Request)
    BY DEF DuplicatesOK
  <2>1. FreshDuplicates(g) = {}
    BY DEF Init, FreshDuplicates, Unused
  <2>2. Inserting(g) = {}
    BY NoTaskType, Pcs DEF Init, Inserting
  <2>3. Cardinality(Request) \in Nat
    BY IncidentsAssumption, FS_CardinalityType
  <2>. QED BY <2>1, <2>2, <2>3, FS_EmptySet
<1>2. IInv /\ DuplicatesOK /\ [Next]_vars => DuplicatesOK'
  BY DuplicatesNext
<1>3. DuplicatesOK => DuplicatesBounded
  <2> SUFFICES ASSUME DuplicatesOK, NEW g \in Group
               PROVE  Cardinality(FreshDuplicates(g)) <= Cardinality(Request)
    BY DEF DuplicatesBounded
  <2>1. Inserting(g) \subseteq Request
    BY DEF Inserting
  <2>2. /\ Cardinality(FreshDuplicates(g)) \in Nat /\ Cardinality(Inserting(g)) \in Nat
        /\ Cardinality(Request) \in Nat
        /\ Cardinality(FreshDuplicates(g)) + Cardinality(Inserting(g)) <= Cardinality(Request)
    BY <2>1, IncidentsAssumption, FS_Subset, FS_CardinalityType DEF DuplicatesOK
  <2>. QED BY <2>2
<1>. QED BY <1>1, <1>2, <1>3, IInvAlways, PTL DEF Spec
=============================================================================
