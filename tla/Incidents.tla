----------------------------- MODULE Incidents -----------------------------
(***************************************************************************)
(* The incident lifecycle of the server (IncidentsService, and the daily   *)
(* retention sweep of SchedulerService).                                   *)
(*                                                                         *)
(* Every HTTP request is a handler that runs on the Node event loop and    *)
(* gives up control at each `await`.  No handler opens a transaction, so   *)
(* the unit of atomicity is one Prisma call: a handler is a sequence of    *)
(* actions below, and the actions of different handlers interleave.  What  *)
(* a handler read before an await, and uses after it, is kept in task[r].  *)
(***************************************************************************)
EXTENDS Naturals, FiniteSets

CONSTANTS
  Row,           (* primary keys the database may hand out                 *)
  Client,        (* clientId of a report: one per press on a tablet        *)
  Group,         (* (restroom, issue type) pairs                           *)
  PositiveGroup, (* the groups whose issue type is positive_feedback       *)
  Cleaner,       (* users with an idNumber that is active                  *)
  Request,       (* handler instances that can be in flight together       *)
  Ops,           (* the operations the callers use in this instance        *)
  GroupOf,       (* GroupOf[c]: the group report c is about                *)
  ReportedAt,    (* ReportedAt[c]: the tablet's clock when c was pressed   *)
  HandledAt,     (* HandledAt[c]: performedAt of the resolution queued     *)
                 (*   on the tablet for report c; the server checks        *)
                 (*   neither clock, they may be ahead of its own          *)
  Window,        (* the de-duplication window of create, in ticks          *)
  Retention,     (* age from which the sweep removes a row                 *)
  MaxTime,       (* bound: last value of the clock                         *)
  MaxFaults,     (* bound: rejected database calls and server deaths       *)
  NULL

AllOps == {"create", "acknowledge", "return", "resolve", "adminUpdate",
           "offline", "deleteResolved", "deleteOlder", "deleteAll", "sweep"}

ASSUME IncidentsAssumption ==
  /\ PositiveGroup \subseteq Group
  /\ GroupOf \in [Client -> Group]
  /\ MaxTime \in Nat /\ Window \in Nat /\ Retention \in Nat /\ MaxFaults \in Nat
  /\ ReportedAt \in [Client -> 0..MaxTime]
  /\ HandledAt \in [Client -> 0..MaxTime]
  /\ IsFiniteSet(Request)
  /\ Ops \subseteq AllOps
  /\ NULL \notin Row \cup Client \cup Cleaner \cup Nat
                 \cup {"OPEN", "IN_PROGRESS", "RESOLVED"} \cup AllOps

VARIABLES
  now,       (* the server's clock                                         *)
  incident,  (* incident[i]: the row with primary key i                    *)
  log,       (* log[i]: the kinds of IncidentAction rows of incident i     *)
  task,      (* task[r]: the handler in flight in request slot r           *)
  faults,    (* how many calls were rejected so far                        *)
  owed       (* history: the open rows of its group a resolution met when  *)
             (*   it closed its target and that nobody has closed since    *)

vars == <<now, incident, log, task, faults, owed>>

Status    == {"OPEN", "IN_PROGRESS", "RESOLVED"}
Waiting   == {"OPEN", "IN_PROGRESS"}
Time      == 0..MaxTime
(* The IncidentAction rows the properties tell apart: the REPORTED one,    *)
(* and the RESOLVED one that carries the clientId of a queued resolution,  *)
(* the key it is de-duplicated on.  HANDLED stands for the entries the     *)
(* other handlers nest in their update (ACKNOWLEDGED, ESCALATED, RESOLVED). *)
Entry     == {"REPORTED", "HANDLED", "OFFLINE"}
(* "ok" is a 2xx answer (or no request yet), "refused" any error status.   *)
Finished  == {"ok", "refused"}
Pc        == Finished \cup {"checkOpen", "checkProgress", "insert",
                "ackWrite", "returnWrite", "resolveWrite", "adminWrite",
                "siblings", "closing", "findReport", "recordAction",
                "offlineClose", "erase", "deleteRows"}

Unused == [client |-> NULL, status |-> "UNUSED", createdAt |-> NULL,
           acknowledgedAt |-> NULL, resolvedAt |-> NULL, assignedCleaner |-> NULL]
Deleted == [Unused EXCEPT !.status = "DELETED"]

NoTask(pc) == [pc |-> pc, op |-> NULL, client |-> NULL, row |-> NULL, cleaner |-> NULL,
               status |-> NULL, at |-> NULL, todo |-> {}]

Live(i)  == incident[i].status \in Status
group(i) == GroupOf[incident[i].client]
reportedAt(i) == ReportedAt[incident[i].client]
(* The other rows of the group that still wait for somebody: the where     *)
(* clause both resolve() and adminUpdate() use.                            *)
Siblings(i, k) ==
  {j \in Row \ {i} : incident[j].status \in Waiting /\ group(j) = GroupOf[k]}
RowsOf(c) == {i \in Row : Live(i) /\ incident[i].client = c}

RowType  == [client : Client \cup {NULL}, status : Status \cup {"UNUSED", "DELETED"},
             createdAt : Time \cup {NULL}, acknowledgedAt : Time \cup {NULL},
             resolvedAt : Time \cup {NULL}, assignedCleaner : Cleaner \cup {NULL}]
TaskType == [pc : Pc, op : AllOps \cup {NULL}, client : Client \cup {NULL},
             row : Row \cup {NULL}, cleaner : Cleaner \cup {NULL},
             status : Status \cup {NULL}, at : Time \cup {NULL}, todo : SUBSET Row]

TypeOK ==
  /\ now \in Time
  /\ incident \in [Row -> RowType]
  /\ \A i \in Row : incident[i].client # NULL <=> Live(i)
  /\ log \in [Row -> SUBSET Entry]
  /\ task \in [Request -> TaskType]
  /\ faults \in 0..MaxFaults
  /\ owed \in [Request -> SUBSET Row]

Init ==
  /\ now = 0
  /\ incident = [i \in Row |-> Unused]
  /\ log = [i \in Row |-> {}]
  /\ task = [r \in Request |-> NoTask("ok")]
  /\ faults = 0
  /\ owed = [r \in Request |-> {}]

-----------------------------------------------------------------------------
(* Helpers of the handlers.                                                *)

Goto(r, t)  == task' = [task EXCEPT ![r] = t]
Finish(r, outcome) == Goto(r, NoTask(outcome))
Step(r, pc) == Goto(r, [task[r] EXCEPT !.pc = pc])

(* A new request takes a free slot; nothing is remembered of the last one. *)
Begin(r, op) == op \in Ops /\ task[r].pc \in Finished

(* One incident.update, which nests the creation of its IncidentAction.    *)
Write(i, fields) ==
  /\ incident' = [incident EXCEPT ![i] = fields]
  /\ log' = [log EXCEPT ![i] = @ \cup {"HANDLED"}]

(* Prisma rejects an update of a row that is gone (P2025).                 *)
RowGone(r) == ~Live(task[r].row) /\ Finish(r, "refused") /\ UNCHANGED <<incident, log, owed>>

(* Whoever closes i, it is no longer owed to anybody.                      *)
Settle(i) == owed' = [q \in Request |-> owed[q] \ {i}]

-----------------------------------------------------------------------------
(* POST /incidents.                                                        *)

(* findUnique(clientId), then the cut-off of the window is computed.       *)
StartCreate(r, c) ==
  /\ Begin(r, "create")
  /\ IF RowsOf(c) # {}
       THEN Finish(r, "ok")
       ELSE Goto(r, [NoTask("checkOpen") EXCEPT !.client = c, !.at = now])
  /\ owed' = [owed EXCEPT ![r] = {}]
  /\ UNCHANGED <<now, incident, log, faults>>

Recent(t, since) == t + Window >= since

(* Mutant: the comparison the wrong way round, reports before the cut-off. *)
OlderOpen(g, since) ==
  {i \in Row : /\ incident[i].status = "OPEN" /\ group(i) = g
               /\ ~Recent(reportedAt(i), since)}

RecentOpen(g, since) ==
  {i \in Row : /\ incident[i].status = "OPEN" /\ group(i) = g
               /\ Recent(reportedAt(i), since)}
RecentInProgress(g, since) ==
  {i \in Row : /\ incident[i].status = "IN_PROGRESS" /\ group(i) = g
               /\ Recent(incident[i].acknowledgedAt, since)}

CheckOpen(r) ==
  /\ task[r].pc = "checkOpen"
  /\ IF RecentOpen(GroupOf[task[r].client], task[r].at) # {}
       THEN Finish(r, "refused")
       ELSE Step(r, "checkProgress")
  /\ UNCHANGED <<now, incident, log, faults, owed>>

CheckInProgress(r) ==
  /\ task[r].pc = "checkProgress"
  /\ IF RecentInProgress(GroupOf[task[r].client], task[r].at) # {}
       THEN Finish(r, "refused")
       ELSE Step(r, "insert")
  /\ UNCHANGED <<now, incident, log, faults, owed>>

(* The UNIQUE index on clientId rejects a second row for a report (P2002). *)
ClientIdTaken(c) == RowsOf(c) # {}

NewRow(c) ==
  LET positive == GroupOf[c] \in PositiveGroup
  IN  [Unused EXCEPT !.client = c, !.createdAt = now,
                     !.status = IF positive THEN "RESOLVED" ELSE "OPEN",
                     !.resolvedAt = IF positive THEN ReportedAt[c] ELSE NULL]

Insert(r) ==
  /\ task[r].pc = "insert"
  /\ \/ /\ ClientIdTaken(task[r].client)
        /\ Finish(r, "refused")
        /\ UNCHANGED <<incident, log>>
     \/ \E i \in Row :
          /\ ~ClientIdTaken(task[r].client)
          /\ incident[i].status = "UNUSED"
          /\ incident' = [incident EXCEPT ![i] = NewRow(task[r].client)]
          /\ log' = [log EXCEPT ![i] = {"REPORTED"}]
          /\ Finish(r, "ok")
  /\ UNCHANGED <<now, faults, owed>>

-----------------------------------------------------------------------------
(* The handlers of a cleaner's tap: PATCH /incidents/:id/acknowledge,      *)
(* /return and /resolve.  The first step looks the cleaner up; the row is  *)
(* whatever id the caller's screen still shows, so it may be gone.         *)

StartCleaner(r, op, pc, i, k) ==
  /\ Begin(r, op)
  /\ incident[i].status # "UNUSED"
  /\ IF k = NULL /\ op # "return"     \* 404: no active user with this idNumber
       THEN Finish(r, "refused")
       ELSE Goto(r, [NoTask(pc) EXCEPT !.row = i, !.cleaner = k])
  /\ owed' = [owed EXCEPT ![r] = {}]
  /\ UNCHANGED <<now, incident, log, faults>>

StartAcknowledge(r, i, k) == StartCleaner(r, "acknowledge", "ackWrite", i, k)
StartReturn(r, i, k)      == StartCleaner(r, "return", "returnWrite", i, k)
StartResolve(r, i, k)     == StartCleaner(r, "resolve", "resolveWrite", i, k)

(* No status guard: a row that was resolved meanwhile is written as well.  *)
AcknowledgeWrite(r) ==
  /\ task[r].pc = "ackWrite"
  /\ \/ RowGone(r)
     \/ /\ Live(task[r].row)
        /\ Write(task[r].row,
                 [incident[task[r].row] EXCEPT !.status = "IN_PROGRESS",
                    !.acknowledgedAt = now, !.assignedCleaner = task[r].cleaner])
        /\ Finish(r, "ok")
        /\ UNCHANGED owed
  /\ UNCHANGED <<now, faults>>

ReturnWrite(r) ==
  /\ task[r].pc = "returnWrite"
  /\ \/ RowGone(r)
     \/ /\ Live(task[r].row)
        /\ Write(task[r].row,
                 [incident[task[r].row] EXCEPT !.status = "OPEN",
                    !.acknowledgedAt = NULL, !.assignedCleaner = NULL])
        /\ Finish(r, "ok")
        /\ UNCHANGED owed
  /\ UNCHANGED <<now, faults>>

(* Mutant: closing forgets resolvedAt.                                     *)
ClosedUnstamped(i, at, k) == [incident[i] EXCEPT !.status = "RESOLVED"]

(* The row under repair closes at once; its siblings follow one by one.    *)
Closed(i, at, k) ==
  [incident[i] EXCEPT !.status = "RESOLVED", !.resolvedAt = at,
                      !.assignedCleaner = IF k = NULL THEN @ ELSE k]

MeetSiblings(r, i, k) ==
  /\ owed' = [q \in Request |-> IF q = r THEN Siblings(i, incident[i].client)
                                         ELSE owed[q] \ {i}]
  /\ Goto(r, [NoTask("siblings") EXCEPT !.row = i, !.client = incident[i].client,
                                        !.cleaner = k])

ResolveWrite(r) ==
  /\ task[r].pc = "resolveWrite"
  /\ \/ RowGone(r)
     \/ /\ Live(task[r].row)
        /\ Write(task[r].row, Closed(task[r].row, now, task[r].cleaner))
        /\ MeetSiblings(r, task[r].row, task[r].cleaner)
  /\ UNCHANGED <<now, faults>>

(* PATCH /incidents/:id of the admin screens: ownership check, then one    *)
(* update with whichever fields the form sent.                             *)
StartAdminUpdate(r, i, s, k) ==
  /\ Begin(r, "adminUpdate")
  /\ incident[i].status # "UNUSED"
  /\ IF Live(i)
       THEN Goto(r, [NoTask("adminWrite") EXCEPT !.row = i, !.status = s, !.cleaner = k])
       ELSE Finish(r, "refused")
  /\ owed' = [owed EXCEPT ![r] = {}]
  /\ UNCHANGED <<now, incident, log, faults>>

(* Mutant: only a resolution is stamped by the admin's update.             *)
AdminFieldsUnstamped(i, s, k) ==
  [incident[i] EXCEPT !.status = IF s = NULL THEN @ ELSE s,
                      !.resolvedAt = IF s = "RESOLVED" THEN now ELSE @]

AdminFields(i, s, k) ==
  [incident[i] EXCEPT
     !.status = IF s = NULL THEN @ ELSE s,
     !.acknowledgedAt = IF s = "IN_PROGRESS" THEN now ELSE @,
     !.resolvedAt = IF s = "RESOLVED" THEN now ELSE @,
     !.assignedCleaner = IF k = NULL THEN @ ELSE k]

AdminWrite(r) ==
  LET i == task[r].row
      s == task[r].status
  IN
  /\ task[r].pc = "adminWrite"
  /\ \/ RowGone(r)
     \/ /\ Live(i)
        /\ Write(i, AdminFields(i, s, task[r].cleaner))
        /\ IF s = "RESOLVED"
             THEN MeetSiblings(r, i, NULL)     \* the siblings keep their assignee
             ELSE Finish(r, "ok") /\ UNCHANGED owed
  /\ UNCHANGED <<now, faults>>

(* findMany of the open siblings, then one update per id of that list.     *)
FindSiblings(r) ==
  LET found == Siblings(task[r].row, task[r].client)
  IN
  /\ task[r].pc = "siblings"
  /\ IF found = {}
       THEN Finish(r, "ok")
       ELSE Goto(r, [task[r] EXCEPT !.pc = "closing", !.todo = found, !.at = now])
  /\ UNCHANGED <<now, incident, log, faults, owed>>

(* Mutant: the loop ends after its first sibling.                          *)
CloseFirstSibling(r, j) ==
  /\ task[r].pc = "closing" /\ j \in task[r].todo /\ Live(j)
  /\ Write(j, Closed(j, task[r].at, task[r].cleaner))
  /\ Settle(j)
  /\ Finish(r, "ok")
  /\ UNCHANGED <<now, faults>>

(* Mutant: after each sibling the list is read again.                      *)
CloseAndListAgain(r, j) ==
  /\ task[r].pc = "closing" /\ j \in task[r].todo /\ Live(j)
  /\ Write(j, Closed(j, task[r].at, task[r].cleaner))
  /\ Settle(j)
  /\ Step(r, "siblings")
  /\ UNCHANGED <<now, faults>>

CloseSibling(r, j) ==
  /\ task[r].pc = "closing" /\ j \in task[r].todo
  /\ \/ /\ ~Live(j)
        /\ Finish(r, "refused")
        /\ UNCHANGED <<incident, log, owed>>
     \/ /\ Live(j)
        /\ Write(j, Closed(j, task[r].at, task[r].cleaner))
        /\ Settle(j)
        /\ IF task[r].todo = {j}
             THEN Finish(r, "ok")
             ELSE Goto(r, [task[r] EXCEPT !.todo = @ \ {j}])
  /\ UNCHANGED <<now, faults>>

-----------------------------------------------------------------------------
(* One queued resolution of POST /incidents/sync (applyOfflineAction).     *)

(* IncidentAction.findUnique(clientId): done before, nothing to do.        *)
StartOffline(r, c, k) ==
  /\ Begin(r, "offline")
  /\ IF \E i \in RowsOf(c) : "OFFLINE" \in log[i]
       THEN Finish(r, "ok")
       ELSE Goto(r, [NoTask("findReport") EXCEPT !.client = c, !.cleaner = k])
  /\ owed' = [owed EXCEPT ![r] = {}]
  /\ UNCHANGED <<now, incident, log, faults>>

(* The status and the assignee read here are the ones used after the next  *)
(* two calls.                                                              *)
FindReport(r) ==
  /\ task[r].pc = "findReport"
  /\ \/ /\ RowsOf(task[r].client) = {}
        /\ Finish(r, "refused")
     \/ \E i \in RowsOf(task[r].client) :
          Goto(r, [task[r] EXCEPT !.pc = "recordAction", !.row = i,
                     !.status = incident[i].status,
                     !.cleaner = IF @ = NULL THEN incident[i].assignedCleaner ELSE @])
  /\ UNCHANGED <<now, incident, log, faults, owed>>

(* Mutant: the action row alone, the incident keeps its status.            *)
RecordActionOnly(r) ==
  /\ task[r].pc = "recordAction"
  /\ log' = [log EXCEPT ![task[r].row] = @ \cup {"OFFLINE"}]
  /\ Finish(r, "ok")
  /\ UNCHANGED <<now, incident, faults, owed>>

(* A duplicate loses on the UNIQUE clientId, a deleted row on the foreign  *)
(* key; both reject the call.                                              *)
RecordAction(r) ==
  LET i == task[r].row
  IN
  /\ task[r].pc = "recordAction"
  /\ IF Live(i) /\ "OFFLINE" \notin log[i]
       THEN /\ log' = [log EXCEPT ![i] = @ \cup {"OFFLINE"}]
            /\ IF task[r].status = "RESOLVED" THEN Finish(r, "ok") ELSE Step(r, "offlineClose")
       ELSE Finish(r, "refused") /\ UNCHANGED log
  /\ UNCHANGED <<now, incident, faults, owed>>

(* The entry of this update is the one RecordAction has written.           *)
OfflineClose(r) ==
  /\ task[r].pc = "offlineClose"
  /\ \/ RowGone(r)
     \/ /\ Live(task[r].row)
        /\ incident' = [incident EXCEPT ![task[r].row] =
                          Closed(task[r].row, HandledAt[task[r].client], task[r].cleaner)]
        /\ UNCHANGED log
        /\ Settle(task[r].row)
        /\ Finish(r, "ok")
  /\ UNCHANGED <<now, faults>>

-----------------------------------------------------------------------------
(* DELETE /incidents/bulk and the retention sweep: list the ids, delete    *)
(* their actions, delete the rows.                                         *)

Matching(op, at) ==
  {i \in Row : /\ Live(i)
               /\ CASE op = "deleteResolved" -> incident[i].status = "RESOLVED"
                    [] op = "deleteOlder"    -> reportedAt(i) + Retention <= at
                    [] op = "sweep"          -> reportedAt(i) + Retention < at
                    [] OTHER                 -> TRUE}

StartDelete(r, op) ==
  LET found == Matching(op, now)
  IN
  /\ op \in {"deleteResolved", "deleteOlder", "deleteAll", "sweep"}
  /\ Begin(r, op)
  /\ IF op = "sweep" /\ found = {}
       THEN Finish(r, "ok")
       ELSE Goto(r, [NoTask("erase") EXCEPT !.op = op, !.todo = found, !.at = now])
  /\ owed' = [owed EXCEPT ![r] = {}]
  /\ UNCHANGED <<now, incident, log, faults>>

EraseActions(r) ==
  /\ task[r].pc = "erase"
  /\ log' = [i \in Row |-> IF i \in task[r].todo THEN {} ELSE log[i]]
  /\ Step(r, "deleteRows")
  /\ UNCHANGED <<now, incident, faults, owed>>

(* Mutant: of the listed rows only the resolved ones are deleted.          *)
DeleteResolvedRows(r) ==
  LET doomed == {i \in task[r].todo : incident[i].status = "RESOLVED"}
  IN
  /\ task[r].pc = "deleteRows"
  /\ incident' = [i \in Row |-> IF i \in doomed THEN Deleted ELSE incident[i]]
  /\ log' = [i \in Row |-> IF i \in doomed THEN {} ELSE log[i]]
  /\ owed' = [q \in Request |-> owed[q] \ doomed]
  /\ Finish(r, "ok")
  /\ UNCHANGED <<now, faults>>

(* deleteBulk repeats its where clause, with the cut-off of its start; the *)
(* sweep names the ids it listed.  Actions left on a row go with it        *)
(* (onDelete: Cascade).                                                    *)
DeleteRows(r) ==
  LET doomed == IF task[r].op = "sweep" THEN {i \in task[r].todo : Live(i)}
                                        ELSE Matching(task[r].op, task[r].at)
  IN
  /\ task[r].pc = "deleteRows"
  /\ incident' = [i \in Row |-> IF i \in doomed THEN Deleted ELSE incident[i]]
  /\ log' = [i \in Row |-> IF i \in doomed THEN {} ELSE log[i]]
  /\ owed' = [q \in Request |-> owed[q] \ doomed]
  /\ Finish(r, "ok")
  /\ UNCHANGED <<now, faults>>

-----------------------------------------------------------------------------
(* The environment.                                                        *)

Tick == now < MaxTime /\ now' = now + 1 /\ UNCHANGED <<incident, log, task, faults, owed>>

(* The pending call of a handler is rejected (lost connection, timeout) or *)
(* the process dies under it: what it wrote so far stays written.          *)
Fault(r) ==
  /\ faults < MaxFaults
  /\ task[r].pc \notin Finished
  /\ Finish(r, "refused")
  /\ faults' = faults + 1
  /\ UNCHANGED <<now, incident, log, owed>>

Start(r) ==
  \/ \E c \in Client : StartCreate(r, c) \/ \E k \in Cleaner \cup {NULL} : StartOffline(r, c, k)
  \/ \E i \in Row, k \in Cleaner \cup {NULL} :
       \/ StartAcknowledge(r, i, k)
       \/ StartReturn(r, i, k)
       \/ StartResolve(r, i, k)
       \/ \E s \in Status \cup {NULL} : StartAdminUpdate(r, i, s, k)
  \/ \E op \in AllOps : StartDelete(r, op)

(* The next await of the handler in slot r returns.                        *)
Continue(r) ==
  \/ CheckOpen(r) \/ CheckInProgress(r) \/ Insert(r)
  \/ AcknowledgeWrite(r) \/ ReturnWrite(r) \/ ResolveWrite(r) \/ AdminWrite(r)
  \/ FindSiblings(r) \/ \E j \in Row : CloseSibling(r, j)
  \/ FindReport(r) \/ RecordAction(r) \/ OfflineClose(r)
  \/ EraseActions(r) \/ DeleteRows(r)

Next == Tick \/ \E r \in Request : Start(r) \/ Continue(r) \/ Fault(r)

Spec == Init /\ [][Next]_vars

(* Node keeps running and PostgreSQL answers every call, so a handler that *)
(* was started goes on to its end.  Callers promise nothing.               *)
Fairness == \A r \in Request : WF_vars(Continue(r))
FairSpec == Spec /\ Fairness

-----------------------------------------------------------------------------
(* Properties.                                                             *)

(* What the look for a recent report leaves of the duplicates: two reports *)
(* may overlap and both be stored, but never more than there are requests  *)
(* under way together; one that starts when a report of its group is       *)
(* stored, open and recent is refused.  Counted are the rows nobody has    *)
(* handled yet, since a return to the queue makes no report.               *)
FreshDuplicates(g) ==
  {i \in Row : /\ incident[i].status = "OPEN" /\ group(i) = g
               /\ Recent(reportedAt(i), now) /\ log[i] = {"REPORTED"}}
DuplicatesBounded ==
  \A g \in Group : Cardinality(FreshDuplicates(g)) <= Cardinality(Request)

(* The row can be interpreted from its columns whatever handlers raced     *)
(* over it: an IN_PROGRESS row says since when, a RESOLVED row says when.  *)
(* The age and the response time of a report are differences of these      *)
(* columns with reportedAt, which is the tablet's clock: where that clock  *)
(* was not ahead of the server's, neither is negative.                     *)
ClockPlausible(row) ==
  ReportedAt[row.client] <= row.createdAt /\ ReportedAt[row.client] <= HandledAt[row.client]
Stamped(row) ==
  /\ row.status = "IN_PROGRESS" =>
       /\ row.acknowledgedAt # NULL
       /\ ClockPlausible(row) => ReportedAt[row.client] <= row.acknowledgedAt
  /\ row.status = "RESOLVED" =>
       /\ row.resolvedAt # NULL
       /\ ClockPlausible(row) => ReportedAt[row.client] <= row.resolvedAt
StampsMatchStatus == \A i \in Row : Stamped(incident[i])

(* The inductive strengthening of TypeOK and of the invariants that are    *)
(* proved: what a handler carries over its awaits is about the row it was  *)
(* read from, and no older or newer than the code believes.                *)
HandlerOK(t) ==
  /\ t.pc \in {"checkOpen", "checkProgress", "insert"} =>
       t.client \in Client /\ t.at \in Time /\ t.at <= now
  /\ t.pc \in {"ackWrite", "returnWrite", "resolveWrite", "adminWrite"} => t.row \in Row
  /\ t.pc \in {"siblings", "closing"} => t.row \in Row /\ t.client \in Client
  /\ t.pc = "closing" =>
       /\ t.at \in Time
       /\ \A j \in t.todo : incident[j].status # "UNUSED"
       /\ \A j \in t.todo : Live(j) => incident[j].createdAt <= t.at
  /\ t.pc \in {"findReport", "recordAction", "offlineClose"} => t.client \in Client
  /\ t.pc \in {"recordAction", "offlineClose"} =>
       /\ t.row \in Row /\ incident[t.row].status # "UNUSED"
       /\ Live(t.row) => incident[t.row].client = t.client
  /\ (t.pc = "recordAction" /\ t.status = "RESOLVED" /\ Live(t.row)) =>
       incident[t.row].resolvedAt # NULL

AgesOK ==
  \A i \in Row : IF Live(i) THEN incident[i].createdAt \in Time /\ incident[i].createdAt <= now
                            ELSE log[i] = {}

(* An owed row still waits, and the handler that owes it is on its way.    *)
OwedOK ==
  \A r \in Request :
    /\ \A j \in owed[r] : incident[j].status \in Waiting
    /\ task[r].pc = "siblings" => owed[r] \subseteq Siblings(task[r].row, task[r].client)
    /\ task[r].pc = "closing" => owed[r] \subseteq task[r].todo
    /\ task[r].pc \notin {"siblings", "closing", "refused"} => owed[r] = {}

IInv ==
  /\ TypeOK /\ AgesOK /\ OwedOK /\ \A r \in Request : HandlerOK(task[r])
  /\ StampsMatchStatus

(* Closing one incident closes the duplicates: when resolve() or the       *)
(* admin's RESOLVED answers without an error, every row of the group that  *)
(* waited when the target was closed has since been closed or deleted,     *)
(* whatever acknowledges, returns and deletes ran between its awaits.      *)
AnsweredResolveClosedGroup ==
  \A r \in Request : task[r].pc = "ok" => owed[r] = {}

(* The comment on applyOfflineAction: a resolution recorded offline closes *)
(* the incident.  An incident that carries the action has been resolved    *)
(* (resolvedAt is never cleared) or its handler is about to do it.         *)
OfflineResolutionLands ==
  \A i \in Row :
    "OFFLINE" \in log[i] =>
      \/ incident[i].resolvedAt # NULL
      \/ \E r \in Request : task[r].pc = "offlineClose" /\ task[r].row = i

(* Deleting in bulk never strips a surviving incident of its history: once *)
(* no handler is in flight, every row still has its REPORTED action.  Not  *)
(* true of the scope "resolved": a row reopened between its two calls is   *)
(* left without.                                                           *)
EveryRowHasHistory ==
  (\A r \in Request : task[r].pc \in Finished) =>
    \A i \in Row : Live(i) => "REPORTED" \in log[i]

(* Every handler that was started answers in the end: the loop over the    *)
(* siblings ends although others return the rows it closes to the queue    *)
(* and new reports come in.                                                *)
EveryRequestIsAnswered == \A r \in Request : []<>(task[r].pc \in Finished)

-----------------------------------------------------------------------------
(* Promises of comments and documents the code does not keep.  The README   *)
(* gives the constants under which TLC finds each counterexample.           *)

(* create's own comment: "prevent duplicates".  No report is stored while  *)
(* an OPEN row of its group, reported within the window, is there already. *)
NewRows == {i \in Row : incident[i].status = "UNUSED" /\ incident'[i].status # "UNUSED"}
NoFreshDuplicate ==
  [][\A j \in NewRows : \A i \in Row :
       incident[i].status = "OPEN" /\ group(i) = GroupOf[incident'[j].client]
         => reportedAt(i) + Window < now]_vars

(* "A RESOLVED action recorded offline must actually close the incident    *)
(* when it syncs": the sync that reports the action as already recorded    *)
(* reports it of an incident that has been closed.                         *)
SyncedResolutionIsClosed ==
  [][\A r \in Request, c \in Client, k \in Cleaner \cup {NULL} :
       StartOffline(r, c, k) /\ task'[r].pc = "ok"
         => \A i \in RowsOf(c) : incident[i].resolvedAt # NULL]_vars

(* The same comment, of the writers a queued resolution races with: when   *)
(* recording it is all there is to do, since the incident was read as      *)
(* closed, it is closed.                                                   *)
RecordedIsClosed ==
  [][\A r \in Request : task[r].pc = "recordAction" /\ task'[r].pc = "ok"
       => incident'[task[r].row].status = "RESOLVED"]_vars

(* README: handling an incident closes every duplicate report of the same  *)
(* type in the same restroom.  Read for the resolution that arrives        *)
(* through the offline sync: when it has closed its incident and answers,  *)
(* no other row of the group waits.                                        *)
OfflineClosesDuplicates ==
  [][\A r \in Request : task[r].pc = "offlineClose" /\ task'[r].pc = "ok"
       => Siblings(task[r].row, task[r].client) = {}]_vars

(* README: reporting again is possible once the incident has been in       *)
(* progress for five minutes.                                              *)
DocumentedMinutes == 5
ReReportWaitsAsDocumented ==
  [][\A j \in NewRows : \A i \in Row :
       incident[i].status = "IN_PROGRESS" /\ group(i) = GroupOf[incident'[j].client]
         => incident[i].acknowledgedAt + DocumentedMinutes <= now]_vars
=============================================================================
