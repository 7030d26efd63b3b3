------------------------------- MODULE Alerts -------------------------------
(***************************************************************************)
(* Who is told about an open incident, and when: the push of the report    *)
(* itself, the minute tick of SchedulerService (grouped pulses of batched  *)
(* properties, cleaner reminders, supervisor escalation), and the manager  *)
(* changing a property's alert policy under the running tick.              *)
(*                                                                         *)
(* setInterval starts a tick every minute whether or not the last one has  *)
(* ended, so ticks may overlap; Tick is the set of slots they run in.  A   *)
(* tick reads the policies and the incidents once and works from that      *)
(* snapshot across all of its later awaits.  One organisation, one         *)
(* building per property; time is counted in minutes.                      *)
(***************************************************************************)
EXTENDS Naturals, Sequences, FiniteSets

CONSTANTS
  Incident, Property,
  PropertyOf,         (* PropertyOf[i]: the property of i's building       *)
  GroupOf,            (* GroupOf[i]: restroom and issue type of i          *)
  Tick,               (* slots for ticks in flight                         *)
  BatchInterval,      (* the intervals a manager may choose (minutes >= 1) *)
  StartPolicies,      (* the policies a property may start with            *)
  CleanerInterval,    (* org setting cleanerReminderMinutes, 0 is off      *)
  SupervisorInterval, (* org setting supervisorEscalationMinutes, 0 is off *)
  EscalationEnabled,  (* org setting escalationEnabled                     *)
  ManagerActs,        (* whether the manager changes policies              *)
  HoursChange,        (* whether buildings open and close                  *)
  MaxLag,             (* bound: minutes a report may have been queued      *)
  MaxTime, MaxFaults, (* bounds of the clock and of the failures           *)
  NULL

Mode   == {"immediate", "batched"}
Time   == 0..MaxTime
Policy == [mode : Mode, interval : BatchInterval, lastPulse : Time \cup {NULL}]

ConstantsOK ==
  /\ PropertyOf \in [Incident -> Property]
  /\ BatchInterval \subseteq Nat \ {0}
  /\ CleanerInterval \in Nat /\ SupervisorInterval \in Nat
  /\ EscalationEnabled \in BOOLEAN /\ ManagerActs \in BOOLEAN /\ HoursChange \in BOOLEAN
  /\ MaxLag \in Nat /\ MaxTime \in Nat /\ MaxFaults \in Nat
  /\ \A i, j \in Incident : GroupOf[i] = GroupOf[j] => PropertyOf[i] = PropertyOf[j]
  /\ StartPolicies \subseteq Policy /\ \A s \in StartPolicies : s.lastPulse \in {NULL, 0}
  /\ NULL \notin Time
ASSUME AlertsAssumption == ConstantsOK

VARIABLES
  now,
  inc,       (* inc[i]: the columns the scheduler reads, with the rounds   *)
             (*   its ESCALATED actions carry, in the order of creation    *)
  settings,  (* settings[p]: the Property.settings blob                    *)
  open,      (* open[p]: p's building is within its operating hours        *)
  tick,      (* tick[t]: the tick in slot t                                *)
  fired,     (* the minute the timer fired last                            *)
  manager,   (* the updatePropertyAlertConfig call in flight               *)
  faults,
  unsent,    (* reports stored whose create has not come to its push yet   *)
  told,      (* history: incidents a push to the cleaners was about        *)
  openSince, (* history: since when i is OPEN with its building active     *)
  pulses,    (* history: pulses[p], the minutes p's grouped pushes carry   *)
  touched    (* history: the properties whose policy the manager has saved *)

handlers == <<tick, fired, manager, faults, unsent>>
history  == <<told, openSince, pulses, touched>>
vars     == <<now, inc, settings, open, handlers, history>>

Waiting == {"OPEN", "IN_PROGRESS"}
Unreported == [status |-> "NONE", reportedAt |-> NULL, notifiedAt |-> NULL,
               cleaner |-> <<>>, supervisor |-> <<>>]

Idle == [pc |-> "idle", policy |-> NULL, seen |-> NULL, at |-> NULL,
         due |-> {}, cur |-> NULL, visit |-> {}]
NoCall == [pc |-> "idle", property |-> NULL, blob |-> NULL]

Init ==
  /\ now = 0
  /\ inc = [i \in Incident |-> Unreported]
  /\ settings \in [Property -> StartPolicies]
  /\ open = [p \in Property |-> TRUE]
  /\ tick = [t \in Tick |-> Idle]
  /\ fired = 0
  /\ manager = NoCall
  /\ faults = 0
  /\ unsent = {}
  /\ told = {}
  /\ openSince = [i \in Incident |-> NULL]
  /\ pulses = [p \in Property |-> <<>>]
  /\ touched = {}

-----------------------------------------------------------------------------
(* The incidents as the scheduler sees them change.  The handlers behind   *)
(* these steps are those of module Incidents.                              *)

SetStatus(i, s) ==
  /\ inc' = [inc EXCEPT ![i].status = s]
  /\ openSince' = [openSince EXCEPT ![i] =
       IF s # "OPEN" \/ ~open[PropertyOf[i]] THEN NULL ELSE IF @ = NULL THEN now ELSE @]

(* A report is stored; r is the tablet's clock, in the past for a report   *)
(* that was queued offline.                                                *)
Report(i, r) ==
  /\ inc[i].status = "NONE" /\ r <= now /\ now <= r + MaxLag
  /\ inc' = [inc EXCEPT ![i].status = "OPEN", ![i].reportedAt = r]
  /\ openSince' = [openSince EXCEPT ![i] = IF open[PropertyOf[i]] THEN now ELSE NULL]
  /\ unsent' = unsent \cup {i}
  /\ UNCHANGED <<now, settings, open, tick, fired, manager, faults, told, pulses, touched>>

(* create() then reads the property's policy and pushes unless it is       *)
(* batched or the building is closed.                                      *)
AlertOnReport(i) ==
  /\ i \in unsent
  /\ unsent' = unsent \ {i}
  /\ told' = IF settings[PropertyOf[i]].mode = "immediate" /\ open[PropertyOf[i]]
               THEN told \cup {i} ELSE told
  /\ UNCHANGED <<now, inc, settings, open, tick, fired, manager, faults, openSince, pulses, touched>>

Handle(i) ==
  /\ inc[i].status # "NONE"
  /\ \E s \in {"OPEN", "IN_PROGRESS", "RESOLVED"} : s # inc[i].status /\ SetStatus(i, s)
  /\ UNCHANGED <<now, settings, open, handlers, told, pulses, touched>>

(* A building's operating hours begin or end, by the clock or because a    *)
(* manager changes them.                                                   *)
ChangeHours(p) ==
  /\ HoursChange
  /\ open' = [open EXCEPT ![p] = ~@]
  /\ openSince' = [i \in Incident |->
       IF PropertyOf[i] # p THEN openSince[i]
       ELSE IF open'[p] /\ inc[i].status = "OPEN" THEN now ELSE NULL]
  /\ UNCHANGED <<now, inc, settings, handlers, told, pulses, touched>>

-----------------------------------------------------------------------------
(* runEscalation.                                                          *)

Batched(t) == {p \in Property : tick[t].policy[p].mode = "batched"}

(* The timer fires: the organisation and the policies are read.            *)
StartTick(t) ==
  /\ tick[t].pc = "idle" /\ fired < now
  /\ fired' = now
  /\ tick' = [tick EXCEPT ![t] =
       IF ~EscalationEnabled /\ \A p \in Property : settings[p].mode = "immediate"
         THEN Idle
         ELSE [Idle EXCEPT !.pc = "read", !.policy = settings]]
  /\ UNCHANGED <<now, inc, settings, open, manager, faults, unsent, history>>

(* Of each batched property, the OPEN issues of an active building.        *)
Bucket(seen, p) ==
  {i \in Incident : /\ seen[i].status = "OPEN" /\ PropertyOf[i] = p}

(* Mutant: the newest report instead of the oldest.                        *)
MaxReported(seen, S) ==
  CHOOSE r \in {seen[i].reportedAt : i \in S} : \A i \in S : r >= seen[i].reportedAt

MinReported(seen, S) ==
  CHOOSE r \in {seen[i].reportedAt : i \in S} : \A i \in S : r <= seen[i].reportedAt

(* Mutant: the last pulse does not count.                                  *)
AnchorOldest(seen, p, policy) == MinReported(seen, Bucket(seen, p))

(* The wait counts from the last pulse if that came after the oldest open  *)
(* report, else from the oldest open report.                               *)
Anchor(seen, p, policy) ==
  LET oldest == MinReported(seen, Bucket(seen, p))
  IN  IF policy.lastPulse # NULL /\ policy.lastPulse >= oldest
        THEN policy.lastPulse ELSE oldest

PulseDue(seen, p, policy, at) ==
  /\ open[p]
  /\ Bucket(seen, p) # {}
  /\ at >= Anchor(seen, p, policy) + policy.interval

(* Only the earliest waiting report of a group drives reminders; which of  *)
(* two equally old ones depends on the order the rows come in.             *)
FirstPerGroup(seen) ==
  LET waiting == {i \in Incident : seen[i].status \in Waiting}
      First(V, i) == {j \in V : GroupOf[j] = GroupOf[i]}
  IN  {V \in SUBSET waiting : \A i \in waiting :
         /\ Cardinality(First(V, i)) = 1
         /\ \A j \in First(V, i) : seen[j].reportedAt <= seen[i].reportedAt}

(* Where the tick goes when the pulses in w.due are left to send.          *)
Goto(t, w) ==
  tick' = [tick EXCEPT ![t] =
    IF w.due # {} THEN [w EXCEPT !.pc = "pulse", !.cur = NULL]
    ELSE IF EscalationEnabled /\ w.visit # {} THEN [w EXCEPT !.pc = "visit", !.cur = NULL]
    ELSE Idle]

ReadIncidents(t) ==
  /\ tick[t].pc = "read"
  /\ \E V \in FirstPerGroup(inc) :
       Goto(t, [tick[t] EXCEPT !.seen = inc, !.at = now, !.visit = V,
         !.due = {p \in Batched(t) : PulseDue(inc, p, tick[t].policy[p], now)}])
  /\ UNCHANGED <<now, inc, settings, open, fired, manager, faults, unsent, history>>

FirstTime(t, p) == {i \in Bucket(tick[t].seen, p) : tick[t].seen[i].notifiedAt = NULL}

(* updateMany by id: no check that a stamp has not been set meanwhile.     *)
StampFirstTime(t, p) ==
  /\ tick[t].pc = "pulse" /\ p \in tick[t].due
  /\ FirstTime(t, p) # {}
  /\ inc' = [i \in Incident |-> IF i \in FirstTime(t, p)
                THEN [inc[i] EXCEPT !.notifiedAt = tick[t].at] ELSE inc[i]]
  /\ tick' = [tick EXCEPT ![t].pc = "save", ![t].cur = p]
  /\ UNCHANGED <<now, settings, open, fired, manager, faults, unsent, history>>

(* The whole blob is written back from the copy the tick read.             *)
SavePulse(t, p) ==
  /\ \/ tick[t].pc = "save" /\ tick[t].cur = p
     \/ tick[t].pc = "pulse" /\ p \in tick[t].due /\ FirstTime(t, p) = {}
  /\ settings' = [settings EXCEPT ![p] = [tick[t].policy[p] EXCEPT !.lastPulse = tick[t].at]]
  /\ tick' = [tick EXCEPT ![t].pc = "push", ![t].cur = p]
  /\ UNCHANGED <<now, inc, open, fired, manager, faults, unsent, history>>

(* Mutant: the push leaves out what has been handled since the tick began. *)
PushOpenOnly(t) ==
  LET p == tick[t].cur
  IN
  /\ tick[t].pc = "push"
  /\ told' = told \cup {i \in Bucket(tick[t].seen, p) : inc[i].status = "OPEN"}
  /\ pulses' = [pulses EXCEPT ![p] = Append(@, tick[t].at)]
  /\ Goto(t, [tick[t] EXCEPT !.due = @ \ {p}])
  /\ UNCHANGED <<now, inc, settings, open, fired, manager, faults, unsent, openSince, touched>>

PushPulse(t) ==
  LET p == tick[t].cur
  IN
  /\ tick[t].pc = "push"
  /\ told' = told \cup Bucket(tick[t].seen, p)
  /\ pulses' = [pulses EXCEPT ![p] = Append(@, tick[t].at)]
  /\ Goto(t, [tick[t] EXCEPT !.due = @ \ {p}])
  /\ UNCHANGED <<now, inc, settings, open, fired, manager, faults, unsent, openSince, touched>>

(* Mutant: the first reminder waits for two intervals.                     *)
CleanerDueLate(t, i) ==
  LET s == tick[t].seen[i]
  IN  /\ CleanerInterval > 0 /\ PropertyOf[i] \notin Batched(t) /\ open[PropertyOf[i]]
      /\ now >= s.reportedAt + CleanerInterval * (Len(s.cleaner) + 2)

CleanerDue(t, i) ==
  LET s == tick[t].seen[i]
  IN  /\ CleanerInterval > 0 /\ PropertyOf[i] \notin Batched(t) /\ open[PropertyOf[i]]
      /\ now >= s.reportedAt + CleanerInterval * (Len(s.cleaner) + 1)

(* Mutant: only issues nobody has acknowledged are escalated.              *)
SupervisorDueIfOpen(t, i) ==
  LET s == tick[t].seen[i]
  IN  /\ SupervisorInterval > 0 /\ open[PropertyOf[i]] /\ s.status = "OPEN"
      /\ now >= s.reportedAt + SupervisorInterval * (Len(s.supervisor) + 1)

(* The escalation clock of a batched property starts at the first pulse    *)
(* and holds until then.                                                   *)
SupervisorDue(t, i) ==
  LET s == tick[t].seen[i]
      start == IF s.notifiedAt = NULL THEN s.reportedAt ELSE s.notifiedAt
  IN  /\ SupervisorInterval > 0 /\ open[PropertyOf[i]]
      /\ PropertyOf[i] \in Batched(t) => s.notifiedAt # NULL
      /\ now >= start + SupervisorInterval * (Len(s.supervisor) + 1)

(* Both decisions fall before the first await of the loop body; the round  *)
(* numbers come from the snapshot.                                         *)
Visit(t, i) ==
  LET left == [tick[t] EXCEPT !.visit = @ \ {i}]
  IN
  /\ tick[t].pc = "visit" /\ i \in tick[t].visit
  /\ IF CleanerDue(t, i)
       THEN /\ inc' = [inc EXCEPT ![i].cleaner = Append(@, Len(tick[t].seen[i].cleaner) + 1)]
            /\ told' = told \cup {i}
       ELSE UNCHANGED <<inc, told>>
  /\ IF SupervisorDue(t, i)
       THEN tick' = [tick EXCEPT ![t] = [left EXCEPT !.pc = "escalate", !.cur = i]]
       ELSE Goto(t, left)
  /\ UNCHANGED <<now, settings, open, fired, manager, faults, unsent, openSince, pulses, touched>>

(* Mutant: an escalation repeats the number of the last round.             *)
EscalateSameRound(t) ==
  LET i == tick[t].cur
  IN
  /\ tick[t].pc = "escalate"
  /\ inc' = [inc EXCEPT ![i].supervisor = Append(@, Len(tick[t].seen[i].supervisor))]
  /\ Goto(t, tick[t])
  /\ UNCHANGED <<now, settings, open, fired, manager, faults, unsent, history>>

Escalate(t) ==
  LET i == tick[t].cur
  IN
  /\ tick[t].pc = "escalate"
  /\ inc' = [inc EXCEPT ![i].supervisor = Append(@, Len(tick[t].seen[i].supervisor) + 1)]
  /\ Goto(t, tick[t])
  /\ UNCHANGED <<now, settings, open, fired, manager, faults, unsent, history>>

-----------------------------------------------------------------------------
(* updatePropertyAlertConfig: read the blob, write the merged blob.        *)

Patch == [mode : Mode \cup {NULL}, interval : BatchInterval \cup {NULL}]

Merge(old, patch) ==
  [old EXCEPT !.mode = IF patch.mode = NULL THEN @ ELSE patch.mode,
              !.interval = IF patch.interval = NULL THEN @ ELSE patch.interval]

ManagerReads(p, patch) ==
  /\ ManagerActs /\ manager.pc = "idle"
  /\ manager' = [pc |-> "write", property |-> p, blob |-> Merge(settings[p], patch)]
  /\ UNCHANGED <<now, inc, settings, open, tick, fired, faults, unsent, history>>

ManagerWrites ==
  /\ manager.pc = "write"
  /\ settings' = [settings EXCEPT ![manager.property] = manager.blob]
  /\ manager' = NoCall
  /\ touched' = touched \cup {manager.property}
  /\ UNCHANGED <<now, inc, open, tick, fired, faults, unsent, told, openSince, pulses>>

-----------------------------------------------------------------------------
(* A call of the tick is rejected: one try block wraps the whole tick.     *)
TickFails(t) ==
  /\ faults < MaxFaults /\ tick[t].pc # "idle"
  /\ faults' = faults + 1
  /\ tick' = [tick EXCEPT ![t] = Idle]
  /\ UNCHANGED <<now, inc, settings, open, fired, manager, unsent, history>>

(* The process is restarted under everything in flight.                    *)
Restart ==
  /\ faults < MaxFaults
  /\ faults' = faults + 1
  /\ tick' = [t \in Tick |-> Idle]
  /\ manager' = NoCall
  /\ unsent' = {}
  /\ UNCHANGED <<now, inc, settings, open, fired, history>>

(* A minute does not pass without the timer firing.  A tick may run into   *)
(* the next minute; whether the next one then starts beside it depends on  *)
(* the number of slots.                                                    *)
Minute ==
  /\ now < MaxTime /\ fired = now
  /\ now' = now + 1
  /\ UNCHANGED <<inc, settings, open, handlers, history>>

TickStep(t) ==
  \/ ReadIncidents(t) \/ PushPulse(t) \/ Escalate(t)
  \/ \E p \in Property : StampFirstTime(t, p) \/ SavePulse(t, p)
  \/ \E i \in Incident : Visit(t, i)

Next ==
  \/ Minute \/ ManagerWrites \/ Restart
  \/ \E t \in Tick : StartTick(t) \/ TickStep(t) \/ TickFails(t)
  \/ \E i \in Incident : AlertOnReport(i) \/ Handle(i) \/ \E r \in Time : Report(i, r)
  \/ \E p \in Property : ChangeHours(p) \/ \E patch \in Patch : ManagerReads(p, patch)

Spec == Init /\ [][Next]_vars

-----------------------------------------------------------------------------
(* Properties.                                                             *)

IncidentRecord ==
  [status : Waiting \cup {"NONE", "RESOLVED"}, reportedAt : Time \cup {NULL},
   notifiedAt : Time \cup {NULL}, cleaner : Seq(Nat), supervisor : Seq(Nat)]

TickRecord ==
  [pc : {"idle", "read", "pulse", "save", "push", "visit", "escalate"},
   policy : [Property -> Policy] \cup {NULL},
   seen : [Incident -> IncidentRecord] \cup {NULL}, at : Time \cup {NULL},
   due : SUBSET Property, cur : Property \cup Incident \cup {NULL}, visit : SUBSET Incident]

(* What a tick carries at each of its awaits.                              *)
TickOK(t) ==
  /\ tick[t].pc # "idle" => tick[t].policy \in [Property -> Policy]
  /\ tick[t].pc \in {"idle", "read"} => tick[t].due = {}
  /\ tick[t].pc \notin {"idle", "read"} =>
       /\ tick[t].seen \in [Incident -> IncidentRecord] /\ tick[t].at \in 0..now
       /\ tick[t].due \subseteq Batched(t)
  /\ tick[t].pc \in {"save", "push"} => tick[t].cur \in tick[t].due
  /\ tick[t].pc = "escalate" => tick[t].cur \in Incident
  /\ tick[t].pc \in {"visit", "escalate"} => tick[t].due = {}

(* The rows, the tick and the manager's call have types.                   *)
TypeOK ==
  /\ now \in Time /\ fired \in Time /\ faults \in 0..MaxFaults
  /\ inc \in [Incident -> IncidentRecord]
  /\ settings \in [Property -> Policy]
  /\ open \in [Property -> BOOLEAN]
  /\ tick \in [Tick -> TickRecord] /\ \A t \in Tick : TickOK(t)
  /\ manager \in [pc : {"idle", "write"}, property : Property \cup {NULL}, blob : Policy \cup {NULL}]
  /\ manager.pc = "write" => manager.property \in Property /\ manager.blob \in Policy
  /\ unsent \subseteq Incident /\ told \subseteq Incident /\ touched \subseteq Property
  /\ openSince \in [Incident -> Time \cup {NULL}]
  /\ pulses \in [Property -> Seq(Time)]

(* Two grouped pushes of a property whose policy the manager leaves alone  *)
(* are never closer than its interval: "the wait is measured from the      *)
(* previous pulse".                                                        *)
PulsesSpaced ==
  \A p \in Property \ touched : \A k \in 2..Len(pulses[p]) :
    pulses[p][k] >= pulses[p][k - 1] + settings[p].interval

(* "At t = interval * 1, interval * 2, ...": the reminders of an incident  *)
(* are rounds 1, 2, 3, each sent once and in order, on both tracks.        *)
InOrder(s) == \A k \in 1..Len(s) : s[k] = k
RoundsInOrder ==
  \A i \in Incident : InOrder(inc[i].cleaner) /\ InOrder(inc[i].supervisor)

(* A tick has run to its end, perhaps finding nothing to do; what it saw.  *)
TickEnds(t) == tick[t].pc # "idle" /\ tick'[t].pc = "idle" /\ faults' = faults
Seen(t)   == IF tick[t].pc = "read" THEN inc ELSE tick[t].seen
SeenAt(t) == IF tick[t].pc = "read" THEN now ELSE tick[t].at

OpenFor(t, i, d) ==
  /\ Seen(t)[i].status = "OPEN"
  /\ openSince[i] # NULL /\ openSince[i] + d <= SeenAt(t)

(* An issue is not passed over: one that has been open, its building       *)
(* active, for the interval of its batched property is announced by the    *)
(* end of the next tick, however many issues came before and after it.     *)
WaitEnds ==
  \A t \in Tick : TickEnds(t) =>
    \A p \in Batched(t) : \A i \in Incident :
      PropertyOf[i] = p /\ OpenFor(t, i, tick[t].policy[p].interval)
        => inc'[i].notifiedAt # NULL
WaitIsBounded == [][WaitEnds]_vars

(* Whatever the manager switches between the report and the tick, some     *)
(* incident of the problem's group has been pushed to the cleaners by the  *)
(* end of the tick after it was open for the longest interval.             *)
AllAreTold ==
  \A t \in Tick : TickEnds(t) =>
    \A i \in Incident :
      (\A d \in BatchInterval \cup {CleanerInterval} : OpenFor(t, i, d))
        => \E j \in told' : GroupOf[j] = GroupOf[i]
NobodyForgotten == [][AllAreTold]_vars

(* Schema: notifiedAt is "the moment the grouped push that announced this  *)
(* incident to cleaners was sent".  A stamped incident has been pushed, or *)
(* its tick is about to.                                                   *)
StampedIsPushed ==
  \A i \in Incident :
    inc[i].notifiedAt # NULL =>
      i \in told \/ \E t \in Tick : tick[t].pc \in {"save", "push"}
                                 /\ i \in Bucket(tick[t].seen, tick[t].cur)

(* "Runs in BOTH alert modes": an issue that nobody resolved is escalated  *)
(* to the supervisor.  After a tick, an incident whose report is older     *)
(* than the batch and the supervisor interval together has had a round, it *)
(* or an earlier report of its group.                                      *)
SupervisorIsTold ==
  \A t \in Tick : TickEnds(t) =>
    \A i \in Incident, d \in BatchInterval :
      /\ Seen(t)[i].status \in Waiting
      /\ Seen(t)[i].reportedAt + d + SupervisorInterval <= SeenAt(t)
      => \E j \in Incident : GroupOf[j] = GroupOf[i] /\ inc'[j].supervisor # <<>>
SupervisorHearsOfIt == [][SupervisorIsTold]_vars

(* Where the policy is immediate and the manager leaves it alone, after a  *)
(* tick an incident older than the supervisor interval has had a round, it *)
(* or an earlier report of its group.                                      *)
Plain(p) == p \notin touched /\ settings[p].mode = "immediate"
EscalatedInTime ==
  \A t \in Tick : TickEnds(t) =>
    \A i \in Incident :
      /\ Plain(PropertyOf[i]) /\ Seen(t)[i].status \in Waiting
      /\ Seen(t)[i].reportedAt + SupervisorInterval <= SeenAt(t)
      => \E j \in Incident : GroupOf[j] = GroupOf[i] /\ inc'[j].supervisor # <<>>

-----------------------------------------------------------------------------
(* Promises of comments and documents the code does not keep.  The README   *)
(* gives the constants under which TLC finds each counterexample.           *)

(* "Once the oldest un-announced open issue has waited                     *)
(* batchIntervalMinutes": among the issues a pulse announces, one waited   *)
(* for the whole interval.                                                 *)
QuietWindow ==
  [][\A t \in Tick, p \in Property : StampFirstTime(t, p) =>
       \E i \in FirstTime(t, p) :
         inc[i].reportedAt + tick[t].policy[p].interval <= tick[t].at]_vars

(* "The wait is measured from the previous pulse": the pushes of any        *)
(* property are apart by an interval a manager can choose.                 *)
PulsesAlwaysSpaced ==
  \A p \in Property : \A k \in 2..Len(pulses[p]) :
    \E d \in BatchInterval : pulses[p][k] >= pulses[p][k - 1] + d

(* "Already-announced issues keep their original stamp": the moment the    *)
(* response clock of an incident starts is set once.                       *)
StampKept ==
  [][\A i \in Incident :
       inc[i].notifiedAt # NULL => inc'[i].notifiedAt = inc[i].notifiedAt]_vars

(* The alert policy is "set by the org manager": only the manager's call   *)
(* changes a property's mode or interval.                                  *)
PolicyIsTheManagers ==
  [][manager.pc = "idle" =>
       \A p \in Property : /\ settings'[p].mode = settings[p].mode
                           /\ settings'[p].interval = settings[p].interval]_vars
=============================================================================
