----------------------------- MODULE AlertsProofs -----------------------------
(***************************************************************************)
(* What the alerts of module Alerts keep, for any incidents, properties,   *)
(* policies, intervals and bounds.  Where a theorem needs that a tick has  *)
(* ended before the next begins, or that no call fails, it says so.        *)
(***************************************************************************)
EXTENDS Alerts, FiniteSetTheorems, WellFoundedInduction, TLAPS

(* Rows that were reported have their report's time, and openSince tells   *)
(* of an open issue of an active building.                                 *)
RowsOK ==
  /\ fired <= now
  /\ \A i \in Incident :
       /\ inc[i].status # "NONE" => inc[i].reportedAt \in 0..now
       /\ openSince[i] # NULL =>
            /\ open[PropertyOf[i]] /\ inc[i].status = "OPEN"
            /\ inc[i].reportedAt <= openSince[i] /\ openSince[i] <= now

(* What a tick has seen: reports of before, stamps that are still there,   *)
(* and all that has been open since.                                       *)
SeenOK(t) ==
  tick[t].pc \notin {"idle", "read"} =>
    \A i \in Incident :
      /\ tick[t].seen[i].status # "NONE" =>
           /\ tick[t].seen[i].reportedAt \in 0..tick[t].at
           /\ inc[i].status # "NONE" /\ inc[i].reportedAt = tick[t].seen[i].reportedAt
      /\ tick[t].seen[i].notifiedAt # NULL => inc[i].notifiedAt # NULL
      /\ openSince[i] # NULL /\ openSince[i] < tick[t].at => tick[t].seen[i].status = "OPEN"

TInv == TypeOK /\ RowsOK /\ \A t \in Tick : SeenOK(t)

-----------------------------------------------------------------------------
(* WaitIsBounded: what was open before a pulse is announced.               *)

Pulsed(p, L) ==
  L # NULL =>
    /\ L <= now
    /\ \A i \in Incident :
         PropertyOf[i] = p /\ openSince[i] # NULL /\ openSince[i] < L => inc[i].notifiedAt # NULL

Announced(t) == \A i \in Bucket(tick[t].seen, tick[t].cur) : inc[i].notifiedAt # NULL

(* Of what tick t left out of its pulses nothing has waited for so long.   *)
NotPassedOver(t) ==
  \A i \in Incident :
    /\ PropertyOf[i] \in Batched(t) \ tick[t].due
    /\ openSince[i] # NULL
    /\ openSince[i] + tick[t].policy[PropertyOf[i]].interval <= tick[t].at
    => inc[i].notifiedAt # NULL

WInv ==
  /\ \A p \in Property : Pulsed(p, settings[p].lastPulse)
  /\ manager.pc = "write" => Pulsed(manager.property, manager.blob.lastPulse)
  /\ \A t \in Tick :
       /\ tick[t].pc # "idle" => \A p \in Property : Pulsed(p, tick[t].policy[p].lastPulse)
       /\ tick[t].pc \in {"save", "push"} => Announced(t)
       /\ tick[t].pc \notin {"idle", "read"} => NotPassedOver(t)

-----------------------------------------------------------------------------
(* One tick at a time.                                                     *)
OneTick == \A s, t \in Tick : s = t

(* RoundsInOrder: what is left to visit has no round the tick has not seen. *)
Unvisited(t) ==
  /\ tick[t].pc \notin {"idle", "read"} =>
       \A i \in tick[t].visit : /\ inc[i].cleaner = tick[t].seen[i].cleaner
                                /\ inc[i].supervisor = tick[t].seen[i].supervisor
  /\ tick[t].pc = "escalate" =>
       /\ inc[tick[t].cur].supervisor = tick[t].seen[tick[t].cur].supervisor
       /\ tick[t].cur \notin tick[t].visit

RInv == RoundsInOrder /\ \A t \in Tick : Unvisited(t)

(* PulsesSpaced: the last push is no later than lastPulse, and a pulse is  *)
(* due an interval after it.                                               *)
Last(p) == pulses[p][Len(pulses[p])]
Spaced(p) == \A k \in 2..Len(pulses[p]) : pulses[p][k] >= pulses[p][k - 1] + settings[p].interval
LastKnown(p) == pulses[p] # <<>> => settings[p].lastPulse # NULL /\ Last(p) <= settings[p].lastPulse
OnTime(t, p) ==
  /\ tick[t].pc = "read" => tick[t].policy[p] = settings[p]
  /\ p \in tick[t].due /\ ~(tick[t].pc = "push" /\ tick[t].cur = p) => tick[t].policy[p] = settings[p]
  /\ p \in tick[t].due /\ pulses[p] # <<>> => tick[t].at >= Last(p) + settings[p].interval
  /\ tick[t].pc = "push" /\ tick[t].cur = p => settings[p].lastPulse = tick[t].at

SInv == \A p \in Property \ touched : Spaced(p) /\ LastKnown(p) /\ \A t \in Tick : OnTime(t, p)

(* NobodyForgotten: an issue that waited long enough is announced, or the  *)
(* tick has the first of its group still to visit.                         *)
ToldOrLeft(t, i) ==
  \/ \E j \in told : GroupOf[j] = GroupOf[i]
  \/ \E j \in tick[t].visit : /\ GroupOf[j] = GroupOf[i]
                              /\ tick[t].seen[j].status # "NONE"
                              /\ tick[t].seen[j].reportedAt <= tick[t].seen[i].reportedAt
Remembered(t) ==
  tick[t].pc \notin {"idle", "read"} =>
    /\ \A i \in Incident : tick[t].seen[i].cleaner # <<>> => i \in told
    /\ \A i \in Incident :
         /\ PropertyOf[i] \notin Batched(t) /\ openSince[i] # NULL
         /\ openSince[i] + CleanerInterval <= tick[t].at
         => ToldOrLeft(t, i)

RemindedIsTold == \A i \in Incident : inc[i].cleaner # <<>> => i \in told
FInv == RemindedIsTold /\ \A t \in Tick : Remembered(t)

(* EscalatedInTime: a plain property is batched for no tick and has no     *)
(* stamps, and an issue that waited long enough has had a round, or the    *)
(* tick has the first of its group to escalate or still to visit.          *)
PlainOK(p) ==
  Plain(p) =>
    /\ \A t \in Tick : tick[t].pc # "idle" => p \notin Batched(t)
    /\ \A i \in Incident : PropertyOf[i] = p => inc[i].notifiedAt = NULL

EscalatedOrLeft(t, i) ==
  \/ \E j \in Incident : GroupOf[j] = GroupOf[i] /\ inc[j].supervisor # <<>>
  \/ tick[t].pc = "escalate" /\ GroupOf[tick[t].cur] = GroupOf[i]
  \/ \E j \in tick[t].visit : /\ GroupOf[j] = GroupOf[i]
                              /\ tick[t].seen[j].status # "NONE"
                              /\ tick[t].seen[j].reportedAt <= tick[t].seen[i].reportedAt
Overdue(t, i) ==
  /\ Plain(PropertyOf[i]) /\ tick[t].seen[i].status \in Waiting
  /\ tick[t].seen[i].reportedAt + SupervisorInterval <= tick[t].at
Owed(t) ==
  tick[t].pc \notin {"idle", "read"} =>
    \A i \in Incident : /\ tick[t].seen[i].supervisor # <<>> => inc[i].supervisor # <<>>
                        /\ Overdue(t, i) => EscalatedOrLeft(t, i)

EInv ==
  /\ \A p \in Property : open[p] /\ PlainOK(p)
  /\ \A t \in Tick : Owed(t)
-----------------------------------------------------------------------------
(* Operators of the tick.                                                  *)

LEMMA IdleIsATick == Idle \in TickRecord /\ Idle.pc = "idle" /\ Idle.due = {}
BY DEF Idle, TickRecord

(* A set of numbers has a least one.                                       *)
LEMMA NoneSmaller ==
  ASSUME NEW R, R \subseteq Nat, R # {}
  PROVE  \E r \in R : \A q \in R : ~(q < r)
<1>1. PICK r \in R : \A q \in R : <<q, r>> \notin OpToRel(<, Nat)
  BY WFMin, NatLessThanWellFounded, Zenon
<1> QED
  BY <1>1, Zenon DEF OpToRel

LEMMA MinIs ==
  ASSUME NEW seen, NEW S, S # {}, \A i \in S : seen[i].reportedAt \in Nat
  PROVE  /\ MinReported(seen, S) \in Nat
         /\ \A i \in S : MinReported(seen, S) <= seen[i].reportedAt
<1> DEFINE R == {seen[i].reportedAt : i \in S}
<1>1. R \subseteq Nat /\ R # {} /\ \A i \in S : seen[i].reportedAt \in R
  OBVIOUS
<1>2. PICK r \in R : \A q \in R : ~(q < r)
  BY <1>1, NoneSmaller
<1>3. \A q \in R : r <= q
  <2> HIDE DEF R
  <2> QED
    BY <1>1, <1>2
<1>4. MinReported(seen, S) \in R /\ \A i \in S : MinReported(seen, S) <= seen[i].reportedAt
  BY <1>1, <1>2, <1>3 DEF MinReported
<1> QED
  BY <1>1, <1>4

(* Goto ends a tick only when it has nothing left to do.                   *)
LEMMA GotoIs ==
  ASSUME NEW t \in Tick, NEW w \in TickRecord, tick \in [Tick -> TickRecord], Goto(t, w)
  PROVE  /\ tick' \in [Tick -> TickRecord]
         /\ \A s \in Tick \ {t} : tick'[s] = tick[s]
         /\ tick'[t].pc \in {"idle", "pulse", "visit"}
         /\ tick'[t].pc = "pulse" => w.due # {}
         /\ tick'[t].pc # "pulse" => w.due = {} /\ tick'[t].due = {}
         /\ tick'[t].pc = "idle" => ~EscalationEnabled \/ w.visit = {}
         /\ tick'[t].pc # "idle" =>
              /\ tick'[t].policy = w.policy /\ tick'[t].seen = w.seen /\ tick'[t].at = w.at
              /\ tick'[t].due = w.due /\ tick'[t].visit = w.visit
<1>1. CASE w.due # {}
  <2>1. tick' = [tick EXCEPT ![t] = [w EXCEPT !.pc = "pulse", !.cur = NULL]]
    BY <1>1 DEF Goto
  <2> QED
    BY <1>1, <2>1 DEF TickRecord
<1>2. CASE w.due = {} /\ EscalationEnabled /\ w.visit # {}
  <2>1. tick' = [tick EXCEPT ![t] = [w EXCEPT !.pc = "visit", !.cur = NULL]]
    BY <1>2 DEF Goto
  <2> QED
    BY <1>2, <2>1 DEF TickRecord
<1>3. CASE w.due = {} /\ ~(EscalationEnabled /\ w.visit # {})
  <2>1. tick' = [tick EXCEPT ![t] = Idle]
    BY <1>3 DEF Goto
  <2> QED
    BY <1>3, <2>1, IdleIsATick
<1> QED
  BY <1>1, <1>2, <1>3
-----------------------------------------------------------------------------
(* Types.                                                                  *)

LEMMA TypeInit == Init => TypeOK
<1> SUFFICES ASSUME Init PROVE TypeOK
  OBVIOUS
<1>1. 0 \in Time /\ NULL \notin Time
  BY AlertsAssumption DEF ConstantsOK, Time
<1>2. Unreported \in IncidentRecord /\ Unreported.status = "NONE"
  BY DEF Unreported, IncidentRecord, Waiting
<1>3. tick \in [Tick -> TickRecord] /\ \A t \in Tick : TickOK(t)
  BY IdleIsATick DEF Init, TickOK
<1>4. settings \in [Property -> Policy]
  BY AlertsAssumption DEF ConstantsOK, Init
<1>5. pulses \in [Property -> Seq(Time)]
  BY DEF Init
<1>6. manager \in [pc : {"idle", "write"}, property : Property \cup {NULL}, blob : Policy \cup {NULL}]
      /\ manager.pc = "idle"
  BY DEF Init, NoCall
<1> QED
  BY <1>1, <1>2, <1>3, <1>4, <1>5, <1>6, AlertsAssumption DEF Init, TypeOK, ConstantsOK

(* The columns and the history, while the clock, the tick and the policies *)
(* stay.                                                                   *)
LEMMA RowsMoveTypes ==
  ASSUME TypeOK, UNCHANGED <<now, settings, tick, fired, manager, faults>>,
         inc' \in [Incident -> IncidentRecord], open' \in [Property -> BOOLEAN],
         unsent' \subseteq Incident, told' \subseteq Incident, touched' \subseteq Property,
         openSince' \in [Incident -> Time \cup {NULL}], pulses' \in [Property -> Seq(Time)]
  PROVE  TypeOK'
BY DEF TypeOK, TickOK, Batched

LEMMA ReportTypes ==
  ASSUME TypeOK, NEW i \in Incident, NEW r \in Time, Report(i, r) PROVE TypeOK'
<1>1. inc' \in [Incident -> IncidentRecord]
  <2>1. inc[i] \in IncidentRecord /\ inc \in [Incident -> IncidentRecord]
    BY DEF TypeOK
  <2>2. [inc[i] EXCEPT !.status = "OPEN", !.reportedAt = r] \in IncidentRecord
    BY <2>1 DEF IncidentRecord, Waiting
  <2>3. inc' = [inc EXCEPT ![i] = [inc[i] EXCEPT !.status = "OPEN", !.reportedAt = r]]
    BY <2>1 DEF Report
  <2> QED
    BY <2>1, <2>2, <2>3
<1>2. openSince' \in [Incident -> Time \cup {NULL}]
  BY DEF Report, TypeOK
<1> QED
  BY <1>1, <1>2, RowsMoveTypes DEF Report, TypeOK

LEMMA HandleTypes == ASSUME TypeOK, NEW i \in Incident, Handle(i) PROVE TypeOK'
<1>1. PICK s \in {"OPEN", "IN_PROGRESS", "RESOLVED"} : SetStatus(i, s)
  BY DEF Handle
<1>2. inc' \in [Incident -> IncidentRecord]
  <2>1. inc[i] \in IncidentRecord /\ inc \in [Incident -> IncidentRecord]
    BY DEF TypeOK
  <2>2. [inc[i] EXCEPT !.status = s] \in IncidentRecord
    BY <2>1 DEF IncidentRecord, Waiting
  <2>3. inc' = [inc EXCEPT ![i] = [inc[i] EXCEPT !.status = s]]
    BY <1>1, <2>1 DEF SetStatus
  <2> QED
    BY <2>1, <2>2, <2>3
<1>3. openSince' \in [Incident -> Time \cup {NULL}]
  BY <1>1 DEF SetStatus, TypeOK
<1> QED
  BY <1>2, <1>3, RowsMoveTypes DEF Handle, handlers, TypeOK

LEMMA HoursTypes ==
  ASSUME TypeOK, NEW p \in Property, ChangeHours(p) PROVE TypeOK'
<1>1. open' \in [Property -> BOOLEAN]
  BY DEF ChangeHours, TypeOK
<1>2. openSince' \in [Incident -> Time \cup {NULL}]
  BY DEF ChangeHours, TypeOK
<1> QED
  BY <1>1, <1>2, RowsMoveTypes DEF ChangeHours, handlers, TypeOK

LEMMA AlertTypes ==
  ASSUME TypeOK, NEW i \in Incident, AlertOnReport(i) PROVE TypeOK'
BY RowsMoveTypes DEF AlertOnReport, TypeOK

LEMMA MinuteTypes == ASSUME TypeOK, Minute PROVE TypeOK'
<1>1. now' \in Time /\ now' = now + 1 /\ now \in Nat
  BY AlertsAssumption DEF ConstantsOK, Minute, TypeOK, Time
<1>2. ASSUME NEW t \in Tick PROVE TickOK(t)'
  <2>1. tick' = tick
    BY DEF Minute, handlers
  <2> QED
    BY <1>1, <2>1 DEF TypeOK, TickOK, Batched
<1> QED
  BY <1>1, <1>2 DEF Minute, handlers, history, TypeOK

LEMMA MergeTypes ==
  ASSUME NEW old \in Policy, NEW patch \in Patch
  PROVE  Merge(old, patch) \in Policy /\ Merge(old, patch).lastPulse = old.lastPulse
<1> DEFINE m == IF patch.mode = NULL THEN old.mode ELSE patch.mode
           d == IF patch.interval = NULL THEN old.interval ELSE patch.interval
<1>1. m \in Mode /\ d \in BatchInterval
  BY DEF Patch, Policy
<1>2. Merge(old, patch) = [[old EXCEPT !.mode = m] EXCEPT !.interval = d]
  BY DEF Merge, Policy
<1> HIDE DEF m, d
<1> QED
  BY <1>1, <1>2 DEF Policy

LEMMA ManagerTypes ==
  ASSUME TypeOK, ManagerWrites \/ \E p \in Property, patch \in Patch : ManagerReads(p, patch)
  PROVE  TypeOK'
<1>1. CASE ManagerWrites
  <2>1. settings' \in [Property -> Policy] /\ touched' \subseteq Property
    BY <1>1 DEF ManagerWrites, TypeOK
  <2>2. manager' = NoCall /\ UNCHANGED <<now, inc, open, tick, fired, faults, unsent, told, openSince, pulses>>
    BY <1>1 DEF ManagerWrites
  <2> QED
    BY <2>1, <2>2 DEF NoCall, TypeOK, TickOK, Batched
<1>2. ASSUME NEW p \in Property, NEW patch \in Patch, ManagerReads(p, patch) PROVE TypeOK'
  <2>1. Merge(settings[p], patch) \in Policy
    BY MergeTypes DEF TypeOK
  <2>2. /\ manager' = [pc |-> "write", property |-> p, blob |-> Merge(settings[p], patch)]
        /\ UNCHANGED <<now, inc, settings, open, tick, fired, faults, unsent, history>>
    BY <1>2 DEF ManagerReads
  <2> HIDE DEF Merge
  <2> QED
    BY <2>1, <2>2 DEF history, TypeOK, TickOK, Batched
<1> QED
  BY <1>1, <1>2

(* Ticks that end or begin.                                                *)
LEMMA EndTypes ==
  ASSUME TypeOK, Restart \/ \E t \in Tick : TickFails(t) PROVE TypeOK'
<1>1. /\ tick' \in [Tick -> TickRecord] /\ \A t \in Tick : tick'[t] = tick[t] \/ tick'[t] = Idle
      /\ faults' \in 0..MaxFaults
      /\ manager' = manager \/ manager' = NoCall
      /\ unsent' \subseteq unsent
      /\ UNCHANGED <<now, inc, settings, open, fired, history>>
  <2>1. MaxFaults \in Nat
    BY AlertsAssumption DEF ConstantsOK
  <2>2. CASE Restart
    BY <2>1, <2>2, IdleIsATick DEF Restart, TypeOK
  <2>3. ASSUME NEW t \in Tick, TickFails(t) PROVE tick' \in [Tick -> TickRecord] /\ \A s \in Tick : tick'[s] = tick[s] \/ tick'[s] = Idle
    BY <2>3, IdleIsATick DEF TickFails, TypeOK
  <2>4. CASE \E t \in Tick : TickFails(t)
    <3>1. PICK t \in Tick : TickFails(t)
      BY <2>4
    <3>2. faults' = faults + 1 /\ faults < MaxFaults
          /\ UNCHANGED <<now, inc, settings, open, fired, manager, unsent, history>>
      BY <3>1 DEF TickFails
    <3> QED
      BY <2>1, <2>3, <3>1, <3>2 DEF TypeOK
  <2> QED
    BY <2>2, <2>4
<1>2. ASSUME NEW t \in Tick PROVE TickOK(t)'
  BY <1>1, IdleIsATick DEF TypeOK, TickOK, Batched
<1>3. /\ manager' \in [pc : {"idle", "write"}, property : Property \cup {NULL}, blob : Policy \cup {NULL}]
      /\ manager'.pc = "write" => manager'.property \in Property /\ manager'.blob \in Policy
  BY <1>1 DEF TypeOK, NoCall
<1> QED
  BY <1>1, <1>2, <1>3 DEF TypeOK, history

LEMMA StartTypes == ASSUME TypeOK, NEW t \in Tick, StartTick(t) PROVE TypeOK'
<1>1. /\ tick' = [tick EXCEPT ![t] = Idle]
         \/ tick' = [tick EXCEPT ![t] = [Idle EXCEPT !.pc = "read", !.policy = settings]]
      /\ fired' = now /\ UNCHANGED <<now, inc, settings, open, manager, faults, unsent, history>>
  BY DEF StartTick
<1>2. [Idle EXCEPT !.pc = "read", !.policy = settings] \in TickRecord
  BY DEF Idle, TickRecord, TypeOK
<1>3. /\ tick' \in [Tick -> TickRecord] /\ \A s \in Tick \ {t} : tick'[s] = tick[s]
      /\ \/ tick'[t] = Idle
         \/ tick'[t].pc = "read" /\ tick'[t].policy = settings /\ tick'[t].due = {}
  <2>1. tick \in [Tick -> TickRecord]
    BY DEF TypeOK
  <2>2. [Idle EXCEPT !.pc = "read", !.policy = settings].pc = "read"
        /\ [Idle EXCEPT !.pc = "read", !.policy = settings].policy = settings
        /\ [Idle EXCEPT !.pc = "read", !.policy = settings].due = {}
    BY DEF Idle
  <2> QED
    BY <1>1, <1>2, <2>1, <2>2, IdleIsATick
<1>4. ASSUME NEW s \in Tick PROVE TickOK(s)'
  BY <1>1, <1>3, IdleIsATick DEF TypeOK, TickOK, Batched
<1> QED
  BY <1>1, <1>3, <1>4 DEF TypeOK, history

(* The tick's own steps.                                                   *)
LEMMA ReadIs ==
  ASSUME TypeOK, NEW t \in Tick, ReadIncidents(t)
  PROVE  \E V \in FirstPerGroup(inc) :
           LET w == [tick[t] EXCEPT !.seen = inc, !.at = now, !.visit = V,
                       !.due = {p \in Batched(t) : PulseDue(inc, p, tick[t].policy[p], now)}]
           IN  /\ Goto(t, w) /\ w \in TickRecord /\ V \subseteq Incident
               /\ w.seen = inc /\ w.at = now /\ w.visit = V /\ w.policy = tick[t].policy
               /\ w.due = {p \in Batched(t) : PulseDue(inc, p, tick[t].policy[p], now)}
<1>1. PICK V \in FirstPerGroup(inc) :
        Goto(t, [tick[t] EXCEPT !.seen = inc, !.at = now, !.visit = V,
                   !.due = {p \in Batched(t) : PulseDue(inc, p, tick[t].policy[p], now)}])
  BY DEF ReadIncidents
<1>2. V \subseteq Incident
  BY DEF FirstPerGroup
<1> DEFINE D == {p \in Batched(t) : PulseDue(inc, p, tick[t].policy[p], now)}
<1>3. D \subseteq Property
  BY DEF Batched
<1>4. tick[t] \in TickRecord /\ inc \in [Incident -> IncidentRecord] /\ now \in Time
  BY DEF TypeOK
<1> HIDE DEF D
<1>5. /\ [tick[t] EXCEPT !.seen = inc, !.at = now, !.visit = V, !.due = D] \in TickRecord
      /\ [tick[t] EXCEPT !.seen = inc, !.at = now, !.visit = V, !.due = D].seen = inc
      /\ [tick[t] EXCEPT !.seen = inc, !.at = now, !.visit = V, !.due = D].at = now
      /\ [tick[t] EXCEPT !.seen = inc, !.at = now, !.visit = V, !.due = D].visit = V
      /\ [tick[t] EXCEPT !.seen = inc, !.at = now, !.visit = V, !.due = D].due = D
      /\ [tick[t] EXCEPT !.seen = inc, !.at = now, !.visit = V, !.due = D].policy = tick[t].policy
  BY <1>2, <1>3, <1>4 DEF TickRecord
<1> QED
  BY <1>1, <1>2, <1>5 DEF D

(* What reading does to the tick, once for all.                            *)
LEMMA ReadDoes ==
  ASSUME TypeOK, NEW t \in Tick, ReadIncidents(t)
  PROVE  /\ UNCHANGED <<now, inc, settings, open, fired, manager, faults, unsent, history>>
         /\ tick' \in [Tick -> TickRecord] /\ tick[t].pc = "read"
         /\ \A s \in Tick \ {t} : tick'[s] = tick[s]
         /\ tick'[t].pc \in {"idle", "pulse", "visit"}
         /\ tick'[t].pc = "idle" => tick'[t].due = {}
         /\ tick'[t].pc = "visit" => tick'[t].due = {}
         /\ tick'[t].pc # "pulse" => \A p \in Batched(t) : ~PulseDue(inc, p, tick[t].policy[p], now)
         /\ tick'[t].pc = "idle" /\ EscalationEnabled => {} \in FirstPerGroup(inc)
         /\ tick'[t].pc # "idle" =>
              /\ tick'[t].policy = tick[t].policy /\ tick'[t].seen = inc /\ tick'[t].at = now
              /\ tick'[t].due = {p \in Batched(t) : PulseDue(inc, p, tick[t].policy[p], now)}
              /\ tick'[t].visit \in FirstPerGroup(inc) /\ tick'[t].visit \subseteq Incident
<1>1. PICK V \in FirstPerGroup(inc) :
        LET w == [tick[t] EXCEPT !.seen = inc, !.at = now, !.visit = V,
                    !.due = {p \in Batched(t) : PulseDue(inc, p, tick[t].policy[p], now)}]
        IN  /\ Goto(t, w) /\ w \in TickRecord /\ V \subseteq Incident
            /\ w.seen = inc /\ w.at = now /\ w.visit = V /\ w.policy = tick[t].policy
            /\ w.due = {p \in Batched(t) : PulseDue(inc, p, tick[t].policy[p], now)}
  BY ReadIs
<1>2. PICK w \in TickRecord :
        /\ Goto(t, w) /\ V \subseteq Incident
        /\ w.seen = inc /\ w.at = now /\ w.visit = V /\ w.policy = tick[t].policy
        /\ w.due = {p \in Batched(t) : PulseDue(inc, p, tick[t].policy[p], now)}
  BY <1>1
<1>3. tick \in [Tick -> TickRecord]
  BY DEF TypeOK
<1>4. /\ tick' \in [Tick -> TickRecord]
      /\ \A s \in Tick \ {t} : tick'[s] = tick[s]
      /\ tick'[t].pc \in {"idle", "pulse", "visit"}
      /\ tick'[t].pc = "pulse" => w.due # {}
      /\ tick'[t].pc # "pulse" => w.due = {} /\ tick'[t].due = {}
      /\ tick'[t].pc = "idle" => ~EscalationEnabled \/ w.visit = {}
      /\ tick'[t].pc # "idle" =>
           /\ tick'[t].policy = w.policy /\ tick'[t].seen = w.seen /\ tick'[t].at = w.at
           /\ tick'[t].due = w.due /\ tick'[t].visit = w.visit
  BY <1>2, <1>3, GotoIs
<1> QED
  BY <1>2, <1>4 DEF ReadIncidents

LEMMA StampDoes ==
  ASSUME TypeOK, NEW t \in Tick, NEW p \in Property, StampFirstTime(t, p)
  PROVE  /\ UNCHANGED <<now, settings, open, fired, manager, faults, unsent, history>>
         /\ tick[t].pc = "pulse" /\ p \in tick[t].due
         /\ tick' \in [Tick -> TickRecord] /\ \A s \in Tick \ {t} : tick'[s] = tick[s]
         /\ tick'[t].pc = "save" /\ tick'[t].cur = p
         /\ tick'[t].policy = tick[t].policy /\ tick'[t].seen = tick[t].seen /\ tick'[t].at = tick[t].at
         /\ tick'[t].due = tick[t].due /\ tick'[t].visit = tick[t].visit
         /\ inc' \in [Incident -> IncidentRecord]
         /\ \A i \in Incident :
              /\ inc'[i].status = inc[i].status /\ inc'[i].reportedAt = inc[i].reportedAt
              /\ inc'[i].cleaner = inc[i].cleaner /\ inc'[i].supervisor = inc[i].supervisor
              /\ i \in FirstTime(t, p) => inc'[i].notifiedAt = tick[t].at /\ tick[t].at # NULL
              /\ i \notin FirstTime(t, p) => inc'[i].notifiedAt = inc[i].notifiedAt
<1>1. /\ tick \in [Tick -> TickRecord] /\ inc \in [Incident -> IncidentRecord] /\ now \in Time
      /\ tick[t].pc = "pulse" /\ p \in tick[t].due
  BY DEF TypeOK, StampFirstTime
<1>2. tick[t].at \in 0..now /\ tick[t].at \in Time /\ tick[t].at # NULL
  BY <1>1, AlertsAssumption DEF TypeOK, TickOK, Time, ConstantsOK
<1>3. /\ inc' = [i \in Incident |-> IF i \in FirstTime(t, p)
                    THEN [inc[i] EXCEPT !.notifiedAt = tick[t].at] ELSE inc[i]]
      /\ tick' = [tick EXCEPT ![t].pc = "save", ![t].cur = p]
      /\ UNCHANGED <<now, settings, open, fired, manager, faults, unsent, history>>
  BY DEF StampFirstTime
<1>4. inc' \in [Incident -> IncidentRecord]
  BY <1>1, <1>2, <1>3 DEF IncidentRecord
<1>5. ASSUME NEW i \in Incident
      PROVE  /\ inc'[i].status = inc[i].status /\ inc'[i].reportedAt = inc[i].reportedAt
             /\ inc'[i].cleaner = inc[i].cleaner /\ inc'[i].supervisor = inc[i].supervisor
             /\ i \in FirstTime(t, p) => inc'[i].notifiedAt = tick[t].at
             /\ i \notin FirstTime(t, p) => inc'[i].notifiedAt = inc[i].notifiedAt
  BY <1>1, <1>3 DEF IncidentRecord
<1>6. /\ tick' \in [Tick -> TickRecord] /\ \A s \in Tick \ {t} : tick'[s] = tick[s]
      /\ tick'[t].pc = "save" /\ tick'[t].cur = p
      /\ tick'[t].policy = tick[t].policy /\ tick'[t].seen = tick[t].seen /\ tick'[t].at = tick[t].at
      /\ tick'[t].due = tick[t].due /\ tick'[t].visit = tick[t].visit
  BY <1>1, <1>3 DEF TickRecord
<1> QED
  BY <1>1, <1>2, <1>3, <1>4, <1>5, <1>6

LEMMA SaveDoes ==
  ASSUME TypeOK, NEW t \in Tick, NEW p \in Property, SavePulse(t, p)
  PROVE  /\ UNCHANGED <<now, inc, open, fired, manager, faults, unsent, history>>
         /\ \/ tick[t].pc = "save" /\ tick[t].cur = p
            \/ tick[t].pc = "pulse" /\ FirstTime(t, p) = {}
         /\ p \in tick[t].due /\ tick[t].at \in Time /\ tick[t].at <= now
         /\ settings' \in [Property -> Policy]
         /\ \A q \in Property \ {p} : settings'[q] = settings[q]
         /\ settings'[p].interval = tick[t].policy[p].interval
         /\ settings'[p].lastPulse = tick[t].at
         /\ tick' \in [Tick -> TickRecord] /\ \A s \in Tick \ {t} : tick'[s] = tick[s]
         /\ tick'[t].pc = "push" /\ tick'[t].cur = p
         /\ tick'[t].policy = tick[t].policy /\ tick'[t].seen = tick[t].seen /\ tick'[t].at = tick[t].at
         /\ tick'[t].due = tick[t].due /\ tick'[t].visit = tick[t].visit
<1>1. /\ tick \in [Tick -> TickRecord] /\ settings \in [Property -> Policy] /\ now \in Time
      /\ p \in tick[t].due
      /\ \/ tick[t].pc = "save" /\ tick[t].cur = p
         \/ tick[t].pc = "pulse" /\ FirstTime(t, p) = {}
  BY DEF TypeOK, TickOK, SavePulse
<1>2. tick[t].at \in Time /\ tick[t].at <= now /\ tick[t].policy \in [Property -> Policy]
  BY <1>1, AlertsAssumption DEF TypeOK, TickOK, Time, ConstantsOK
<1>3. /\ settings' = [settings EXCEPT ![p] = [tick[t].policy[p] EXCEPT !.lastPulse = tick[t].at]]
      /\ tick' = [tick EXCEPT ![t].pc = "push", ![t].cur = p]
      /\ UNCHANGED <<now, inc, open, fired, manager, faults, unsent, history>>
  BY DEF SavePulse
<1>4. /\ [tick[t].policy[p] EXCEPT !.lastPulse = tick[t].at] \in Policy
      /\ [tick[t].policy[p] EXCEPT !.lastPulse = tick[t].at].interval = tick[t].policy[p].interval
      /\ [tick[t].policy[p] EXCEPT !.lastPulse = tick[t].at].lastPulse = tick[t].at
  BY <1>2 DEF Policy
<1>5. /\ settings' \in [Property -> Policy]
      /\ \A q \in Property \ {p} : settings'[q] = settings[q]
      /\ settings'[p] = [tick[t].policy[p] EXCEPT !.lastPulse = tick[t].at]
  BY <1>1, <1>3, <1>4
<1>6. /\ tick' \in [Tick -> TickRecord] /\ \A s \in Tick \ {t} : tick'[s] = tick[s]
      /\ tick'[t].pc = "push" /\ tick'[t].cur = p
      /\ tick'[t].policy = tick[t].policy /\ tick'[t].seen = tick[t].seen /\ tick'[t].at = tick[t].at
      /\ tick'[t].due = tick[t].due /\ tick'[t].visit = tick[t].visit
  BY <1>1, <1>3 DEF TickRecord
<1> QED
  BY <1>1, <1>2, <1>3, <1>4, <1>5, <1>6

LEMMA PushDoes ==
  ASSUME TypeOK, NEW t \in Tick, PushPulse(t)
  PROVE  /\ UNCHANGED <<now, inc, settings, open, fired, manager, faults, unsent, openSince, touched>>
         /\ tick[t].pc = "push" /\ tick[t].cur \in tick[t].due /\ tick[t].cur \in Property
         /\ tick[t].at \in Time
         /\ told' = told \cup Bucket(tick[t].seen, tick[t].cur)
         /\ pulses' = [pulses EXCEPT ![tick[t].cur] = Append(@, tick[t].at)]
         /\ tick' \in [Tick -> TickRecord] /\ \A s \in Tick \ {t} : tick'[s] = tick[s]
         /\ tick'[t].pc \in {"idle", "pulse", "visit"}
         /\ tick'[t].pc # "pulse" => tick[t].due \subseteq {tick[t].cur} /\ tick'[t].due = {}
         /\ tick'[t].pc = "idle" => ~EscalationEnabled \/ tick[t].visit = {}
         /\ tick'[t].pc # "idle" =>
              /\ tick'[t].policy = tick[t].policy /\ tick'[t].seen = tick[t].seen
              /\ tick'[t].at = tick[t].at /\ tick'[t].due = tick[t].due \ {tick[t].cur}
              /\ tick'[t].visit = tick[t].visit
<1>1. tick \in [Tick -> TickRecord] /\ tick[t].pc = "push"
  BY DEF TypeOK, PushPulse
<1>2. tick[t].cur \in tick[t].due /\ tick[t].cur \in Property /\ tick[t].at \in Time
  BY <1>1, AlertsAssumption DEF TypeOK, TickOK, TickRecord, Batched, Time, ConstantsOK
<1> DEFINE u == [tick[t] EXCEPT !.due = @ \ {tick[t].cur}]
<1>3. /\ u \in TickRecord /\ u.due = tick[t].due \ {tick[t].cur} /\ u.visit = tick[t].visit
      /\ u.policy = tick[t].policy /\ u.seen = tick[t].seen /\ u.at = tick[t].at
  BY <1>1 DEF TickRecord
<1>4. Goto(t, u)
  BY DEF PushPulse
<1>5. PICK w \in TickRecord :
        /\ Goto(t, w) /\ w.due = tick[t].due \ {tick[t].cur} /\ w.visit = tick[t].visit
        /\ w.policy = tick[t].policy /\ w.seen = tick[t].seen /\ w.at = tick[t].at
  BY <1>3, <1>4
<1>6. /\ tick' \in [Tick -> TickRecord]
      /\ \A s \in Tick \ {t} : tick'[s] = tick[s]
      /\ tick'[t].pc \in {"idle", "pulse", "visit"}
      /\ tick'[t].pc # "pulse" => w.due = {} /\ tick'[t].due = {}
      /\ tick'[t].pc = "idle" => ~EscalationEnabled \/ w.visit = {}
      /\ tick'[t].pc # "idle" =>
           /\ tick'[t].policy = w.policy /\ tick'[t].seen = w.seen /\ tick'[t].at = w.at
           /\ tick'[t].due = w.due /\ tick'[t].visit = w.visit
  BY <1>1, <1>5, GotoIs
<1>7. /\ told' = told \cup Bucket(tick[t].seen, tick[t].cur)
      /\ pulses' = [pulses EXCEPT ![tick[t].cur] = Append(@, tick[t].at)]
      /\ UNCHANGED <<now, inc, settings, open, fired, manager, faults, unsent, openSince, touched>>
  BY DEF PushPulse
<1> QED
  BY <1>1, <1>2, <1>5, <1>6, <1>7

LEMMA VisitDoes ==
  ASSUME TypeOK, NEW t \in Tick, NEW i \in Incident, Visit(t, i)
  PROVE  /\ UNCHANGED <<now, settings, open, fired, manager, faults, unsent, openSince, pulses, touched>>
         /\ tick[t].pc = "visit" /\ i \in tick[t].visit /\ tick[t].due = {}
         /\ \/ /\ CleanerDue(t, i) /\ told' = told \cup {i}
               /\ inc' = [inc EXCEPT ![i].cleaner = Append(@, Len(tick[t].seen[i].cleaner) + 1)]
            \/ ~CleanerDue(t, i) /\ UNCHANGED <<inc, told>>
         /\ tick' \in [Tick -> TickRecord] /\ \A s \in Tick \ {t} : tick'[s] = tick[s]
         /\ tick'[t].pc \in {"idle", "visit", "escalate"}
         /\ tick'[t].due = {}
         /\ tick'[t].pc = "escalate" => tick'[t].cur = i
         /\ tick'[t].pc = "idle" => ~EscalationEnabled \/ tick[t].visit \subseteq {i}
         /\ tick'[t].pc # "idle" =>
              /\ tick'[t].policy = tick[t].policy /\ tick'[t].seen = tick[t].seen
              /\ tick'[t].at = tick[t].at /\ tick'[t].visit = tick[t].visit \ {i}
<1>1. tick \in [Tick -> TickRecord] /\ tick[t].pc = "visit" /\ i \in tick[t].visit
  BY DEF TypeOK, Visit
<1>2. tick[t].due = {}
  BY <1>1 DEF TypeOK, TickOK
<1> DEFINE u == [tick[t] EXCEPT !.visit = @ \ {i}]
<1>3. /\ u \in TickRecord /\ u.due = {} /\ u.visit = tick[t].visit \ {i}
      /\ u.policy = tick[t].policy /\ u.seen = tick[t].seen /\ u.at = tick[t].at
  BY <1>1, <1>2 DEF TickRecord
<1>4. \/ SupervisorDue(t, i) /\ tick' = [tick EXCEPT ![t] = [u EXCEPT !.pc = "escalate", !.cur = i]]
      \/ Goto(t, u)
  BY DEF Visit
<1>5. PICK w \in TickRecord :
        /\ tick' = [tick EXCEPT ![t] = [w EXCEPT !.pc = "escalate", !.cur = i]] \/ Goto(t, w)
        /\ w.due = {} /\ w.visit = tick[t].visit \ {i}
        /\ w.policy = tick[t].policy /\ w.seen = tick[t].seen /\ w.at = tick[t].at
  BY <1>3, <1>4
<1>6. CASE tick' = [tick EXCEPT ![t] = [w EXCEPT !.pc = "escalate", !.cur = i]]
  <2>1. /\ tick' \in [Tick -> TickRecord] /\ \A s \in Tick \ {t} : tick'[s] = tick[s]
        /\ tick'[t].pc = "escalate" /\ tick'[t].cur = i /\ tick'[t].due = {}
        /\ tick'[t].policy = w.policy /\ tick'[t].seen = w.seen /\ tick'[t].at = w.at
        /\ tick'[t].visit = w.visit
    BY <1>1, <1>5, <1>6 DEF TickRecord
  <2> QED
    BY <1>1, <1>2, <1>5, <2>1 DEF Visit
<1>7. CASE Goto(t, w)
  <2>1. /\ tick' \in [Tick -> TickRecord]
        /\ \A s \in Tick \ {t} : tick'[s] = tick[s]
        /\ tick'[t].pc \in {"idle", "pulse", "visit"}
        /\ tick'[t].pc = "pulse" => w.due # {}
        /\ tick'[t].pc # "pulse" => tick'[t].due = {}
        /\ tick'[t].pc = "idle" => ~EscalationEnabled \/ w.visit = {}
        /\ tick'[t].pc # "idle" =>
             /\ tick'[t].policy = w.policy /\ tick'[t].seen = w.seen /\ tick'[t].at = w.at
             /\ tick'[t].visit = w.visit
    BY <1>1, <1>7, GotoIs
  <2> QED
    BY <1>1, <1>2, <1>5, <2>1 DEF Visit
<1> QED
  BY <1>5, <1>6, <1>7

LEMMA EscalateDoes ==
  ASSUME TypeOK, NEW t \in Tick, Escalate(t)
  PROVE  /\ UNCHANGED <<now, settings, open, fired, manager, faults, unsent, history>>
         /\ tick[t].pc = "escalate" /\ tick[t].cur \in Incident /\ tick[t].due = {}
         /\ inc' = [inc EXCEPT ![tick[t].cur].supervisor =
                      Append(@, Len(tick[t].seen[tick[t].cur].supervisor) + 1)]
         /\ tick' \in [Tick -> TickRecord] /\ \A s \in Tick \ {t} : tick'[s] = tick[s]
         /\ tick'[t].pc \in {"idle", "visit"} /\ tick'[t].due = {}
         /\ tick'[t].pc = "idle" => ~EscalationEnabled \/ tick[t].visit = {}
         /\ tick'[t].pc # "idle" =>
              /\ tick'[t].policy = tick[t].policy /\ tick'[t].seen = tick[t].seen
              /\ tick'[t].at = tick[t].at /\ tick'[t].visit = tick[t].visit
<1>1. tick \in [Tick -> TickRecord] /\ tick[t].pc = "escalate" /\ tick[t] \in TickRecord
  BY DEF TypeOK, Escalate
<1>2. tick[t].due = {} /\ tick[t].cur \in Incident
  BY <1>1 DEF TypeOK, TickOK
<1>3. Goto(t, tick[t])
  BY DEF Escalate
<1>4. /\ tick' \in [Tick -> TickRecord]
      /\ \A s \in Tick \ {t} : tick'[s] = tick[s]
      /\ tick'[t].pc \in {"idle", "pulse", "visit"}
      /\ tick'[t].pc = "pulse" => tick[t].due # {}
      /\ tick'[t].pc # "pulse" => tick'[t].due = {}
      /\ tick'[t].pc = "idle" => ~EscalationEnabled \/ tick[t].visit = {}
      /\ tick'[t].pc # "idle" =>
           /\ tick'[t].policy = tick[t].policy /\ tick'[t].seen = tick[t].seen
           /\ tick'[t].at = tick[t].at /\ tick'[t].visit = tick[t].visit
  BY <1>1, <1>3, GotoIs
<1> QED
  BY <1>1, <1>2, <1>4 DEF Escalate

(* A tick's step, its rows and its policies keep their types.              *)
LEMMA TickMoveTypes ==
  ASSUME TypeOK, NEW t \in Tick, UNCHANGED <<now, open, fired, manager, faults, unsent, openSince, touched>>,
         tick' \in [Tick -> TickRecord], \A s \in Tick \ {t} : tick'[s] = tick[s], TickOK(t)',
         inc' \in [Incident -> IncidentRecord], settings' \in [Property -> Policy],
         told' \subseteq Incident, pulses' \in [Property -> Seq(Time)]
  PROVE  TypeOK'
<1>1. ASSUME NEW s \in Tick \ {t} PROVE TickOK(s)'
  BY DEF TypeOK, TickOK, Batched
<1> QED
  BY <1>1 DEF TypeOK

LEMMA TickKeeps ==
  ASSUME TypeOK, NEW t \in Tick, now' = now, tick[t].pc \notin {"idle", "read"},
         tick'[t].pc = "idle" => tick'[t].due = {},
         tick'[t].pc # "idle" =>
           /\ tick'[t].pc # "read" /\ tick'[t].policy = tick[t].policy
           /\ tick'[t].seen = tick[t].seen /\ tick'[t].at = tick[t].at
           /\ tick'[t].due \subseteq tick[t].due,
         tick'[t].pc \in {"save", "push"} => tick'[t].cur \in tick'[t].due,
         tick'[t].pc = "escalate" => tick'[t].cur \in Incident,
         tick'[t].pc \in {"visit", "escalate"} => tick'[t].due = {}
  PROVE  TickOK(t)'
<1>1. /\ tick[t].policy \in [Property -> Policy] /\ tick[t].seen \in [Incident -> IncidentRecord]
      /\ tick[t].at \in 0..now /\ tick[t].due \subseteq {p \in Property : tick[t].policy[p].mode = "batched"}
  BY DEF TypeOK, TickOK, Batched
<1> QED
  BY <1>1 DEF TickOK, Batched

LEMMA RoundTypes ==
  ASSUME TypeOK, NEW i \in Incident, NEW n \in Nat
  PROVE  /\ [inc EXCEPT ![i].cleaner = Append(@, n)] \in [Incident -> IncidentRecord]
         /\ [inc EXCEPT ![i].supervisor = Append(@, n)] \in [Incident -> IncidentRecord]
<1>1. inc \in [Incident -> IncidentRecord] /\ inc[i].cleaner \in Seq(Nat) /\ inc[i].supervisor \in Seq(Nat)
  BY DEF TypeOK, IncidentRecord
<1>6. Append(inc[i].cleaner, n) \in Seq(Nat) /\ Append(inc[i].supervisor, n) \in Seq(Nat)
  BY <1>1
<1>2. PICK c \in Seq(Nat) : c = Append(inc[i].cleaner, n)
  BY <1>6, Zenon
<1>3. PICK s \in Seq(Nat) : s = Append(inc[i].supervisor, n)
  BY <1>6, Zenon
<1>4. [inc EXCEPT ![i].cleaner = c] \in [Incident -> IncidentRecord]
  BY <1>1 DEF IncidentRecord
<1>5. [inc EXCEPT ![i].supervisor = s] \in [Incident -> IncidentRecord]
  BY <1>1 DEF IncidentRecord
<1> QED
  BY <1>2, <1>3, <1>4, <1>5

LEMMA TickTypes == ASSUME TypeOK, NEW t \in Tick, TickStep(t) PROVE TypeOK'
<1>0. /\ inc \in [Incident -> IncidentRecord] /\ settings \in [Property -> Policy]
      /\ told \subseteq Incident /\ pulses \in [Property -> Seq(Time)] /\ now \in Nat
  BY DEF TypeOK, Time
<1>1. CASE ReadIncidents(t)
  <2>1. TickOK(t)'
    <3>1. tick[t].policy \in [Property -> Policy]
      BY <1>1, ReadDoes DEF TypeOK, TickOK
    <3> QED
      BY <1>0, <1>1, <3>1, ReadDoes DEF TickOK, Batched
  <2> QED
    BY <1>0, <1>1, <2>1, ReadDoes, TickMoveTypes DEF history
<1>2. ASSUME NEW p \in Property, StampFirstTime(t, p) PROVE TypeOK'
  <2>1. TickOK(t)'
    BY <1>2, StampDoes, TickKeeps
  <2> QED
    BY <1>0, <1>2, <2>1, StampDoes, TickMoveTypes DEF history
<1>3. ASSUME NEW p \in Property, SavePulse(t, p) PROVE TypeOK'
  <2>1. TickOK(t)'
    BY <1>3, SaveDoes, TickKeeps
  <2> QED
    BY <1>0, <1>3, <2>1, SaveDoes, TickMoveTypes DEF history
<1>4. CASE PushPulse(t)
  <2>1. TickOK(t)'
    BY <1>4, PushDoes, TickKeeps
  <2>2. told' \subseteq Incident
    BY <1>0, <1>4, PushDoes DEF Bucket
  <2>3. pulses' \in [Property -> Seq(Time)]
    <3>1. tick[t].cur \in Property /\ tick[t].at \in Time
          /\ pulses' = [pulses EXCEPT ![tick[t].cur] = Append(@, tick[t].at)]
      BY <1>4, PushDoes
    <3> QED
      BY <1>0, <3>1
  <2> QED
    BY <1>0, <1>4, <2>1, <2>2, <2>3, PushDoes, TickMoveTypes
<1>5. ASSUME NEW i \in Incident, Visit(t, i) PROVE TypeOK'
  <2>1. TickOK(t)'
    BY <1>5, VisitDoes, TickKeeps
  <2>2. inc' \in [Incident -> IncidentRecord] /\ told' \subseteq Incident
    <3>1. Len(tick[t].seen[i].cleaner) + 1 \in Nat
      BY <1>5, VisitDoes DEF TypeOK, TickOK, IncidentRecord
    <3>2. \/ inc' = [inc EXCEPT ![i].cleaner = Append(@, Len(tick[t].seen[i].cleaner) + 1)]
             /\ told' = told \cup {i}
          \/ UNCHANGED <<inc, told>>
      BY <1>5, VisitDoes
    <3>3. PICK n \in Nat : n = Len(tick[t].seen[i].cleaner) + 1
      BY <3>1, Zenon
    <3>4. [inc EXCEPT ![i].cleaner = Append(@, n)] \in [Incident -> IncidentRecord]
      BY RoundTypes
    <3> QED
      BY <1>0, <3>2, <3>3, <3>4, Zenon
  <2>3. settings' = settings /\ pulses' = pulses
    BY <1>5, VisitDoes
  <2> QED
    BY <1>0, <1>5, <2>1, <2>2, <2>3, VisitDoes, TickMoveTypes
<1>6. CASE Escalate(t)
  <2>1. TickOK(t)'
    BY <1>6, EscalateDoes, TickKeeps
  <2>2. inc' \in [Incident -> IncidentRecord]
    <3>1. tick[t].cur \in Incident /\ Len(tick[t].seen[tick[t].cur].supervisor) + 1 \in Nat
      <4>1. tick[t].cur \in Incident /\ tick[t].pc = "escalate"
        BY <1>6, EscalateDoes
      <4>2. tick[t].seen[tick[t].cur] \in IncidentRecord
        BY <4>1 DEF TypeOK, TickOK
      <4> QED
        BY <4>1, <4>2 DEF IncidentRecord
    <3>2. inc' = [inc EXCEPT ![tick[t].cur].supervisor =
                    Append(@, Len(tick[t].seen[tick[t].cur].supervisor) + 1)]
      BY <1>6, EscalateDoes
    <3>3. PICK c \in Incident, n \in Nat : inc' = [inc EXCEPT ![c].supervisor = Append(@, n)]
      BY <3>1, <3>2, Zenon
    <3> QED
      BY <3>3, RoundTypes
  <2> QED
    BY <1>0, <1>6, <2>1, <2>2, EscalateDoes, TickMoveTypes DEF history
<1> QED
  BY <1>1, <1>2, <1>3, <1>4, <1>5, <1>6 DEF TickStep

LEMMA TypeStep == ASSUME TypeOK, [Next]_vars PROVE TypeOK'
<1>1. CASE UNCHANGED vars
  BY <1>1 DEF vars, handlers, history, TypeOK, TickOK, Batched
<1>2. CASE Minute \/ ManagerWrites \/ Restart
  BY <1>2, MinuteTypes, ManagerTypes, EndTypes
<1>3. CASE \E t \in Tick : StartTick(t) \/ TickStep(t) \/ TickFails(t)
  BY <1>3, StartTypes, TickTypes, EndTypes
<1>4. CASE \E i \in Incident : AlertOnReport(i) \/ Handle(i) \/ \E r \in Time : Report(i, r)
  BY <1>4, AlertTypes, HandleTypes, ReportTypes
<1>5. CASE \E p \in Property : ChangeHours(p) \/ \E patch \in Patch : ManagerReads(p, patch)
  BY <1>5, HoursTypes, ManagerTypes
<1> QED
  BY <1>1, <1>2, <1>3, <1>4, <1>5 DEF Next

-----------------------------------------------------------------------------
(* What every step keeps of a row, whoever takes it.                       *)

(* The columns a tick step leaves alone, and the stamp it may set.         *)
LEMMA TickStepRows ==
  ASSUME TypeOK, NEW t \in Tick, TickStep(t)
  PROVE  /\ UNCHANGED <<now, open, fired, manager, faults, unsent, openSince, touched>>
         /\ told \subseteq told' /\ \A s \in Tick \ {t} : tick'[s] = tick[s]
         /\ \A i \in Incident :
              /\ inc'[i].status = inc[i].status /\ inc'[i].reportedAt = inc[i].reportedAt
              /\ inc[i].notifiedAt # NULL => inc'[i].notifiedAt # NULL
<1>0. inc \in [Incident -> IncidentRecord]
  BY DEF TypeOK
<1>1. CASE ReadIncidents(t)
  BY <1>1, ReadDoes DEF history
<1>2. ASSUME NEW p \in Property, StampFirstTime(t, p)
      PROVE  \A i \in Incident :
               /\ inc'[i].status = inc[i].status /\ inc'[i].reportedAt = inc[i].reportedAt
               /\ inc[i].notifiedAt # NULL => inc'[i].notifiedAt # NULL
  <2> SUFFICES ASSUME NEW i \in Incident
               PROVE  /\ inc'[i].status = inc[i].status /\ inc'[i].reportedAt = inc[i].reportedAt
                      /\ inc[i].notifiedAt # NULL => inc'[i].notifiedAt # NULL
    OBVIOUS
  <2>1. /\ inc'[i].status = inc[i].status /\ inc'[i].reportedAt = inc[i].reportedAt
        /\ i \in FirstTime(t, p) => inc'[i].notifiedAt = tick[t].at /\ tick[t].at # NULL
        /\ i \notin FirstTime(t, p) => inc'[i].notifiedAt = inc[i].notifiedAt
    BY <1>2, StampDoes
  <2> QED
    BY <2>1
<1>3. CASE \E p \in Property : StampFirstTime(t, p)
  BY <1>2, <1>3, StampDoes DEF history
<1>4. CASE \E p \in Property : SavePulse(t, p)
  BY <1>4, SaveDoes DEF history
<1>5. CASE PushPulse(t)
  BY <1>5, PushDoes
<1>6. ASSUME NEW i \in Incident, Visit(t, i)
      PROVE  /\ UNCHANGED <<now, open, fired, manager, faults, unsent, openSince, touched>>
             /\ told \subseteq told' /\ \A s \in Tick \ {t} : tick'[s] = tick[s]
             /\ \A j \in Incident :
                  /\ inc'[j].status = inc[j].status /\ inc'[j].reportedAt = inc[j].reportedAt
                  /\ inc'[j].notifiedAt = inc[j].notifiedAt
  <2>1. \/ inc' = [inc EXCEPT ![i].cleaner = Append(@, Len(tick[t].seen[i].cleaner) + 1)]
        \/ inc' = inc
    BY <1>6, VisitDoes
  <2>2. ASSUME NEW n, inc' = [inc EXCEPT ![i].cleaner = n]
        PROVE  \A j \in Incident :
                 /\ inc'[j].status = inc[j].status /\ inc'[j].reportedAt = inc[j].reportedAt
                 /\ inc'[j].notifiedAt = inc[j].notifiedAt
    BY <1>0, <2>2 DEF IncidentRecord
  <2>3. \A j \in Incident :
          /\ inc'[j].status = inc[j].status /\ inc'[j].reportedAt = inc[j].reportedAt
          /\ inc'[j].notifiedAt = inc[j].notifiedAt
    BY <2>1, <2>2, Zenon
  <2> QED
    BY <1>6, <2>3, VisitDoes
<1>7. CASE \E i \in Incident : Visit(t, i)
  BY <1>6, <1>7
<1>8. CASE Escalate(t)
  <2>1. inc' = [inc EXCEPT ![tick[t].cur].supervisor =
                  Append(@, Len(tick[t].seen[tick[t].cur].supervisor) + 1)]
        /\ tick[t].cur \in Incident
    BY <1>8, EscalateDoes
  <2>3. PICK c \in Incident : \E n : inc' = [inc EXCEPT ![c].supervisor = n]
    BY <2>1, Zenon
  <2>2. \A j \in Incident :
          /\ inc'[j].status = inc[j].status /\ inc'[j].reportedAt = inc[j].reportedAt
          /\ inc'[j].notifiedAt = inc[j].notifiedAt
    BY <1>0, <2>3 DEF IncidentRecord
  <2> QED
    BY <1>8, <2>2, EscalateDoes DEF history
<1> QED
  BY <1>1, <1>3, <1>4, <1>5, <1>7, <1>8 DEF TickStep

(* The same of any step: reports are never taken back, a stamp is never    *)
(* cleared, and openSince only moves to now.                               *)
Grows ==
  /\ now <= now' /\ told \subseteq told' /\ touched \subseteq touched'
  /\ \A i \in Incident :
       /\ inc[i].notifiedAt # NULL => inc'[i].notifiedAt # NULL
       /\ inc[i].status # "NONE" => inc'[i].status # "NONE" /\ inc'[i].reportedAt = inc[i].reportedAt
       /\ openSince'[i] = openSince[i] \/ openSince'[i] = NULL \/ openSince'[i] = now

LEMMA GrowsStep == ASSUME TypeOK, [Next]_vars PROVE Grows
<1>0. inc \in [Incident -> IncidentRecord] /\ openSince \in [Incident -> Time \cup {NULL}] /\ now \in Nat
  BY DEF TypeOK, Time
<1>1. ASSUME NEW t \in Tick, TickStep(t) PROVE Grows
  BY <1>0, <1>1, TickStepRows DEF Grows
<1>2. ASSUME NEW t \in Tick, StartTick(t) \/ TickFails(t) PROVE Grows
  BY <1>0, <1>2 DEF StartTick, TickFails, history, Grows
<1>3. CASE Restart \/ ManagerWrites \/ \E p \in Property, patch \in Patch : ManagerReads(p, patch)
  BY <1>0, <1>3 DEF Restart, ManagerWrites, ManagerReads, history, Grows
<1>4. CASE Minute \/ UNCHANGED vars
  BY <1>0, <1>4 DEF Minute, vars, history, Grows
<1>5. ASSUME NEW i \in Incident, NEW r \in Time, Report(i, r) PROVE Grows
  <2>1. /\ inc' = [inc EXCEPT ![i].status = "OPEN", ![i].reportedAt = r] /\ inc[i].status = "NONE"
        /\ openSince' = [openSince EXCEPT ![i] = IF open[PropertyOf[i]] THEN now ELSE NULL]
        /\ UNCHANGED <<now, told, touched>>
    BY <1>5 DEF Report
  <2> QED
    BY <1>0, <2>1 DEF IncidentRecord, Grows
<1>6. ASSUME NEW i \in Incident, Handle(i) PROVE Grows
  <2>1. PICK s \in {"OPEN", "IN_PROGRESS", "RESOLVED"} :
          /\ inc' = [inc EXCEPT ![i].status = s]
          /\ openSince' = [openSince EXCEPT ![i] =
               IF s # "OPEN" \/ ~open[PropertyOf[i]] THEN NULL ELSE IF @ = NULL THEN now ELSE @]
    BY <1>6 DEF Handle, SetStatus
  <2>2. UNCHANGED <<now, told, touched>>
    BY <1>6 DEF Handle
  <2> QED
    BY <1>0, <2>1, <2>2 DEF IncidentRecord, Grows
<1>7. ASSUME NEW i \in Incident, AlertOnReport(i) PROVE Grows
  BY <1>0, <1>7 DEF AlertOnReport, Grows
<1>8. ASSUME NEW p \in Property, ChangeHours(p) PROVE Grows
  BY <1>0, <1>8 DEF ChangeHours, Grows
<1> QED
  BY <1>1, <1>2, <1>3, <1>4, <1>5, <1>6, <1>7, <1>8 DEF Next

(* What becomes of a tick in a step: nothing, or it is cut off or begins,  *)
(* or it takes a step of its own.                                          *)
LEMMA TickFate ==
  ASSUME TypeOK, [Next]_vars, NEW t \in Tick
  PROVE  \/ tick'[t] = tick[t]
         \/ tick'[t].pc = "idle" /\ tick'[t].due = {} /\ (faults' # faults \/ tick[t].pc = "idle")
         \/ /\ StartTick(t) /\ tick'[t].pc = "read" /\ tick'[t].due = {}
            /\ tick'[t].policy = settings /\ settings' = settings
         \/ TickStep(t)
<1>0. tick \in [Tick -> TickRecord] /\ faults \in Nat
  BY AlertsAssumption DEF TypeOK, ConstantsOK
<1>1. ASSUME NEW s \in Tick, TickStep(s) PROVE tick'[t] = tick[t] \/ TickStep(t)
  BY <1>1, TickStepRows
<1>2. CASE StartTick(t)
  <2>1. \/ tick' = [tick EXCEPT ![t] = Idle]
        \/ tick' = [tick EXCEPT ![t] = [Idle EXCEPT !.pc = "read", !.policy = settings]]
    BY <1>2 DEF StartTick
  <2>2. tick[t].pc = "idle" /\ settings' = settings
    BY <1>2 DEF StartTick
  <2>3. /\ [Idle EXCEPT !.pc = "read", !.policy = settings].pc = "read"
        /\ [Idle EXCEPT !.pc = "read", !.policy = settings].due = {}
        /\ [Idle EXCEPT !.pc = "read", !.policy = settings].policy = settings
    BY DEF Idle
  <2> QED
    BY <1>0, <1>2, <2>1, <2>2, <2>3, IdleIsATick
<1>3. ASSUME NEW s \in Tick, s # t, StartTick(s) PROVE tick'[t] = tick[t]
  <2>1. \E w : tick' = [tick EXCEPT ![s] = w]
    BY <1>3, Zenon DEF StartTick
  <2> QED
    BY <1>0, <1>3, <2>1
<1>4. ASSUME NEW s \in Tick, TickFails(s)
      PROVE  tick'[t] = tick[t] \/ (tick'[t].pc = "idle" /\ tick'[t].due = {} /\ faults' # faults)
  BY <1>0, <1>4, IdleIsATick DEF TickFails
<1>5. CASE Restart
  BY <1>0, <1>5, IdleIsATick DEF Restart
<1>6. CASE Minute \/ ManagerWrites \/ UNCHANGED vars
  BY <1>6 DEF Minute, ManagerWrites, vars, handlers
<1>7. ASSUME NEW i \in Incident, NEW r \in Time, Report(i, r) PROVE tick' = tick
  BY <1>7 DEF Report
<1>8. ASSUME NEW i \in Incident, AlertOnReport(i) \/ Handle(i) PROVE tick' = tick
  BY <1>8 DEF AlertOnReport, Handle, handlers
<1>9. ASSUME NEW p \in Property, ChangeHours(p) \/ \E patch \in Patch : ManagerReads(p, patch) PROVE tick' = tick
  BY <1>9 DEF ChangeHours, ManagerReads, handlers
<1> QED
  BY <1>1, <1>2, <1>3, <1>4, <1>5, <1>6, <1>7, <1>8, <1>9 DEF Next

(* After the reading a tick works from its snapshot.                       *)
LEMMA KeepsSnapshot ==
  ASSUME TypeOK, NEW t \in Tick, TickStep(t), ~ReadIncidents(t)
  PROVE  /\ tick[t].pc \notin {"idle", "read"} /\ tick'[t].pc # "read"
         /\ tick'[t].pc = "idle" => tick'[t].due = {}
         /\ tick'[t].pc # "idle" =>
              /\ tick'[t].policy = tick[t].policy /\ tick'[t].seen = tick[t].seen
              /\ tick'[t].at = tick[t].at
              /\ tick'[t].due \subseteq tick[t].due /\ tick'[t].visit \subseteq tick[t].visit
<1>1. ASSUME NEW p \in Property, StampFirstTime(t, p)
      PROVE  /\ tick[t].pc = "pulse" /\ tick'[t].pc = "save"
             /\ tick'[t].policy = tick[t].policy /\ tick'[t].seen = tick[t].seen /\ tick'[t].at = tick[t].at
             /\ tick'[t].due = tick[t].due /\ tick'[t].visit = tick[t].visit
  BY <1>1, StampDoes
<1>2. ASSUME NEW p \in Property, SavePulse(t, p)
      PROVE  /\ tick[t].pc \in {"save", "pulse"} /\ tick'[t].pc = "push"
             /\ tick'[t].policy = tick[t].policy /\ tick'[t].seen = tick[t].seen /\ tick'[t].at = tick[t].at
             /\ tick'[t].due = tick[t].due /\ tick'[t].visit = tick[t].visit
  BY <1>2, SaveDoes
<1>3. CASE PushPulse(t)
  BY <1>3, PushDoes
<1>4. ASSUME NEW i \in Incident, Visit(t, i)
      PROVE  /\ tick[t].pc = "visit" /\ tick'[t].pc # "read" /\ tick'[t].due = {}
             /\ tick'[t].pc # "idle" =>
                  /\ tick'[t].policy = tick[t].policy /\ tick'[t].seen = tick[t].seen
                  /\ tick'[t].at = tick[t].at /\ tick'[t].visit \subseteq tick[t].visit
  BY <1>4, VisitDoes
<1>5. CASE Escalate(t)
  BY <1>5, EscalateDoes
<1> QED
  BY <1>1, <1>2, <1>3, <1>4, <1>5 DEF TickStep

LEMMA RowsStep == ASSUME TInv, [Next]_vars PROVE RowsOK'
<1>0. /\ inc \in [Incident -> IncidentRecord] /\ openSince \in [Incident -> Time \cup {NULL}]
      /\ now \in Nat /\ fired \in Nat /\ fired <= now /\ open \in [Property -> BOOLEAN]
      /\ \A i \in Incident : PropertyOf[i] \in Property
  BY AlertsAssumption DEF TInv, TypeOK, Time, RowsOK, ConstantsOK
<1>1. ASSUME UNCHANGED <<open, openSince>>, now <= now', now' \in Nat, fired' <= now',
             \A i \in Incident : inc'[i].status = inc[i].status /\ inc'[i].reportedAt = inc[i].reportedAt
      PROVE  RowsOK'
  <2> SUFFICES ASSUME NEW i \in Incident
               PROVE  /\ inc'[i].status # "NONE" => inc'[i].reportedAt \in 0..now'
                      /\ openSince'[i] # NULL =>
                           /\ open'[PropertyOf[i]] /\ inc'[i].status = "OPEN"
                           /\ inc'[i].reportedAt <= openSince'[i] /\ openSince'[i] <= now'
    BY <1>1 DEF RowsOK
  <2>1. /\ inc[i].status # "NONE" => inc[i].reportedAt \in Nat /\ inc[i].reportedAt <= now
        /\ openSince[i] # NULL =>
             /\ open[PropertyOf[i]] /\ inc[i].status = "OPEN"
             /\ inc[i].reportedAt <= openSince[i] /\ openSince[i] <= now /\ openSince[i] \in Nat
    BY <1>0 DEF TInv, RowsOK, Time
  <2> QED
    BY <1>0, <1>1, <2>1
<1>2. ASSUME NEW t \in Tick, TickStep(t) PROVE RowsOK'
  BY <1>0, <1>1, <1>2, TickStepRows DEF TInv
<1>3. ASSUME NEW t \in Tick, StartTick(t) \/ TickFails(t) PROVE RowsOK'
  BY <1>0, <1>1, <1>3 DEF StartTick, TickFails, history
<1>4. CASE Restart \/ ManagerWrites \/ \E p \in Property, patch \in Patch : ManagerReads(p, patch)
  BY <1>0, <1>1, <1>4 DEF Restart, ManagerWrites, ManagerReads, history
<1>5. CASE Minute \/ UNCHANGED vars
  BY <1>0, <1>1, <1>5 DEF Minute, vars, history, handlers
<1>6. ASSUME NEW i \in Incident, AlertOnReport(i) PROVE RowsOK'
  BY <1>0, <1>1, <1>6 DEF AlertOnReport
<1>7. ASSUME NEW i \in Incident, NEW r \in Time, Report(i, r) PROVE RowsOK'
  <2>1. /\ inc' = [inc EXCEPT ![i].status = "OPEN", ![i].reportedAt = r] /\ r <= now
        /\ openSince' = [openSince EXCEPT ![i] = IF open[PropertyOf[i]] THEN now ELSE NULL]
        /\ UNCHANGED <<now, open, fired>>
    BY <1>7 DEF Report
  <2>2. /\ \A j \in Incident \ {i} : inc'[j] = inc[j] /\ openSince'[j] = openSince[j]
        /\ inc'[i].status = "OPEN" /\ inc'[i].reportedAt = r /\ r \in Nat
        /\ openSince'[i] = IF open[PropertyOf[i]] THEN now ELSE NULL
    BY <1>0, <2>1 DEF IncidentRecord, Time
  <2> QED
    BY <1>0, <2>1, <2>2 DEF TInv, RowsOK
<1>8. ASSUME NEW i \in Incident, Handle(i) PROVE RowsOK'
  <2>1. PICK s \in {"OPEN", "IN_PROGRESS", "RESOLVED"} :
          /\ inc' = [inc EXCEPT ![i].status = s]
          /\ openSince' = [openSince EXCEPT ![i] =
               IF s # "OPEN" \/ ~open[PropertyOf[i]] THEN NULL ELSE IF @ = NULL THEN now ELSE @]
    BY <1>8 DEF Handle, SetStatus
  <2>2. /\ \A j \in Incident \ {i} : inc'[j] = inc[j] /\ openSince'[j] = openSince[j]
        /\ inc'[i].status = s /\ inc'[i].reportedAt = inc[i].reportedAt
        /\ openSince'[i] = IF s # "OPEN" \/ ~open[PropertyOf[i]] THEN NULL
                           ELSE IF openSince[i] = NULL THEN now ELSE openSince[i]
    BY <1>0, <2>1 DEF IncidentRecord
  <2>3. UNCHANGED <<now, open, fired>> /\ inc[i].status # "NONE"
    BY <1>8 DEF Handle, handlers
  <2> QED
    BY <1>0, <2>2, <2>3 DEF TInv, RowsOK
<1>9. ASSUME NEW p \in Property, ChangeHours(p) PROVE RowsOK'
  <2>1. /\ open' = [open EXCEPT ![p] = ~@] /\ UNCHANGED <<now, inc, fired>>
        /\ openSince' = [i \in Incident |->
             IF PropertyOf[i] # p THEN openSince[i]
             ELSE IF open'[p] /\ inc[i].status = "OPEN" THEN now ELSE NULL]
    BY <1>9 DEF ChangeHours, handlers
  <2> QED
    BY <1>0, <2>1 DEF TInv, RowsOK
<1> QED
  BY <1>2, <1>3, <1>4, <1>5, <1>6, <1>7, <1>8, <1>9 DEF Next

LEMMA SeenStep == ASSUME TInv, [Next]_vars, NEW t \in Tick PROVE SeenOK(t)'
<1>0. /\ openSince \in [Incident -> Time \cup {NULL}] /\ now \in Nat /\ Grows /\ NULL \notin Time
  BY GrowsStep, AlertsAssumption DEF TInv, TypeOK, Time, ConstantsOK
<1>1. ASSUME tick[t].pc \notin {"idle", "read"}, tick'[t].pc # "idle",
             tick'[t].seen = tick[t].seen, tick'[t].at = tick[t].at
      PROVE  SeenOK(t)'
  <2>1. tick[t].at \in Nat /\ tick[t].at <= now
    BY <1>1 DEF TInv, TypeOK, TickOK
  <2>2. SeenOK(t)
    BY DEF TInv
  <2> SUFFICES ASSUME NEW i \in Incident
               PROVE  /\ tick[t].seen[i].status # "NONE" =>
                           /\ tick[t].seen[i].reportedAt \in 0..tick[t].at
                           /\ inc'[i].status # "NONE" /\ inc'[i].reportedAt = tick[t].seen[i].reportedAt
                      /\ tick[t].seen[i].notifiedAt # NULL => inc'[i].notifiedAt # NULL
                      /\ openSince'[i] # NULL /\ openSince'[i] < tick[t].at => tick[t].seen[i].status = "OPEN"
    BY <1>1 DEF SeenOK
  <2>3. openSince'[i] # NULL /\ openSince'[i] < tick[t].at => openSince'[i] = openSince[i]
    BY <1>0, <2>1 DEF Grows
  <2> QED
    BY <1>0, <1>1, <2>2, <2>3 DEF SeenOK, Grows
<1>2. CASE tick'[t] = tick[t]
  BY <1>1, <1>2 DEF SeenOK
<1>3. CASE tick'[t].pc \in {"idle", "read"}
  BY <1>3 DEF SeenOK
<1>4. CASE ReadIncidents(t)
  <2>1. tick'[t].pc # "idle" => tick'[t].seen = inc /\ tick'[t].at = now
    BY <1>4, ReadDoes DEF TInv
  <2>2. inc' = inc /\ openSince' = openSince /\ now' = now
    BY <1>4 DEF ReadIncidents, history
  <2> QED
    BY <1>0, <2>1, <2>2 DEF SeenOK, TInv, RowsOK
<1>5. CASE TickStep(t) /\ ~ReadIncidents(t)
  BY <1>1, <1>3, <1>5, KeepsSnapshot DEF TInv
<1> QED
  BY <1>2, <1>3, <1>4, <1>5, TickFate DEF TInv

LEMMA TInvInit == Init => TInv
<1>1. Init => RowsOK /\ \A t \in Tick : SeenOK(t)
  BY DEF Init, RowsOK, SeenOK, Unreported, Idle
<1> QED
  BY <1>1, TypeInit DEF TInv

LEMMA TInvStep == ASSUME TInv, [Next]_vars PROVE TInv'
BY TypeStep, RowsStep, SeenStep DEF TInv

(* The rows, the ticks and the manager's call keep their types, however    *)
(* many ticks, calls and failures overlap.                                 *)
THEOREM TypeCorrect == Spec => []TypeOK
<1>1. TInv => TypeOK
  BY DEF TInv
<1> QED
  BY <1>1, TInvInit, TInvStep, PTL DEF Spec

-----------------------------------------------------------------------------
(* WaitIsBounded.                                                          *)

(* What every step leaves of the announcements.                            *)
LEMMA PulsedKept ==
  ASSUME TypeOK, [Next]_vars
  PROVE  \A p \in Property, L \in Time \cup {NULL} : Pulsed(p, L) => Pulsed(p, L)'
<1> SUFFICES ASSUME NEW p \in Property, NEW L \in Time \cup {NULL}, Pulsed(p, L), L # NULL
             PROVE  /\ L <= now'
                    /\ \A i \in Incident :
                         PropertyOf[i] = p /\ openSince'[i] # NULL /\ openSince'[i] < L
                           => inc'[i].notifiedAt # NULL
  BY DEF Pulsed
<1>1. L \in Nat /\ now \in Nat /\ now' \in Nat /\ Grows
  BY GrowsStep, TypeStep DEF TypeOK, Time
<1>2. /\ L <= now
      /\ \A i \in Incident :
           PropertyOf[i] = p /\ openSince[i] # NULL /\ openSince[i] < L => inc[i].notifiedAt # NULL
  BY DEF Pulsed
<1>3. now <= now' /\ \A i \in Incident :
        /\ inc[i].notifiedAt # NULL => inc'[i].notifiedAt # NULL
        /\ openSince'[i] = openSince[i] \/ openSince'[i] = NULL \/ openSince'[i] = now
  BY <1>1 DEF Grows
<1> QED
  BY <1>1, <1>2, <1>3

(* The numbers a tick works with.                                          *)
LEMMA PolicyIs ==
  ASSUME TypeOK, NEW t \in Tick, tick[t].pc # "idle", NEW p \in Property
  PROVE  /\ tick[t].policy[p].interval \in Nat /\ tick[t].policy[p].interval > 0
         /\ tick[t].policy[p].lastPulse \in Time \cup {NULL}
<1>1. tick[t].policy[p] \in Policy
  BY DEF TypeOK, TickOK
<1>2. /\ tick[t].policy[p].interval \in BatchInterval
      /\ tick[t].policy[p].lastPulse \in Time \cup {NULL}
  BY <1>1 DEF Policy
<1>3. BatchInterval \subseteq Nat \ {0}
  BY AlertsAssumption, Zenon DEF ConstantsOK
<1>4. \A d \in BatchInterval : d \in Nat /\ d > 0
  BY <1>3
<1> QED
  BY <1>2, <1>4, Zenon

(* A pulse that is not due: what waited for its interval was announced     *)
(* before, by the pulse the wait is counted from.                          *)
LEMMA NotDue ==
  ASSUME TInv, WInv, NEW t \in Tick, tick[t].pc = "read", NEW i \in Incident,
         ~PulseDue(inc, PropertyOf[i], tick[t].policy[PropertyOf[i]], now),
         openSince[i] # NULL, openSince[i] + tick[t].policy[PropertyOf[i]].interval <= now
  PROVE  inc[i].notifiedAt # NULL
<1> DEFINE p == PropertyOf[i]
           B == Bucket(inc, p)
           oldest == MinReported(inc, B)
           L == tick[t].policy[p].lastPulse
           d == tick[t].policy[p].interval
<1>1. p \in Property /\ now \in Nat /\ openSince[i] \in Nat
  BY AlertsAssumption DEF TInv, TypeOK, Time, ConstantsOK
<1>2. open[p] /\ inc[i].status = "OPEN" /\ inc[i].reportedAt <= openSince[i]
  BY DEF TInv, RowsOK
<1>3. i \in B /\ \A j \in B : inc[j].reportedAt \in Nat
  BY <1>1, <1>2 DEF TInv, RowsOK, Bucket
<1>4. oldest \in Nat /\ oldest <= inc[i].reportedAt
  <2> HIDE DEF B
  <2> QED
    BY <1>3, MinIs
<1>5. d \in Nat /\ d > 0 /\ L \in Time \cup {NULL}
  BY <1>1, PolicyIs DEF TInv
<1>6. Pulsed(p, L)
  BY <1>1 DEF WInv
<1>7. inc[i].reportedAt \in Nat
  BY <1>3
<1>8. oldest <= openSince[i] /\ openSince[i] + d <= now
  <2> HIDE DEF oldest
  <2> QED
    BY <1>1, <1>2, <1>4, <1>7
<1>9. ~(now >= (IF L # NULL /\ L >= oldest THEN L ELSE oldest) + d)
  <2>1. B # {}
    BY <1>3
  <2> QED
    BY <1>2, <2>1 DEF PulseDue, Anchor
<1> HIDE DEF oldest, d, L, p
<1>10. L # NULL /\ openSince[i] < L
  BY <1>1, <1>4, <1>5, <1>8, <1>9 DEF Time
<1> QED
  BY <1>6, <1>10 DEF Pulsed, p

(* What a tick is about to push has a stamp already.                       *)
LEMMA PushedIsAnnounced ==
  ASSUME TInv, NEW t \in Tick, Announced(t), tick[t].pc \in {"save", "push"}, NEW i \in Incident,
         PropertyOf[i] = tick[t].cur, openSince[i] # NULL, openSince[i] < tick[t].at
  PROVE  inc[i].notifiedAt # NULL
<1>1. tick[t].seen[i].status = "OPEN"
  BY DEF TInv, SeenOK
<1> QED
  BY <1>1 DEF Announced, Bucket

LEMMA WaitedLonger ==
  ASSUME TInv, NEW t \in Tick, tick[t].pc \notin {"idle", "read"}, NEW i \in Incident, openSince[i] # NULL,
         openSince[i] + tick[t].policy[PropertyOf[i]].interval <= tick[t].at
  PROVE  openSince[i] < tick[t].at
<1>1. openSince[i] \in Nat /\ tick[t].at \in Nat /\ PropertyOf[i] \in Property
  BY AlertsAssumption DEF TInv, TypeOK, TickOK, Time, ConstantsOK
<1> QED
  BY <1>1, PolicyIs DEF TInv

(* The blobs: what the save writes is true of all that was open before.    *)
LEMMA SavedIsPulsed ==
  ASSUME TInv, WInv, NEW t \in Tick, NEW p \in Property, SavePulse(t, p)
  PROVE  Pulsed(p, tick[t].at) /\ \A i \in Bucket(tick[t].seen, p) : inc[i].notifiedAt # NULL
<1>1. tick[t].at <= now /\ tick[t].pc \in {"save", "pulse"}
  BY SaveDoes DEF TInv
<1>2. ASSUME NEW i \in Incident, i \in Bucket(tick[t].seen, p) PROVE inc[i].notifiedAt # NULL
  <2>1. CASE tick[t].pc = "save" /\ tick[t].cur = p
    BY <1>2, <2>1 DEF WInv, Announced
  <2>2. CASE tick[t].pc = "pulse" /\ FirstTime(t, p) = {}
    BY <1>2, <2>2 DEF FirstTime, TInv, SeenOK
  <2> QED
    BY <2>1, <2>2, SaveDoes DEF TInv
<1>3. ASSUME NEW i \in Incident, PropertyOf[i] = p, openSince[i] # NULL, openSince[i] < tick[t].at
      PROVE  inc[i].notifiedAt # NULL
  BY <1>1, <1>2, <1>3 DEF TInv, SeenOK, Bucket
<1> QED
  BY <1>1, <1>2, <1>3 DEF Pulsed, Bucket

(* The policies: a blob is written by a save, by the manager, or not.      *)
LEMMA BlobFate ==
  ASSUME TypeOK, [Next]_vars
  PROVE  \/ settings' = settings
         \/ \E t \in Tick, p \in Property : SavePulse(t, p)
         \/ ManagerWrites
<1>1. ASSUME NEW t \in Tick, TickStep(t)
      PROVE  settings' = settings \/ \E p \in Property : SavePulse(t, p)
  BY <1>1, ReadDoes, StampDoes, PushDoes, VisitDoes, EscalateDoes DEF TickStep
<1>2. ASSUME NEW t \in Tick, StartTick(t) \/ TickFails(t) PROVE settings' = settings
  BY <1>2 DEF StartTick, TickFails
<1>3. ASSUME NEW i \in Incident, NEW r \in Time, Report(i, r) PROVE settings' = settings
  BY <1>3 DEF Report
<1>4. ASSUME NEW i \in Incident, AlertOnReport(i) \/ Handle(i) PROVE settings' = settings
  BY <1>4 DEF AlertOnReport, Handle
<1>5. ASSUME NEW p \in Property, ChangeHours(p) \/ \E patch \in Patch : ManagerReads(p, patch)
      PROVE  settings' = settings
  BY <1>5 DEF ChangeHours, ManagerReads
<1>6. CASE Minute \/ Restart \/ UNCHANGED vars
  BY <1>6 DEF Minute, Restart, vars
<1> QED
  BY <1>1, <1>2, <1>3, <1>4, <1>5, <1>6, Zenon DEF Next

(* A save of a pulse is a step of its tick.                                *)
LEMMA SaveIsAStep ==
  \A t \in Tick, p \in Property : SavePulse(t, p) => TickStep(t)
BY DEF TickStep

LEMMA BlobsPulsed ==
  ASSUME TInv, WInv, [Next]_vars
  PROVE  \A p \in Property : Pulsed(p, settings[p].lastPulse)'
<1>0. /\ TypeOK /\ TypeOK'
      /\ \A p \in Property : settings[p].lastPulse \in Time \cup {NULL}
      /\ \A p \in Property : Pulsed(p, settings[p].lastPulse)
  BY TypeStep DEF TInv, WInv, TypeOK, Policy
<1>1. CASE settings' = settings
  BY <1>0, <1>1, PulsedKept DEF Pulsed
<1>2. ASSUME NEW t \in Tick, NEW p \in Property, SavePulse(t, p)
      PROVE  \A q \in Property : Pulsed(q, settings[q].lastPulse)'
  <2>1. /\ \A q \in Property \ {p} : settings'[q] = settings[q]
        /\ settings'[p].lastPulse = tick[t].at /\ tick[t].at \in Time
    BY <1>0, <1>2, SaveDoes
  <2>2. Pulsed(p, tick[t].at)
    BY <1>2, SavedIsPulsed
  <2> QED
    BY <1>0, <2>1, <2>2, PulsedKept DEF Pulsed
<1>3. CASE ManagerWrites
  <2>1. /\ manager.property \in Property /\ manager.blob.lastPulse \in Time \cup {NULL}
        /\ Pulsed(manager.property, manager.blob.lastPulse)
    BY <1>0, <1>3 DEF ManagerWrites, TypeOK, Policy, WInv
  <2>2. /\ settings'[manager.property] = manager.blob
        /\ \A q \in Property \ {manager.property} : settings'[q] = settings[q]
    BY <1>0, <1>3, <2>1 DEF ManagerWrites, TypeOK
  <2> QED
    BY <1>0, <2>1, <2>2, PulsedKept DEF Pulsed
<1> QED
  BY <1>0, <1>1, <1>2, <1>3, BlobFate

LEMMA BlobReadPulsed ==
  ASSUME TInv, WInv, [Next]_vars
  PROVE  (manager.pc = "write" => Pulsed(manager.property, manager.blob.lastPulse))'
<1>0. /\ TypeOK /\ \A p \in Property : settings[p].lastPulse \in Time \cup {NULL}
      /\ manager.pc = "write" =>
           /\ manager.property \in Property /\ manager.blob.lastPulse \in Time \cup {NULL}
  BY DEF TInv, TypeOK, Policy
<1>1. CASE manager' = manager
  BY <1>0, <1>1, PulsedKept DEF WInv, Pulsed
<1>2. CASE manager' = NoCall
  BY <1>2 DEF NoCall
<1>3. ASSUME NEW p \in Property, NEW patch \in Patch, ManagerReads(p, patch)
      PROVE  manager'.property = p /\ manager'.blob.lastPulse = settings[p].lastPulse
  <2>1. settings[p] \in Policy
    BY DEF TInv, TypeOK
  <2>2. Merge(settings[p], patch).lastPulse = settings[p].lastPulse
    BY <2>1 DEF Merge, Policy
  <2> QED
    BY <1>3, <2>2 DEF ManagerReads
<1>4. CASE \E p \in Property, patch \in Patch : ManagerReads(p, patch)
  BY <1>0, <1>3, <1>4, PulsedKept DEF WInv, Pulsed
<1>5. manager' = manager \/ manager' = NoCall \/ \E p \in Property, patch \in Patch : ManagerReads(p, patch)
  <2>1. ASSUME NEW t \in Tick, TickStep(t) PROVE manager' = manager
    BY <1>0, <2>1, TickStepRows
  <2>2. ASSUME NEW t \in Tick, StartTick(t) \/ TickFails(t) PROVE manager' = manager
    BY <2>2 DEF StartTick, TickFails
  <2>3. ASSUME NEW i \in Incident, NEW r \in Time, Report(i, r) PROVE manager' = manager
    BY <2>3 DEF Report
  <2>4. ASSUME NEW i \in Incident, AlertOnReport(i) \/ Handle(i) PROVE manager' = manager
    BY <2>4 DEF AlertOnReport, Handle, handlers
  <2>5. ASSUME NEW p \in Property, ChangeHours(p) PROVE manager' = manager
    BY <2>5 DEF ChangeHours, handlers
  <2>6. CASE Minute \/ Restart \/ ManagerWrites \/ UNCHANGED vars
    BY <2>6 DEF Minute, Restart, ManagerWrites, vars, handlers
  <2> QED
    BY <2>1, <2>2, <2>3, <2>4, <2>5, <2>6, Zenon DEF Next
<1> QED
  BY <1>1, <1>2, <1>4, <1>5

(* The copies the ticks work with.                                         *)
LEMMA CopiesPulsed ==
  ASSUME TInv, WInv, [Next]_vars, NEW t \in Tick
  PROVE  (tick[t].pc # "idle" => \A p \in Property : Pulsed(p, tick[t].policy[p].lastPulse))'
<1>0. /\ TypeOK /\ \A p \in Property : settings[p].lastPulse \in Time \cup {NULL}
      /\ \A p \in Property : Pulsed(p, settings[p].lastPulse)
      /\ tick[t].pc # "idle" => \A p \in Property : tick[t].policy[p].lastPulse \in Time \cup {NULL}
      /\ tick[t].pc # "idle" => \A p \in Property : Pulsed(p, tick[t].policy[p].lastPulse)
  BY PolicyIs DEF TInv, TypeOK, Policy, WInv
<1>1. CASE tick[t].pc # "idle" /\ tick'[t].policy = tick[t].policy
  BY <1>0, <1>1, PulsedKept DEF Pulsed
<1>2. CASE tick'[t].policy = settings
  BY <1>0, <1>2, PulsedKept DEF Pulsed
<1>3. CASE TickStep(t)
  <2>1. tick[t].pc # "idle" /\ (tick'[t].pc # "idle" => tick'[t].policy = tick[t].policy)
    BY <1>0, <1>3, KeepsSnapshot, ReadDoes
  <2> QED
    BY <1>1, <2>1
<1>4. tick'[t].pc = "idle" \/ (tick[t].pc # "idle" /\ tick'[t].policy = tick[t].policy)
        \/ tick'[t].policy = settings \/ TickStep(t)
  BY <1>0, TickFate
<1> QED
  BY <1>1, <1>2, <1>3, <1>4

(* A step of a tick before its push.                                       *)
LEMMA BeforePush ==
  ASSUME TypeOK, NEW t \in Tick, TickStep(t), tick'[t].pc \in {"save", "push"}
  PROVE  \E p \in Property : /\ StampFirstTime(t, p) \/ SavePulse(t, p)
                             /\ tick'[t].cur = p /\ tick'[t].seen = tick[t].seen
<1>1. ~ReadIncidents(t)
  BY ReadDoes
<1>2. ~PushPulse(t)
  BY PushDoes
<1>3. ~Escalate(t)
  BY EscalateDoes
<1>4. \A i \in Incident : ~Visit(t, i)
  BY VisitDoes
<1>5. \A p \in Property : StampFirstTime(t, p) => tick'[t].cur = p /\ tick'[t].seen = tick[t].seen
  BY StampDoes
<1>6. \A p \in Property : SavePulse(t, p) => tick'[t].cur = p /\ tick'[t].seen = tick[t].seen
  BY SaveDoes
<1> QED
  BY <1>1, <1>2, <1>3, <1>4, <1>5, <1>6, Zenon DEF TickStep

LEMMA AnnouncedStep ==
  ASSUME TInv, WInv, [Next]_vars, NEW t \in Tick, tick'[t].pc \in {"save", "push"}
  PROVE  Announced(t)'
<1>0. TypeOK /\ Grows
  BY GrowsStep DEF TInv
<1>1. CASE tick'[t] = tick[t]
  <2>1. Announced(t)
    BY <1>1 DEF WInv
  <2> QED
    BY <1>0, <1>1, <2>1 DEF Announced, Bucket, Grows
<1>2. CASE TickStep(t)
  <2>1. PICK p \in Property : /\ StampFirstTime(t, p) \/ SavePulse(t, p)
                              /\ tick'[t].cur = p /\ tick'[t].seen = tick[t].seen
    BY <1>0, <1>2, BeforePush
  <2>2. CASE SavePulse(t, p)
    <3>1. \A i \in Bucket(tick[t].seen, p) : inc[i].notifiedAt # NULL
      BY <2>2, SavedIsPulsed
    <3>2. inc' = inc
      BY <1>0, <2>2, SaveDoes
    <3> QED
      BY <2>1, <3>1, <3>2 DEF Announced, Bucket
  <2>3. CASE StampFirstTime(t, p)
    <3> SUFFICES ASSUME NEW i \in Bucket(tick[t].seen, p) PROVE inc'[i].notifiedAt # NULL
      BY <2>1 DEF Announced, Bucket
    <3>1. i \in Incident
      BY DEF Bucket
    <3>2. CASE i \in FirstTime(t, p)
      BY <1>0, <2>3, <3>1, <3>2, StampDoes
    <3>3. CASE i \notin FirstTime(t, p)
      <4>1. tick[t].seen[i].notifiedAt # NULL /\ tick[t].pc = "pulse"
        BY <3>3, <2>3 DEF FirstTime, StampFirstTime
      <4>2. inc[i].notifiedAt # NULL
        BY <3>1, <4>1 DEF TInv, SeenOK
      <4> QED
        BY <1>0, <3>1, <4>2 DEF Grows
    <3> QED
      BY <3>2, <3>3
  <2> QED
    BY <2>1, <2>2, <2>3
<1>3. tick'[t] = tick[t] \/ TickStep(t)
  BY <1>0, TickFate
<1> QED
  BY <1>1, <1>2, <1>3

LEMMA NotPassedOverStep ==
  ASSUME TInv, WInv, [Next]_vars, NEW t \in Tick, tick'[t].pc \notin {"idle", "read"}
  PROVE  NotPassedOver(t)'
<1>0. /\ TypeOK /\ Grows /\ now \in Nat
      /\ \A i \in Incident : PropertyOf[i] \in Property
      /\ \A i \in Incident : openSince[i] # NULL => openSince[i] \in Nat
  BY GrowsStep, AlertsAssumption DEF TInv, TypeOK, Time, ConstantsOK
<1>1. ASSUME tick[t].pc \notin {"idle", "read"}, tick'[t].policy = tick[t].policy, tick'[t].at = tick[t].at,
             NEW i \in Incident, PropertyOf[i] \in Batched(t) \ tick[t].due, openSince'[i] # NULL,
             openSince'[i] + tick[t].policy[PropertyOf[i]].interval <= tick[t].at
      PROVE  inc'[i].notifiedAt # NULL
  <2>1. tick[t].at \in Nat /\ tick[t].at <= now
    BY <1>0, <1>1 DEF TypeOK, TickOK
  <2>2. /\ tick[t].policy[PropertyOf[i]].interval \in Nat /\ tick[t].policy[PropertyOf[i]].interval > 0
    BY <1>0, <1>1, PolicyIs
  <2>3. openSince'[i] = openSince[i]
    BY <1>0, <1>1, <2>1, <2>2 DEF Grows
  <2> QED
    BY <1>0, <1>1, <2>3 DEF WInv, NotPassedOver, Grows
<1>2. CASE tick'[t] = tick[t]
  BY <1>1, <1>2 DEF NotPassedOver, Batched
<1>3. CASE ReadIncidents(t)
  <2> SUFFICES ASSUME NEW i \in Incident, PropertyOf[i] \in Batched(t)' \ tick'[t].due, openSince'[i] # NULL,
                      openSince'[i] + tick'[t].policy[PropertyOf[i]].interval <= tick'[t].at
               PROVE  inc'[i].notifiedAt # NULL
    BY DEF NotPassedOver
  <2>1. /\ tick[t].pc = "read" /\ inc' = inc /\ openSince' = openSince
        /\ tick'[t].policy = tick[t].policy /\ tick'[t].at = now
        /\ tick'[t].due = {p \in Batched(t) : PulseDue(inc, p, tick[t].policy[p], now)}
    BY <1>0, <1>3, ReadDoes DEF history
  <2>2. PropertyOf[i] \in Batched(t)
    BY <2>1 DEF Batched
  <2>3. ~PulseDue(inc, PropertyOf[i], tick[t].policy[PropertyOf[i]], now)
    BY <2>1, <2>2
  <2> QED
    BY <2>1, <2>3, NotDue
<1>4. CASE TickStep(t) /\ ~ReadIncidents(t)
  <2>1. /\ tick[t].pc \notin {"idle", "read"}
        /\ tick'[t].policy = tick[t].policy /\ tick'[t].at = tick[t].at
    BY <1>0, <1>4, KeepsSnapshot
  <2>2. CASE tick'[t].due = tick[t].due
    BY <1>1, <2>1, <2>2 DEF NotPassedOver, Batched
  <2>3. CASE PushPulse(t)
    <3> SUFFICES ASSUME NEW i \in Incident, PropertyOf[i] \in Batched(t)' \ tick'[t].due, openSince'[i] # NULL,
                        openSince'[i] + tick'[t].policy[PropertyOf[i]].interval <= tick'[t].at
                 PROVE  inc'[i].notifiedAt # NULL
      BY DEF NotPassedOver
    <3>1. /\ tick[t].pc = "push" /\ inc' = inc /\ openSince' = openSince
          /\ tick'[t].due = tick[t].due \ {tick[t].cur}
      BY <1>0, <2>3, PushDoes
    <3>2. PropertyOf[i] \in Batched(t)
      BY <2>1 DEF Batched
    <3>3. CASE PropertyOf[i] = tick[t].cur
      <4>1. Announced(t)
        BY <3>1 DEF WInv
      <4>2. openSince[i] < tick[t].at
        BY <2>1, <3>1, WaitedLonger
      <4> QED
        BY <3>1, <3>3, <4>1, <4>2, PushedIsAnnounced
    <3>4. CASE PropertyOf[i] # tick[t].cur
      BY <1>1, <2>1, <3>1, <3>2, <3>4
    <3> QED
      BY <3>3, <3>4
  <2>4. tick'[t].due = tick[t].due \/ PushPulse(t)
    BY ZenonT(60), <1>0, <1>4, StampDoes, SaveDoes, VisitDoes, EscalateDoes DEF TickStep
  <2> QED
    BY <2>2, <2>3, <2>4
<1>5. tick'[t] = tick[t] \/ TickStep(t)
  BY <1>0, TickFate
<1> QED
  BY <1>2, <1>3, <1>4, <1>5

LEMMA WInvInit == Init => WInv
<1> SUFFICES ASSUME Init PROVE WInv
  OBVIOUS
<1>1. \A i \in Incident : openSince[i] = NULL
  BY DEF Init
<1>2. \A p \in Property : settings[p].lastPulse \in {NULL, 0}
  BY AlertsAssumption DEF Init, ConstantsOK
<1>3. now = 0 /\ manager.pc = "idle" /\ \A t \in Tick : tick[t].pc = "idle"
  BY DEF Init, Idle, NoCall
<1>4. \A p \in Property : Pulsed(p, settings[p].lastPulse)
  BY <1>1, <1>2, <1>3 DEF Pulsed
<1> QED
  BY <1>3, <1>4 DEF WInv

LEMMA WInvStep == ASSUME TInv, WInv, [Next]_vars PROVE WInv'
BY BlobsPulsed, BlobReadPulsed, CopiesPulsed, AnnouncedStep, NotPassedOverStep DEF WInv

(* A tick that runs to its end passes nobody over.                         *)
LEMMA EndingStep ==
  ASSUME TypeOK, [Next]_vars, NEW t \in Tick, TickEnds(t)
  PROVE  TickStep(t)
BY TickFate DEF TickEnds

LEMMA WaitEndsStep == ASSUME TInv, WInv, [Next]_vars PROVE WaitEnds
<1>0. /\ TypeOK /\ Grows
      /\ \A i \in Incident : PropertyOf[i] \in Property
  BY GrowsStep, AlertsAssumption DEF TInv, ConstantsOK
<1> SUFFICES ASSUME NEW t \in Tick, TickEnds(t), NEW i \in Incident, PropertyOf[i] \in Batched(t),
                    OpenFor(t, i, tick[t].policy[PropertyOf[i]].interval)
             PROVE  inc'[i].notifiedAt # NULL
  BY DEF WaitEnds
<1>1. TickStep(t) /\ tick'[t].pc = "idle"
  BY <1>0, EndingStep DEF TickEnds
<1>2. CASE ReadIncidents(t)
  <2>1. /\ tick[t].pc = "read"
        /\ \A p \in Batched(t) : ~PulseDue(inc, p, tick[t].policy[p], now)
    BY <1>0, <1>1, <1>2, ReadDoes
  <2>2. openSince[i] # NULL /\ openSince[i] + tick[t].policy[PropertyOf[i]].interval <= now
    BY <2>1 DEF OpenFor, SeenAt
  <2>3. inc[i].notifiedAt # NULL
    BY <2>1, <2>2, NotDue
  <2> QED
    BY <1>0, <2>3 DEF Grows
<1>3. CASE ~ReadIncidents(t)
  <2>1. tick[t].pc \notin {"idle", "read"}
    BY <1>0, <1>1, <1>3, KeepsSnapshot
  <2>2. openSince[i] # NULL /\ openSince[i] + tick[t].policy[PropertyOf[i]].interval <= tick[t].at
    BY <2>1 DEF OpenFor, SeenAt
  <2>3. CASE PropertyOf[i] \notin tick[t].due
    <3>1. inc[i].notifiedAt # NULL
      BY <2>1, <2>2, <2>3 DEF WInv, NotPassedOver
    <3> QED
      BY <1>0, <3>1 DEF Grows
  <2>4. CASE PropertyOf[i] \in tick[t].due
    <3>1. tick[t].pc = "push" /\ tick[t].cur = PropertyOf[i]
      <4>1. CASE PushPulse(t)
        BY <1>0, <1>1, <2>4, <4>1, PushDoes
      <4>2. CASE Escalate(t) \/ \E j \in Incident : Visit(t, j)
        BY <1>0, <2>4, <4>2, EscalateDoes, VisitDoes
      <4>3. CASE \E p \in Property : StampFirstTime(t, p) \/ SavePulse(t, p)
        BY <1>0, <1>1, <4>3, StampDoes, SaveDoes
      <4> QED
        BY <1>1, <1>3, <4>1, <4>2, <4>3, Zenon DEF TickStep
    <3>2. openSince[i] < tick[t].at
      BY <2>1, <2>2, WaitedLonger
    <3>3. inc[i].notifiedAt # NULL
      BY <2>2, <3>1, <3>2, PushedIsAnnounced DEF WInv
    <3> QED
      BY <1>0, <3>3 DEF Grows
  <2> QED
    BY <2>3, <2>4
<1> QED
  BY <1>2, <1>3

(* runEscalation passes no issue over: whatever ticks overlap, calls fail, *)
(* policies change or buildings close in between, a tick that runs to its  *)
(* end leaves no issue of a batched property unannounced that had been     *)
(* open for the property's interval.                                       *)
THEOREM NobodyWaitsLonger == Spec => WaitIsBounded
<1>1. TInv /\ WInv /\ [Next]_vars => WaitEnds \/ UNCHANGED vars
  BY WaitEndsStep
<1> QED
  BY <1>1, TInvInit, TInvStep, WInvInit, WInvStep, PTL DEF Spec, WaitIsBounded

-----------------------------------------------------------------------------
(* RoundsInOrder, when no tick starts before the last one has ended.       *)

LEMMA NextInOrder ==
  ASSUME NEW s \in Seq(Nat), InOrder(s)
  PROVE  InOrder(Append(s, Len(s) + 1))
BY DEF InOrder

(* The columns of the scheduler change when a tick stamps, visits or       *)
(* escalates a row.                                                        *)
Marked(t) == \/ Escalate(t) \/ \E i \in Incident : Visit(t, i)
             \/ \E p \in Property : StampFirstTime(t, p)
SameMarks == \A i \in Incident : /\ inc'[i].cleaner = inc[i].cleaner
                                 /\ inc'[i].supervisor = inc[i].supervisor
                                 /\ inc'[i].notifiedAt = inc[i].notifiedAt

LEMMA RowFate == ASSUME TypeOK, [Next]_vars PROVE SameMarks \/ \E t \in Tick : Marked(t)
<1>0. inc \in [Incident -> IncidentRecord]
  BY DEF TypeOK
<1>1. ASSUME inc' = inc PROVE SameMarks
  BY <1>1 DEF SameMarks
<1>2. ASSUME NEW t \in Tick, TickStep(t) PROVE inc' = inc \/ Marked(t)
  BY <1>2 DEF TickStep, Marked, ReadIncidents, PushPulse, SavePulse
<1>3. ASSUME NEW t \in Tick, StartTick(t) \/ TickFails(t) PROVE inc' = inc
  BY <1>3 DEF StartTick, TickFails
<1>4. ASSUME NEW i \in Incident, NEW r \in Time, Report(i, r) PROVE SameMarks
  BY <1>0, <1>4 DEF Report, IncidentRecord, SameMarks
<1>5. ASSUME NEW i \in Incident, Handle(i) PROVE SameMarks
  BY <1>0, <1>5 DEF Handle, SetStatus, IncidentRecord, SameMarks
<1>6. ASSUME NEW i \in Incident, AlertOnReport(i) PROVE inc' = inc
  BY <1>6 DEF AlertOnReport
<1>7. ASSUME NEW p \in Property, ChangeHours(p) \/ \E patch \in Patch : ManagerReads(p, patch) PROVE inc' = inc
  BY <1>7 DEF ChangeHours, ManagerReads
<1>8. CASE Minute \/ Restart \/ ManagerWrites \/ UNCHANGED vars
  BY <1>1, <1>8 DEF Minute, Restart, ManagerWrites, vars
<1> QED
  BY <1>1, <1>2, <1>3, <1>4, <1>5, <1>6, <1>7, <1>8 DEF Next

(* The columns after a visit and after an escalation.                      *)
LEMMA MarksOfVisit ==
  ASSUME TypeOK, NEW t \in Tick, NEW i \in Incident, Visit(t, i)
  PROVE  /\ \A j \in Incident : /\ inc'[j].supervisor = inc[j].supervisor
                                 /\ inc'[j].notifiedAt = inc[j].notifiedAt
         /\ \A j \in Incident \ {i} : inc'[j].cleaner = inc[j].cleaner
         /\ inc'[i].cleaner \in {inc[i].cleaner, Append(inc[i].cleaner, Len(tick[t].seen[i].cleaner) + 1)}
<1>0. inc \in [Incident -> IncidentRecord]
  BY DEF TypeOK
<1>1. \/ inc' = inc
      \/ inc' = [inc EXCEPT ![i].cleaner = Append(@, Len(tick[t].seen[i].cleaner) + 1)]
  BY VisitDoes
<1>2. ASSUME NEW n, inc' = [inc EXCEPT ![i].cleaner = n]
      PROVE  /\ \A j \in Incident : /\ inc'[j].supervisor = inc[j].supervisor
                                     /\ inc'[j].notifiedAt = inc[j].notifiedAt
             /\ \A j \in Incident \ {i} : inc'[j].cleaner = inc[j].cleaner
             /\ inc'[i].cleaner = n
  <2> DEFINE r == [inc[i] EXCEPT !.cleaner = n]
  <2>1. /\ r.supervisor = inc[i].supervisor /\ r.notifiedAt = inc[i].notifiedAt
        /\ r.cleaner = n
    BY <1>0 DEF IncidentRecord
  <2>2. inc' = [inc EXCEPT ![i] = r]
    BY <1>0, <1>2
  <2> HIDE DEF r
  <2> QED
    BY <1>0, <2>1, <2>2
<1> QED
  BY <1>1, <1>2, Zenon

LEMMA MarksOfEscalation ==
  ASSUME TypeOK, NEW t \in Tick, Escalate(t)
  PROVE  /\ \A j \in Incident : /\ inc'[j].cleaner = inc[j].cleaner
                                 /\ inc'[j].notifiedAt = inc[j].notifiedAt
         /\ \A j \in Incident \ {tick[t].cur} : inc'[j].supervisor = inc[j].supervisor
         /\ inc'[tick[t].cur].supervisor =
              Append(inc[tick[t].cur].supervisor, Len(tick[t].seen[tick[t].cur].supervisor) + 1)
<1> DEFINE c == tick[t].cur
           n == Append(inc[c].supervisor, Len(tick[t].seen[c].supervisor) + 1)
           r == [inc[c] EXCEPT !.supervisor = n]
<1>1. c \in Incident /\ inc \in [Incident -> IncidentRecord]
  BY EscalateDoes DEF TypeOK
<1>2. inc' = [inc EXCEPT ![c].supervisor = n]
  BY <1>1, EscalateDoes
<1> HIDE DEF c, n
<1>3. /\ r.cleaner = inc[c].cleaner /\ r.notifiedAt = inc[c].notifiedAt
      /\ r.supervisor = n
  BY <1>1 DEF IncidentRecord
<1>4. inc' = [inc EXCEPT ![c] = r]
  BY <1>1, <1>2
<1> HIDE DEF r
<1>5. /\ \A j \in Incident : /\ inc'[j].cleaner = inc[j].cleaner
                              /\ inc'[j].notifiedAt = inc[j].notifiedAt
      /\ \A j \in Incident \ {c} : inc'[j].supervisor = inc[j].supervisor
      /\ inc'[c].supervisor = n
  BY <1>1, <1>3, <1>4
<1> QED
  BY <1>5 DEF c, n

(* A tick comes to escalate from its visit to the row.                     *)
LEMMA ToEscalate ==
  ASSUME TypeOK, NEW t \in Tick, TickStep(t), tick'[t].pc = "escalate"
  PROVE  \E i \in Incident : Visit(t, i) /\ tick'[t].cur = i
<1>1. ~ReadIncidents(t) /\ ~PushPulse(t) /\ ~Escalate(t)
  BY ReadDoes, PushDoes, EscalateDoes
<1>2. \A p \in Property : ~StampFirstTime(t, p) /\ ~SavePulse(t, p)
  BY StampDoes, SaveDoes
<1>3. \A i \in Incident : Visit(t, i) => tick'[t].cur = i
  BY VisitDoes
<1> QED
  BY <1>1, <1>2, <1>3, Zenon DEF TickStep

LEMMA UnvisitedSame ==
  ASSUME TypeOK, [Next]_vars, NEW t \in Tick, Unvisited(t),
         \A i \in Incident : inc'[i].cleaner = inc[i].cleaner /\ inc'[i].supervisor = inc[i].supervisor
  PROVE  Unvisited(t)'
<1>1. CASE tick'[t] = tick[t]
  <2>1. tick[t].visit \subseteq Incident /\ (tick[t].pc = "escalate" => tick[t].cur \in Incident)
    BY DEF TypeOK, TickOK, TickRecord
  <2> QED
    BY <1>1, <2>1 DEF Unvisited
<1>2. CASE tick'[t].pc \in {"idle", "read"}
  BY <1>2 DEF Unvisited
<1>3. CASE ReadIncidents(t)
  BY <1>3, ReadDoes DEF Unvisited
<1>4. CASE TickStep(t) /\ ~ReadIncidents(t) /\ tick'[t].pc # "idle"
  <2>1. /\ tick[t].pc \notin {"idle", "read"} /\ tick[t].visit \subseteq Incident
        /\ tick'[t].seen = tick[t].seen /\ tick'[t].visit \subseteq tick[t].visit
    BY <1>4, KeepsSnapshot DEF TypeOK, TickRecord
  <2>2. ASSUME tick'[t].pc = "escalate"
        PROVE  tick'[t].cur \in tick[t].visit \ tick'[t].visit
    BY <1>4, <2>2, ToEscalate, VisitDoes
  <2> QED
    BY <2>1, <2>2 DEF Unvisited
<1> QED
  BY <1>1, <1>2, <1>3, <1>4, TickFate

LEMMA RInvStep ==
  ASSUME OneTick, TypeOK, RInv, [Next]_vars
  PROVE  RInv'
<1>0. /\ inc \in [Incident -> IncidentRecord]
      /\ \A i \in Incident : inc[i].cleaner \in Seq(Nat) /\ inc[i].supervisor \in Seq(Nat)
      /\ \A i \in Incident : InOrder(inc[i].cleaner) /\ InOrder(inc[i].supervisor)
      /\ \A t \in Tick : Unvisited(t)
  BY DEF TypeOK, IncidentRecord, RInv, RoundsInOrder
<1>1. ASSUME \A i \in Incident : inc'[i].cleaner = inc[i].cleaner /\ inc'[i].supervisor = inc[i].supervisor
      PROVE  RInv'
  <2>1. RoundsInOrder'
    BY <1>0, <1>1 DEF RoundsInOrder, InOrder
  <2> QED
    BY <1>0, <1>1, <2>1, UnvisitedSame DEF RInv
<1>2. ASSUME NEW t \in Tick, NEW i \in Incident, Visit(t, i) PROVE RInv'
  <2>1. /\ tick[t].pc = "visit" /\ i \in tick[t].visit /\ tick[t].visit \subseteq Incident
        /\ inc[i].cleaner = tick[t].seen[i].cleaner
    <3>1. tick[t].pc = "visit" /\ i \in tick[t].visit
      BY <1>2, VisitDoes
    <3>2. tick[t].visit \subseteq Incident
      BY DEF TypeOK, TickRecord
    <3> QED
      BY <1>0, <3>1, <3>2 DEF Unvisited
  <2>2. InOrder(inc'[i].cleaner)
    <3>1. inc'[i].cleaner \in {inc[i].cleaner, Append(inc[i].cleaner, Len(inc[i].cleaner) + 1)}
      BY <1>2, <2>1, MarksOfVisit
    <3> QED
      BY <1>0, <3>1, NextInOrder, Zenon
  <2>3. RoundsInOrder'
    BY <1>0, <1>2, <2>2, MarksOfVisit DEF RoundsInOrder, InOrder
  <2>4. Unvisited(t)'
    <3>1. tick'[t].pc # "idle" => tick'[t].seen = tick[t].seen /\ tick'[t].visit = tick[t].visit \ {i}
      BY <1>2, VisitDoes
    <3>2. tick'[t].pc = "escalate" => tick'[t].cur = i
      BY <1>2, VisitDoes
    <3>3. \A j \in Incident : /\ inc'[j].supervisor = inc[j].supervisor
                              /\ j # i => inc'[j].cleaner = inc[j].cleaner
      BY <1>2, MarksOfVisit
    <3> QED
      BY <1>0, <2>1, <3>1, <3>2, <3>3 DEF Unvisited
  <2> QED
    BY <2>3, <2>4 DEF RInv, OneTick
<1>3. ASSUME NEW t \in Tick, Escalate(t) PROVE RInv'
  <2> DEFINE c == tick[t].cur
  <2>1. /\ tick[t].pc = "escalate" /\ c \in Incident /\ tick[t].visit \subseteq Incident \ {c}
        /\ inc[c].supervisor = tick[t].seen[c].supervisor
    <3>1. tick[t].pc = "escalate" /\ c \in Incident
      BY <1>3, EscalateDoes
    <3>2. tick[t].visit \subseteq Incident
      BY DEF TypeOK, TickRecord
    <3> QED
      BY <1>0, <3>1, <3>2 DEF Unvisited
  <2>2. InOrder(inc'[c].supervisor)
    <3>1. inc'[c].supervisor = Append(inc[c].supervisor, Len(inc[c].supervisor) + 1)
      BY <1>3, <2>1, MarksOfEscalation
    <3> QED
      BY <1>0, <2>1, <3>1, NextInOrder, Zenon
  <2>3. RoundsInOrder'
    BY <1>0, <1>3, <2>2, MarksOfEscalation DEF RoundsInOrder, InOrder
  <2>4. Unvisited(t)'
    <3>1. /\ tick'[t].pc \in {"idle", "visit"}
          /\ tick'[t].pc # "idle" => tick'[t].seen = tick[t].seen /\ tick'[t].visit = tick[t].visit
      BY <1>3, EscalateDoes
    <3>2. \A j \in Incident \ {c} : inc'[j].supervisor = inc[j].supervisor /\ inc'[j].cleaner = inc[j].cleaner
      BY <1>3, MarksOfEscalation
    <3> QED
      BY <1>0, <2>1, <3>1, <3>2 DEF Unvisited
  <2> QED
    BY <2>3, <2>4 DEF RInv, OneTick
<1>4. CASE SameMarks
  BY <1>1, <1>4 DEF SameMarks
<1>5. ASSUME NEW t \in Tick, NEW p \in Property, StampFirstTime(t, p) PROVE RInv'
  BY <1>1, <1>5, StampDoes
<1> QED
  BY <1>2, <1>3, <1>4, <1>5, RowFate DEF Marked

LEMMA RInvInit == Init => RInv
BY DEF Init, RInv, RoundsInOrder, InOrder, Unvisited, Unreported, Idle

(* runEscalation counts right: as long as no minute's tick starts while    *)
(* the last one is still awaiting, the reminders of an incident are rounds *)
(* 1, 2, 3, each sent once, whatever else happens to the row meanwhile.    *)
THEOREM RemindersInOrder ==
  ASSUME OneTick
  PROVE  Spec => []RoundsInOrder
<1>1. TypeOK /\ RInv /\ [Next]_vars => RInv'
  BY RInvStep
<1>2. RInv => RoundsInOrder
  BY DEF RInv
<1> QED
  BY <1>1, <1>2, TInvInit, RInvInit, TypeCorrect, PTL DEF Spec

-----------------------------------------------------------------------------
(* StampedIsPushed, when no call fails.                                    *)

LEMMA NoFaults ==
  ASSUME MaxFaults = 0, TypeOK, TypeOK'
  PROVE  faults' = faults
BY DEF TypeOK

Underway(i) == \E t \in Tick : tick[t].pc \in {"save", "push"} /\ i \in Bucket(tick[t].seen, tick[t].cur)

LEMMA UnderwayStep ==
  ASSUME MaxFaults = 0, TypeOK, [Next]_vars, NEW i \in Incident, Underway(i)
  PROVE  Underway(i)' \/ i \in told'
<1>1. PICK t \in Tick : tick[t].pc \in {"save", "push"} /\ i \in Bucket(tick[t].seen, tick[t].cur)
  BY DEF Underway
<1>2. CASE tick'[t] = tick[t]
  BY <1>1, <1>2 DEF Underway, Bucket
<1>3. CASE PushPulse(t)
  BY <1>1, <1>3, PushDoes
<1>4. ASSUME NEW p \in Property, SavePulse(t, p) PROVE Underway(i)'
  <2>1. /\ tick[t].cur = p /\ tick'[t].pc = "push" /\ tick'[t].cur = p
        /\ tick'[t].seen = tick[t].seen
    BY <1>1, <1>4, SaveDoes
  <2> QED
    BY <1>1, <2>1 DEF Underway, Bucket
<1>5. ASSUME TickStep(t) PROVE PushPulse(t) \/ \E p \in Property : SavePulse(t, p)
  BY <1>1, <1>5 DEF TickStep, ReadIncidents, StampFirstTime, Escalate, Visit
<1>6. tick'[t] = tick[t] \/ TickStep(t)
  <2>1. faults' = faults
    BY NoFaults, TypeStep
  <2>2. \/ tick'[t] = tick[t] \/ TickStep(t) \/ tick[t].pc = "idle"
        \/ faults' # faults
    BY TickFate DEF StartTick
  <2> QED
    BY <1>1, <2>1, <2>2
<1> QED
  BY <1>2, <1>3, <1>4, <1>5, <1>6

LEMMA StampedStep ==
  ASSUME MaxFaults = 0, TypeOK, StampedIsPushed, [Next]_vars
  PROVE  StampedIsPushed'
<1>0. Grows /\ \A i \in Incident : inc[i].notifiedAt # NULL => i \in told \/ Underway(i)
  BY GrowsStep DEF StampedIsPushed, Underway
<1>1. ASSUME NEW i \in Incident, inc[i].notifiedAt # NULL
      PROVE  i \in told' \/ Underway(i)'
  BY <1>0, <1>1, UnderwayStep DEF Grows
<1>2. ASSUME NEW i \in Incident, inc[i].notifiedAt = NULL, inc'[i].notifiedAt # NULL
      PROVE  Underway(i)'
  <2>1. ~SameMarks
    BY <1>2 DEF SameMarks
  <2>2. ASSUME NEW t \in Tick, NEW j \in Incident, Visit(t, j) PROVE inc'[i].notifiedAt = inc[i].notifiedAt
    BY <2>2, MarksOfVisit
  <2>3. ASSUME NEW t \in Tick, Escalate(t) PROVE inc'[i].notifiedAt = inc[i].notifiedAt
    BY <2>3, MarksOfEscalation
  <2>4. PICK t \in Tick, p \in Property : StampFirstTime(t, p)
    BY <1>2, <2>1, <2>2, <2>3, RowFate DEF Marked
  <2>5. i \in FirstTime(t, p)
    BY <1>2, <2>4, StampDoes
  <2> QED
    BY <2>4, <2>5, StampDoes DEF Underway, FirstTime, Bucket
<1> QED
  BY <1>1, <1>2 DEF StampedIsPushed, Underway

(* The schema's notifiedAt is "the moment the grouped push that announced  *)
(* this incident to cleaners was sent": while no call of the tick fails,   *)
(* what is stamped has been pushed or its tick is about to push it, in     *)
(* spite of overlapping ticks and of the manager's changes.                *)
THEOREM AnnouncedIsPushed ==
  ASSUME MaxFaults = 0
  PROVE  Spec => []StampedIsPushed
<1>1. Init => StampedIsPushed
  BY DEF Init, StampedIsPushed, Unreported
<1>2. TypeOK /\ StampedIsPushed /\ [Next]_vars => StampedIsPushed'
  BY StampedStep
<1> QED
  BY <1>1, <1>2, TypeCorrect, PTL DEF Spec

-----------------------------------------------------------------------------
(* PulsesSpaced, when no tick starts before the last one has ended.        *)

LEMMA PulsesFate ==
  ASSUME TypeOK, [Next]_vars
  PROVE  pulses' = pulses \/ \E t \in Tick : PushPulse(t)
<1>1. ASSUME NEW t \in Tick, TickStep(t) PROVE pulses' = pulses \/ PushPulse(t)
  BY <1>1 DEF TickStep, ReadIncidents, StampFirstTime, SavePulse, Visit, Escalate, history
<1>2. ASSUME NEW t \in Tick, StartTick(t) \/ TickFails(t) PROVE pulses' = pulses
  BY <1>2 DEF StartTick, TickFails, history
<1>3. ASSUME NEW i \in Incident, NEW r \in Time, Report(i, r) PROVE pulses' = pulses
  BY <1>3 DEF Report
<1>4. ASSUME NEW i \in Incident, AlertOnReport(i) \/ Handle(i) PROVE pulses' = pulses
  BY <1>4 DEF AlertOnReport, Handle
<1>5. ASSUME NEW p \in Property, ChangeHours(p) \/ \E patch \in Patch : ManagerReads(p, patch) PROVE pulses' = pulses
  BY <1>5 DEF ChangeHours, ManagerReads, history
<1>6. CASE Minute \/ Restart \/ ManagerWrites \/ UNCHANGED vars
  BY <1>6 DEF Minute, Restart, ManagerWrites, vars, history
<1> QED
  BY <1>1, <1>2, <1>3, <1>4, <1>5, <1>6 DEF Next

(* A pulse that is due comes an interval after the last one.               *)
LEMMA DueIsLater ==
  ASSUME TInv, NEW t \in Tick, tick[t].pc = "read", NEW p \in Property,
         PulseDue(inc, p, tick[t].policy[p], now), tick[t].policy[p].lastPulse # NULL
  PROVE  now >= tick[t].policy[p].lastPulse + tick[t].policy[p].interval
<1> DEFINE B == Bucket(inc, p)
           oldest == MinReported(inc, B)
           L == tick[t].policy[p].lastPulse
           d == tick[t].policy[p].interval
<1>1. now \in Nat /\ \A j \in B : inc[j].reportedAt \in Nat
  BY DEF TInv, TypeOK, Time, RowsOK, Bucket
<1>2. oldest \in Nat
  <2>1. B # {}
    BY DEF PulseDue
  <2> HIDE DEF B
  <2> QED
    BY <1>1, <2>1, MinIs
<1>3. d \in Nat /\ L \in Nat /\ L # NULL
  BY PolicyIs DEF TInv, Time
<1>4. now >= (IF L # NULL /\ L >= oldest THEN L ELSE oldest) + d
  BY DEF PulseDue, Anchor
<1> HIDE DEF oldest, d, L
<1>5. now >= L + d
  BY <1>1, <1>2, <1>3, <1>4
<1> QED
  BY <1>5 DEF d, L

LEMMA Settings ==
  ASSUME TypeOK, NEW p \in Property
  PROVE  /\ settings[p].interval \in Nat /\ settings[p].lastPulse \in Time \cup {NULL}
         /\ pulses[p] \in Seq(Time) /\ Time \subseteq Nat
         /\ pulses[p] # <<>> => Last(p) \in Nat
<1>1. settings[p] \in Policy /\ pulses[p] \in Seq(Time) /\ Time \subseteq Nat
  BY DEF TypeOK, Time
<1>2. BatchInterval \subseteq Nat \ {0}
  BY AlertsAssumption, Zenon DEF ConstantsOK
<1>3. settings[p].interval \in Nat /\ settings[p].lastPulse \in Time \cup {NULL}
  BY <1>1, <1>2 DEF Policy
<1>4. ASSUME pulses[p] # <<>> PROVE Last(p) \in Time
  BY <1>1, <1>4 DEF Last
<1> QED
  BY <1>1, <1>3, <1>4

(* A step that changes neither p's blob nor p's pulses.                    *)
LEMMA OnTimeStep ==
  ASSUME TInv, [Next]_vars, NEW p \in Property, NEW t \in Tick,
         LastKnown(p), OnTime(t, p), settings'[p] = settings[p], pulses'[p] = pulses[p], ~SavePulse(t, p)
  PROVE  OnTime(t, p)'
<1>0. TypeOK
  BY DEF TInv
<1>1. CASE tick'[t] = tick[t]
  BY <1>1 DEF OnTime, Last
<1>2. CASE tick'[t].pc = "idle" /\ tick'[t].due = {}
  BY <1>2 DEF OnTime
<1>3. CASE tick'[t].pc = "read" /\ tick'[t].due = {} /\ tick'[t].policy = settings
  BY <1>3 DEF OnTime
<1>4. CASE ReadIncidents(t) /\ tick'[t].pc # "idle"
  <2>1. /\ tick[t].pc = "read" /\ tick'[t].pc \in {"pulse", "visit"}
        /\ tick'[t].policy = tick[t].policy /\ tick'[t].at = now
        /\ tick'[t].due = {q \in Batched(t) : PulseDue(inc, q, tick[t].policy[q], now)}
    BY <1>0, <1>4, ReadDoes
  <2>2. tick[t].policy[p] = settings[p]
    BY <2>1 DEF OnTime
  <2>3. ASSUME p \in tick'[t].due, pulses[p] # <<>>
        PROVE  now >= Last(p) + settings[p].interval
    <3>1. settings[p].lastPulse # NULL /\ Last(p) <= settings[p].lastPulse
      BY <2>3 DEF LastKnown
    <3>2. now >= settings[p].lastPulse + settings[p].interval
      BY <2>1, <2>2, <2>3, <3>1, DueIsLater
    <3>3. /\ now \in Nat /\ Last(p) \in Nat /\ settings[p].interval \in Nat
          /\ settings[p].lastPulse \in Nat
      BY <1>0, <2>3, <3>1, Settings DEF TypeOK, Time
    <3> QED
      BY <3>1, <3>2, <3>3
  <2> QED
    BY <2>1, <2>2, <2>3 DEF OnTime, Last
<1>5. CASE PushPulse(t) /\ tick'[t].pc # "idle"
  <2>1. /\ tick'[t].pc \in {"pulse", "visit"} /\ tick'[t].due = tick[t].due \ {tick[t].cur}
        /\ tick'[t].policy = tick[t].policy /\ tick'[t].at = tick[t].at
    BY <1>0, <1>5, PushDoes
  <2> QED
    BY <2>1 DEF OnTime, Last
<1>6. ASSUME NEW q \in Property, q # p, SavePulse(t, q) PROVE OnTime(t, p)'
  <2>1. /\ tick'[t].pc = "push" /\ tick'[t].cur = q /\ tick'[t].due = tick[t].due
        /\ tick'[t].policy = tick[t].policy /\ tick'[t].at = tick[t].at /\ tick[t].pc \in {"save", "pulse"}
    BY <1>0, <1>6, SaveDoes
  <2> QED
    BY <1>6, <2>1 DEF OnTime, Last
<1>7. ASSUME NEW q \in Property, StampFirstTime(t, q) PROVE OnTime(t, p)'
  <2>1. /\ tick'[t].pc = "save" /\ tick'[t].due = tick[t].due
        /\ tick'[t].policy = tick[t].policy /\ tick'[t].at = tick[t].at /\ tick[t].pc = "pulse"
    BY <1>0, <1>7, StampDoes
  <2> QED
    BY <2>1 DEF OnTime, Last
<1>8. CASE Escalate(t)
  BY <1>0, <1>8, EscalateDoes DEF OnTime
<1>9. ASSUME NEW i \in Incident, Visit(t, i) PROVE OnTime(t, p)'
  BY <1>0, <1>9, VisitDoes DEF OnTime
<1>10. CASE TickStep(t)
  <2>1. tick'[t].pc = "idle" => tick'[t].due = {}
    BY <1>0, <1>10, KeepsSnapshot, ReadDoes
  <2>2. ASSUME tick'[t].pc # "idle" PROVE OnTime(t, p)'
    BY <1>4, <1>5, <1>6, <1>7, <1>8, <1>9, <1>10, <2>2, Zenon DEF TickStep
  <2> QED
    BY <1>2, <2>1, <2>2
<1> QED
  BY <1>0, <1>1, <1>2, <1>3, <1>10, TickFate

LEMMA SInvStep ==
  ASSUME OneTick, TInv, SInv, [Next]_vars
  PROVE  SInv'
<1>0. TypeOK /\ touched \subseteq touched'
  BY GrowsStep DEF TInv, Grows
<1> SUFFICES ASSUME NEW p \in Property, p \notin touched'
             PROVE  Spaced(p)' /\ LastKnown(p)' /\ \A t \in Tick : OnTime(t, p)'
  BY DEF SInv
<1>1. Spaced(p) /\ LastKnown(p) /\ \A t \in Tick : OnTime(t, p)
  BY <1>0 DEF SInv
<1>2. /\ settings[p].interval \in Nat /\ pulses[p] \in Seq(Time) /\ Time \subseteq Nat
      /\ pulses[p] # <<>> => Last(p) \in Nat
  BY <1>0, Settings
<1>3. ASSUME NEW t \in Tick, SavePulse(t, p)
      PROVE  Spaced(p)' /\ LastKnown(p)' /\ \A s \in Tick : OnTime(s, p)'
  <2>1. /\ tick[t].pc \in {"save", "pulse"} /\ p \in tick[t].due /\ tick[t].at \in Nat /\ tick[t].at # NULL
        /\ settings'[p].interval = tick[t].policy[p].interval /\ settings'[p].lastPulse = tick[t].at
        /\ pulses' = pulses /\ tick'[t].pc = "push" /\ tick'[t].cur = p
        /\ tick'[t].at = tick[t].at /\ tick'[t].due = tick[t].due
    <3>1. /\ tick[t].pc \in {"save", "pulse"} /\ p \in tick[t].due /\ tick[t].at \in Time
          /\ settings'[p].interval = tick[t].policy[p].interval /\ settings'[p].lastPulse = tick[t].at
          /\ tick'[t].pc = "push" /\ tick'[t].cur = p
          /\ tick'[t].at = tick[t].at /\ tick'[t].due = tick[t].due
      BY <1>0, <1>3, SaveDoes
    <3>2. pulses' = pulses
      BY <1>3 DEF SavePulse, history
    <3>3. NULL \notin Time
      BY AlertsAssumption DEF ConstantsOK
    <3> QED
      BY <1>2, <3>1, <3>2, <3>3
  <2>2. settings'[p].interval = settings[p].interval
    BY <1>1, <2>1 DEF OnTime
  <2>3. pulses[p] # <<>> => tick[t].at >= Last(p) + settings[p].interval
    BY <1>1, <2>1 DEF OnTime
  <2>4. Spaced(p)'
    BY <1>1, <2>1, <2>2 DEF Spaced
  <2>5. LastKnown(p)'
    BY <1>2, <2>1, <2>3 DEF LastKnown, Last
  <2>6. OnTime(t, p)'
    BY <2>1, <2>2, <2>3 DEF OnTime, Last
  <2> QED
    BY <2>4, <2>5, <2>6 DEF OneTick
<1>4. ASSUME NEW t \in Tick, PushPulse(t), tick[t].cur = p
      PROVE  Spaced(p)' /\ LastKnown(p)' /\ \A s \in Tick : OnTime(s, p)'
  <2>1. /\ tick[t].pc = "push" /\ p \in tick[t].due /\ tick[t].at \in Time /\ settings' = settings
        /\ pulses' = [pulses EXCEPT ![p] = Append(@, tick[t].at)]
        /\ tick'[t].pc \in {"idle", "pulse", "visit"} /\ p \notin tick'[t].due
    BY <1>0, <1>4, PushDoes
  <2>2. /\ settings[p].lastPulse = tick[t].at
        /\ pulses[p] # <<>> => tick[t].at >= Last(p) + settings[p].interval
    BY <1>1, <1>4, <2>1 DEF OnTime
  <2>3. pulses'[p] = Append(pulses[p], tick[t].at)
    BY <1>0, <2>1 DEF TypeOK
  <2>4. tick[t].at \in Nat /\ tick[t].at # NULL
    BY <1>2, <2>1, AlertsAssumption DEF ConstantsOK
  <2>5. Spaced(p)'
    BY <1>1, <1>2, <2>1, <2>2, <2>3, <2>4 DEF Spaced, Last
  <2>6. LastKnown(p)'
    BY <1>2, <2>1, <2>2, <2>3, <2>4 DEF LastKnown, Last
  <2>7. OnTime(t, p)'
    BY <2>1 DEF OnTime
  <2> QED
    BY <2>5, <2>6, <2>7 DEF OneTick
<1>5. CASE /\ settings'[p] = settings[p] /\ pulses'[p] = pulses[p]
           /\ \A t \in Tick : ~SavePulse(t, p)
  BY <1>1, <1>5, OnTimeStep DEF Spaced, LastKnown, Last
<1>6. pulses'[p] = pulses[p] \/ \E t \in Tick : PushPulse(t) /\ tick[t].cur = p
  <2>1. ASSUME NEW t \in Tick, PushPulse(t), tick[t].cur # p PROVE pulses'[p] = pulses[p]
    BY <1>0, <2>1, PushDoes DEF TypeOK
  <2> QED
    BY <1>0, <2>1, PulsesFate
<1>7. settings'[p] = settings[p] \/ \E t \in Tick : SavePulse(t, p)
  <2>1. ASSUME NEW t \in Tick, NEW q \in Property, SavePulse(t, q), q # p PROVE settings'[p] = settings[p]
    <3>1. \A r \in Property \ {q} : settings'[r] = settings[r]
      BY <1>0, <2>1, SaveDoes
    <3> QED
      BY <2>1, <3>1
  <2>2. CASE ManagerWrites
    BY <1>0, <2>2 DEF ManagerWrites, TypeOK
  <2> QED
    BY <1>0, <2>1, <2>2, BlobFate
<1> QED
  BY <1>3, <1>4, <1>5, <1>6, <1>7, Zenon

LEMMA SInvInit == Init => SInv
BY DEF Init, SInv, Spaced, LastKnown, OnTime, Idle

(* "The wait is measured from the previous pulse": as long as no minute's  *)
(* tick starts while the last one is still awaiting, runEscalation's       *)
(* grouped pushes of a property whose policy the manager leaves alone are  *)
(* never closer than the property's interval.                              *)
THEOREM PulsesKeepApart ==
  ASSUME OneTick
  PROVE  Spec => []PulsesSpaced
<1>1. TInv /\ SInv /\ [Next]_vars => SInv'
  BY SInvStep
<1>2. SInv => PulsesSpaced
  BY DEF SInv, PulsesSpaced, Spaced
<1> QED
  BY <1>1, <1>2, TInvInit, TInvStep, SInvInit, PTL DEF Spec

-----------------------------------------------------------------------------
(* NobodyForgotten.                                                        *)

LEMMA RemindedStep ==
  ASSUME TypeOK, RemindedIsTold, [Next]_vars
  PROVE  RemindedIsTold'
<1>0. Grows /\ told \subseteq told'
  BY GrowsStep DEF Grows
<1>1. CASE SameMarks
  BY <1>0, <1>1 DEF RemindedIsTold, SameMarks
<1>2. ASSUME NEW t \in Tick, NEW i \in Incident, Visit(t, i) PROVE RemindedIsTold'
  <2>1. CASE inc' = inc
    BY <1>0, <2>1 DEF RemindedIsTold
  <2>2. CASE told' = told \cup {i}
    BY <1>0, <1>2, <2>2, MarksOfVisit DEF RemindedIsTold
  <2> QED
    BY <1>2, <2>1, <2>2, VisitDoes
<1>3. ASSUME NEW t \in Tick, Escalate(t) PROVE RemindedIsTold'
  BY <1>0, <1>3, MarksOfEscalation DEF RemindedIsTold
<1>4. ASSUME NEW t \in Tick, NEW p \in Property, StampFirstTime(t, p) PROVE RemindedIsTold'
  BY <1>0, <1>4, StampDoes DEF RemindedIsTold
<1> QED
  BY <1>1, <1>2, <1>3, <1>4, RowFate DEF Marked

(* A waiting issue has the first report of its group among those a tick    *)
(* will visit.                                                             *)
LEMMA FirstIsThere ==
  ASSUME NEW seen, NEW V \in FirstPerGroup(seen), NEW i \in Incident, seen[i].status \in Waiting
  PROVE  \E j \in V : /\ GroupOf[j] = GroupOf[i] /\ seen[j].status # "NONE"
                      /\ seen[j].reportedAt <= seen[i].reportedAt
<1> DEFINE F == {j \in V : GroupOf[j] = GroupOf[i]}
<1>1. /\ V \subseteq {j \in Incident : seen[j].status \in Waiting}
      /\ Cardinality(F) = 1 /\ \A j \in F : seen[j].reportedAt <= seen[i].reportedAt
  BY DEF FirstPerGroup
<1>2. F # {}
  <2> HIDE DEF F
  <2> QED
    BY <1>1, FS_EmptySet
<1> QED
  BY <1>1, <1>2 DEF Waiting

(* What has been open for so long was reported, and seen, before.          *)
LEMMA SeenWaiting ==
  ASSUME TInv, CleanerInterval > 0, NEW t \in Tick, tick[t].pc \notin {"idle", "read"},
         NEW i \in Incident, openSince[i] # NULL, openSince[i] + CleanerInterval <= tick[t].at
  PROVE  /\ tick[t].seen[i].reportedAt \in Nat /\ tick[t].at \in Nat /\ tick[t].at <= now /\ now \in Nat
         /\ tick[t].seen[i].reportedAt + CleanerInterval <= tick[t].at
         /\ open[PropertyOf[i]]
<1>1. /\ CleanerInterval \in Nat /\ openSince[i] \in Nat /\ tick[t].at \in Nat /\ now \in Nat /\ tick[t].at <= now
  BY AlertsAssumption DEF TInv, TypeOK, TickOK, Time, ConstantsOK
<1>2. openSince[i] < tick[t].at
  BY <1>1
<1>3. /\ tick[t].seen[i].status = "OPEN" /\ tick[t].seen[i].reportedAt \in 0..tick[t].at
      /\ inc[i].reportedAt = tick[t].seen[i].reportedAt
  BY <1>2 DEF TInv, SeenOK
<1>4. inc[i].reportedAt <= openSince[i] /\ open[PropertyOf[i]]
  BY DEF TInv, RowsOK
<1> QED
  BY <1>1, <1>3, <1>4

(* The visit to the first of the group of such an issue tells the cleaners *)
(* if nobody has.                                                          *)
LEMMA VisitTells ==
  ASSUME TInv, CleanerInterval > 0, NEW t \in Tick, NEW j \in Incident, Visit(t, j), Remembered(t),
         NEW i \in Incident, openSince[i] # NULL, openSince[i] + CleanerInterval <= tick[t].at,
         PropertyOf[i] \notin Batched(t), GroupOf[j] = GroupOf[i], tick[t].seen[j].status # "NONE",
         tick[t].seen[j].reportedAt <= tick[t].seen[i].reportedAt
  PROVE  j \in told'
<1>1. tick[t].pc = "visit"
  BY VisitDoes DEF TInv
<1>2. /\ tick[t].seen[i].reportedAt \in Nat /\ tick[t].at \in Nat /\ tick[t].at <= now /\ now \in Nat
      /\ tick[t].seen[i].reportedAt + CleanerInterval <= tick[t].at
      /\ open[PropertyOf[i]] /\ CleanerInterval \in Nat
  BY <1>1, SeenWaiting, AlertsAssumption DEF ConstantsOK
<1>3. PropertyOf[j] = PropertyOf[i]
  BY AlertsAssumption DEF ConstantsOK
<1>4. tick[t].seen[j].reportedAt \in Nat
  BY <1>1 DEF TInv, SeenOK
<1>5. CASE tick[t].seen[j].cleaner # <<>>
  BY <1>1, <1>5, VisitDoes DEF Remembered, TInv
<1>6. CASE tick[t].seen[j].cleaner = <<>>
  <2>1. now >= tick[t].seen[j].reportedAt + CleanerInterval
    BY <1>2, <1>4
  <2>2. CleanerInterval * (Len(tick[t].seen[j].cleaner) + 1) = CleanerInterval
    BY <1>2, <1>6
  <2>3. CleanerDue(t, j)
    BY <1>2, <1>3, <2>1, <2>2 DEF CleanerDue
  <2> QED
    BY <2>3, VisitDoes DEF TInv
<1> QED
  BY <1>5, <1>6

LEMMA ToldOrLeftStep ==
  ASSUME TInv, CleanerInterval > 0, [Next]_vars, NEW t \in Tick, tick[t].pc \notin {"idle", "read"},
         Remembered(t), NEW i \in Incident, openSince[i] # NULL,
         openSince[i] + CleanerInterval <= tick[t].at, PropertyOf[i] \notin Batched(t),
         tick'[t] = tick[t] \/ TickStep(t)
  PROVE  \/ \E j \in told' : GroupOf[j] = GroupOf[i]
         \/ \E j \in tick'[t].visit :
              /\ tick'[t].pc # "idle" /\ GroupOf[j] = GroupOf[i] /\ tick'[t].seen[j].status # "NONE"
              /\ tick'[t].seen[j].reportedAt <= tick'[t].seen[i].reportedAt
         \/ tick'[t].pc = "idle" /\ ~EscalationEnabled
<1>0. TypeOK /\ told \subseteq told' /\ ToldOrLeft(t, i)
  BY GrowsStep DEF TInv, Grows, Remembered
<1>1. CASE \E j \in told : GroupOf[j] = GroupOf[i]
  BY <1>0, <1>1
<1> SUFFICES ASSUME NEW j \in tick[t].visit, GroupOf[j] = GroupOf[i], tick[t].seen[j].status # "NONE",
                    tick[t].seen[j].reportedAt <= tick[t].seen[i].reportedAt
             PROVE  \/ j \in told'
                    \/ j \in tick'[t].visit /\ tick'[t].pc # "idle" /\ tick'[t].seen = tick[t].seen
                    \/ tick'[t].pc = "idle" /\ ~EscalationEnabled
  BY <1>0, <1>1 DEF ToldOrLeft
<1>2. CASE tick'[t] = tick[t]
  BY <1>2
<1>3. CASE Visit(t, j)
  BY <1>0, <1>3, VisitTells DEF TypeOK, TickRecord
<1>4. CASE PushPulse(t)
  BY <1>0, <1>4, PushDoes
<1>5. CASE Escalate(t)
  BY <1>0, <1>5, EscalateDoes
<1>6. ASSUME NEW k \in Incident, k # j, Visit(t, k)
      PROVE  \/ j \in tick'[t].visit /\ tick'[t].pc # "idle" /\ tick'[t].seen = tick[t].seen
             \/ tick'[t].pc = "idle" /\ ~EscalationEnabled
  BY <1>0, <1>6, VisitDoes
<1>7. ASSUME NEW p \in Property, StampFirstTime(t, p) \/ SavePulse(t, p)
      PROVE  j \in tick'[t].visit /\ tick'[t].pc # "idle" /\ tick'[t].seen = tick[t].seen
  BY <1>0, <1>7, StampDoes, SaveDoes
<1>8. ~ReadIncidents(t)
  BY DEF ReadIncidents
<1> QED
  BY <1>2, <1>3, <1>4, <1>5, <1>6, <1>7, <1>8, Zenon DEF TickStep

LEMMA RememberedStep ==
  ASSUME TInv, FInv, CleanerInterval > 0, [Next]_vars, NEW t \in Tick
  PROVE  Remembered(t)'
<1>0. /\ TypeOK /\ Grows /\ now \in Nat /\ CleanerInterval \in Nat
      /\ \A i \in Incident : openSince[i] # NULL => openSince[i] \in Nat
  BY GrowsStep, AlertsAssumption DEF TInv, TypeOK, Time, ConstantsOK
<1> SUFFICES ASSUME tick'[t].pc \notin {"idle", "read"}
             PROVE  /\ \A i \in Incident : tick'[t].seen[i].cleaner # <<>> => i \in told'
                    /\ \A i \in Incident :
                         /\ PropertyOf[i] \notin Batched(t)' /\ openSince'[i] # NULL
                         /\ openSince'[i] + CleanerInterval <= tick'[t].at
                         => ToldOrLeft(t, i)'
  BY DEF Remembered
<1>1. CASE ReadIncidents(t)
  <2>1. /\ tick'[t].seen = inc /\ tick'[t].at = now /\ tick'[t].visit \in FirstPerGroup(inc)
        /\ openSince' = openSince
    BY <1>0, <1>1, ReadDoes DEF history
  <2>2. \A i \in Incident : openSince[i] # NULL => inc[i].status \in Waiting
    BY DEF TInv, RowsOK, Waiting
  <2>3. \A i \in Incident : openSince[i] # NULL => ToldOrLeft(t, i)'
    BY <2>1, <2>2, FirstIsThere DEF ToldOrLeft
  <2>4. \A i \in Incident : inc[i].cleaner # <<>> => i \in told'
    BY <1>0 DEF FInv, RemindedIsTold, Grows
  <2> QED
    BY <2>1, <2>3, <2>4
<1>2. CASE tick'[t] = tick[t] \/ (TickStep(t) /\ ~ReadIncidents(t))
  <2>1. /\ tick[t].pc \notin {"idle", "read"} /\ tick'[t].policy = tick[t].policy
        /\ tick'[t].seen = tick[t].seen /\ tick'[t].at = tick[t].at
    BY <1>0, <1>2, KeepsSnapshot
  <2>2. Remembered(t)
    BY DEF FInv
  <2>3. \A i \in Incident : tick'[t].seen[i].cleaner # <<>> => i \in told'
    BY <1>0, <2>1, <2>2 DEF Remembered, Grows
  <2>4. ASSUME NEW i \in Incident, PropertyOf[i] \notin Batched(t)', openSince'[i] # NULL,
               openSince'[i] + CleanerInterval <= tick'[t].at
        PROVE  ToldOrLeft(t, i)'
    <3>1. PropertyOf[i] \notin Batched(t)
      BY <2>1, <2>4 DEF Batched
    <3>2. tick[t].at \in Nat /\ tick[t].at <= now
      BY <1>0, <2>1 DEF TypeOK, TickOK
    <3>3. openSince'[i] = openSince[i]
      BY <1>0, <2>1, <2>4, <3>2 DEF Grows
    <3> QED
      BY <1>2, <2>1, <2>2, <2>4, <3>1, <3>3, ToldOrLeftStep DEF ToldOrLeft
  <2> QED
    BY <2>3, <2>4
<1> QED
  BY <1>0, <1>1, <1>2, TickFate

LEMMA FInvInit == Init => FInv
BY DEF Init, FInv, RemindedIsTold, Remembered, Unreported, Idle

LEMMA FInvStep ==
  ASSUME CleanerInterval > 0, TInv, FInv, [Next]_vars
  PROVE  FInv'
BY RemindedStep, RememberedStep DEF FInv, TInv

(* A tick that ends has told of every issue that waited for long.          *)
LEMMA ImmediateTold ==
  ASSUME CleanerInterval > 0, EscalationEnabled, TInv, FInv, [Next]_vars, NEW t \in Tick, TickEnds(t),
         NEW i \in Incident, OpenFor(t, i, CleanerInterval), PropertyOf[i] \notin Batched(t)
  PROVE  \E j \in told' : GroupOf[j] = GroupOf[i]
<1>0. TypeOK /\ TickStep(t) /\ tick'[t].pc = "idle"
  BY EndingStep DEF TInv, TickEnds
<1>1. CASE ReadIncidents(t)
  <2>1. {} \in FirstPerGroup(inc) /\ tick[t].pc = "read"
    BY <1>0, <1>1, ReadDoes
  <2>2. inc[i].status \in Waiting
    BY <2>1 DEF OpenFor, Seen, Waiting
  <2> QED
    BY <2>1, <2>2, FirstIsThere
<1>2. CASE ~ReadIncidents(t)
  <2>1. tick[t].pc \notin {"idle", "read"}
    BY <1>0, <1>2, KeepsSnapshot
  <2>2. openSince[i] # NULL /\ openSince[i] + CleanerInterval <= tick[t].at
    BY <2>1 DEF OpenFor, SeenAt
  <2>3. Remembered(t)
    BY DEF FInv
  <2> QED
    BY <1>0, <2>1, <2>2, <2>3, ToldOrLeftStep
<1> QED
  BY <1>1, <1>2

LEMMA AllAreToldStep ==
  ASSUME CleanerInterval > 0, EscalationEnabled, OneTick,
         TInv, WInv, FInv, StampedIsPushed', [Next]_vars
  PROVE  AllAreTold
<1> SUFFICES ASSUME NEW t \in Tick, TickEnds(t), NEW i \in Incident,
                    \A d \in BatchInterval \cup {CleanerInterval} : OpenFor(t, i, d)
             PROVE  \E j \in told' : GroupOf[j] = GroupOf[i]
  BY DEF AllAreTold
<1>1. CASE PropertyOf[i] \notin Batched(t)
  BY <1>1, ImmediateTold
<1>2. CASE PropertyOf[i] \in Batched(t)
  <2>1. tick[t].policy[PropertyOf[i]].interval \in BatchInterval
    <3>1. PropertyOf[i] \in Property /\ tick[t].pc # "idle"
      BY <1>2 DEF Batched, TickEnds
    <3>2. tick[t].policy[PropertyOf[i]] \in Policy
      BY <3>1 DEF TInv, TypeOK, TickOK
    <3> QED
      BY <3>2 DEF Policy
  <2>2. inc'[i].notifiedAt # NULL
    BY <1>2, <2>1, WaitEndsStep DEF WaitEnds
  <2>3. i \in told'
    BY <2>2 DEF StampedIsPushed, OneTick, TickEnds
  <2> QED
    BY <2>3
<1> QED
  BY <1>1, <1>2

(* With escalation and cleaner reminders on, no issue falls between the    *)
(* two ways of telling the cleaners: whatever the manager switches while a *)
(* tick of runEscalation or a create is under way, some incident of the    *)
(* group of each issue has been pushed by the end of the tick after it was *)
(* open for the longest interval, if no call fails.                        *)
THEOREM NobodyIsForgotten ==
  ASSUME MaxFaults = 0, OneTick, EscalationEnabled, CleanerInterval > 0
  PROVE  Spec => NobodyForgotten
<1>1. TInv /\ WInv /\ FInv /\ StampedIsPushed' /\ [Next]_vars => AllAreTold \/ UNCHANGED vars
  BY AllAreToldStep
<1>2. TInv /\ FInv /\ [Next]_vars => FInv'
  BY FInvStep
<1>3. Spec => []StampedIsPushed
  BY AnnouncedIsPushed
<1> QED
  BY <1>1, <1>2, <1>3, TInvInit, TInvStep, WInvInit, WInvStep, FInvInit, PTL DEF Spec, NobodyForgotten

-----------------------------------------------------------------------------
(* EscalatedInTime.                                                        *)

(* A property becomes immediate only by the manager's hand: what a tick    *)
(* writes back was batched when it was read.                               *)
LEMMA PlainFate ==
  ASSUME TypeOK, [Next]_vars, NEW p \in Property, Plain(p)'
  PROVE  Plain(p)
<1>0. /\ touched \subseteq touched' /\ p \notin touched' /\ settings'[p].mode = "immediate"
      /\ settings \in [Property -> Policy]
  BY GrowsStep DEF TypeOK, Grows, Plain
<1>1. ASSUME NEW t \in Tick, NEW q \in Property, SavePulse(t, q) PROVE settings'[p] = settings[p]
  <2>1. q \in tick[t].due /\ \A r \in Property \ {q} : settings'[r] = settings[r]
    BY <1>1, SaveDoes DEF TypeOK
  <2>2. CASE q = p
    <3>1. tick[t].pc \notin {"idle", "read"}
      BY <1>1 DEF SavePulse
    <3>2. tick[t].policy[p] \in Policy /\ tick[t].policy[p].mode = "batched"
      BY <2>1, <2>2, <3>1 DEF TypeOK, TickOK, Batched
    <3>3. settings'[p] = [tick[t].policy[p] EXCEPT !.lastPulse = tick[t].at]
      BY <1>0, <1>1, <2>2 DEF SavePulse
    <3> QED
      BY <1>0, <3>2, <3>3 DEF Policy
  <2> QED
    BY <2>1, <2>2
<1>2. CASE ManagerWrites
  <2>1. /\ settings' = [settings EXCEPT ![manager.property] = manager.blob]
        /\ touched' = touched \cup {manager.property}
    BY <1>2 DEF ManagerWrites
  <2> QED
    BY <1>0, <2>1 DEF Plain
<1> QED
  BY <1>0, <1>1, <1>2, BlobFate DEF Plain

LEMMA PlainStep ==
  ASSUME TypeOK, [Next]_vars, NEW p \in Property, PlainOK(p)
  PROVE  PlainOK(p)'
<1> SUFFICES ASSUME Plain(p)'
             PROVE  /\ \A t \in Tick : tick'[t].pc # "idle" => p \notin Batched(t)'
                    /\ \A i \in Incident : PropertyOf[i] = p => inc'[i].notifiedAt = NULL
  BY DEF PlainOK
<1>0. /\ settings[p].mode = "immediate"
      /\ \A t \in Tick : tick[t].pc # "idle" => p \notin Batched(t)
      /\ \A i \in Incident : PropertyOf[i] = p => inc[i].notifiedAt = NULL
  BY PlainFate DEF PlainOK, Plain
<1>1. ASSUME NEW t \in Tick, tick'[t].pc # "idle" PROVE p \notin Batched(t)'
  <2>1. CASE tick'[t] = tick[t]
    BY <1>0, <1>1, <2>1 DEF Batched
  <2>2. CASE StartTick(t) /\ tick'[t].policy = settings
    BY <1>0, <2>2 DEF Batched
  <2>3. CASE TickStep(t)
    <3>1. tick[t].pc # "idle" /\ tick'[t].policy = tick[t].policy
      BY <1>1, <2>3, ReadDoes, KeepsSnapshot
    <3> QED
      BY <1>0, <3>1 DEF Batched
  <2> QED
    BY <1>1, <2>1, <2>2, <2>3, TickFate
<1>2. ASSUME NEW i \in Incident, PropertyOf[i] = p PROVE inc'[i].notifiedAt = NULL
  <2>1. ASSUME NEW t \in Tick, NEW q \in Property, StampFirstTime(t, q)
        PROVE  inc'[i].notifiedAt = inc[i].notifiedAt
    <3>1. q \in Batched(t) /\ tick[t].pc # "idle"
      BY <2>1, StampDoes DEF TypeOK, TickOK
    <3>2. i \notin FirstTime(t, q)
      BY <1>0, <1>2, <3>1 DEF FirstTime, Bucket
    <3> QED
      BY <2>1, <3>2, StampDoes
  <2>2. ASSUME NEW t \in Tick, Marked(t) PROVE inc'[i].notifiedAt = inc[i].notifiedAt
    BY <2>1, <2>2, MarksOfVisit, MarksOfEscalation DEF Marked
  <2> QED
    BY <1>0, <1>2, <2>2, RowFate DEF SameMarks
<1> QED
  BY <1>1, <1>2

(* Rounds are never taken back.                                            *)
LEMMA RoundsStay ==
  ASSUME TypeOK, [Next]_vars, NEW i \in Incident, inc[i].supervisor # <<>>
  PROVE  inc'[i].supervisor # <<>>
<1>0. inc[i].supervisor \in Seq(Nat)
  BY DEF TypeOK, IncidentRecord
<1>1. ASSUME NEW t \in Tick, Escalate(t) PROVE inc'[i].supervisor # <<>>
  <2>1. \/ inc'[i].supervisor = inc[i].supervisor
        \/ \E n : inc'[i].supervisor = Append(inc[i].supervisor, n)
    BY <1>1, MarksOfEscalation
  <2> QED
    BY <1>0, <2>1
<1>2. ASSUME NEW t \in Tick, Marked(t) PROVE inc'[i].supervisor # <<>>
  BY <1>1, <1>2, MarksOfVisit, StampDoes DEF Marked
<1> QED
  BY <1>2, RowFate DEF SameMarks

(* The visit to the first of the group of an overdue issue goes on to its  *)
(* escalation if nobody has been told.                                     *)
LEMMA VisitEscalates ==
  ASSUME TInv, EInv, SupervisorInterval > 0, NEW t \in Tick, NEW j \in Incident, Visit(t, j),
         NEW i \in Incident, Overdue(t, i), GroupOf[j] = GroupOf[i], tick[t].seen[i].reportedAt \in Nat,
         tick[t].seen[j].status # "NONE", tick[t].seen[j].reportedAt <= tick[t].seen[i].reportedAt
  PROVE  \/ inc[j].supervisor # <<>>
         \/ tick'[t].pc = "escalate" /\ tick'[t].cur = j
<1> SUFFICES ASSUME inc[j].supervisor = <<>>
             PROVE  tick'[t].pc = "escalate" /\ tick'[t].cur = j
  OBVIOUS
<1>0. TypeOK /\ tick[t].pc = "visit" /\ tick \in [Tick -> TickRecord]
  BY VisitDoes DEF TInv, TypeOK
<1>1. TickOK(t) /\ now \in Time /\ Time \subseteq Nat /\ SupervisorInterval \in Nat
  BY <1>0, AlertsAssumption DEF TypeOK, Time, ConstantsOK
<1>2. tick[t].at \in 0..now
  BY <1>0, <1>1 DEF TickOK
<1>3. /\ tick[t].pc = "visit" /\ SupervisorInterval \in Nat
      /\ tick[t].at \in Nat /\ tick[t].at <= now /\ now \in Nat
  BY <1>0, <1>1, <1>2
<1>4. PropertyOf[j] = PropertyOf[i] /\ PropertyOf[j] \in Property
  BY AlertsAssumption DEF ConstantsOK
<1>5. open[PropertyOf[j]] /\ PropertyOf[j] \notin Batched(t) /\ inc[j].notifiedAt = NULL
  BY <1>3, <1>4 DEF EInv, PlainOK, Overdue
<1>6. tick[t].seen[j].notifiedAt = NULL /\ tick[t].seen[j].reportedAt \in Nat
  BY <1>3, <1>5 DEF TInv, SeenOK
<1>7. tick[t].seen[j].supervisor = <<>>
  BY <1>3 DEF EInv, Owed
<1>8. now >= tick[t].seen[j].reportedAt + SupervisorInterval
  BY <1>3, <1>6 DEF Overdue
<1>9. SupervisorInterval * (Len(tick[t].seen[j].supervisor) + 1) = SupervisorInterval
  BY <1>3, <1>7
<1>10. SupervisorDue(t, j)
  BY <1>5, <1>6, <1>8, <1>9 DEF SupervisorDue
<1>11. tick' = [tick EXCEPT ![t] = [[tick[t] EXCEPT !.visit = @ \ {j}] EXCEPT !.pc = "escalate", !.cur = j]]
  BY <1>10 DEF Visit
<1> QED
  BY <1>0, <1>11 DEF TickRecord

LEMMA EscalatedOrLeftStep ==
  ASSUME TInv, EInv, EscalationEnabled, SupervisorInterval > 0, [Next]_vars,
         NEW t \in Tick, tick[t].pc \notin {"idle", "read"}, NEW i \in Incident, Overdue(t, i),
         tick'[t] = tick[t] \/ TickStep(t)
  PROVE  \/ \E j \in Incident : GroupOf[j] = GroupOf[i] /\ inc'[j].supervisor # <<>>
         \/ tick'[t].pc # "idle" /\ EscalatedOrLeft(t, i)'
<1>0. TypeOK /\ EscalatedOrLeft(t, i)
  BY DEF TInv, EInv, Owed
<1>1. CASE \E j \in Incident : GroupOf[j] = GroupOf[i] /\ inc[j].supervisor # <<>>
  BY <1>0, <1>1, RoundsStay
<1>2. CASE tick[t].pc = "escalate" /\ GroupOf[tick[t].cur] = GroupOf[i]
  <2>1. CASE tick'[t] = tick[t]
    BY <1>2, <2>1 DEF EscalatedOrLeft
  <2>2. CASE TickStep(t)
    <3>1. Escalate(t)
      BY <1>2, <2>2 DEF TickStep, ReadIncidents, PushPulse, StampFirstTime, SavePulse, Visit
    <3>2. tick[t].cur \in Incident /\ inc[tick[t].cur].supervisor \in Seq(Nat)
      BY <1>0, <3>1, EscalateDoes DEF TypeOK, IncidentRecord
    <3>3. inc'[tick[t].cur].supervisor # <<>>
      BY <1>0, <3>1, <3>2, MarksOfEscalation
    <3> QED
      BY <1>2, <3>2, <3>3
  <2> QED
    BY <2>1, <2>2
<1>3. ASSUME NEW j \in tick[t].visit, GroupOf[j] = GroupOf[i], tick[t].seen[j].status # "NONE",
             tick[t].seen[j].reportedAt <= tick[t].seen[i].reportedAt
      PROVE  \/ \E k \in Incident : GroupOf[k] = GroupOf[i] /\ inc'[k].supervisor # <<>>
             \/ tick'[t].pc # "idle" /\ EscalatedOrLeft(t, i)'
  <2>0. j \in Incident /\ tick[t].seen[i].reportedAt \in Nat
    <3>1. tick[t].seen[i].status # "NONE"
      BY DEF Overdue, Waiting
    <3> QED
      BY <1>0, <3>1 DEF TInv, SeenOK, TypeOK, TickRecord
  <2>1. CASE Visit(t, j)
    <3>1. \/ inc[j].supervisor # <<>>
          \/ tick'[t].pc = "escalate" /\ tick'[t].cur = j
      BY <1>3, <2>0, <2>1, VisitEscalates
    <3> QED
      BY <1>0, <1>3, <2>0, <3>1, RoundsStay DEF EscalatedOrLeft
  <2>2. CASE j \in tick'[t].visit /\ tick'[t].pc # "idle" /\ tick'[t].seen = tick[t].seen
    BY <1>3, <2>2 DEF EscalatedOrLeft
  <2>3. CASE tick'[t] = tick[t]
    BY <1>3, <2>2, <2>3
  <2>4. CASE PushPulse(t)
    BY <1>0, <1>3, <2>2, <2>4, PushDoes
  <2>5. CASE Escalate(t)
    BY <1>0, <1>3, <2>2, <2>5, EscalateDoes
  <2>6. ASSUME NEW k \in Incident, k # j, Visit(t, k)
        PROVE  j \in tick'[t].visit /\ tick'[t].pc # "idle" /\ tick'[t].seen = tick[t].seen
    BY <1>0, <1>3, <2>6, VisitDoes
  <2>7. ASSUME NEW p \in Property, StampFirstTime(t, p) \/ SavePulse(t, p)
        PROVE  j \in tick'[t].visit /\ tick'[t].pc # "idle" /\ tick'[t].seen = tick[t].seen
    BY <1>0, <1>3, <2>7, StampDoes, SaveDoes
  <2>8. ~ReadIncidents(t)
    BY DEF ReadIncidents
  <2> QED
    BY <2>1, <2>2, <2>3, <2>4, <2>5, <2>6, <2>7, <2>8, Zenon DEF TickStep
<1> QED
  BY <1>0, <1>1, <1>2, <1>3 DEF EscalatedOrLeft

LEMMA OwedStep ==
  ASSUME TInv, EInv, EscalationEnabled, SupervisorInterval > 0, [Next]_vars, NEW t \in Tick
  PROVE  Owed(t)'
<1>0. TypeOK /\ \A i \in Incident : PropertyOf[i] \in Property
  BY AlertsAssumption DEF TInv, ConstantsOK
<1> SUFFICES ASSUME tick'[t].pc \notin {"idle", "read"}, NEW i \in Incident
             PROVE  /\ tick'[t].seen[i].supervisor # <<>> => inc'[i].supervisor # <<>>
                    /\ Overdue(t, i)' => EscalatedOrLeft(t, i)'
  BY DEF Owed
<1>1. CASE ReadIncidents(t)
  <2>1. tick'[t].seen = inc /\ inc' = inc /\ tick'[t].visit \in FirstPerGroup(inc)
    BY <1>0, <1>1, ReadDoes
  <2>2. ASSUME inc[i].status \in Waiting PROVE EscalatedOrLeft(t, i)'
    BY <2>1, <2>2, FirstIsThere DEF EscalatedOrLeft
  <2> QED
    BY <2>1, <2>2 DEF Overdue
<1>2. CASE tick'[t] = tick[t] \/ (TickStep(t) /\ ~ReadIncidents(t))
  <2>1. /\ tick[t].pc \notin {"idle", "read"}
        /\ tick'[t].seen = tick[t].seen /\ tick'[t].at = tick[t].at
    BY <1>0, <1>2, KeepsSnapshot
  <2>2. tick'[t].seen[i].supervisor # <<>> => inc'[i].supervisor # <<>>
    BY <1>0, <2>1, RoundsStay DEF EInv, Owed
  <2>3. ASSUME Overdue(t, i)' PROVE EscalatedOrLeft(t, i)'
    <3>1. Overdue(t, i)
      BY <1>0, <2>1, <2>3, PlainFate DEF Overdue
    <3> QED
      BY <1>2, <2>1, <3>1, EscalatedOrLeftStep DEF EscalatedOrLeft
  <2> QED
    BY <2>2, <2>3
<1> QED
  BY <1>0, <1>1, <1>2, TickFate

LEMMA StaysOpen ==
  ASSUME ~HoursChange, TypeOK, [Next]_vars
  PROVE  open' = open
<1>1. ASSUME NEW t \in Tick, StartTick(t) \/ TickStep(t) \/ TickFails(t) PROVE open' = open
  BY <1>1, TickStepRows DEF StartTick, TickFails
<1>2. ASSUME NEW i \in Incident, AlertOnReport(i) \/ Handle(i) \/ \E r \in Time : Report(i, r)
      PROVE  open' = open
  BY <1>2 DEF AlertOnReport, Handle, Report
<1>3. ASSUME NEW p \in Property, ChangeHours(p) \/ \E patch \in Patch : ManagerReads(p, patch)
      PROVE  open' = open
  BY <1>3 DEF ChangeHours, ManagerReads
<1>4. CASE Minute \/ ManagerWrites \/ Restart \/ UNCHANGED vars
  BY <1>4 DEF Minute, ManagerWrites, Restart, vars
<1> QED
  BY <1>1, <1>2, <1>3, <1>4 DEF Next

LEMMA EInvInit == Init => EInv
BY AlertsAssumption DEF Init, EInv, PlainOK, Owed, Idle, Unreported

LEMMA EInvStep ==
  ASSUME EscalationEnabled, SupervisorInterval > 0, ~HoursChange, TInv, EInv, [Next]_vars
  PROVE  EInv'
<1>1. open' = open /\ \A p \in Property : PlainOK(p)'
  BY StaysOpen, PlainStep DEF TInv, EInv
<1> QED
  BY <1>1, OwedStep DEF EInv

LEMMA EscalatedInTimeStep ==
  ASSUME EscalationEnabled, SupervisorInterval > 0, TInv, EInv, [Next]_vars
  PROVE  EscalatedInTime
<1> SUFFICES ASSUME NEW t \in Tick, TickEnds(t), NEW i \in Incident, Plain(PropertyOf[i]),
                    Seen(t)[i].status \in Waiting,
                    Seen(t)[i].reportedAt + SupervisorInterval <= SeenAt(t)
             PROVE  \E j \in Incident : GroupOf[j] = GroupOf[i] /\ inc'[j].supervisor # <<>>
  BY DEF EscalatedInTime
<1>0. TypeOK /\ TickStep(t) /\ tick'[t].pc = "idle"
  BY EndingStep DEF TInv, TickEnds
<1>1. CASE ReadIncidents(t)
  <2>1. {} \in FirstPerGroup(inc) /\ tick[t].pc = "read"
    BY <1>0, <1>1, ReadDoes
  <2>2. inc[i].status \in Waiting
    BY <2>1 DEF Seen
  <2> QED
    BY <2>1, <2>2, FirstIsThere
<1>2. CASE ~ReadIncidents(t)
  <2>1. tick[t].pc \notin {"idle", "read"}
    BY <1>0, <1>2, KeepsSnapshot
  <2>2. Overdue(t, i)
    BY <2>1 DEF Seen, SeenAt, Overdue
  <2> QED
    BY <1>0, <2>1, <2>2, EscalatedOrLeftStep
<1> QED
  BY <1>1, <1>2

(* "Escalate to supervisor": where escalation is on and the buildings stay *)
(* open, an issue of a property in immediate mode that nobody resolved has *)
(* had a supervisor round, itself or an earlier report of its group, by    *)
(* the end of the first tick of runEscalation that finds it an interval    *)
(* old.  It holds although ticks overlap and fail and the process          *)
(* restarts, and whatever the manager changes elsewhere.                   *)
THEOREM ImmediateIsEscalated ==
  ASSUME EscalationEnabled, SupervisorInterval > 0, ~HoursChange
  PROVE  Spec => [][EscalatedInTime]_vars
<1>1. TInv /\ EInv /\ [Next]_vars => EscalatedInTime \/ UNCHANGED vars
  BY EscalatedInTimeStep
<1>2. TInv /\ EInv /\ [Next]_vars => EInv'
  BY EInvStep
<1> QED
  BY <1>1, <1>2, TInvInit, TInvStep, EInvInit, PTL DEF Spec
=============================================================================
