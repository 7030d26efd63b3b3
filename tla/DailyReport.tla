---------------------------- MODULE DailyReport ----------------------------
(***************************************************************************)
(* DailyReport: the mail of each morning.  Every hour a cron job reads the *)
(* settings and mails the organisation's report to its managers at the     *)
(* organisation's hour, and to each property manager a digest at the hour  *)
(* of the first property.  Which mails of the day are out is kept in       *)
(* memory.  Meanwhile the schedules are edited, the mail service fails,    *)
(* the clock is put back or forward and the process restarts.              *)
(***************************************************************************)
EXTENDS Naturals, Sequences, FiniteSets, FiniteSetsExt

CONSTANTS
  NULL,
  Boss,         (* managers of the organisation with an address            *)
  Pm,           (* property managers with an address                       *)
  Property,     (* a set of numbers: the order of the names                *)
  Hour,         (* the hours somebody chooses from                         *)
  DayPlan,      (* days, as sequences of what the clock shows each hour:   *)
                (* an hour is repeated or missing when the clock changes   *)
  MaxDays,      (* bound: midnights                                        *)
  MaxEdits,     (* bound: settings saved, properties given                 *)
  MaxFaults     (* bound: restarts, failed queries and failed mails        *)

ReportAssumption ==
  /\ Property \subseteq Nat /\ NULL \notin Hour \cup Property /\ NULL \notin BOOLEAN
  /\ Boss \cap Pm = {} /\ "org" \notin Pm
  /\ MaxDays \in Nat /\ MaxEdits \in Nat /\ MaxFaults \in Nat

VARIABLES
  day, plan, slot, (* plan[slot]: what the clock shows                     *)
  org,        (* [hour, on] of Organization.settings                       *)
  own,        (* own[p]: [hour, on] of propertyDailyReports, each NULL if unset *)
  managed,    (* managed[m]: the properties of a property manager          *)
  sentDates,  (* the keys of the mails that are out, in memory             *)
  cron,       (* the run of this hour: what it read and what is left to do *)
  edit,       (* settings read by a request that has not saved yet         *)
  mails,      (* history: mails[r], automatic mails r got today            *)
  excused,    (* history: those whose mail something interfered with today *)
  forgot,     (* history: restarts of today                                *)
  edits, faults

reportVars == <<day, plan, slot, org, own, managed, sentDates, cron, edit, mails, excused, forgot, edits, faults>>
clock == <<day, plan, slot>>
settings == <<org, own, managed>>

Reader == Boss \cup Pm
Idle == [at |-> "idle"]

-----------------------------------------------------------------------------
(* Who is due when.  propertyDailyReports of the first property by name,   *)
(* each value falling back to the organisation's.                          *)

First(ps) == Min(ps)
Unset == [hour |-> NULL, on |-> NULL]
Over(s, new) == [hour |-> IF new.hour = NULL THEN s.hour ELSE new.hour,
                 on |-> IF new.on = NULL THEN s.on ELSE new.on]
Schedule(r, o, w, mg) ==
  IF r \in Boss THEN o
  ELSE IF mg[r] = {} THEN [hour |-> NULL, on |-> FALSE]
  ELSE Over(o, w[First(mg[r])])

(* todayKey is the UTC date of the server's own time (toISOString): the    *)
(* day shown, on a server that runs in UTC.                                *)
(* Mutant: one key for the whole organisation's day, set by whoever is first. *)
KeyOfAll(r) == <<"org", day>>
Key(r) == IF r \in Boss THEN <<"org", day>> ELSE <<r, day>>

Due(r, o, w) ==
  LET s == Schedule(r, o, w, managed)
  IN  s.on /\ s.hour = plan[slot] /\ Key(r) \notin sentDates

Init ==
  /\ day = 0 /\ plan \in DayPlan /\ slot = 1
  /\ org = [hour |-> 0, on |-> TRUE] /\ own = [p \in Property |-> Unset]
  /\ managed = [m \in Pm |-> {}]
  /\ sentDates = {} /\ cron = [at |-> "org", org |-> org, own |-> own] /\ edit = {}
  /\ mails = [r \in Reader |-> 0] /\ excused = {} /\ forgot = 0 /\ edits = 0 /\ faults = 0

-----------------------------------------------------------------------------
(* handleCron and processOrg: the settings are read once.  A run takes     *)
(* less than an hour, and the clock waits for it.                          *)

HandleCron ==
  /\ cron.at = "idle" /\ slot < Len(plan) /\ slot' = slot + 1
  /\ cron' = [at |-> "org", org |-> org, own |-> own]
  /\ UNCHANGED <<day, plan, settings, sentDates, edit, mails, excused, forgot, edits, faults>>

Midnight ==
  /\ cron.at = "idle" /\ slot = Len(plan) /\ day < MaxDays
  /\ day' = day + 1 /\ plan' \in DayPlan /\ slot' = 1
  /\ cron' = [at |-> "org", org |-> org, own |-> own]
  /\ mails' = [r \in Reader |-> 0] /\ excused' = {} /\ forgot' = 0
  /\ UNCHANGED <<settings, sentDates, edit, edits, faults>>

(* Not at the organisation's hour, or the mail is out.                     *)
OrgNotDue ==
  /\ cron.at = "org" /\ \A r \in Boss : ~Due(r, cron.org, cron.own)
  /\ cron' = [cron EXCEPT !.at = "pms"]
  /\ UNCHANGED <<clock, settings, sentDates, edit, mails, excused, forgot, edits, faults>>

OrgStart ==
  /\ cron.at = "org" /\ \E r \in Boss : Due(r, cron.org, cron.own)
  /\ cron' = [at |-> "mailing", org |-> cron.org, own |-> cron.own, left |-> Boss, out |-> 0]
  /\ UNCHANGED <<clock, settings, sentDates, edit, mails, excused, forgot, edits, faults>>

(* EmailService.send answers whether the mail is out; it does not throw.   *)
Mail(r, out) ==
  /\ mails' = IF out THEN [mails EXCEPT ![r] = @ + 1] ELSE mails
  /\ excused' = IF out THEN excused ELSE excused \cup {r}
  /\ faults' = IF out THEN faults ELSE faults + 1
  /\ out \/ faults < MaxFaults

OrgMail(r, out) ==
  /\ cron.at = "mailing" /\ r \in cron.left /\ Mail(r, out)
  /\ cron' = [cron EXCEPT !.left = @ \ {r}, !.out = IF out THEN @ + 1 ELSE @]
  /\ UNCHANGED <<clock, settings, sentDates, edit, forgot, edits>>

(* Mutant: the day counts as done only if every mail is out.               *)
OrgEndAll ==
  /\ cron.at = "mailing" /\ cron.left = {}
  /\ sentDates' = IF cron.out = Cardinality(Boss) THEN sentDates \cup {<<"org", day>>} ELSE sentDates
  /\ cron' = [at |-> "pms", org |-> cron.org, own |-> cron.own]
  /\ UNCHANGED <<clock, settings, edit, mails, excused, forgot, edits, faults>>
OrgEnd ==
  /\ cron.at = "mailing" /\ cron.left = {}
  /\ sentDates' = IF cron.out > 0 THEN sentDates \cup {<<"org", day>>} ELSE sentDates
  /\ cron' = [at |-> "pms", org |-> cron.org, own |-> cron.own]
  /\ UNCHANGED <<clock, settings, edit, mails, excused, forgot, edits, faults>>

(* The property managers are read after the report of the managers.        *)
PmStart ==
  /\ cron.at = "pms"
  /\ cron' = [at |-> "digests", left |-> {m \in Pm : Due(m, cron.org, cron.own)}]
  /\ UNCHANGED <<clock, settings, sentDates, edit, mails, excused, forgot, edits, faults>>

(* sendPropertyManagerReports for one: read again, nothing for nobody.     *)
PmMail(m, out) ==
  /\ cron.at = "digests" /\ m \in cron.left
  /\ managed[m] # {} /\ Mail(m, out)
  /\ sentDates' = IF out THEN sentDates \cup {Key(m)} ELSE sentDates
  /\ cron' = [cron EXCEPT !.left = @ \ {m}]
  /\ UNCHANGED <<clock, settings, edit, forgot, edits>>
PmEnd ==
  /\ cron.at = "digests" /\ \A m \in cron.left : managed[m] = {}
  /\ cron' = Idle
  /\ UNCHANGED <<clock, settings, sentDates, edit, mails, excused, forgot, edits, faults>>

-----------------------------------------------------------------------------
(* What goes wrong: a query throws, and with it the whole run of the       *)
(* organisation; or the process restarts and forgets what is out.          *)

QueryFails ==
  /\ cron.at \in {"org", "pms"} /\ faults < MaxFaults /\ faults' = faults + 1
  /\ excused' = excused \cup {r \in Reader : Due(r, cron.org, cron.own)}
  /\ cron' = Idle
  /\ UNCHANGED <<clock, settings, sentDates, edit, mails, forgot, edits>>

Restart ==
  /\ faults < MaxFaults /\ faults' = faults + 1
  /\ sentDates' = {} /\ cron' = Idle /\ excused' = Reader /\ forgot' = forgot + 1
  /\ UNCHANGED <<clock, settings, edit, mails, edits>>

-----------------------------------------------------------------------------
(* updateOrgSettings: the whole blob is read, changed and written back.    *)
(* A property manager writes the entries of all its properties.  A patch   *)
(* names the hour, the switch, both, or settings of another kind.          *)

Patch == [hour : Hour \cup {NULL}, on : BOOLEAN \cup {NULL}]
Patched(by, new) ==
  IF by \in Boss THEN [org |-> Over(org, new), own |-> own]
  ELSE [org |-> org,
        own |-> [p \in Property |-> IF p \in managed[by] THEN Over(own[p], new) ELSE own[p]]]

UpdateRead(by) ==
  /\ edits < MaxEdits /\ edits' = edits + 1
  /\ by \in Pm => managed[by] # {}
  /\ \E new \in Patch : edit' = edit \cup {Patched(by, new)}
  /\ UNCHANGED <<clock, settings, sentDates, cron, mails, excused, forgot, faults>>

Disturbed(o, w, mg) == {r \in Reader : Schedule(r, o, w, mg) # Schedule(r, org, own, managed)}

UpdateWrite(e) ==
  /\ org' = e.org /\ own' = e.own /\ edit' = edit \ {e}
  /\ excused' = excused \cup Disturbed(e.org, e.own, managed)
  /\ UNCHANGED <<clock, managed, sentDates, cron, mails, forgot, edits, faults>>

(* setManagedProperties                                                    *)
SetManaged(m) ==
  /\ edits < MaxEdits /\ edits' = edits + 1
  /\ \E ps \in SUBSET Property : ps # managed[m] /\ managed' = [managed EXCEPT ![m] = ps]
  /\ excused' = excused \cup {m}
  /\ UNCHANGED <<clock, org, own, sentDates, cron, edit, mails, forgot, faults>>

-----------------------------------------------------------------------------
Next ==
  \/ HandleCron \/ Midnight \/ OrgNotDue \/ OrgStart \/ OrgEnd \/ PmStart \/ PmEnd
  \/ \E r \in Boss, out \in BOOLEAN : OrgMail(r, out)
  \/ \E m \in Pm, out \in BOOLEAN : PmMail(m, out)
  \/ QueryFails \/ Restart
  \/ \E by \in Reader : UpdateRead(by)
  \/ \E e \in edit : UpdateWrite(e)
  \/ \E m \in Pm : SetManaged(m)

Spec == Init /\ [][Next]_reportVars

-----------------------------------------------------------------------------
(* The clock, the settings and the cron have types.                        *)
TypeOK ==
  /\ day \in 0..MaxDays /\ slot \in 1..Len(plan)
  /\ cron.at \in {"idle", "org", "mailing", "pms", "digests"}
  /\ org \in [hour : Hour, on : BOOLEAN] /\ \A p \in Property : own[p] \in Patch
  /\ \A k \in sentDates : k[1] \in Pm \cup {"org"} /\ k[2] <= day

(* One automatic mail a day: an hour that comes twice, an hour that is     *)
(* moved after the mail went out and a manager whose own mail failed       *)
(* repeat nobody's report; only a restart does, once each.                 *)
OncePerDay == \A r \in Reader : mails[r] <= 1 + forgot

(* By midnight everybody has the mail who was due at an hour the clock     *)
(* showed, unless somebody touched that very schedule, the mail itself     *)
(* failed or the process went down that day: the schedules of others, their *)
(* failed mails and lost edits leave it alone.                             *)
NobodyForgotten ==
  cron.at = "idle" /\ slot = Len(plan) =>
    \A r \in Reader \ excused :
      LET s == Schedule(r, org, own, managed)
      IN  s.on /\ (\E i \in 1..Len(plan) : plan[i] = s.hour) => mails[r] = 1
=============================================================================
