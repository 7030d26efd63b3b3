---------------------------- MODULE SensorBridge ----------------------------
(***************************************************************************)
(* SensorBridge: the radar sensor of one restroom.  The ESP32 firmware     *)
(* (firmware/sensor-bridge/src/main.cpp) turns radar frames into visits    *)
(* and reports the start and the end of each to SensorsService.report;     *)
(* the answer carries the tuning an administrator chose.  The code names   *)
(* the restroom; an administrator may delete the sensor or the restroom    *)
(* (BuildingsService.deleteDevice, deleteRestroom) and the code is blocked *)
(* then.                                                                   *)
(*                                                                         *)
(* Time is in milliseconds and advances by the gaps between two passes of  *)
(* loop().  A stamp such as lastPresentAt is kept as its age at the last   *)
(* pass, Never for the initial 0; uint32 subtraction yields just that age  *)
(* as long as it is under 49 days.  Ages stop growing at Horizon, the      *)
(* heartbeat's once it is due.                                             *)
(***************************************************************************)
EXTENDS Integers, Sequences, FiniteSets, SequencesExt

CONSTANTS
  NULL,
  Gaps,         (* Gaps: times between two passes of the loop              *)
  Inputs,       (* Inputs: bodies of updateConfig, in seconds              *)
  Horizon,      (* bound: the age beyond which ages are not told apart     *)
  MaxVisits,    (* bound: times the room becomes occupied                  *)
  MaxTrouble,   (* bound: outages, late answers, restarts, resets and the  *)
                (* deletion                                                *)
  MaxTunes      (* bound: saves of the tuning dialog                       *)

ASSUME BridgeAssumption ==
  /\ MaxVisits \in Nat /\ MaxTrouble \in Nat /\ MaxTunes \in Nat
  /\ Gaps \subseteq Nat \ {0} /\ Horizon \in Nat
  /\ Inputs \subseteq [occupiedAfterSec : Int \cup {NULL}, emptyAfterSec : Int \cup {NULL}]

HEARTBEAT_EVERY_MS == 60000
Never == -1

VARIABLES
  mode,       (* "run", or "portal": the captive portal is open            *)
  nvs,        (* Preferences: credentials, device code and tuning          *)
  net,        (* "up", "noServer" or "noWifi"                              *)
  seen,       (* ages of lastPresentAt and lastAbsentAt                    *)
  beat,       (* age of lastHeartbeatAt                                    *)
  occupied, visit,
  pending,    (* start: the visits pendingStart stands for (none: FALSE),  *)
              (* end: the visit pendingEnd stands for, or 0                *)
  row,        (* the device row: NULL or its sensorConfig                  *)
  events,     (* all sensor_events ever stored, in the order of createdAt  *)
  erased,     (* how many of these went with their device, from the front  *)
  room,       (* the restroom exists                                       *)
  blocked,    (* the code is in blocked_device_codes                       *)
  admin,      (* how far a deletion has come                               *)
  calls,      (* reports on their way or being served                      *)
  dropped,    (* history: visits whose end the bridge has forgotten        *)
  ignored,    (* history: reports the bridge gave up on, perhaps stored    *)
  trouble, tunes

bridge == <<mode, nvs, seen, beat, occupied, visit, pending>>
removal == <<erased, room, blocked, admin>>
server == <<row, events, removal>>
history == <<dropped, ignored, trouble, tunes>>
vars == <<bridge, server, net, calls, history>>

Factory == [ssid |-> FALSE, code |-> FALSE, occ |-> 1000, emp |-> 15000]
Untuned == [occ |-> NULL, emp |-> NULL]
Quiet   == [present |-> Never, absent |-> Never]
None    == [start |-> {}, end |-> 0]

(* A provisioned bridge is switched on, perhaps while its network is down. *)
Init ==
  /\ nvs = [Factory EXCEPT !.ssid = TRUE, !.code = TRUE]
  /\ net \in {"up", "noWifi"} /\ mode = IF net = "up" THEN "run" ELSE "portal"
  /\ seen = Quiet /\ beat = 0
  /\ occupied = FALSE /\ visit = 0 /\ pending = None
  /\ row = NULL /\ events = <<>> /\ calls = {}
  /\ erased = 0 /\ room = TRUE /\ blocked = FALSE /\ admin = "idle"
  /\ dropped = {} /\ ignored = 0 /\ trouble = 0 /\ tunes = 0

Trouble == trouble < MaxTrouble /\ trouble' = trouble + 1

-----------------------------------------------------------------------------
(* The loop.                                                               *)

Capped(t, most) == IF t > most THEN most ELSE t
Older(age, d) == IF age = Never THEN Never ELSE Capped(age + d, Horizon)

(* pumpRadar: the frames buffered since the last pass set the stamps; the  *)
(* set tells whether some of them had targets and some had none.           *)
Pumped(d, frames) == [k \in {"present", "absent"} |->
  IF k \in frames THEN 0 ELSE Older(seen[k], d)]

(* updatePresence                                                          *)
Fresh(age) == age # Never /\ age < 200
Long(age, ms) == age = Never \/ age >= ms

Rises(s) == ~occupied /\ Fresh(s.present) /\ Long(s.absent, nvs.occ)
Falls(s) == occupied /\ Fresh(s.absent) /\ Long(s.present, nvs.emp)

(* Mutant: ends go first.                                                  *)
DueEndFirst(p, age) == IF p.end # 0 THEN {"presence_end"}
                       ELSE IF p.start # {} THEN {"presence_start"}
                       ELSE IF age >= HEARTBEAT_EVERY_MS THEN {"heartbeat"} ELSE {}

(* flushReports: a pending start before a pending end, else the heartbeat  *)
(* when it is due; one POST in a pass.                                     *)
Due(p, age) == IF p.start # {} THEN {"presence_start"}
               ELSE IF p.end # 0 THEN {"presence_end"}
               ELSE IF age >= HEARTBEAT_EVERY_MS THEN {"heartbeat"} ELSE {}

(* postReport                                                              *)
Report(event, p) == [event |-> event, visits |->
  CASE event = "presence_start" -> p.start
    [] event = "presence_end" -> {p.end}
    [] OTHER -> {},
  late |-> 0, pc |-> "sent", config |-> Untuned]

Waited(c) == c.late = 0

Pass(d, frames) ==
  /\ mode = "run" /\ ~\E c \in calls : Waited(c)
  /\ LET s    == Pumped(d, frames)
         rise == Rises(s)
         fall == Falls(s)
         v    == IF rise THEN visit + 1 ELSE visit
         p    == [start |-> IF rise THEN pending.start \cup {v} ELSE pending.start,
                  end   |-> IF fall THEN visit ELSE pending.end]
         age  == Capped(beat + d, HEARTBEAT_EVERY_MS)
         due  == IF net = "noWifi" THEN {} ELSE Due(p, age)
         sent == IF net = "up" /\ nvs.code THEN due ELSE {}
     IN /\ v <= MaxVisits
        /\ seen' = s /\ visit' = v /\ pending' = p
        /\ occupied' = ((occupied \/ rise) /\ ~fall)
        /\ beat' = IF due = {} THEN age ELSE 0
        /\ calls' = calls \cup {Report(e, p) : e \in sent}
        /\ dropped' = IF fall /\ pending.end # 0 THEN dropped \cup {pending.end}
                      ELSE dropped
  /\ UNCHANGED <<mode, nvs, net, server, ignored, trouble, tunes>>

(* applyServerConfig: values outside the firmware's own range are ignored. *)
Accepted(ms, low, high, old) == IF ms # NULL /\ low <= ms /\ ms <= high THEN ms ELSE old

(* Mutant: a range the server does not keep to.                            *)
ApplyServerConfigNarrow(c) == [nvs EXCEPT !.occ = Accepted(c.occ, 500, 20000, @),
                                          !.emp = Accepted(c.emp, 3000, 600000, @)]

ApplyServerConfig(c) == [nvs EXCEPT !.occ = Accepted(c.occ, 500, 60000, @),
                                    !.emp = Accepted(c.emp, 3000, 600000, @)]

(* Mutant: the flag of an end is never cleared.                            *)
SentAgain(c) == [pending EXCEPT !.start = IF c.event = "presence_start" THEN {} ELSE @]

(* A 2xx clears the flag the report was sent for; both stay after a        *)
(* failure, and the next pass tries again.                                 *)
Sent(c) == [pending EXCEPT !.start = IF c.event = "presence_start" THEN {} ELSE @,
                           !.end = IF c.event = "presence_end" THEN 0 ELSE @]

Answered(c) ==
  /\ Waited(c) /\ c.pc = "ok"
  /\ pending' = Sent(c) /\ nvs' = ApplyServerConfig(c.config)
  /\ calls' = calls \ {c}
  /\ UNCHANGED <<mode, seen, beat, occupied, visit, server, net, history>>

(* Mutant: the end of a visit is not repeated after a failure.             *)
FailedForget(c) ==
  /\ Waited(c) /\ c.pc = "error"
  /\ calls' = calls \ {c} /\ pending' = [pending EXCEPT !.end = 0]
  /\ UNCHANGED <<mode, nvs, seen, beat, occupied, visit, server, net, history>>

Failed(c) ==
  /\ Waited(c) /\ c.pc = "error"
  /\ calls' = calls \ {c}
  /\ UNCHANGED <<bridge, server, net, history>>

(* setTimeout(8000) runs out; the server may still serve the report.       *)
TimedOut(c) ==
  /\ Waited(c) /\ Trouble
  /\ calls' = (calls \ {c}) \cup (IF c.pc \in {"ok", "error"} THEN {} ELSE {[c EXCEPT !.late = trouble']})
  /\ ignored' = ignored + 1
  /\ UNCHANGED <<bridge, server, net, dropped, tunes>>

-----------------------------------------------------------------------------
(* SensorsService.report, one action per database call that matters.       *)

At(c, pc) == calls' = (calls \ {c}) \cup {[c EXCEPT !.pc = pc]}

(* The answer, 404 or 500 for "error", if anybody waits for it.            *)
Reply(c, pc) == IF Waited(c) THEN At(c, pc) ELSE calls' = calls \ {c}

(* A blocked code gets 404.                                                *)
FindDevice(c) ==
  /\ c.pc = "sent" /\ net = "up"
  /\ IF blocked THEN Reply(c, "error")
     ELSE IF row = NULL THEN At(c, "create")
     ELSE calls' = (calls \ {c}) \cup {[c EXCEPT !.pc = "store", !.config = row]}
  /\ UNCHANGED <<bridge, server, net, history>>

(* The code registers itself, in the restroom it names: 404 when that is   *)
(* gone, 500 when another report was faster.                               *)
CreateDevice(c) ==
  /\ c.pc = "create"
  /\ IF room /\ row = NULL THEN row' = Untuned /\ At(c, "store")
     ELSE UNCHANGED row /\ Reply(c, "error")
  /\ UNCHANGED <<bridge, events, removal, net, history>>

(* The heartbeat and the event; the answer carries the configuration read  *)
(* by resolveDevice.                                                       *)
Store(c) ==
  /\ c.pc = "store"
  /\ events' = IF c.event = "heartbeat" THEN events
               ELSE Append(events, [type |-> c.event, visits |-> c.visits])
  /\ Reply(c, "ok")
  /\ UNCHANGED <<bridge, row, removal, net, history>>

-----------------------------------------------------------------------------
(* An administrator deletes the sensor or its restroom.                    *)

(* The events go with the device, and a report that has found the device   *)
(* gets a 500.                                                             *)
DropRow ==
  /\ row' = NULL /\ erased' = Len(events)
  /\ calls' = {IF c.pc = "store" THEN [c EXCEPT !.pc = "error"] ELSE c :
                 c \in {x \in calls : Waited(x) \/ x.pc # "store"}}

DeleteDevice ==
  /\ admin = "idle" /\ row # NULL /\ Trouble
  /\ DropRow /\ admin' = "blocking"
  /\ UNCHANGED <<bridge, events, room, blocked, net, dropped, ignored, tunes>>

(* The codes to block were read before; one that registers in between is   *)
(* deleted with the restroom and not blocked.                              *)
DeleteRestroom ==
  /\ admin = "idle" /\ room /\ Trouble
  /\ DropRow /\ room' = FALSE
  /\ admin' \in IF row = NULL THEN {"done"} ELSE {"blocking", "done"}
  /\ UNCHANGED <<bridge, events, blocked, net, dropped, ignored, tunes>>

(* blockAndKickDevices: a call of its own, after the deletion.             *)
BlockCode ==
  /\ admin = "blocking"
  /\ blocked' = TRUE /\ admin' = "done"
  /\ UNCHANGED <<bridge, row, events, erased, room, net, calls, history>>

(* updateConfig                                                            *)
Clamp(v, min, max) == IF v < min THEN min ELSE IF v > max THEN max ELSE v

UpdateConfig(dto) ==
  /\ row # NULL /\ tunes < MaxTunes
  /\ row' = [occ |-> IF dto.occupiedAfterSec = NULL THEN row.occ
                     ELSE 1000 * Clamp(dto.occupiedAfterSec, 1, 30),
             emp |-> IF dto.emptyAfterSec = NULL THEN row.emp
                     ELSE 1000 * Clamp(dto.emptyAfterSec, 3, 300)]
  /\ tunes' = tunes + 1
  /\ UNCHANGED <<bridge, events, removal, net, calls, dropped, ignored, trouble>>

(* What the dashboards read: restroomSummary and orgSummary.               *)
VisitsToday == Cardinality({n \in erased + 1..Len(events) : events[n].type = "presence_end"})
ShownOccupied == Len(events) > erased /\ Last(events).type = "presence_start"

-----------------------------------------------------------------------------
(* Power, provisioning and faults.                                         *)

(* setup(): RAM starts anew; the portal opens without credentials or when  *)
(* the saved network cannot be reached.                                    *)
Boot ==
  /\ mode' = IF nvs'.ssid /\ net # "noWifi" THEN "run" ELSE "portal"
  /\ seen' = Quiet /\ beat' = 0 /\ occupied' = FALSE /\ pending' = None
  /\ dropped' = dropped \cup (IF pending.end # 0 THEN {pending.end} ELSE {})
                        \cup (IF occupied THEN {visit} ELSE {})
  /\ calls' = {IF Waited(c) THEN [c EXCEPT !.late = trouble'] ELSE c :
                 c \in {x \in calls : x.pc \notin {"ok", "error"}}}
  /\ ignored' = ignored + Cardinality({c \in calls : Waited(c)})
  /\ UNCHANGED <<visit, server, net, tunes>>

PowerCycle == Trouble /\ nvs' = nvs /\ Boot

(* BOOT held for five seconds: wipeAndReboot.                              *)
WipeAndReboot ==
  /\ Trouble /\ ~\E c \in calls : Waited(c)
  /\ nvs' = Factory /\ Boot

(* POST /save of the portal; an empty code or server keeps the old one.    *)
Save(code) ==
  /\ mode = "portal"
  /\ nvs' = [nvs EXCEPT !.ssid = TRUE, !.code = @ \/ code]
  /\ trouble' = trouble /\ Boot

(* The portal retries the saved network and restarts into normal mode.     *)
PortalRetry ==
  /\ mode = "portal" /\ nvs.ssid /\ net # "noWifi"
  /\ nvs' = nvs /\ trouble' = trouble /\ Boot

Outage(n) == net = "up" /\ n # "up" /\ Trouble /\ net' = n
             /\ UNCHANGED <<bridge, server, calls, dropped, ignored, tunes>>

Reconnect == net # "up" /\ net' = "up" /\ UNCHANGED <<bridge, server, calls, history>>

(* A report that has not reached the server yet fails in an outage.        *)
Unreached(c) ==
  /\ c.pc = "sent" /\ net # "up"
  /\ calls' = calls \ {c}
  /\ UNCHANGED <<bridge, server, net, history>>

(* The server's process restarts: reports being served are cut off, and a  *)
(* deletion may end without the block, which is no trouble of its own.     *)
ServerRestart ==
  /\ Trouble \/ (admin = "blocking" /\ trouble' = trouble)
  /\ calls' = {IF Waited(c) THEN [c EXCEPT !.pc = "error"] ELSE c :
                 c \in {x \in calls : Waited(x) \/ x.pc = "sent"}}
  /\ ignored' = ignored + Cardinality({c \in calls : Waited(c) /\ c.pc = "ok"})
  /\ admin' = IF admin = "blocking" THEN "done" ELSE admin
  /\ UNCHANGED <<bridge, row, events, erased, room, blocked, net, dropped, tunes>>

-----------------------------------------------------------------------------
Loop == \E d \in Gaps, frames \in SUBSET {"present", "absent"} : Pass(d, frames)

Progress == \E c \in calls :
  \/ FindDevice(c) \/ CreateDevice(c) \/ Store(c)
  \/ Answered(c) \/ Failed(c) \/ Unreached(c)

Next ==
  \/ Loop \/ Progress
  \/ \E c \in calls : TimedOut(c)
  \/ \E dto \in Inputs : UpdateConfig(dto)
  \/ DeleteDevice \/ DeleteRestroom \/ BlockCode
  \/ PowerCycle \/ WipeAndReboot \/ PortalRetry
  \/ \E code \in BOOLEAN : Save(code)
  \/ \E n \in {"noServer", "noWifi"} : Outage(n)
  \/ Reconnect \/ ServerRestart

Spec == Init /\ [][Next]_vars

(* The loop runs, the server serves, an outage ends; the portal's retry    *)
(* comes round.  Nobody has to provision a bridge or tune it.              *)
Fairness == WF_vars(Loop) /\ WF_vars(Progress) /\ WF_vars(Reconnect) /\ WF_vars(PortalRetry)
FairSpec == Spec /\ Fairness

-----------------------------------------------------------------------------
(* Type invariant.                                                         *)
Visits == 1..MaxVisits
TypeOK ==
  /\ mode \in {"run", "portal"} /\ net \in {"up", "noServer", "noWifi"}
  /\ nvs.occ \in 1000..30000 /\ nvs.emp \in 3000..300000
  /\ seen.present \in Never..Horizon /\ seen.absent \in Never..Horizon
  /\ beat \in 0..HEARTBEAT_EVERY_MS
  /\ occupied \in BOOLEAN /\ visit \in 0..MaxVisits
  /\ pending.start \subseteq 1..visit /\ pending.end \in 0..visit
  /\ row # NULL =>
       /\ row.occ = NULL \/ row.occ \in 1000..30000
       /\ row.emp = NULL \/ row.emp \in 3000..300000
  /\ \A n \in DOMAIN events : events[n].visits \subseteq 1..visit
  /\ Cardinality({c \in calls : Waited(c)}) <= 1
  /\ dropped \subseteq 1..visit

(* The end of a visit is stored only after a start that stands for it,     *)
(* whatever reports were lost, late or repeated: flushReports sends the    *)
(* start first and keeps it until it is acknowledged (main.cpp:350-359).   *)
EndsFollowStarts ==
  \A n \in DOMAIN events : events[n].type = "presence_end" =>
    \E m \in 1..n - 1 : events[m].type = "presence_start"
                        /\ events[n].visits \subseteq events[m].visits

(* The dashboard counts a visit once, and once more for each report the    *)
(* bridge gave up on: the endpoint knows no report from its repetition     *)
(* (sensors.service.ts:66-76), so the bridge must never repeat one that    *)
(* was acknowledged.                                                       *)
CountedOncePerLoss ==
  VisitsToday <= ignored + Cardinality({v \in 1..visit :
    v # visit \/ ~occupied})

(* An end that waits is stored in the end, unless a later one overwrites   *)
(* the flag, the bridge loses its memory, its network or its code, or the  *)
(* code is refused for good, because it is blocked or its restroom is gone *)
(* (main.cpp:296-303, 347-364, sensors.service.ts:31-50).  A deleted       *)
(* sensor whose code was not blocked registers anew and goes on.           *)
Refused == blocked \/ ~room
Installed == mode = "run" /\ nvs.code
Stored(v) == \E n \in DOMAIN events : events[n].type = "presence_end" /\ v \in events[n].visits
EndsArrive ==
  \A v \in Visits : pending.end = v ~> (Stored(v) \/ v \in dropped \/ ~Installed \/ Refused)

(* The bridge ends up with the tuning of the administrator, since a report *)
(* is sent at least every minute and every value the server lets through   *)
(* is in the range the firmware accepts (sensors.service.ts:90-128,        *)
(* main.cpp:91-117), also when the sensor was deleted and registers anew.  *)
Tuned == row = NULL \/ (row.occ \in {NULL, nvs.occ} /\ row.emp \in {NULL, nvs.emp})
TuningReaches == <>[](Installed /\ ~Refused) => <>[]Tuned

-----------------------------------------------------------------------------
(* Not kept: ShownOccupied says that the room is occupied when the newest  *)
(* event is an unmatched start (eventLog: "the room is occupied right      *)
(* now").  A visit that begins while the start of the one before still     *)
(* waits has no start of its own, and a late start may land after its end. *)
ShowsOccupied == <>[]Installed => <>[](row = NULL \/ ShownOccupied = occupied)

(* Not kept: "Blocked codes stay dead".  A report that came between the    *)
(* deletion and the block registers the device again, and it is listed,    *)
(* blocked, from then on.                                                  *)
BlockedStaysDead == blocked => row = NULL
=============================================================================
