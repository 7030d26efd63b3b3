# toilet-monitor in TLA+

Specifications, model-checking configurations and proofs for the restroom
monitoring system of this repository. Kiosk tablets in restrooms report
problems, radar sensors count visits, cleaners and supervisors handle the
reports, managers watch and configure, a NestJS server keeps everything in
PostgreSQL through Prisma.

Everything is translated from `src/apps/server/src` (below: `S`),
`src/apps/web/src` (below: `W`) and `src/firmware`. `PROJECT.json` gives the
lines each definition stands for.

## 1. Inventory

### How the system runs

* **Server.** One Node process. A request handler runs until its next `await`,
  so handlers interleave at every database call. No service method opens a
  transaction: *the unit of atomicity is one Prisma call*, and that is the
  grain of the actions here. What a handler read before an `await` and uses
  after it is kept in the state of the handler.
* **Scheduler.** `setInterval` every minute plus an hourly sweep and an hourly
  mail job, in the same process, without a guard against a tick still running.
* **Tablets and phones.** A React PWA. A kiosk keeps queues in IndexedDB that
  survive a reload and a power cut; its memory does not. The tabs of a browser
  share localStorage, and each has module variables of its own.
* **Sensor bridges.** ESP32 firmware that turns radar frames into visits and
  reports them over HTTP.

### Components

| component | state | operations | hard part | what makes it correct | module |
|---|---|---|---|---|---|
| Incident lifecycle, `S/modules/incidents` | `incidents`, `incident_actions` | create, acknowledge, return, admin update, resolve (closes duplicates), offline resolution, bulk deletions, retention sweep | every handler reads, awaits, writes; a resolve works off a list of duplicates others change meanwhile; queued resolutions are repeated | duplicates of one problem are bounded by the requests under way; stamps describe the status; an answered resolve left no duplicate; a queued resolution closes its incident; no row loses its history | `Incidents` |
| Alert scheduling, `S/modules/scheduler`, `S/common/alert-mode.ts` | stamps and reminder rounds of incidents, `Property.settings` | minute tick: grouped pulse, cleaner reminder, supervisor escalation; alert on report; the manager's policy | a tick works from one snapshot over many awaits; the settings blob has two writers; restarts; hours | pushes keep their distance, no one is told twice in a round, nobody is passed over | `Alerts` |
| Kiosk reporting and offline sync, `W/modules/kiosk`, `W/lib/offline.ts`, `syncBatch` | IndexedDB stores, in-flight POST and batch | press, queue, sync, batch loop, marking | lost requests and answers, reloads, a batch that is repeated while the server still works at it | no confirmed press is lost, a queued resolution arrives unless its incident is gone | `OfflineSync`, `Outbox` |
| Sessions, `S/modules/auth`, `W/lib/api.ts` | `refresh_tokens`, localStorage, the refresh in flight | login, refresh with rotation, logout, deactivation | parallel refreshes of one token, tabs, answers that come after a logout | a token is exchanged once; a login has one working token; nobody is logged out by his own parallel requests | `Sessions`, `SessionChain` |
| Workers and shifts, `S/modules/users`, `CleanerCheckIn.tsx`, `W/lib/offline.ts` | arrivals, cached roster, replay store | login at the kiosk on- and offline, check-in, check-out, automatic check-in of resolve, replay | calls that are not idempotent are replayed, in the order of random keys, across midnight; the gate is decided in four places, and a moved worker is in a roster cached before | no press is lost; a repetition needs a lost answer; a worker moved to another property drops out of the login with the next roster; one bad replay does not hold up the others | `Shifts`, `KioskAccess` |
| Sensors, `S/modules/sensors` and `src/firmware/sensor-bridge` | sensor events, tuning; presence state, one pending start and end, NVS | presence detection, report with retry, self-registration, tuning, captive portal | outage longer than a visit, late and repeated reports, power cuts, a reset, a sensor deleted under its reports | an end follows its start; a visit is counted once; ends and tuning arrive unless the code is refused | `SensorBridge` |
| Buildings, devices, kiosk codes, `S/modules/buildings`, `S/modules/auth`, `KioskDispatcher.tsx` | restrooms, devices, blocked codes, templates; the page on each tablet | pair, move, delete, block, assign and delete templates, the page's own calls | deletions are rows of calls without a transaction while tablets register themselves; missed broadcasts | a deleted code stays dead; a tablet that shows a kiosk ends up with the one it would be served | `Devices` |
| Push subscriptions, `S/modules/push`, `W/lib/push.ts`, `W/sw.ts` | endpoints, their rows, login and permission of each phone | subscribe, rotate, unsubscribe, send, prune | nobody waits for these requests, they are lost and overtake each other | a phone of a logged-in worker ends up reachable; a send shows once | `Push` |
| Daily report, `S/modules/email` | schedules, the map of mails sent, in memory | hourly job, edits of the schedules | a restart, a failing mail, an edited hour, the clock change | at most one mail a day and reader, nobody undisturbed is forgotten | `DailyReport` |
| Screens, `W/modules/cleaner`, `W/modules/admin` | query cache, filter, requests in flight, login | poll, broadcast, own changes, login and logout | answers of one user arriving in the page of the next; missed broadcasts | no list shows what its reader must not see; lists follow the server | `Screens` |
| Administration, `S/modules/users`, `S/modules/buildings` | accounts, properties, buildings and their links | create, place, hide, activate, delete workers; assign managers, link and delete properties | the scope is read before the change; the same rule is written as a query and as a check | a property manager sees what it created | `Office` |
| Rate limit, analytics, exports, report layouts, deployment | none that others read | | | | not modelled, see section 8 |

### How they interact

A press goes from the kiosk (`OfflineSync`) by a POST or a batch to
`create`/`applyOfflineAction` (`Incidents`); the batch loop of `OfflineSync`
takes those handlers as single steps, `Incidents` takes them apart. A worker's
tap at the same tablet goes to `checkin`, `checkout` or `resolve` (`Shifts`),
whose automatic check-in is there and whose duplicates are in `Incidents`. The
rows are what a tick reads (`Alerts`); `Alerts` keeps of the handlers only that
statuses change under the tick, and of the push only that it is sent; whom it
reaches is in `Push`. `Screens` shows the same rows in the scope that `Office`
administers. Which kiosk a tablet is, and whether it may call at all, is in
`Devices`. All signed-in screens go through the interceptor of `Sessions`. The
modules meet at these interfaces and are checked separately: their product is
far out of reach, and each interface is a handful of statuses. `BackOffice`
composes four parts that share no state, and `MCAlerts` checks several settings
of one module in one run.

Hazards (what is hard to test, at its line, with the properties that watch it)
are listed in `PROJECT.json`.

## 2. Modules

| module | stands for |
|---|---|
| `Incidents`, `MCIncidents` | every write path of an incident, one action per database call |
| `Alerts`, `MCAlerts` | the minute tick, the alert on a report, the manager's call |
| `Outbox` | abstract: an accepted report is held until it is delivered, and is delivered |
| `OfflineSync`, `MCOfflineSync` | press, POST, stores, sync, batch loop; implements `Outbox` |
| `SessionChain` | abstract: a login is a chain of credentials of which one works |
| `Sessions`, `MCSessions` | browsers, tabs, refresh calls, the token table; implements `SessionChain` |
| `KioskAccess` | pure: who may sign in at a kiosk, as decided in four places |
| `Shifts`, `MCShifts` | the team screen of a kiosk, its replay store, check-in, check-out, resolve |
| `SensorBridge`, `MCSensorBridge` | the firmware's loop and the server's `report` |
| `Devices`, `MCDevices` | kiosk codes, templates, the page on each tablet |
| `Push`, `DailyReport`, `Screens`, `Office` | four parts that share no state |
| `BackOffice`, `MCBackOffice` | their composition, for which their properties are stated and proved |
| `IncidentsProofs`, `AlertsProofs`, `SessionsProofs`, `OfflineSyncProofs`, `ShiftsProofs`, `SensorBridgeProofs`, `DevicesProofs`, `BackOfficeProofs` | the theorems |

Operators whose comment begins with *Mutant* are variants of the definition
that follows them, with the kind of slip a change of that code could bring; no
specification uses them. Each property of a passing run has one that breaks it
(`PROJECT.json`, "mutants").

### Incidents

`incident[i]` is the row with primary key `i` (columns the handlers test and
write), `log[i]` the action rows the code looks at again, `task[r]` the handler
in request slot `r` with its program counter. `owed[r]` is a history variable:
the open duplicates a resolution met and nobody has closed since.

| actions | code |
|---|---|
| `StartCreate`, `CheckOpen`, `CheckInProgress`, `Insert` | `create`: look up the clientId, look for an OPEN row in the window, for a recently acknowledged one, insert (the unique index may refuse) |
| `StartAcknowledge`/`AcknowledgeWrite`, `StartReturn`/`ReturnWrite` | `acknowledge`, `returnToQueue`; no status guard, as in the code |
| `StartResolve`, `ResolveWrite`, `FindSiblings`, `CloseSibling` | `resolve`: close, list the duplicates, close each (a deleted one fails the request) |
| `StartAdminUpdate`, `AdminWrite` | `adminUpdate`, which joins the sibling loop when it resolves |
| `StartOffline`, `FindReport`, `RecordAction`, `OfflineClose` | `applyOfflineAction` |
| `StartDelete`, `EraseActions`, `DeleteRows` | `deleteBulk` and the retention sweep: actions first, rows second |
| `RowGone`, a case of each write | the row was deleted meanwhile: the request answers an error |
| `Fault` | a database call is rejected or the process dies; the rest of the handler does not happen |

### Alerts

`tick[t]` holds a tick's snapshot (`policy`, `seen`, `at`) and what is left to
do (`due`, `visit`). `inc[i].cleaner`/`supervisor` are the round numbers in the
notes of the ESCALATED actions. `StartTick` reads the policies, `ReadIncidents`
the incidents; `StampFirstTime`, `SavePulse`, `PushPulse` are one grouped pulse;
`Visit` decides on both reminders of an incident and writes the cleaner's,
`Escalate` the supervisor's. `ManagerReads`/`ManagerWrites` is
`updatePropertyAlertConfig`. `TickFails` is the catch around the whole tick,
`Restart` the process. `Minute` advances the clock only after the timer fired.
`ChangeHours` opens or closes a building: the clock passes its hours, or
`updateBuildingOperatingHours` sets others. The tick only sees the outcome.

Four variables are history and guard nothing: `told`, the incidents a push to
the cleaners was about, `openSince`, since when an issue is open in an active
building, `pulses`, the minutes of a property's grouped pushes, and `touched`,
the properties whose policy the manager has saved.

`MCAlerts` extends `Alerts` and takes the constants of the configuration for one
setting, *modes*; `B` and `I` instantiate `Alerts` over the same variables for
two more. The initial state picks a setting and every step keeps it, so the
behaviours are the union of those of the three, and the invariants of `Alerts`
are checked in all of them.

### OfflineSync

`press`, `incidents`, `actions` and `sync` are the tablet, `post` and `batch`
what is under way, `row`, `heard`, `recorded`, `deduped` the server. Presses
online are POSTed and fall back to the queue, `StartSync` to `MarkActions` is
`syncPending` with its single-flight flag, `ServeIncident`/`ServeAction` the
loop of `syncBatch` in its order. On the server an incident may meanwhile be
handled by others (`ResolveElsewhere`) or deleted by a bulk deletion or the
sweep (`DeleteIncident`); a queued resolution of a deleted incident is answered
404 among the errors, and the tablet marks it synced like the rest. `Reload`,
`Disconnect`, `PostLost` and `BatchLost` are the troubles: a request never
arrives, or is served and answered to nobody.

### Sessions

`table` is `refresh_tokens`, `family[k]` the login a token descends from (a
history variable no action tests), `store[b]` the refresh token in a browser's
localStorage, `call[c]` a login or refresh under way with the tab that waits
for it. `SendRefresh` needs that the tab has no refresh in flight (the shared
`refreshPromise`), nothing that another tab has none. `CheckUser`, `Rotate`,
`Issue` are the three database calls of `refreshToken`. `TakeAnswer` writes the
tokens whatever the store holds by then; `Rejected` is the interceptor's
`localStorage.clear()`. `Logout(t, TRUE)` is the admin's, which also sends a
revocation it does not wait for, `Logout(t, FALSE)` the cleaner's and the
supervisor's. All browsers use one account, the case with the most contention.

### KioskAccess and Shifts

`KioskAccess` translates the four places of `users.service.ts` that decide who
may sign in: the online check, the roster a tablet caches, the diagnosis and the
administrators' login. They are operators, so that the gate can be compared with
the roster's four-clause query for every user, kiosk and building.

`press[p]` is the p-th tap of a worker, `calls` the requests it or its replay
set off with their place in the handler (`CheckinFind`/`CheckinInsert`,
`CheckoutFind`/`CheckoutWrite`, `ResolveFind`/`AutoCheckin`/`ResolveWrite`).
`screen` is the component `CleanerCheckIn`: `Login`, `Verified`, `JoinFlush`,
`Loaded`, `Arrive`, `Checkout`, `ToTasks`, `Resolve`, with `LoginOffline` and
the cached roster for an outage. `GiveUp` is the network error that queues the
tap as a replay, `StartFlush`, `Replay`, `ReplayAnswered`, `FlushDone` are
`syncReplays`: a network error or a 5xx keeps the entry, anything else removes
it, and the loop goes on with the next of its snapshot. Disconnections, lost
answers, reloads, deactivations, deleted incidents and midnights are the
environment, and so is `AssignBuilding`: an administrator puts a worker into a
building of another property, or of none. `FetchRoster` replaces the roster in
localStorage by the server's answer and `StaleRoster` by what the api layer
cached of an earlier one. `served`, `lost`, `told` and `gated` are history: how
often a tap took effect, how many answers to it nobody waited for, which taps
the worker was told are done, and who passed the property gate when the server
last sent the roster, or at an own login since.

### SensorBridge

`Pass(d, frames)` is one pass of `loop()` that comes `d` milliseconds after the
last: the radar stamps age, `Rises`/`Falls` decide on presence, one report that
is `Due` is sent. `FindDevice`, `CreateDevice`, `Store` are the database calls
of `report`; `Answered`, `Failed`, `TimedOut` end the POST (a timed-out one may
still be served, later than its successors). A report is refused with 404 for a
blocked code, an unknown one whose restroom is gone, and with 500 when the row
went or was inserted meanwhile (`Reply`); the bridge treats all of these alike.
`DeleteDevice`, `DeleteRestroom` and, in a call of its own, `BlockCode` are the
administrator's deletion, after which the events are gone too (`DropRow`).
`pending.start` is the set of visits the one flag of the firmware stands for,
since a second visit may fall into it. `UpdateConfig` is the dialog's PUT with
its clamping, `PowerCycle`, `WipeAndReboot`, `Save`, `PortalRetry` the bridge's
ways through the captive portal, `Outage`, `ServerRestart` the surroundings.
Constants of the firmware (1 s, 15 s, 200 ms, 60 s, ranges) are the code's own.

### Devices

`device`, `blocked`, `rooms`, `theme`, `chosen` are the tables, `ops` the
administrators' operations being served (`DeleteRooms`, `DeleteDevice`, then
`DeleteRow` and `BlockNext` code by code; `PairFind`, `PairUnblock`,
`PairUpsert`; templates with their notifications; the deletion of a template with
its four calls `DropNotify`, `UnlinkBuildings`, `UnlinkDevices`, `DropTemplate`).
`tab[t]` is the page on tablet `t`: its two requests (`ConfigBlocked`,
`ConfigAnswered`; `DeviceBlocked`, `DeviceFind`, `DeviceCreate`), the room it has
joined and whether a reload is due; `Unauthorized` is the interceptor, which
clears localStorage, and with it every answer cached, when the second request is
answered 401; the page keeps its code, which is in its address. `ReloadItself` is
the part of `Reload` nobody need do by hand: the page was told to, or shows a
kiosk and has an hourly timer. `cached` is what the api layer answers with while
the tablet is offline. `dead` is history: the codes deleted and not
paired again, `tab[t].after` that a page was opened when its code was dead.

### Push, DailyReport, Screens, Office

* `Push`: `login`, `granted`, `sub` are the phones, `row` the subscriptions on the
  server, `asked` the requests nobody waits for, served in any order or lost.
  `RotateFind`/`RotateUpsert`/`RotateDelete` are the three calls of a rotation.
  `Send` fixes the audience, `Deliver` hands one copy to the push service and
  prunes an endpoint reported gone.
* `DailyReport`: an hour is a slot of the day's plan, in which a clock change
  repeats or skips an hour. `HandleCron` reads the settings once; `OrgMail` and
  `PmMail` are sends that succeed or fail; `OrgEnd`, `PmEnd` write the map of
  sent mails. `UpdateRead`/`UpdateWrite` are the settings' two calls; a `Patch`
  names the hour, the switch, both or neither, and each value it leaves out
  keeps what was read (`Over`), in a property's entry as well as where the job
  falls back from the property's entry to the organisation's.
* `Screens`: one browser, one cache whose keys name no user (as in the code),
  requests that are answered from the state of the time they are served and
  arrive later, and the clearing of the cache at login and logout.
* `Office`: starts with the general manager `prisma/seed.ts` creates, with the
  managers, properties and building that manager may have made since, and with
  no worker. The scope of a property manager is written twice, as in the code:
  as the query `PropertyFilter` of `findAll` and as the check `InProperty` of
  `assertCanManageUser`. A request carries the scope that was read with it
  (`Ask`), `Check` is the look at its target, the change itself comes a step
  later. What the screens offer (`WorkerForm`, `EditDialog`, `ManagerDialog`,
  ...) bounds what is asked.

`BackOffice` runs one of the four and leaves the others in an initial state.
They share no variable, so a property of one is neither helped nor disturbed by
the steps of another, and running them one at a time loses nothing; that it
implements each of them is the theorem `ImplementsParts`. `MCBackOffice` only
gives its constants their values.

## 3. Runs

Deadlock is not checked anywhere: clocks, rows, tokens and troubles are bounded,
so a model may run out of moves where the program would go on.

| run | question | bounds |
|---|---|---|
| `IncidentsHandlers` | Do stamps describe statuses, and does deletion spare the history, whatever two handlers do between each other's awaits and whatever the tablets' clocks say? `IInv` is the inductive invariant of the proofs. | 2 duplicates, 2 rows, 2 requests, tablet clocks at 0 and at 1 while the server's goes from 0 to 1, everything of age 0 may be swept; no worker is named, since the assignee decides nothing here |
| `IncidentsDuplicates` | How many duplicates does the look for a recent report leave? Does an answered resolve leave none? | 3 duplicates and a smiley press, 3 rows, 2 requests at a time, 1 rejected call |
| `IncidentsOffline` | Has a recorded resolution closed its incident, or is about to, and does every handler end, the loop over the duplicates included? | 2 duplicates, 2 rows, 2 requests that create, acknowledge, return, resolve or bring a queued resolution; fairness |
| `Alerts` | *batched*: do grouped pushes keep their distance, is a stamped issue pushed, is nobody passed over? *modes*: are reminders in order, and does one mode announce what the other held back? *immediate*: is an overdue problem escalated over failures and restarts? | batched: 2 problems, interval 2, 5 minutes, reports up to a minute late, hours change; modes: 1 incident, intervals 1 and 2, 3 minutes, manager and hours at any step; immediate: 2 reports of one problem, interval 1, a minute of lag, 3 minutes, 1 failure |
| `OfflineDelivery` | Is a confirmed press held until delivered, delivered in the end, and is a queued resolution applied, unless its report was a duplicate or its incident is deleted? | 2 presses of one issue, 2 batches, 1 trouble, deletions at any time; fairness |
| `Sessions` | Is a token exchanged once, does a login keep one thread, does a single tab stay logged in? | browsers of 2 tabs and of 1, 2 calls, 3 tokens, 1 trouble |
| `Shifts` | Is a worker's press kept, repeated only for a lost answer, replayed past one that is stuck? Does a worker who was moved away drop out of the login? | 2 presses, 1 incident, 2 workers in 3 stafflists, 1 move, 1 trouble, 2 days; fairness |
| `SensorBridge` | Do ends follow starts, is a visit counted once, do ends and the tuning arrive, unless the code is refused? | 2 visits, 1 trouble (a deletion is one), 1 tuning; passes 10 s or 60 s apart, ages beyond 30 s not told apart; fairness |
| `Devices` | Do deleted codes stay dead, does a tablet that shows a kiosk end up with the one it would be served? | 1 tablet, 1 code, 2 restrooms, 1 building, 2 templates, 3 operations, 1 trouble; fairness |
| `BackOffice` | *push*: one notification a send, is a phone reachable in the end? *report*: one mail a day, nobody forgotten? *screens*: is nothing shown out of scope, do lists follow? *office*: does a property manager see what it made? | push: 1 phone, 2 workers (one of all buildings), 2 buildings, 3 endpoints, 3 steps, 1 loss; report: 2 managers, 1 property manager, 2 properties, hours 0 and 1, a common day and both clock changes, 1 midnight, 2 edits, 1 fault; screens: 2 tasks, 2 floors, cleaner, supervisor, manager, 3 events, 1 loss; office: a general and a property manager, a supervisor, a cleaner, 2 properties, 1 building, 3 requests; fairness for push and screens |

Why the bounds are enough to be interesting: every race here is between two
writers of one row, token or blob (two slots), about a third thing at most (a
third duplicate, tab or batch); a sibling loop needs two siblings to have a
middle; a pulse needs a predecessor, so clocks run past two intervals; a rotated
token needs a successor and a foreign login beside it; a press that is stuck
needs one behind it; a visit needs one that overtakes its report; a worker who
was moved needs a roster from before; a move of a tablet needs a second
restroom, and three operations are a pairing, a deletion and one in between. A
window or an interval of one or two ticks keeps all the order relations of
minutes; 10 s and 60 s lie on both sides of the firmware's thresholds, of its
timeout and of the heartbeat. That every property can fail within its run's
bounds is what the mutants show.

Some restrictions leave out behaviour on purpose, because the code does not
keep the property there (section 7): the batched setting of `Alerts` has no
manager, no failing tick and no escalation, and every setting one tick at a
time; `OfflineDelivery` has no batch above the limit and no item the server
fails on; `IncidentsHandlers` no deletion of scope "resolved" (a row reopened
between the two calls keeps living without its actions; no text promises
otherwise); `OnlyInScope` is about one tab and users whose scope stays.
`LostOnlyWithItsIncident` and `ResolutionArrives` except a resolution whose report
was answered as a duplicate or whose incident was deleted on the server, and
`StampsMatchStatus` orders stamps only where the tablet's clock was not ahead of
the server's: in those cases the code does not keep more.
`CountedOncePerLoss`, `ServedOncePerLoss` and `OncePerDay` allow for
one repetition for each answer or memory that was lost, which is what an
endpoint without idempotency can keep.

Type invariants are stated in every module. Those of `Incidents`, `Alerts`,
`Sessions`, `OfflineSync`, `Push` and `Office` are proved, and the invariants of
the other proofs contain as much of the types as they need; `TypeOK` of any
module can be added to its run's INVARIANTS.

Violations found (each is a finding in `PROJECT.json`, with the quoted promise):

| run | what happens |
|---|---|
| `IncidentsOfflineFault` | the server fails between recording a queued resolution and closing the incident; the retry is answered as done |
| `SessionsTwoTabs` | two tabs refresh with one token; the second is refused and clears the storage of both |

## 4. Fairness

Weak fairness throughout, and never for a person or a trouble.

* `Incidents!FairSpec`: `Continue(r)`. A handler that was started is resumed:
  Node runs every ready continuation, and Prisma answers or rejects every call.
  Nothing makes a caller start one.
* `OfflineSync!FairSpec`: outages end (otherwise nothing can be promised);
  axios settles a POST within its timeout; `syncPending` runs on load, on
  "online" and after the hourly reload (`KioskPage.tsx:169-173`), so it runs
  again as long as something is queued; the server works off what it received.
* `Shifts!FairSpec`: the same of `syncReplays`; the calls are served and
  settled, one after the other; the flush comes round to all of its list. The
  order within a list stays open, since the keys are random.
* `SensorBridge!FairSpec`: the loop runs, a request is served or times out, an
  outage ends, the portal's retry comes round. `EndsArrive` and `TuningReaches`
  are only about a bridge that stays provisioned: nobody is obliged to press
  anything.
* `Devices!FairSpec`: requests are served, an outage ends, and a page that shows a
  kiosk or was told to reload does so (`ReloadItself`): the hourly timer is in
  `KioskPage.tsx:169-173` and in the page of each template
  (`KioskPageNeon.tsx:139` and its siblings), and is what makes up for missed
  broadcasts. `KioskRemoved.tsx` has none, so nothing is assumed of a page that
  shows it, and `TabletsFollow` says nothing of one.
* `Push!FairSpec`: what was sent and not lost is served; a page of a logged-in
  worker is opened again and registers anew.
* `Screens!FairSpec`: the poll of the query on screen, its serving and its
  answer.
* `Alerts`, `Sessions`, `DailyReport` and `Office` are checked for safety only.
  What a tick or a day owes to somebody is stated at its end (`WaitIsBounded`,
  `EscalatedDespiteFaults`, `NobodyForgotten`), which is stronger than "in the end".

## 5. Proofs

Constants are arbitrary sets and numbers under the modules' assumptions: the
functions have their domains and ranges, bounds are natural numbers, the
sentinel `NULL` is not a value. Nothing is assumed of the times the tablets
stamp. TLC evaluates the assumptions in the runs. None of the invariants below is
inductive as it stands, since a handler acts on what it read several awaits ago
and a client on an answer that is on its way; each proof names its
strengthening, and has one step per action.

`IncidentsProofs`: `TypeCorrect`, `StampsCorrect`, `DuplicatesClosed`,
`DuplicatesAreBounded`, `IInvAlways`, and two that assume that no call is rejected:
`OfflineLands` (with faults it is false, see `IncidentsOfflineFault`) and
`HistorySurvives`. `IInv` adds

* `HandlerOK`: what a handler carries is about the row it was read from, and no
  older or newer than the code believes: a request has begun by now, and whatever
  it is about to close was created before it read the clock;
* `AgesOK`: no row is created later than now, no dead row has actions;
* `OwedOK`: every duplicate a resolution still owes waits, and is in the set the
  handler will list or is working through.

Every step also satisfies `Evolves` (a key is never reused, a row keeps its
report, `resolvedAt` is never cleared), which is all the other handlers'
records need to know about it.

What the stamps say is stated about the server's times where it can be: a row is
in progress or resolved only with the stamp that says since when, and a stamp
older than the report needs a tablet clock that was ahead, of the report
(`reportedAt` after `createdAt`) or between report and resolution
(`ClockPlausible`).

`DuplicatesAreBounded` is a pigeonhole argument. `DuplicatesOK` counts the recent
open rows of a group nobody has handled together with the requests that have
passed the look for one: no more than there are requests. Only the look lets a
request in, and it finds no such row then; only an insert makes one, and it ends
its request.

`HistorySurvives` needs more. Both deletions read a list of keys, erase the
actions of these and then the rows. `HistoryOK` says that whoever stands
between the two calls is about to delete every row it has stripped, and that no
row on the list can leave the condition it was listed for: a report only grows
older. This is why it is stated without the bulk deletion by status, which is
the one condition a row can leave (a resolved row is reopened), and without
faults, which leave the stripped rows behind.

`AlertsProofs`: `TypeCorrect` and six properties. `TInv` adds to the types what
the rows say (`RowsOK`: a stored report is no later than now, and an issue is
`OPEN` in an active building since no earlier than its report) and what a tick's
snapshot says of them now (`SeenOK`: what it saw was reported then, what it saw
stamped still is, and what has been open since before was `OPEN` in it).

* `NobodyWaitsLonger` for any number of overlapping ticks, faults, and managers.
  `WInv`: whatever blob holds a pulse's time (the property's, the manager's
  copy, each tick's snapshot) has it from a pulse that was made and not later
  than now (`Pulsed`), and a tick that has passed a group over without a pulse
  had nobody in it who waited (`NotPassedOver`).
* `AnnouncedIsPushed`, without faults: who stamps pushes next, and a stamp is
  never taken back. Overlapping ticks do no harm here.
* `ImmediateIsEscalated` over overlapping ticks, failures, restarts and a manager
  who changes other properties, with the buildings open: `EscalatedInTime`, which
  `EscalatedDespiteFaults` checks in the *immediate* setting. `EInv` says that a
  property nobody has touched in immediate mode is batched in no snapshot and
  has no stamp, so its escalation clock runs from the report (`PlainOK`), and
  that of each group overdue for a supervisor a round was stored, or the tick
  has its oldest report to escalate or still to visit (`Owed`).
* `RemindersInOrder`, `PulsesKeepApart` and `NobodyIsForgotten` are about one
  tick at a time (`OneTick`), the first two over any failures and restarts. What
  is used of it: between the snapshot of a tick and its writes nobody else
  writes a round (`Unvisited`) or a pulse (`LastKnown`, `OnTime`). The code does
  not guarantee it, it is `setInterval` against the duration of a tick: with two
  ticks TLC violates each of the three within seconds. `NobodyIsForgotten`
  assumes besides that no call fails (what a failing tick owed, the next one
  does, a minute too late) and that reminders are switched on; its invariant
  `Remembered` says that of each group due for a reminder somebody was told, or
  the tick has its oldest report still to visit.

`BackOfficeProofs`: `ImplementsParts` (initial states map to initial states,
steps to steps or stutters of each part), and the parts' properties.

* *screens*, `ShownInScope`: what a list shows was filtered by the server for
  whoever asked, and a request still under way belongs to the user logged in,
  since the change of user abandons it (`ScreenInv`).
* *office*, `RowsReferToRows`, `CreatedStaysSeen`: a request acts on
  the scope it read two calls ago; nonetheless links name existing rows, because
  a row with its foreign key is written or refused in one call. `OfficeInv`.
* *push*, `RowsOfEndpoints`, `OneNotification`: an endpoint belongs to one phone
  and is never handed out twice, a phone that has shown the send holds an
  endpoint no copy is left for, and whatever it holds next was not yet handed
  out when the audience was fixed (`PushInv`).
* *report*, `OneMailADay`, `EverybodyHasTheMail`: `AtMostOnce` counts a reader's
  mails of the day against the map in memory and the restarts, `RunIsCurrent`
  says that what the run has read is still the schedule of everybody nobody
  interfered with, and `AtLeastOnce` that the hour of a reader nobody disturbed
  is still to come, is being worked at, or has brought the mail. The plan of a
  day is any sequence of hours: a clock change repeats one or leaves one out, and
  who chose the hour left out is owed no mail that day.

`SessionsProofs`: `TypeCorrect`, `SessionsSafe`, `ChainImplemented` and
`SingleTabStays`. The invariant `OneThread` says that of each login there is at
most one row in the table or one call that has deleted the row and not yet
inserted its successor; with `KnownTokens` (every token that travels was issued,
so a fresh token belongs to no login) it is inductive. `ChainImplemented` maps a
successful `Rotate` to `TakeIn`, `Issue` to `Open` or `Renew`, a failure of a
renewal to `Abandon`, a served logout that finds its row to `Revoke`, everything
else to a stutter. `SingleTabStays` proves `StaysLoggedIn` from `StayInv`, which
speaks of the time before any trouble (a lost answer, a failed call, a reload, a
change of the account): no two browsers hold or present one token (`OneHolder`),
a token about to be answered is known to nobody else (`Unknown`), only who has
logged out has a revocation under way (`RevokedLeft`), and what a browser with
one tab holds is in the table unless its own refresh has just taken it
(`Works`). Tabs that share a browser may lose each other's session meanwhile;
they never take a row another browser depends on.

`OfflineSyncProofs`: `TypeCorrect`, `ReportsKept`, `ResolutionsKept` (both under
`MaxFaults = 0`; with an item the server fails on, the first is false, section
7) and `ImplementsOutbox`, the safety part of the refinement. `SInv` adds: a
press that is answered for has been heard of (`AnswersOK`); what is marked
synced is answered for, and a resolution has its report in the store beside it
(`StoresOK`); each resolution in a batch has its report before it in the same
batch or answered already (`BatchesOK`), which is why the order of the server's
two loops matters; what the sync under way sent is in its batch still or done
(`SyncOK`). The last holds although the server may work on an abandoned batch at
the same time, since what is answered for stays so (`GrowStep`).
`ResolutionsKept` has the two exceptions of its property: a resolution is
settled when it is applied, its report was answered as a duplicate, or its
incident is deleted, and it stays settled. `ImplementsOutbox` needs none of
this: no step confirms or hears of two presses.

`ShiftsProofs`: `PressesKept`, `MovedWorkersDropOut`, `EffectsBounded`. `PInv`: an
"ok" on its way means the press took effect, a 4xx that its worker is gone, and
a deactivated worker stays gone. `LInv`: whoever the rosters
hold without being an administrator, in localStorage and in what the api layer
cached, is in `gated`, who passed the gate when the server last sent the roster
or at an own login since. It holds over moves because an answer replaces the
roster instead of being merged into it, because the query of the roster implies
the gate of the login (`RosterWithinGate`), and because the cached answer is the
one of which `gated` was taken. `OInv`: what
took effect plus the calls that still may is at most one more than the answers
given up, and no more than these once a press is queued and nobody waits for it;
at most one call per press is waited for, which is where the single flight of
`syncReplays` enters. Counting calls in flight uses the library's theorems on
finite sets.

`SensorBridgeProofs`: `StartsComeFirst`, `CountedOnce`. `BInv`: a visit that can
still end has its start stored or pending, an end on its way has its start
stored, and while a start is waited for its flag does not change; the loop waits
for one answer at a time, but a report it gave up on may still be served after
its successors, which is why the statement is about *a* start that stands for
the visit. `CInv`, for the second, counts: ends stored, ends given up on that
may be served yet, and the one owed are no more than the visits that are over
plus the answers the loop never took; each call to the server turns one into the
other.

`DevicesProofs`: `DeadCodesStayDead`. `DInv`: dead codes are
blocked, nobody is pairing them, and the page of a dead code, opened since, has
not got past the look at the block.

What is only model-checked is liveness, which is out of the prover's reach:
`EveryRequestIsAnswered`, `ResolutionArrives`, the liveness part of
`KeepsPromise`, `ReplaysLeave`, `EndsArrive`, `TuningReaches`, `TabletsFollow`,
`PhoneIsReached` and `ScreensFollow`.

## 6. Plan

Done: the modules above, in the order of the table of section 2. What is left,
most useful first:

1. `TypeOK` of `Shifts`, `SensorBridge`, `Devices`, `DailyReport`, `Screens`.
2. The heartbeat of a tablet with the sweep that marks it offline; the
   organisation's settings blob with its two kinds of writers.
3. Scopes that change under the reader: a building that changes its property
   under the workers of `Shifts`, a user of `Screens` who is placed elsewhere while
   logged in.

## 7. Promises the code does not keep

Stated in the last section of each module. Besides the two runs above, TLC
finds a counterexample within seconds when the named configuration is changed as
follows and checks the property alone. For `Alerts` keep, in `MCAlerts`, only
the named setting in `MCInit` and `MCNext` and check the property of its
instance (`B!StampKept`; *modes* is `Alerts` itself); for the parts of
`BackOffice` check the property of the part's instance (`P`, `S`, `O`).

| property | promise | configuration | change |
|---|---|---|---|
| `StampKept` | `scheduler.service.ts:212-213` "Already-announced issues keep their original stamp": two overlapping ticks both stamp | `Alerts`, batched | `Tick = {t1, t2}` |
| `QuietWindow` | `scheduler.service.ts:217-218` "a fresh issue always gets its full quiet window": not beside an issue announced before | `Alerts`, batched | none |
| `PulsesAlwaysSpaced` | `scheduler.service.ts:215-216` "the wait is measured from the previous pulse": the manager's write erases the pulse's time | `Alerts`, batched | `ManagerActs <- TRUE` in `B` |
| `StampedIsPushed` | `schema.prisma:291-292`, notifiedAt is when the push "was sent": a failure between stamp and push | `Alerts`, batched | `MaxFaults <- 1` in `B` |
| `SupervisorHearsOfIt` | `scheduler.service.ts:43` "Runs in BOTH alert modes": an issue acknowledged before its first pulse is never escalated | `Alerts`, batched | `EscalationEnabled <- TRUE` in `B` |
| `PolicyIsTheManagers` | `alert-mode.ts:2`, the policy is "set by the org manager": a tick writes back the blob it read | `Alerts`, modes | none |
| `NoFreshDuplicate` | `create`'s own comment "prevent duplicates" (`incidents.service.ts:53`): two overlapping creates both pass the check; `DuplicatesBounded` is what the check keeps | `IncidentsDuplicates` | no SYMMETRY |
| `OfflineClosesDuplicates` | `src/README.md:99`, handling an incident closes its duplicates: the offline path does not | `IncidentsOffline` | none |
| `RecordedIsClosed` | `incidents.service.ts:216-219` "must actually close the incident when it syncs": the resolution reads its incident as closed, a return reopens it, and recording the action is all that happens | `IncidentsOffline` | none |
| `ReReportWaitsAsDocumented` | `src/README.md:89`, reporting again after 5 minutes in progress: the code says 2 | `IncidentsDuplicates` | no SYMMETRY, `Row = {i1, i2}`, `Client = {c1, c2}`, `GroupOf <- TwoDuplicates`, `Request = {r1}`, `Ops = {"create", "acknowledge"}`, `ReportedAt` and `HandledAt <- MuchLater`, `Window = 2`, `Retention = 9`, `MaxTime = 3`, `MaxFaults = 0` |
| `NoReportLost` | `incidents.service.ts:169`, `:182`, an item the server failed on is answered in `errors`: `syncPending` marks its whole snapshot synced whatever the answer says (`offline.ts:129-138`) | `OfflineDelivery` | `GroupOf <- TwoIssues`, `Batch = {b1}`, `MaxTrouble = 0`, `MaxFaults = 1` |
| `SyncedIsApplied` | `incidents.service.ts:216-219`, a queued resolution must close its incident: it is dropped when its report was answered as a duplicate or its incident deleted | `OfflineDelivery` | `MaxTrouble = 0` |
| `OnePressOneRow` | `schema.prisma:285`, clientId is "for dedup": a POST answered too late is queued again under a new one | `OfflineDelivery` | `GroupOf <- TwoIssues` |
| `NothingStranded` | `main.tsx:16-19` "so nothing stays stranded": a queue above the batch limit is refused as a whole, every time | `OfflineDelivery` | `MaxReports = 1` |
| `LogoutRevokes` | `auth.service.ts:223` "Revoke the presented refresh session": a refresh under way has already replaced the token | `SessionsTwoTabs` | none |
| `NeverReplayedTwice` | `offline.ts:95-97` "never replayed twice", `:189` "all paths are idempotent": a check-in whose answer was lost is inserted again | `Shifts` | none |
| `OneOpenShift` | check-out closes "the" arrival of today: check-in never looks for an open one, and a stale screen or a replay opens a second | `Shifts` | none |
| `GateHolds` | `offline.ts:274-275`, a worker "reassigned to another property" must "drop out of the offline cache": does so with the next roster (`MovedDropOut`), and is let in offline until then | `Shifts` | none |
| `BlockedStaysDead` | `sensors.service.ts:29` "Blocked codes stay dead": a report between the deletion and the blocking registers the device again | `SensorBridge` | none |
| `ShowsOccupied` | `sensors.service.ts:263` "the room is occupied right now": a visit that begins while the start of the one before waits has no start of its own, a late start lands after its end | `SensorBridge` | none |
| `RealTime` | `KioskDispatcher.tsx:22-24`, theme changes propagate "in real time": not to a page moved to another room or between its two requests | `Devices` | none |
| `RemovedComesBack` | the same comment: a page that shows the removed screen has no timer and is not told when its code is paired on another tablet | `Devices` | `Tablet = {t1, t2}`, `Template = {D}`, `MaxTrouble = 0` |
| `PairingIsAlive` | `auth.service.ts:126-127` "Deliberate re-registration lifts any block": a deletion under way blocks the code after that | `Devices` | none |
| `LoggedOutIsSilent` | `push.ts` "Remove server-side subscription on logout": an earlier registration is served after the removal | `BackOffice`, push | none |
| `HiddenWhenCleared` | `CleanerPage.tsx:143` "each time the cleaner reaches an empty queue": the praise is hidden when the filtered floor is empty | `BackOffice`, screens | none |
| `NumberIsSent` | the form looks up the supervisor it created in order to send the id number: not found once hidden or moved meanwhile | `BackOffice`, office | none |

Seen while translating, with no property because no document promises otherwise
or because it takes no interleaving:

* `reportedAt` and `performedAt` are stored as the tablet says
  (`incidents.service.ts:86`, `:204`; `incidents.dto.ts:7` only asks for a string).
  From a clock ahead of the server's come acknowledgements older than the report,
  which count as response times, and reports the look for duplicates finds recent
  for longer.
* A queued resolution whose incident was deleted is answered 404 among the errors
  (`incidents.service.ts:194`), and the tablet marks it synced like everything of
  its batch (`offline.ts:131-145`). There is nothing left to resolve.
* `todayKey` (`daily-report.service.ts:123`) turns the server's local time into
  a UTC date. `DailyReport` has the day that is meant; the two agree on a server
  that runs in UTC, which nothing in the repository changes.
* A bulk deletion of scope "resolved" leaves a row that is reopened between its
  two calls without its actions.
* The settings page and the e-mail diagnosis assume hour 7 when none is set
  (`users.service.ts:24`, `AdminSettings.tsx:1248`, `email.controller.ts:81`), the
  job uses 8 (`daily-report.service.ts:11`).
* The settings page shows a property manager the schedule of the first of an
  unordered list, the job uses the first property by name.
* A mail that failed in its hour is not tried again that day.
* Changing an administrator's e-mail does not check that it is free, creating
  one does.
* A supervisor whose id number the server then refuses is left without one, and
  submitting the form again answers 409.
* A worker a property manager places in a building of no or another property
  vanishes from that manager's list.
* `Organization.settings` is read, merged and written whole by several calls
  (`users.service.ts:593`), as is `Property.settings`.
* What a property manager may do is checked a call before it is done
  (`users.service.ts:192`): an account moved in between is changed all the same.
* When a kiosk's login is refused online for the wrong property, the entry of the
  cached roster stays until the next roster.
* The tabs of a browser share localStorage: a login in one tab leaves the lists
  of the other user in the other tab's cache. `OnlyInScope` is about one tab.
* `AdminIncidents` asks for the newest 500 incidents of all statuses and filters
  in the browser: older open ones are not shown. With a range of dates it
  neither polls nor refetches (`AdminIncidents.tsx:230`); `Screens` has the page
  without one.

## 8. Not modelled

* The 49.7-day wrap of `millis()`: the firmware's subtractions of `uint32` are
  exact for shorter ages, and the model keeps ages.
* Heartbeats of tablets and the sweep that marks them offline
  (`buildings.service.ts:17`), the diagnosis endpoints, the in-memory list of last
  sensor reports.
* Rate limiting and response times: sequential and pure, within a unit test's
  reach; no other state depends on them.
* Rendering: figures, charts, translations, themes, the copies of the kiosk page
  for each template, mail layouts, exports, analytics. They show what the
  modelled parts store. Sending a report by hand.
* In `Shifts`: a building that changes its property under its workers, new workers,
  the role of a worker. In `Screens`: a change of the scope of whoever is logged
  in, lists longer than the limit of the query. In `Devices` of what the
  interceptor clears only the cached answers.
* References between tables as a property: foreign keys keep them (`onDelete` of
  `schema.prisma`), whatever the service does.
* Push to a deactivated user: the audience is by row; deactivation does not
  remove rows and is left out of `Push`.
* Web push delivery, SMTP, PostgreSQL, Prisma and Socket.IO themselves: external.
  A call of theirs is one atomic step or a rejection, a broadcast reaches who is
  joined and connected, or nobody.
* JWT signatures, expiry and tokens from before rotation; passwords.
* Several organisations: every query is within one.
* Deployment scripts, migrations, the flash portal and its vendored installers.
* The data of messages: a report is its identity, its (restroom, issue type)
  pair and its time.
