------------------------------- MODULE Shifts -------------------------------
(***************************************************************************)
(* Shifts: a worker identifies at the tablet of a restroom, reports that   *)
(* he has arrived or leaves, and resolves incidents.  CleanerCheckIn.tsx   *)
(* calls UsersService.checkin and checkout and IncidentsService.resolve    *)
(* (which checks a worker in who has not), or queues the call as a replay  *)
(* when the network fails; lib/offline.ts replays the queue later.         *)
(*                                                                         *)
(* A press is one tap that asks for one of these calls.  One tablet; the   *)
(* clock is the day, since the code asks only for arrivals of today.       *)
(***************************************************************************)
EXTENDS Integers, Sequences, FiniteSets, KioskAccess

CONSTANTS
  Worker, Incident,
  Profiles,     (* Profiles: the staff tables to start from                *)
  PropertyOf,   (* PropertyOf[b]: the property of building b, or NULL      *)
  KioskAt,      (* KioskAt: what ResolveKioskLocation says of the tablet   *)
  MaxPresses,   (* bound: taps                                             *)
  MaxTrouble,   (* bound: outages, lost answers, reloads, deactivations,    *)
                (*   deletions and midnights together                       *)
  Moves,        (* the pairs <<w, b>>: w may be assigned building b        *)
  MaxMoves,     (* bound: how often that happens                           *)
  LastDay       (* bound: days                                             *)

(* The staff tables: the columns of a user that are read here.             *)
Staff ==
  LET Column(f) == {s[w][f] : s \in Profiles, w \in Worker}
  IN [Worker -> [active : BOOLEAN, role : Column("role"), property : Column("property"),
                 building : Column("building"), manages : Column("manages")]]

Buildings == {s[w].building : s \in Profiles, w \in Worker}

ASSUME ShiftsAssumption ==
  /\ MaxPresses \in Nat /\ MaxTrouble \in Nat /\ MaxMoves \in Nat /\ LastDay \in Nat
  /\ NULL \notin Worker /\ NULL \notin Incident
  /\ Profiles \subseteq Staff /\ Moves \subseteq Worker \X Buildings

VARIABLES
  day, moves,
  staff,      (* staff[w]: the user row of w                               *)
  arrivals,   (* cleaner_arrivals, in the order of arrivedAt               *)
  incident,   (* incident[i]: "open", "closed" or "gone"                   *)
  online,     (* the tablet has internet                                   *)
  screen,     (* the component CleanerCheckIn                              *)
  roster,     (* localStorage kioskRoster: roster[w] is NULL or an entry   *)
  apiRoster,  (* the last roster answer in the api layer's cache, or NULL  *)
  gated,      (* history: who passed the gate when the server last sent    *)
              (*   the roster, or at an own login since                    *)
  press,      (* press[p]: what the p-th tap asked for                     *)
  replays,    (* the object store of that name: presses to be replayed     *)
  flush,      (* syncReplays: whether it runs and what is left of its list *)
  calls,      (* requests on their way or being served                     *)
  told,       (* history: presses the worker was told are done             *)
  served,     (* history: served[p] counts the calls that took effect      *)
  lost,       (* history: lost[p] counts answers nobody waited for         *)
  trouble

server == <<day, moves, staff, arrivals, incident>>
rosters == <<roster, apiRoster, gated>>
tablet == <<online, screen, rosters, replays, flush>>
history == <<told, served, lost, trouble>>
vars == <<server, tablet, press, calls, history>>

Presses == 1..Len(press)
Kinds == {"checkin", "checkout", "resolve"}
Closed == [step |-> "closed", who |-> NULL, in |-> FALSE, busy |-> FALSE]
Idle == [on |-> FALSE, todo |-> {}, at |-> 0]

Init ==
  /\ day = 0 /\ moves = 0 /\ online = TRUE
  /\ staff \in Profiles
  /\ arrivals = <<>> /\ press = <<>>
  /\ incident = [i \in Incident |-> "open"]
  /\ screen = Closed
  /\ roster = [w \in Worker |-> NULL] /\ apiRoster = NULL /\ gated = {}
  /\ replays = {} /\ flush = Idle /\ calls = {}
  /\ told = {} /\ trouble = 0
  /\ served = [p \in 1..MaxPresses |-> 0]
  /\ lost = [p \in 1..MaxPresses |-> 0]

Trouble == trouble < MaxTrouble /\ trouble' = trouble + 1

-----------------------------------------------------------------------------
(* The server.                                                             *)

OpenToday(w) == {n \in DOMAIN arrivals :
  arrivals[n].worker = w /\ arrivals[n].day = day /\ arrivals[n].open}

Latest(S) == CHOOSE n \in S : \A m \in S : m <= n

Row(w, open) == [worker |-> w, day |-> day, open |-> open]

Active(w)    == w # NULL /\ staff[w].active
MayReport(w) == Active(w) /\ staff[w].role = "CLEANER"

(* A call takes effect, or is refused: "5xx" for the plain Error of        *)
(* checkin and checkout and for a missing row, "4xx" for NotFound.         *)
Answer(c, code) == calls' = (calls \ {c}) \cup {[c EXCEPT !.pc = code]}

Arrived(c, kind) == online /\ c.pc = "sent" /\ press[c.press].kind = kind

(* checkin: the row is inserted without a look at open ones.               *)
CheckinFind(c) ==
  /\ Arrived(c, "checkin")
  /\ IF MayReport(press[c.press].worker) THEN Answer(c, "insert") ELSE Answer(c, "5xx")
  /\ UNCHANGED <<server, tablet, press, history>>

CheckinInsert(c) ==
  /\ c.pc = "insert"
  /\ arrivals' = Append(arrivals, Row(press[c.press].worker, TRUE))
  /\ served' = [served EXCEPT ![c.press] = @ + 1]
  /\ Answer(c, "ok")
  /\ UNCHANGED <<day, moves, staff, incident, tablet, press, told, lost, trouble>>

(* checkout: the latest arrival of today that is open, 0 when none is.     *)
CheckoutFind(c) ==
  /\ Arrived(c, "checkout")
  /\ LET w == press[c.press].worker IN
       IF ~MayReport(w) THEN Answer(c, "5xx")
       ELSE calls' = (calls \ {c}) \cup {[c EXCEPT !.pc = "leave",
              !.saw = IF OpenToday(w) = {} THEN 0 ELSE Latest(OpenToday(w))]}
  /\ UNCHANGED <<server, tablet, press, history>>

CheckoutWrite(c) ==
  /\ c.pc = "leave"
  /\ arrivals' = IF c.saw = 0 THEN Append(arrivals, Row(press[c.press].worker, FALSE))
                 ELSE [arrivals EXCEPT ![c.saw].open = FALSE]
  /\ served' = [served EXCEPT ![c.press] = @ + 1]
  /\ Answer(c, "ok")
  /\ UNCHANGED <<day, moves, staff, incident, tablet, press, told, lost, trouble>>

(* resolve: any active user; who is not on shift is checked in first.      *)
ResolveFind(c) ==
  /\ Arrived(c, "resolve")
  /\ LET w == press[c.press].worker IN
       IF ~Active(w) THEN Answer(c, "4xx")
       ELSE Answer(c, IF OpenToday(w) = {} THEN "auto" ELSE "close")
  /\ UNCHANGED <<server, tablet, press, history>>

AutoCheckin(c) ==
  /\ c.pc = "auto"
  /\ arrivals' = Append(arrivals, Row(press[c.press].worker, TRUE))
  /\ Answer(c, "close")
  /\ UNCHANGED <<day, moves, staff, incident, tablet, press, history>>

ResolveWrite(c) ==
  /\ c.pc = "close"
  /\ LET i == press[c.press].incident IN
       IF incident[i] = "gone"
       THEN Answer(c, "5xx") /\ UNCHANGED <<incident, served>>
       ELSE /\ Answer(c, "ok")
            /\ incident' = [incident EXCEPT ![i] = "closed"]
            /\ served' = [served EXCEPT ![c.press] = @ + 1]
  /\ UNCHANGED <<day, moves, staff, arrivals, tablet, press, told, lost, trouble>>

Serve(c) ==
  \/ CheckinFind(c) \/ CheckinInsert(c) \/ CheckoutFind(c) \/ CheckoutWrite(c)
  \/ ResolveFind(c) \/ AutoCheckin(c) \/ ResolveWrite(c)

Answered == {"ok", "4xx", "5xx"}

-----------------------------------------------------------------------------
(* The queue of replays.                                                   *)

Request(p, by) == [press |-> p, by |-> by, pc |-> "sent", saw |-> 0,
                   try |-> lost[p], waits |-> TRUE, shown |-> TRUE]

Send(p, by) == calls' = calls \cup {Request(p, by)}

(* Mutant: without replayInFlight each listener runs a loop of its own.    *)
StartFlushAgain ==
  /\ online /\ replays # {}
  /\ flush' = [on |-> TRUE, todo |-> replays, at |-> 0]

(* syncReplays: a call while one runs joins it.                            *)
StartFlush ==
  /\ online /\ ~flush.on /\ replays # {}
  /\ flush' = [on |-> TRUE, todo |-> replays, at |-> 0]

(* On load, on the event "online" and after the hourly reload.             *)
Flush ==
  /\ StartFlush
  /\ UNCHANGED <<server, online, screen, rosters, replays, press, calls, history>>

(* The next of the list, which is in the order of random keys.             *)
Replay(p) ==
  /\ flush.on /\ flush.at = 0 /\ p \in flush.todo
  /\ flush' = [flush EXCEPT !.at = p, !.todo = @ \ {p}]
  /\ Send(p, "replay")
  /\ UNCHANGED <<server, online, screen, rosters, replays, press, history>>

(* Mutant: a failure ends the loop.                                        *)
ReplayAnsweredStop(c) ==
  /\ c.by = "replay" /\ c.waits /\ c.pc \in Answered
  /\ calls' = calls \ {c}
  /\ IF c.pc = "5xx" THEN flush' = Idle /\ UNCHANGED replays
     ELSE flush' = [flush EXCEPT !.at = 0] /\ replays' = replays \ {c.press}
  /\ UNCHANGED <<server, online, screen, rosters, press, history>>

(* Done and refused for good leave the queue; a 5xx is kept, and the loop  *)
(* goes on with the next.                                                  *)
ReplayAnswered(c) ==
  /\ c.by = "replay" /\ c.waits /\ c.pc \in Answered
  /\ calls' = calls \ {c}
  /\ flush' = [flush EXCEPT !.at = 0]
  /\ replays' = IF c.pc = "5xx" THEN replays ELSE replays \ {c.press}
  /\ UNCHANGED <<server, online, screen, rosters, press, history>>

FlushDone ==
  /\ flush.on /\ flush.at = 0 /\ flush.todo = {}
  /\ flush' = Idle
  /\ UNCHANGED <<server, online, screen, rosters, replays, press, calls, history>>

-----------------------------------------------------------------------------
(* The screen: identification.                                             *)

(* What refreshRoster stores: it replaces the roster, and who is an        *)
(* administrator is entered without a shift.                               *)
FreshRoster == [w \in Worker |->
  CASE RosterAdmin(staff[w], KioskAt) -> [admin |-> TRUE, in |-> FALSE]
    [] RosterCleaner(staff[w], KioskAt, PropertyOf) ->
         [admin |-> FALSE, in |-> OpenToday(w) # {}]
    [] OTHER -> NULL]

Gated == {w \in Worker : PropertyGate(staff[w], KioskAt, PropertyOf)}

(* Mutant: the new roster is merged into the old one.                      *)
FetchRosterMerged ==
  /\ roster' = [w \in Worker |-> IF FreshRoster[w] = NULL THEN roster[w] ELSE FreshRoster[w]]
  /\ apiRoster' = FreshRoster /\ gated' = Gated

FetchRoster == roster' = FreshRoster /\ apiRoster' = FreshRoster /\ gated' = Gated

(* When the request fails, the api layer answers from its cache, and that  *)
(* old roster replaces what the tablet has noted since.                    *)
StaleRoster ==
  /\ roster' = IF apiRoster = NULL THEN roster ELSE apiRoster
  /\ UNCHANGED <<apiRoster, gated>>

(* Bound: nobody comes when no tap is left.                                *)
Open ==
  /\ screen.step = "closed" /\ Len(press) < MaxPresses
  /\ screen' = [Closed EXCEPT !.step = "login"]
  /\ \/ online /\ FetchRoster /\ UNCHANGED trouble
     \/ online /\ StaleRoster /\ Trouble
     \/ ~online /\ UNCHANGED <<rosters, trouble>>
  /\ UNCHANGED <<server, online, replays, flush, press, calls, told, served, lost>>

Login(w) ==
  /\ screen.step = "login" /\ ~screen.busy /\ Len(press) < MaxPresses
  /\ screen' = [screen EXCEPT !.step = "verify", !.who = w]
  /\ UNCHANGED <<server, online, rosters, replays, flush, press, calls, history>>

Remember(w, admin, in) == roster' = [roster EXCEPT ![w] = [admin |-> admin, in |-> in]]

(* verify-cleaner, then verify-admin.  checkedIn is what the server says   *)
(* before the replays of this tablet are flushed.                          *)
Verified ==
  /\ screen.step = "verify" /\ online
  /\ LET w == screen.who
         in == OpenToday(w) # {} IN
       CASE VerifyCleaner(staff[w], KioskAt, PropertyOf) = "found" ->
              /\ Remember(w, FALSE, in) /\ gated' = gated \cup {w}
              /\ screen' = [screen EXCEPT !.step = "join", !.in = in]
         [] VerifyCleaner(staff[w], KioskAt, PropertyOf) # "wrongProperty" /\ VerifyAdmin(staff[w]) ->
              /\ Remember(w, TRUE, roster[w] # NULL /\ roster[w].in)
              /\ screen' = [screen EXCEPT !.step = "admin"] /\ UNCHANGED gated
         [] OTHER -> screen' = [Closed EXCEPT !.step = "login"] /\ UNCHANGED <<roster, gated>>
  /\ UNCHANGED <<server, online, apiRoster, replays, flush, press, calls, history>>

(* loadIncidents: flush first (or join the flush that runs), then list.    *)
JoinFlush ==
  /\ screen.step = "join"
  /\ screen' = [screen EXCEPT !.step = "load"]
  /\ StartFlush \/ (~(online /\ ~flush.on /\ replays # {}) /\ UNCHANGED flush)
  /\ UNCHANGED <<server, online, rosters, replays, press, calls, history>>

Loaded ==
  /\ screen.step = "load" /\ ~flush.on
  /\ screen' = [screen EXCEPT !.step = "action"]
  /\ UNCHANGED <<server, online, rosters, replays, flush, press, calls, history>>

(* The network fails: the cached roster decides.                           *)
LoginOffline ==
  /\ screen.step = "verify"
  /\ \/ ~online /\ UNCHANGED trouble
     \/ online /\ Trouble
  /\ LET e == roster[screen.who] IN
       screen' = CASE e = NULL -> [Closed EXCEPT !.step = "login"]
                   [] e # NULL /\ e.admin -> [screen EXCEPT !.step = "admin"]
                   [] OTHER -> [screen EXCEPT !.step = "action", !.in = e.in]
  /\ UNCHANGED <<server, online, rosters, replays, flush, press, calls, told, served, lost>>

ToTasks ==
  /\ screen.step \in {"action", "arrived"} /\ (screen.step = "action" => ~screen.busy)
  /\ screen' = [screen EXCEPT !.step = "tasks"]
  /\ UNCHANGED <<server, online, rosters, replays, flush, press, calls, history>>

(* Back to the login keeps what loads and forgets who it was.              *)
GoBack ==
  /\ screen.step \in {"action", "arrived", "done", "admin"}
  /\ screen' = [screen EXCEPT !.step = "login", !.who = NULL]
  /\ UNCHANGED <<server, online, rosters, replays, flush, press, calls, history>>

(* Back to the kiosk, by a button or after 25 seconds.                     *)
Leave ==
  /\ screen.step # "closed"
  /\ screen' = Closed
  /\ calls' = {[c EXCEPT !.shown = FALSE] : c \in calls}
  /\ UNCHANGED <<server, online, rosters, replays, flush, press, history>>

-----------------------------------------------------------------------------
(* The screen: presses.                                                    *)

(* The screen and the roster after a press that the worker is told is done.*)
Note(w, kind, shown) ==
  /\ screen' = IF ~shown THEN screen
               ELSE CASE kind = "checkin"  -> [screen EXCEPT !.in = TRUE, !.step = "arrived", !.busy = FALSE]
                      [] kind = "checkout" -> [screen EXCEPT !.in = FALSE, !.step = "done", !.busy = FALSE]
                      [] OTHER -> screen
  /\ roster' = IF kind = "resolve" \/ w = NULL \/ roster[w] = NULL THEN roster
               ELSE [roster EXCEPT ![w].in = (kind = "checkin")]

Tap(w, kind, i) ==
  LET p == Len(press) + 1 IN
  /\ p <= MaxPresses
  /\ press' = Append(press, [worker |-> w, kind |-> kind, incident |-> i])
  /\ IF online
     THEN /\ Send(p, "ui")
          /\ screen' = [screen EXCEPT !.busy = (kind # "resolve")]
          /\ UNCHANGED <<roster, replays, told>>
     ELSE /\ Note(w, kind, TRUE)
          /\ replays' = replays \cup {p} /\ told' = told \cup {p}
          /\ UNCHANGED calls
  /\ UNCHANGED <<server, online, apiRoster, gated, flush, served, lost, trouble>>

(* The two buttons exclude each other.                                     *)
Arrive == screen.step = "action" /\ ~screen.busy /\ ~screen.in /\ Tap(screen.who, "checkin", NULL)

Checkout == screen.step = "action" /\ ~screen.busy /\ screen.in /\ Tap(screen.who, "checkout", NULL)

Resolve(i) == screen.step = "tasks" /\ incident[i] = "open" /\ Tap(screen.who, "resolve", i)

PressAnswered(c) ==
  /\ c.by = "ui" /\ c.waits /\ c.pc \in Answered
  /\ calls' = calls \ {c}
  /\ IF c.pc = "ok"
     THEN Note(press[c.press].worker, press[c.press].kind, c.shown) /\ told' = told \cup {c.press}
     ELSE /\ screen' = IF c.shown THEN [screen EXCEPT !.busy = FALSE] ELSE screen
          /\ UNCHANGED <<roster, told>>
  /\ UNCHANGED <<server, online, apiRoster, gated, replays, flush, press, served, lost, trouble>>

(* Mutant: the worker is told so, but nothing is queued.                   *)
GiveUpForget(c) ==
  /\ c.waits
  /\ \/ ~online /\ UNCHANGED trouble
     \/ online /\ Trouble
  /\ calls' \in {calls \ {c}, (calls \ {c}) \cup {[c EXCEPT !.waits = FALSE]}}
  /\ lost' = [lost EXCEPT ![c.press] = @ + 1]
  /\ IF c.by = "ui"
     THEN /\ Note(press[c.press].worker, press[c.press].kind, c.shown)
          /\ told' = told \cup {c.press}
          /\ UNCHANGED <<replays, flush>>
     ELSE flush' = [flush EXCEPT !.at = 0] /\ UNCHANGED <<screen, roster, replays, told>>
  /\ UNCHANGED <<server, online, apiRoster, gated, press, served>>

(* A network error or the timeout of ten seconds; the request may still be *)
(* served.  A tap falls back to the queue, a replay stays there.           *)
GiveUp(c) ==
  /\ c.waits
  /\ \/ ~online /\ UNCHANGED trouble
     \/ online /\ Trouble
  /\ calls' \in {calls \ {c}, (calls \ {c}) \cup {[c EXCEPT !.waits = FALSE]}}
  /\ lost' = [lost EXCEPT ![c.press] = @ + 1]
  /\ IF c.by = "ui"
     THEN /\ Note(press[c.press].worker, press[c.press].kind, c.shown)
          /\ replays' = replays \cup {c.press} /\ told' = told \cup {c.press}
          /\ UNCHANGED flush
     ELSE flush' = [flush EXCEPT !.at = 0] /\ UNCHANGED <<screen, roster, replays, told>>
  /\ UNCHANGED <<server, online, apiRoster, gated, press, served>>

(* Nobody waits for this answer.                                           *)
Unheard(c) ==
  /\ ~c.waits /\ c.pc \in Answered
  /\ calls' = calls \ {c}
  /\ UNCHANGED <<server, tablet, press, history>>

-----------------------------------------------------------------------------
(* The environment.                                                        *)

Disconnect ==
  /\ online /\ Trouble
  /\ online' = FALSE
  /\ UNCHANGED <<server, screen, rosters, replays, flush, press, calls, told, served, lost>>

(* The event "online": an open screen fetches the roster again.            *)
Reconnect ==
  /\ ~online
  /\ online' = TRUE
  /\ IF screen.step = "closed" THEN UNCHANGED rosters ELSE FetchRoster
  /\ UNCHANGED <<server, screen, replays, flush, press, calls, history>>

(* The page is loaded anew: the stores stay, what was awaited is forgotten.*)
Reload ==
  /\ Trouble
  /\ screen' = Closed /\ flush' = Idle
  /\ calls' = {[c EXCEPT !.waits = FALSE] : c \in calls}
  /\ lost' = [p \in DOMAIN lost |->
                lost[p] + IF \E c \in calls : c.waits /\ c.press = p THEN 1 ELSE 0]
  /\ UNCHANGED <<server, online, rosters, replays, press, told, served>>

(* toggleActive of an administrator.                                       *)
Deactivate(w) ==
  /\ staff[w].active /\ Trouble
  /\ staff' = [staff EXCEPT ![w].active = FALSE]
  /\ UNCHANGED <<day, moves, arrivals, incident, tablet, press, calls, told, served, lost>>

(* assignBuilding of an administrator, who may move a worker to a building *)
(* of another property.                                                    *)
AssignBuilding(w) ==
  /\ moves < MaxMoves /\ moves' = moves + 1
  /\ \E b \in Buildings \ {staff[w].building} :
       <<w, b>> \in Moves /\ staff' = [staff EXCEPT ![w].building = b]
  /\ UNCHANGED <<day, arrivals, incident, tablet, press, calls, history>>

(* The incident is deleted.                                                *)
DeleteIncident(i) ==
  /\ incident[i] # "gone" /\ Trouble
  /\ incident' = [incident EXCEPT ![i] = "gone"]
  /\ UNCHANGED <<day, moves, staff, arrivals, tablet, press, calls, told, served, lost>>

Midnight ==
  /\ day < LastDay /\ Trouble
  /\ day' = day + 1
  /\ UNCHANGED <<moves, staff, arrivals, incident, tablet, press, calls, told, served, lost>>

UsesTablet ==
  \/ Open \/ (\E w \in Worker : Login(w)) \/ ToTasks \/ GoBack \/ Leave
  \/ Arrive \/ Checkout \/ \E i \in Incident : Resolve(i)

TabletRuns ==
  \/ Verified \/ JoinFlush \/ Loaded \/ LoginOffline \/ Flush \/ FlushDone
  \/ \E p \in Presses : Replay(p)
  \/ \E c \in calls : PressAnswered(c) \/ ReplayAnswered(c) \/ Unheard(c)

Environment ==
  \/ Disconnect \/ Reconnect \/ Reload \/ Midnight
  \/ (\E w \in Worker : Deactivate(w) \/ AssignBuilding(w)) \/ (\E i \in Incident : DeleteIncident(i))
  \/ \E c \in calls : GiveUp(c)

Next == UsesTablet \/ TabletRuns \/ (\E c \in calls : Serve(c)) \/ Environment

Spec == Init /\ [][Next]_vars

(* Requests are served and settle; an outage ends; the queue is flushed on *)
(* load, on "online" and after each hourly reload, while it is not empty;  *)
(* the loop comes round to everything it listed.                           *)
Fairness ==
  /\ WF_vars(Reconnect) /\ WF_vars(Flush) /\ WF_vars(FlushDone)
  /\ WF_vars(\E c \in calls : Serve(c) \/ PressAnswered(c) \/ ReplayAnswered(c) \/ Unheard(c)
                               \/ (~online /\ GiveUp(c)))
  /\ WF_vars(\E p \in Presses : Replay(p))

FairSpec == Spec /\ Fairness

-----------------------------------------------------------------------------
(* Properties.                                                             *)

(* The state has the declared shape.                                       *)
TypeOK ==
  /\ day \in 0..LastDay /\ online \in BOOLEAN
  /\ arrivals \in Seq([worker : Worker, day : 0..LastDay, open : BOOLEAN])
  /\ incident \in [Incident -> {"open", "closed", "gone"}]
  /\ press \in Seq([worker : Worker \cup {NULL}, kind : Kinds, incident : Incident \cup {NULL}])
  /\ replays \subseteq Presses /\ told \subseteq Presses
  /\ flush.todo \subseteq Presses /\ flush.at \in 0..Len(press)
  /\ screen.who \in Worker \cup {NULL}
  /\ \A c \in calls : c.press \in Presses

(* A press the worker was told is done is on the server or still queued; a *)
(* resolution may also have been refused because its worker is gone, which *)
(* is the one 4xx these calls know.                                        *)
NoPressLost == \A p \in told :
  \/ served[p] > 0 \/ p \in replays
  \/ press[p].kind = "resolve" /\ ~Active(press[p].worker)

(* However often the queue is flushed, a press takes effect once more only *)
(* for each answer the tablet gave up on: the single flight, and the       *)
(* deletion after a success, see to that.                                  *)
ServedOncePerLoss == \A p \in Presses : served[p] <= 1 + lost[p]

(* Nobody gets past the login, online or from the cached roster, who did   *)
(* not pass the property gate of the kiosk when the server last sent the   *)
(* roster, or at an own login since: who was moved to another property     *)
(* drops out with the next answer, whatever the tablet or the api layer    *)
(* has kept, over outages and requests that fail.                          *)
MovedDropOut ==
  [][screen.step = "verify" /\ screen'.step \in {"join", "action"} => screen'.who \in gated']_vars

Deliverable(p) == LET w == press[p].worker IN
  IF press[p].kind = "resolve" THEN incident[press[p].incident] # "gone" ELSE MayReport(w)

(* A replay that can be served leaves the queue in the end, whatever else  *)
(* is stuck in it: a bad request does not wedge the queue.                 *)
ReplaysLeave == \A p \in 1..MaxPresses :
  (p \in replays) ~> (p \notin replays \/ ~Deliverable(p))

(* Not kept: a replay whose answer was lost takes effect twice.            *)
NeverReplayedTwice == \A p \in Presses : served[p] <= 1

(* Not kept: until the roster comes, who was moved gets in offline.        *)
GateHolds == [][screen.step = "verify" /\ screen'.step \in {"join", "action"} =>
                  PropertyGate(staff[screen'.who], KioskAt, PropertyOf)]_vars

(* Not kept: check-in inserts blindly, and the screen may be behind.       *)
OneOpenShift == \A w \in Worker : Cardinality(OpenToday(w)) <= 1
=============================================================================
