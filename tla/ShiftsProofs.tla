----------------------------- MODULE ShiftsProofs -----------------------------
(***************************************************************************)
(* No press a worker was told is done gets lost or takes effect more often *)
(* than answers to it were given up, and who was moved to another property *)
(* drops out of a kiosk with its next roster, for any number of presses,   *)
(* workers, outages, reloads, lost answers, moves, deactivations and       *)
(* midnights.                                                              *)
(***************************************************************************)
EXTENDS Shifts, FiniteSetTheorems, TLAPS

(* A worker is deactivated or assigned a building.                         *)
LEMMA StaffWritten ==
  ASSUME staff \in Staff, NEW w \in Worker,
         \/ staff' = [staff EXCEPT ![w].active = FALSE]
         \/ \E b \in Buildings : staff' = [staff EXCEPT ![w].building = b]
  PROVE  /\ staff' \in Staff
         /\ \A v \in Worker : staff'[v].active => staff[v].active
<1> DEFINE Column(f) == {s[v][f] : s \in Profiles, v \in Worker}
           User == [active : BOOLEAN, role : Column("role"), property : Column("property"),
                    building : Column("building"), manages : Column("manages")]
<1>1. Staff = [Worker -> User]
  BY DEF Staff
<1>2. Buildings = Column("building")
  BY DEF Buildings
<1> HIDE DEF Column
<1>3. CASE staff' = [staff EXCEPT ![w].active = FALSE]
  <2>1. [staff[w] EXCEPT !.active = FALSE] \in User
    BY <1>1
  <2>2. staff' = [staff EXCEPT ![w] = [staff[w] EXCEPT !.active = FALSE]]
    BY <1>3
  <2> QED
    BY <1>1, <2>1, <2>2
<1>4. ASSUME NEW b \in Buildings, staff' = [staff EXCEPT ![w].building = b]
      PROVE  staff' \in Staff /\ \A v \in Worker : staff'[v].active = staff[v].active
  <2>1. [staff[w] EXCEPT !.building = b] \in User
    BY <1>1, <1>2, <1>4
  <2>2. staff' = [staff EXCEPT ![w] = [staff[w] EXCEPT !.building = b]]
    BY <1>4
  <2> QED
    BY <1>1, <2>1, <2>2
<1> QED
  BY <1>3, <1>4

-----------------------------------------------------------------------------
(* Presses.                                                                *)
PressRow == [worker : Worker \cup {NULL}, kind : Kinds, incident : Incident \cup {NULL}]

(* The one 4xx: the worker is gone, and stays gone.                        *)
Refused(p) == press[p].kind = "resolve" /\ ~Active(press[p].worker)
Kept(p) == served[p] > 0 \/ p \in replays \/ Refused(p)

ShapeOK ==
  /\ staff \in Staff /\ press \in Seq(PressRow) /\ Len(press) <= MaxPresses
  /\ served \in [1..MaxPresses -> Nat] /\ told \subseteq Presses

(* An answer on its way tells the truth.                                   *)
CallShape(c) ==
  c \in [press : Presses, by : {"ui", "replay"}, pc : {c.pc}, saw : {c.saw},
         try : {c.try}, waits : BOOLEAN, shown : BOOLEAN]
CallOK(c) ==
  /\ CallShape(c)
  /\ c.pc = "ok" => served[c.press] > 0
  /\ c.pc = "4xx" => Refused(c.press)

PInv == ShapeOK /\ (\A c \in calls : CallOK(c)) /\ \A p \in told : Kept(p)

(* What a step has to see to.                                              *)
LEMMA PressStep ==
  ASSUME PInv, ShapeOK',
         \A p \in Presses : /\ p \in Presses' /\ press'[p] = press[p]
                            /\ served[p] > 0 => served'[p] > 0,
         \A w \in Worker : staff'[w].active => staff[w].active,
         \A c \in calls' : c \in calls \/ CallOK(c)',
         \A p \in told' : \/ p \in told /\ (p \in replays => p \in replays')
                          \/ Kept(p)'
  PROVE  PInv'
<1>1. \A p \in Presses : Refused(p) => Refused(p)'
  <2> SUFFICES ASSUME NEW p \in Presses, Refused(p) PROVE Refused(p)'
    OBVIOUS
  <2>1. press[p] \in PressRow /\ press'[p] = press[p]
    BY DEF PInv, ShapeOK, Presses
  <2> QED
    BY <2>1 DEF Refused, Active, PressRow
<1>2. ASSUME NEW c \in calls' PROVE CallOK(c)'
  <2>1. CASE c \in calls
    <3>1. CallOK(c)
      BY <2>1 DEF PInv
    <3> QED
      BY <1>1, <3>1 DEF CallOK, CallShape
  <2> QED
    BY <1>2, <2>1
<1>3. ASSUME NEW p \in told' PROVE Kept(p)'
  <2>1. CASE p \in told /\ (p \in replays => p \in replays')
    <3>1. Kept(p) /\ p \in Presses
      BY <2>1 DEF PInv, ShapeOK
    <3> QED
      BY <1>1, <2>1, <3>1 DEF Kept
  <2> QED
    BY <1>3, <2>1
<1> QED
  BY <1>2, <1>3 DEF PInv

(* Most steps leave press, served, staff and told alone.                   *)
LEMMA CallsStep ==
  ASSUME PInv, UNCHANGED <<staff, press, served, told>>, replays \subseteq replays',
         \A c \in calls' : c \in calls \/ CallOK(c)'
  PROVE  PInv'
<1>1. ShapeOK'
  BY DEF PInv, ShapeOK, Presses
<1> QED
  BY <1>1, PressStep DEF Presses

(* A call goes on, is answered, is given up or leaves the screen.          *)
LEMMA ShapeKept ==
  ASSUME NEW c, CallShape(c)
  PROVE  /\ \A code : LET d == [c EXCEPT !.pc = code] IN
              CallShape(d) /\ d.press = c.press /\ d.pc = code
         /\ \A saw : LET d == [c EXCEPT !.pc = "leave", !.saw = saw] IN
              CallShape(d) /\ d.press = c.press /\ d.pc = "leave"
         /\ LET d == [c EXCEPT !.waits = FALSE] IN
              CallShape(d) /\ d.press = c.press /\ d.pc = c.pc
         /\ LET d == [c EXCEPT !.shown = FALSE] IN
              CallShape(d) /\ d.press = c.press /\ d.pc = c.pc
  BY DEF CallShape

LEMMA CallKept ==
  ASSUME PInv, NEW c \in calls, UNCHANGED <<staff, press, served>>,
         NEW d, CallShape(d), d.press = c.press, d.pc = c.pc \/ d.pc \notin {"ok", "4xx"}
  PROVE  CallOK(d)'
  BY DEF PInv, CallOK, CallShape, Refused, Active, Presses

(* The server's steps.                                                     *)
LEMMA AnswerStep ==
  ASSUME PInv, NEW c \in calls, NEW code, Answer(c, code),
         UNCHANGED <<staff, press, served, told, replays>>,
         \/ code \notin {"ok", "4xx"}
         \/ code = "4xx" /\ Refused(c.press)
  PROVE  PInv'
<1> DEFINE d == [c EXCEPT !.pc = code]
<1>1. CallShape(d) /\ d.press = c.press /\ d.pc = code
  BY ShapeKept DEF PInv, CallOK
<1>2. calls' = (calls \ {c}) \cup {d}
  BY DEF Answer
<1> HIDE DEF d
<1>3. CallOK(d)'
  BY <1>1 DEF CallOK, CallShape, Refused, Active, Presses
<1> QED
  BY <1>2, <1>3, CallsStep

LEMMA DoneStep ==
  ASSUME PInv, NEW c \in calls, Answer(c, "ok"), UNCHANGED <<staff, press, told, replays>>,
         served' = [served EXCEPT ![c.press] = @ + 1]
  PROVE  PInv'
<1> DEFINE d == [c EXCEPT !.pc = "ok"]
<1>1. CallShape(d) /\ d.press = c.press /\ d.pc = "ok" /\ c.press \in Presses
  BY ShapeKept DEF PInv, CallOK, CallShape
<1>2. calls' = (calls \ {c}) \cup {d}
  BY DEF Answer
<1> HIDE DEF d
<1>3. c.press \in 1..MaxPresses
  BY <1>1, ShiftsAssumption DEF PInv, ShapeOK, Presses
<1>4. /\ served' \in [1..MaxPresses -> Nat] /\ served'[c.press] > 0
      /\ \A p \in 1..MaxPresses : served[p] > 0 => served'[p] > 0
  BY <1>3 DEF PInv, ShapeOK
<1>5. ShapeOK' /\ \A p \in Presses : p \in 1..MaxPresses
  BY <1>4, ShiftsAssumption DEF PInv, ShapeOK, Presses
<1>6. CallOK(d)'
  BY <1>1, <1>4 DEF CallOK, CallShape, Presses
<1> QED
  BY <1>2, <1>4, <1>5, <1>6, PressStep DEF Presses

LEMMA ServeStep == ASSUME PInv, NEW c \in calls, Serve(c) PROVE PInv'
<1> USE DEF server, tablet, history
<1>1. c.press \in Presses
  BY DEF PInv, CallOK, CallShape
<1>2. CASE CheckinFind(c)
  BY <1>2, AnswerStep DEF CheckinFind
<1>3. CASE CheckinInsert(c)
  BY <1>3, DoneStep DEF CheckinInsert
<1>4. CASE CheckoutFind(c)
  <2>1. UNCHANGED <<staff, press, served, told, replays>>
    BY <1>4 DEF CheckoutFind
  <2>2. CASE ~MayReport(press[c.press].worker)
    BY <1>4, <2>1, <2>2, AnswerStep DEF CheckoutFind
  <2>3. CASE MayReport(press[c.press].worker)
    <3>1. PICK saw : calls' = (calls \ {c}) \cup {[c EXCEPT !.pc = "leave", !.saw = saw]}
      BY <1>4, <2>3 DEF CheckoutFind
    <3> DEFINE d == [c EXCEPT !.pc = "leave", !.saw = saw]
    <3>2. CallShape(d) /\ d.press = c.press /\ d.pc = "leave"
      BY ZenonT(60), ShapeKept DEF PInv, CallOK
    <3> HIDE DEF d
    <3>3. CallOK(d)'
      BY <2>1, <3>2, CallKept
    <3> QED
      BY <2>1, <3>1, <3>3, CallsStep DEF d
  <2> QED
    BY <2>2, <2>3
<1>5. CASE CheckoutWrite(c)
  BY <1>5, DoneStep DEF CheckoutWrite
<1>6. CASE ResolveFind(c)
  <2>1. UNCHANGED <<staff, press, served, told, replays>> /\ press[c.press].kind = "resolve"
    BY <1>6 DEF ResolveFind, Arrived
  <2>2. CASE ~Active(press[c.press].worker)
    <3>1. Answer(c, "4xx") /\ Refused(c.press)
      BY <1>6, <2>1, <2>2 DEF ResolveFind, Refused
    <3> QED
      BY <2>1, <3>1, AnswerStep
  <2>3. CASE Active(press[c.press].worker)
    <3>1. Answer(c, "auto") \/ Answer(c, "close")
      BY <1>6, <2>3 DEF ResolveFind
    <3> QED
      BY <2>1, <3>1, AnswerStep
  <2> QED
    BY <2>2, <2>3
<1>7. CASE AutoCheckin(c)
  BY <1>7, AnswerStep DEF AutoCheckin
<1>8. CASE ResolveWrite(c)
  <2>1. CASE incident[press[c.press].incident] = "gone"
    BY <1>8, <2>1, AnswerStep DEF ResolveWrite
  <2>2. CASE incident[press[c.press].incident] # "gone"
    BY <1>8, <2>2, DoneStep DEF ResolveWrite
  <2> QED
    BY <2>1, <2>2
<1> QED
  BY <1>2, <1>3, <1>4, <1>5, <1>6, <1>7, <1>8 DEF Serve

(* The tablet's steps.                                                     *)
LEMMA PressesType ==
  ASSUME ShapeOK
  PROVE  Presses \subseteq 1..MaxPresses /\ Len(press) \in Nat
  BY ShiftsAssumption DEF ShapeOK, Presses

LEMMA SendStep ==
  ASSUME PInv, NEW p \in Presses, Send(p, "replay"), UNCHANGED <<staff, press, served, told, replays>>
  PROVE  PInv'
<1>1. PICK r : r = Request(p, "replay")
  OBVIOUS
<1>2. CallShape(r) /\ r.pc = "sent" /\ calls' = calls \cup {r}
  BY <1>1 DEF Request, CallShape, Send
<1>3. CallOK(r)'
  BY <1>2 DEF CallOK, CallShape, Presses
<1> QED
  BY <1>2, <1>3, CallsStep

LEMMA TapStep ==
  ASSUME PInv, NEW w \in Worker \cup {NULL}, NEW kind \in Kinds, NEW i \in Incident \cup {NULL}, Tap(w, kind, i)
  PROVE  PInv'
<1> DEFINE x == [worker |-> w, kind |-> kind, incident |-> i]
<1>0. PICK p : p = Len(press) + 1
  OBVIOUS
<1>1. /\ p <= MaxPresses /\ press' = Append(press, x) /\ UNCHANGED <<staff, served>>
      /\ \/ Send(p, "ui") /\ UNCHANGED <<replays, told>>
         \/ replays' = replays \cup {p} /\ told' = told \cup {p} /\ UNCHANGED calls
  BY <1>0 DEF Tap, server
<1>2. x \in PressRow
  BY DEF PressRow
<1> HIDE DEF x
<1>3. /\ press' \in Seq(PressRow) /\ Len(press') = p /\ p \in Nat
      /\ \A q \in Presses : q \in Presses' /\ press'[q] = press[q]
      /\ p \in Presses'
  BY <1>0, <1>1, <1>2 DEF PInv, ShapeOK, Presses
<1>4. ShapeOK'
  BY <1>1, <1>3 DEF PInv, ShapeOK
<1>5. CASE Send(p, "ui") /\ UNCHANGED <<replays, told>>
  <2>1. PICK r : r = Request(p, "ui")
    OBVIOUS
  <2>2. r.pc = "sent" /\ calls' = calls \cup {r}
    BY <1>5, <2>1 DEF Request, Send
  <2>3. CallShape(r)'
    BY <1>3, <2>1 DEF Request, CallShape
  <2>4. CallOK(r)'
    BY <2>2, <2>3 DEF CallOK
  <2> QED
    BY <1>1, <1>3, <1>4, <1>5, <2>2, <2>4, PressStep
<1>6. CASE replays' = replays \cup {p} /\ told' = told \cup {p} /\ UNCHANGED calls
  <2>1. Kept(p)'
    BY <1>6 DEF Kept
  <2> QED
    BY <1>1, <1>3, <1>4, <1>6, <2>1, PressStep
<1> QED
  BY <1>1, <1>5, <1>6

LEMMA PressAnsweredStep == ASSUME PInv, NEW c \in calls, PressAnswered(c) PROVE PInv'
<1>1. /\ UNCHANGED <<staff, press, served, replays>> /\ calls' = calls \ {c}
      /\ c.pc \in Answered
      /\ told' = told \/ (c.pc = "ok" /\ told' = told \cup {c.press})
  BY DEF PressAnswered, server
<1>2. c.press \in Presses /\ (c.pc = "ok" => served[c.press] > 0)
  BY DEF PInv, CallOK, CallShape
<1>3. ShapeOK'
  BY <1>1, <1>2 DEF PInv, ShapeOK, Presses
<1>4. c.pc = "ok" => Kept(c.press)'
  BY <1>1, <1>2 DEF Kept
<1> QED
  BY <1>1, <1>3, <1>4, PressStep DEF Presses

(* A replay leaves the queue when it is done, or refused for good.         *)
LEMMA ReplayAnsweredStep == ASSUME PInv, NEW c \in calls, ReplayAnswered(c) PROVE PInv'
<1>1. /\ UNCHANGED <<staff, press, served, told>> /\ calls' = calls \ {c}
      /\ c.pc \in Answered /\ replays' = IF c.pc = "5xx" THEN replays ELSE replays \ {c.press}
  BY DEF ReplayAnswered, server, history
<1>2. /\ c.press \in Presses /\ (c.pc = "ok" => served[c.press] > 0)
      /\ c.pc = "4xx" => Refused(c.press)
  BY DEF PInv, CallOK, CallShape
<1>3. ShapeOK'
  BY <1>1 DEF PInv, ShapeOK, Presses
<1>4. c.pc # "5xx" => Kept(c.press)'
  BY <1>1, <1>2 DEF Kept, Refused, Active, Answered
<1> QED
  BY <1>1, <1>3, <1>4, PressStep DEF Presses

LEMMA GiveUpStep == ASSUME PInv, NEW c \in calls, GiveUp(c) PROVE PInv'
<1> DEFINE d == [c EXCEPT !.waits = FALSE]
<1>1. /\ UNCHANGED <<staff, press, served>>
      /\ calls' \in {calls \ {c}, (calls \ {c}) \cup {d}}
      /\ \/ UNCHANGED <<replays, told>>
         \/ replays' = replays \cup {c.press} /\ told' = told \cup {c.press}
  BY DEF GiveUp, server
<1>2. CallShape(d) /\ d.press = c.press /\ d.pc = c.pc /\ c.press \in Presses
  BY ShapeKept DEF PInv, CallOK, CallShape
<1> HIDE DEF d
<1>3. CallOK(d)'
  BY <1>1, <1>2, CallKept
<1>4. \A x \in calls' : x \in calls \/ CallOK(x)'
  BY <1>1, <1>3
<1>5. ShapeOK'
  BY <1>1, <1>2 DEF PInv, ShapeOK, Presses
<1>6. \A p \in told' : (p \in told /\ (p \in replays => p \in replays')) \/ Kept(p)'
  BY <1>1 DEF Kept
<1> QED
  BY <1>1, <1>4, <1>5, <1>6, PressStep DEF Presses

(* The screen is left, or the page is loaded anew.                         *)
LEMMA LeaveStep == ASSUME PInv, Leave \/ Reload PROVE PInv'
<1>1. UNCHANGED <<staff, press, served, told, replays>>
  BY DEF Leave, Reload, server, history
<1>2. \A x \in calls' : CallOK(x)'
  <2> SUFFICES ASSUME NEW x \in calls' PROVE CallOK(x)'
    OBVIOUS
  <2>1. PICK c \in calls : x = [c EXCEPT !.shown = FALSE] \/ x = [c EXCEPT !.waits = FALSE]
    BY DEF Leave, Reload
  <2>2. CallShape(c)
    BY DEF PInv, CallOK
  <2>3. CallShape(x) /\ x.press = c.press /\ x.pc = c.pc
    <3>1. CASE x = [c EXCEPT !.shown = FALSE]
      BY <2>2, <3>1, ShapeKept
    <3>2. CASE x = [c EXCEPT !.waits = FALSE]
      BY <2>2, <3>2, ShapeKept
    <3> QED
      BY <2>1, <3>1, <3>2
  <2> QED
    BY <1>1, <2>3, CallKept
<1> QED
  BY <1>1, <1>2, CallsStep

LEMMA StaffStep == ASSUME PInv, NEW w \in Worker, Deactivate(w) \/ AssignBuilding(w) PROVE PInv'
<1>1. /\ UNCHANGED <<press, served, told, replays, calls>> /\ staff \in Staff
      /\ \/ staff' = [staff EXCEPT ![w].active = FALSE]
         \/ \E b \in Buildings : staff' = [staff EXCEPT ![w].building = b]
  BY DEF Deactivate, AssignBuilding, tablet, history, PInv, ShapeOK
<1>2. staff' \in Staff /\ \A v \in Worker : staff'[v].active => staff[v].active
  BY <1>1, StaffWritten
<1>3. ShapeOK'
  BY <1>1, <1>2 DEF PInv, ShapeOK, Presses
<1> QED
  BY <1>1, <1>2, <1>3, PressStep DEF Presses

-----------------------------------------------------------------------------
(* The login.                                                              *)
Entry == [admin : BOOLEAN, in : BOOLEAN]
Steps == {"closed", "login", "verify", "join", "load", "action", "arrived", "tasks", "done", "admin"}
Screens == [step : Steps, who : Worker \cup {NULL}, in : BOOLEAN, busy : BOOLEAN]

(* What a roster lets in without the server, the server has let in.        *)
RosterOK(r) ==
  /\ r \in [Worker -> Entry \cup {NULL}]
  /\ \A w \in Worker : r[w] # NULL /\ ~r[w].admin => w \in gated

LInv ==
  /\ screen \in Screens /\ (screen.step = "verify" => screen.who \in Worker)
  /\ RosterOK(roster) /\ (apiRoster # NULL => RosterOK(apiRoster))

(* The kiosk's roster, its OR of four clauses, is within the gate of the   *)
(* login.                                                                  *)
LEMMA RosterWithinGate ==
  ASSUME NEW u, RosterCleaner(u, KioskAt, PropertyOf)
  PROVE  PropertyGate(u, KioskAt, PropertyOf)
  BY DEF RosterCleaner, PropertyGate, Own, BuildingProperty

LEMMA FreshOK ==
  /\ FreshRoster \in [Worker -> Entry \cup {NULL}]
  /\ \A w \in Worker : FreshRoster[w] # NULL /\ ~FreshRoster[w].admin => w \in Gated
<1>1. ASSUME NEW w \in Worker
      PROVE  /\ FreshRoster[w] \in Entry \cup {NULL}
             /\ FreshRoster[w] # NULL /\ ~FreshRoster[w].admin => w \in Gated
  <2>1. CASE RosterAdmin(staff[w], KioskAt)
    <3>1. ~RosterCleaner(staff[w], KioskAt, PropertyOf)
      BY <2>1 DEF RosterAdmin, RosterCleaner, Workers, OrgStaff
    <3>2. FreshRoster[w] = [admin |-> TRUE, in |-> FALSE]
      BY <2>1, <3>1 DEF FreshRoster
    <3> QED
      BY <3>2 DEF Entry
  <2>2. CASE ~RosterAdmin(staff[w], KioskAt) /\ RosterCleaner(staff[w], KioskAt, PropertyOf)
    <3>1. FreshRoster[w] = [admin |-> FALSE, in |-> OpenToday(w) # {}]
      BY <2>2 DEF FreshRoster
    <3>2. w \in Gated
      BY <2>2, RosterWithinGate DEF Gated
    <3> QED
      BY <3>1, <3>2 DEF Entry
  <2>3. CASE ~RosterAdmin(staff[w], KioskAt) /\ ~RosterCleaner(staff[w], KioskAt, PropertyOf)
    <3>1. FreshRoster[w] = NULL
      BY <2>3 DEF FreshRoster
    <3> QED
      BY <3>1
  <2> QED
    BY <2>1, <2>2, <2>3
<1>2. FreshRoster \in [Worker -> Entry \cup {NULL}]
  <2>1. FreshRoster = [w \in Worker |-> FreshRoster[w]]
    BY DEF FreshRoster
  <2> QED
    BY <1>1, <2>1
<1> QED
  BY <1>1, <1>2

LEMMA LoginInit == Init => LInv
  BY DEF Init, LInv, RosterOK, Closed, Screens, Steps

(* A step that leaves the rosters, or fetches them, and lets nobody in.    *)
Admits == screen.step = "verify" /\ screen'.step \in {"join", "action"}

LEMMA RosterSame ==
  ASSUME LInv, UNCHANGED rosters
  PROVE  RosterOK(roster)' /\ (apiRoster' # NULL => RosterOK(apiRoster)')
  BY DEF LInv, RosterOK, rosters

LEMMA RosterFetched ==
  ASSUME LInv, FetchRoster \/ StaleRoster
  PROVE  RosterOK(roster)' /\ (apiRoster' # NULL => RosterOK(apiRoster)')
  BY FreshOK DEF LInv, RosterOK, FetchRoster, StaleRoster

LEMMA ScreenStep ==
  ASSUME LInv, UNCHANGED rosters \/ FetchRoster \/ StaleRoster,
         screen' \in Screens, screen'.step = "verify" => screen'.who \in Worker
  PROVE  LInv'
  BY RosterSame, RosterFetched DEF LInv

(* The roster follows what the worker is told.                             *)
LEMMA NoteRoster ==
  ASSUME LInv, UNCHANGED <<apiRoster, gated>>, NEW w, NEW kind, NEW shown \in BOOLEAN,
         Note(w, kind, shown)
  PROVE  LInv' /\ ~Admits
<1>1. RosterOK(roster)'
  <2>1. CASE UNCHANGED roster
    BY <2>1 DEF LInv, RosterOK
  <2>2. CASE ~UNCHANGED roster
    <3>1. w # NULL /\ roster[w] # NULL /\ roster' = [roster EXCEPT ![w].in = (kind = "checkin")]
      BY <2>2 DEF Note
    <3>2. w \in Worker /\ roster \in [Worker -> Entry \cup {NULL}]
      BY <2>2, <3>1 DEF LInv, RosterOK
    <3> DEFINE e == [roster[w] EXCEPT !.in = (kind = "checkin")]
    <3>3. e \in Entry /\ e.admin = roster[w].admin
      BY <3>1, <3>2 DEF Entry
    <3>4. roster' = [roster EXCEPT ![w] = e]
      BY <3>1
    <3> HIDE DEF e
    <3> QED
      BY <3>1, <3>2, <3>3, <3>4 DEF LInv, RosterOK
  <2> QED
    BY <2>1, <2>2
<1>2. apiRoster' # NULL => RosterOK(apiRoster)'
  BY DEF LInv, RosterOK
<1>3. \/ screen' = screen
      \/ screen' = [screen EXCEPT !.in = TRUE, !.step = "arrived", !.busy = FALSE]
      \/ screen' = [screen EXCEPT !.in = FALSE, !.step = "done", !.busy = FALSE]
  BY DEF Note
<1>4. screen' \in Screens /\ (screen'.step = "verify" => screen'.who \in Worker) /\ ~Admits
  BY <1>3 DEF LInv, Screens, Steps, Admits
<1> QED
  BY <1>1, <1>2, <1>4 DEF LInv

(* Identification.                                                         *)
LEMMA VerifiedStep == ASSUME LInv, Verified PROVE LInv' /\ (Admits => screen'.who \in gated')
<1> DEFINE w == screen.who
           in == OpenToday(w) # {}
<1>1. w \in Worker /\ apiRoster' = apiRoster /\ roster \in [Worker -> Entry \cup {NULL}]
  BY DEF Verified, LInv, RosterOK
<1>2. \/ /\ Remember(w, FALSE, in) /\ gated' = gated \cup {w}
         /\ screen' = [screen EXCEPT !.step = "join", !.in = in]
      \/ /\ Remember(w, TRUE, roster[w] # NULL /\ roster[w].in) /\ gated' = gated
         /\ screen' = [screen EXCEPT !.step = "admin"]
      \/ screen' = [Closed EXCEPT !.step = "login"] /\ UNCHANGED <<roster, gated>>
  BY DEF Verified
<1>3. apiRoster' # NULL => RosterOK(apiRoster)'
  BY <1>1, <1>2 DEF LInv, RosterOK
<1>4. CASE /\ Remember(w, FALSE, in) /\ gated' = gated \cup {w}
           /\ screen' = [screen EXCEPT !.step = "join", !.in = in]
  <2> DEFINE e == [admin |-> FALSE, in |-> in]
  <2>1. roster' = [roster EXCEPT ![w] = e] /\ e \in Entry
    BY <1>4 DEF Remember, Entry
  <2>2. screen'.step = "join" /\ screen'.who = w /\ screen' \in Screens
    BY <1>4 DEF LInv, Screens, Steps
  <2> HIDE DEF e, in
  <2>3. RosterOK(roster)'
    BY <1>1, <1>4, <2>1 DEF LInv, RosterOK
  <2> QED
    BY <1>1, <1>3, <1>4, <2>2, <2>3 DEF LInv
<1>5. CASE /\ Remember(w, TRUE, roster[w] # NULL /\ roster[w].in) /\ gated' = gated
           /\ screen' = [screen EXCEPT !.step = "admin"]
  <2> DEFINE e == [admin |-> TRUE, in |-> roster[w] # NULL /\ roster[w].in]
  <2>1. roster' = [roster EXCEPT ![w] = e]
    BY <1>5 DEF Remember
  <2>2. e \in Entry /\ e.admin = TRUE
    <3>1. roster[w] # NULL => roster[w].in \in BOOLEAN
      BY <1>1 DEF Entry
    <3> QED
      BY <3>1 DEF Entry
  <2> HIDE DEF e
  <2>3. RosterOK(roster)'
    BY <1>1, <1>5, <2>1, <2>2 DEF LInv, RosterOK
  <2>4. screen'.step = "admin" /\ screen' \in Screens
    BY <1>5 DEF LInv, Screens, Steps
  <2> QED
    BY <1>3, <2>3, <2>4 DEF LInv, Admits
<1>6. CASE screen' = [Closed EXCEPT !.step = "login"] /\ UNCHANGED <<roster, gated>>
  BY <1>1, <1>6, ScreenStep DEF Closed, Screens, Steps, Admits, rosters
<1> QED
  BY <1>2, <1>4, <1>5, <1>6

LEMMA LoginOfflineStep == ASSUME LInv, LoginOffline PROVE LInv' /\ (Admits => screen'.who \in gated')
<1> DEFINE w == screen.who
           e == roster[w]
<1>1. w \in Worker /\ UNCHANGED rosters /\ e \in Entry \cup {NULL}
  BY DEF LoginOffline, LInv, RosterOK
<1>2. \/ screen' = [Closed EXCEPT !.step = "login"]
      \/ screen' = [screen EXCEPT !.step = "admin"]
      \/ e # NULL /\ ~e.admin /\ screen' = [screen EXCEPT !.step = "action", !.in = e.in]
  BY DEF LoginOffline
<1>3. screen' \in Screens /\ screen'.step # "verify"
  BY <1>1, <1>2 DEF LInv, Screens, Steps, Closed, Entry
<1>4. LInv'
  BY <1>1, <1>3, ScreenStep
<1>5. Admits => e # NULL /\ ~e.admin /\ screen'.who = w
  BY <1>2 DEF LInv, Screens, Closed, Admits
<1> QED
  BY <1>1, <1>4, <1>5 DEF LInv, RosterOK, rosters

LEMMA ScreenSteps ==
  ASSUME LInv,
         \/ Open \/ (\E w \in Worker : Login(w)) \/ JoinFlush \/ Loaded \/ ToTasks \/ GoBack \/ Leave
         \/ Reload \/ Reconnect
  PROVE  LInv' /\ ~Admits
<1> USE DEF LInv, Screens, Steps, Admits
<1>1. CASE Open
  <2>1. (FetchRoster \/ StaleRoster \/ UNCHANGED rosters) /\ screen' = [Closed EXCEPT !.step = "login"]
    BY <1>1 DEF Open
  <2> QED
    BY <2>1, ScreenStep DEF Closed
<1>2. ASSUME NEW w \in Worker, Login(w) PROVE LInv' /\ ~Admits
  <2>1. UNCHANGED rosters /\ screen' = [screen EXCEPT !.step = "verify", !.who = w]
    BY <1>2 DEF Login
  <2> QED
    BY <2>1, ScreenStep
<1>3. CASE JoinFlush
  BY <1>3, ScreenStep DEF JoinFlush
<1>4. CASE Loaded
  BY <1>4, ScreenStep DEF Loaded
<1>5. CASE ToTasks
  BY <1>5, ScreenStep DEF ToTasks
<1>6. CASE GoBack
  BY <1>6, ScreenStep DEF GoBack
<1>7. CASE Leave \/ Reload
  <2>1. UNCHANGED rosters /\ screen' = Closed
    BY <1>7 DEF Leave, Reload
  <2> QED
    BY <2>1, ScreenStep DEF Closed
<1>8. CASE Reconnect
  BY <1>8, ScreenStep DEF Reconnect
<1> QED
  BY <1>1, <1>2, <1>3, <1>4, <1>5, <1>6, <1>7, <1>8

LEMMA LoginTap ==
  ASSUME LInv, NEW w, NEW kind, NEW i, Tap(w, kind, i)
  PROVE  LInv' /\ ~Admits
<1>1. UNCHANGED <<apiRoster, gated>>
  BY DEF Tap
<1>2. CASE Note(w, kind, TRUE)
  BY <1>1, <1>2, NoteRoster
<1>3. CASE UNCHANGED roster /\ screen' = [screen EXCEPT !.busy = (kind # "resolve")]
  BY <1>1, <1>3, ScreenStep DEF LInv, Screens, Steps, rosters, Admits
<1> QED
  BY <1>2, <1>3 DEF Tap

LEMMA LoginAnswers ==
  ASSUME LInv, PInv, NEW c \in calls, PressAnswered(c) \/ ReplayAnswered(c) \/ Unheard(c) \/ GiveUp(c) \/ Serve(c)
  PROVE  LInv' /\ ~Admits
<1>1. UNCHANGED <<apiRoster, gated>> /\ c.shown \in BOOLEAN
  BY DEF PressAnswered, ReplayAnswered, Unheard, GiveUp, Serve, CheckinFind, CheckinInsert, CheckoutFind,
         CheckoutWrite, ResolveFind, AutoCheckin, ResolveWrite, tablet, rosters, PInv, CallOK, CallShape
<1>2. CASE UNCHANGED <<screen, roster>>
  BY <1>1, <1>2, ScreenStep DEF LInv, Screens, rosters, Admits
<1>3. CASE Note(press[c.press].worker, press[c.press].kind, c.shown)
  BY <1>1, <1>3, NoteRoster
<1>4. CASE UNCHANGED roster /\ screen' = [screen EXCEPT !.busy = FALSE]
  BY <1>1, <1>4, ScreenStep DEF LInv, Screens, Steps, rosters, Admits
<1> QED
  BY <1>2, <1>3, <1>4 DEF PressAnswered, ReplayAnswered, Unheard, GiveUp, Serve, CheckinFind, CheckinInsert,
     CheckoutFind, CheckoutWrite, ResolveFind, AutoCheckin, ResolveWrite, tablet, rosters

LEMMA LoginNext == LInv /\ PInv /\ [Next]_vars => LInv' /\ (Admits => screen'.who \in gated')
<1> SUFFICES ASSUME LInv, PInv, [Next]_vars PROVE LInv' /\ (Admits => screen'.who \in gated')
  OBVIOUS
<1> USE DEF tablet
<1>1. ASSUME UNCHANGED <<screen, rosters>> PROVE LInv' /\ ~Admits
  BY <1>1, ScreenStep DEF LInv, Screens, Admits
<1>2. CASE UsesTablet
  BY <1>2, ScreenSteps, LoginTap DEF UsesTablet, Arrive, Checkout, Resolve
<1>3. CASE TabletRuns
  <2>1. (Flush \/ FlushDone \/ \E p \in Presses : Replay(p)) => UNCHANGED <<screen, rosters>>
    BY DEF Flush, FlushDone, Replay
  <2> QED
    BY <1>1, <1>3, <2>1, VerifiedStep, LoginOfflineStep, ScreenSteps, LoginAnswers DEF TabletRuns
<1>4. CASE Environment
  <2>1. (\/ Disconnect \/ Midnight \/ \E i \in Incident : DeleteIncident(i)
         \/ \E w \in Worker : Deactivate(w) \/ AssignBuilding(w))
          => UNCHANGED <<screen, rosters>>
    BY DEF Disconnect, Midnight, DeleteIncident, Deactivate, AssignBuilding
  <2> QED
    BY <1>1, <1>4, <2>1, ScreenSteps, LoginAnswers DEF Environment
<1>5. CASE UNCHANGED vars
  BY <1>1, <1>5 DEF vars
<1> QED
  BY <1>2, <1>3, <1>4, <1>5, LoginAnswers DEF Next

-----------------------------------------------------------------------------
LEMMA PressInit == Init => PInv
<1> SUFFICES ASSUME Init PROVE PInv
  OBVIOUS
<1>1. press \in Seq(PressRow) /\ Len(press) = 0
  BY DEF Init
<1>2. ShapeOK
  BY <1>1, ShiftsAssumption DEF Init, ShapeOK
<1> QED
  BY <1>2 DEF Init, PInv

LEMMA PressNext == PInv /\ LInv /\ [Next]_vars => PInv'
<1> SUFFICES ASSUME PInv, LInv, [Next]_vars PROVE PInv'
  OBVIOUS
<1> DEFINE Quiet == UNCHANGED <<staff, press, served, told, replays, calls>>
<1>1. Quiet => PInv'
  BY CallsStep
<1> USE DEF server, tablet, history
<1>2. CASE UsesTablet
  <2>1. (Open \/ (\E w \in Worker : Login(w)) \/ ToTasks \/ GoBack) => Quiet
    BY DEF Open, Login, ToTasks, GoBack
  <2>2. CASE Leave
    BY <2>2, LeaveStep
  <2>3. ASSUME Arrive \/ Checkout \/ \E i \in Incident : Resolve(i) PROVE PInv'
    <3>1. screen.who \in Worker \cup {NULL}
      BY DEF LInv, Screens
    <3> QED
      BY <2>3, <3>1, TapStep DEF Arrive, Checkout, Resolve, Kinds
  <2> HIDE DEF Quiet
  <2> QED
    BY <1>1, <1>2, <2>1, <2>2, <2>3 DEF UsesTablet
<1>3. CASE TabletRuns
  <2>1. (Verified \/ JoinFlush \/ Loaded \/ LoginOffline \/ Flush \/ FlushDone) => Quiet
    BY DEF Verified, JoinFlush, Loaded, LoginOffline, Flush, FlushDone
  <2>2. ASSUME NEW p \in Presses, Replay(p) PROVE PInv'
    BY <2>2, SendStep DEF Replay
  <2>3. ASSUME NEW c \in calls, Unheard(c) PROVE PInv'
    BY <2>3, CallsStep DEF Unheard
  <2> HIDE DEF Quiet
  <2> QED
    BY <1>1, <1>3, <2>1, <2>2, <2>3, PressAnsweredStep, ReplayAnsweredStep DEF TabletRuns
<1>4. CASE Environment
  <2>1. (Disconnect \/ Reconnect \/ Midnight \/ \E i \in Incident : DeleteIncident(i)) => Quiet
    BY DEF Disconnect, Reconnect, Midnight, DeleteIncident
  <2>2. CASE Reload
    BY <2>2, LeaveStep
  <2> HIDE DEF Quiet
  <2> QED
    BY <1>1, <1>4, <2>1, <2>2, StaffStep, GiveUpStep DEF Environment
<1>5. CASE UNCHANGED vars
  BY <1>1, <1>5 DEF vars
<1> QED
  BY <1>2, <1>3, <1>4, <1>5, ServeStep DEF Next

(* The invariant: every answer on its way is true, every press told is     *)
(* kept, and whom the rosters let in the server has let in.                *)
THEOREM InvariantHolds == Spec => [](PInv /\ LInv)
<1> QED
  BY PressInit, LoginInit, PressNext, LoginNext, PTL DEF Spec

(* A press the worker was told is done is on the server or still queued,   *)
(* or is a resolution of a worker who is gone, over outages, lost answers, *)
(* reloads and replays (CleanerCheckIn.tsx, lib/offline.ts).               *)
THEOREM PressesKept == Spec => []NoPressLost
<1>1. PInv => NoPressLost
  BY DEF PInv, Kept, Refused, NoPressLost
<1> QED
  BY <1>1, InvariantHolds, PTL

(* Who gets past the login, online or from the cached roster, passed the   *)
(* property gate when the server last sent the roster, or at an own login  *)
(* since (users.service.ts, verifyCleaner and kioskRoster; offline.ts,     *)
(* refreshRoster), however often workers are moved.                        *)
THEOREM MovedWorkersDropOut == Spec => MovedDropOut
<1> DEFINE Admitted == Admits => screen'.who \in gated'
<1>1. PInv /\ LInv /\ [Next]_vars => [Admitted]_vars
  BY LoginNext
<1>2. [Admitted]_vars =>
        [screen.step = "verify" /\ screen'.step \in {"join", "action"} => screen'.who \in gated']_vars
  BY DEF Admits
<1> HIDE DEF Admitted
<1> QED
  BY <1>1, <1>2, InvariantHolds, PTL DEF Spec, MovedDropOut

-----------------------------------------------------------------------------
(* How often a press takes effect.                                         *)
Flying(S, p) == {c \in S : c.press = p /\ c.pc \notin Answered}
Count(p) == served[p] + Cardinality(Flying(calls, p))
Awaited(p) == \E c \in calls : c.press = p /\ c.waits

OShape ==
  /\ IsFiniteSet(calls) /\ lost \in [1..MaxPresses -> Nat] /\ replays \subseteq Presses
  /\ flush \in [on : BOOLEAN, todo : SUBSET Nat, at : Nat]
  /\ \A q \in 1..MaxPresses : q \notin Presses => served[q] = 0

(* One call at a time is waited for: the tap's, or the one the flush is at.*)
FlushOK ==
  /\ flush.todo \subseteq replays /\ \A p \in flush.todo : ~Awaited(p)
  /\ \A c \in calls : c.waits =>
       \/ c.by = "replay" /\ flush.on /\ flush.at = c.press /\ c.press \in replays
       \/ c.by = "ui" /\ c.press \notin replays
  /\ \A c, d \in calls : c.waits /\ d.waits /\ c.press = d.press => c = d

(* What took effect or still may is at most one more than the answers lost,*)
(* and no more than these once the press is to be sent again.              *)
CountOK ==
  /\ \A p \in Presses : Count(p) <= 1 + lost[p]
  /\ \A p \in replays : ~Awaited(p) => Count(p) <= lost[p]
  /\ \A c \in calls : c.waits /\ c.pc = "5xx" => Count(c.press) <= lost[c.press]

OInv == OShape /\ FlushOK /\ CountOK

(* How often the calls of S may still take effect.                         *)
LEMMA FlyingType ==
  ASSUME NEW S, IsFiniteSet(S), NEW p
  PROVE  IsFiniteSet(Flying(S, p)) /\ Cardinality(Flying(S, p)) \in Nat
<1>1. Flying(S, p) \in SUBSET S
  BY DEF Flying
<1> QED
  BY <1>1, FS_Subset, FS_CardinalityType

(* A call goes on: it may still take effect, or is answered.               *)
LEMMA FlyingReplaced ==
  ASSUME NEW S, IsFiniteSet(S), NEW c \in S, NEW d, d.press = c.press, c.pc \notin Answered, NEW p
  PROVE  LET T == (S \ {c}) \cup {d} IN
         /\ IsFiniteSet(T)
         /\ Cardinality(Flying(T, p)) <= Cardinality(Flying(S, p))
         /\ d.pc \in Answered /\ p = c.press => Cardinality(Flying(T, p)) <= Cardinality(Flying(S, p)) - 1
<1> DEFINE T == (S \ {c}) \cup {d}
           F == Flying(S, p)
           G == Flying(T, p)
<1>1. IsFiniteSet(T)
  BY FS_AddElement, FS_RemoveElement
<1>2. /\ IsFiniteSet(F) /\ Cardinality(F) \in Nat
      /\ IsFiniteSet(G) /\ Cardinality(G) \in Nat
  BY <1>1, FlyingType
<1>3. /\ p # c.press => G \in SUBSET F
      /\ p = c.press => c \in F
      /\ p = c.press /\ d.pc \in Answered => G \in SUBSET (F \ {c})
      /\ G \in SUBSET ((F \ {c}) \cup {d})
  BY DEF Flying
<1> HIDE DEF F, G
<1>4. CASE p # c.press
  <2>1. Cardinality(G) <= Cardinality(F)
    BY <1>2, <1>3, <1>4, FS_Subset
  <2> QED
    BY <1>1, <1>4, <2>1 DEF F, G
<1>5. CASE p = c.press
  <2> DEFINE H == F \ {c}
  <2>1. IsFiniteSet(H) /\ Cardinality(H) = Cardinality(F) - 1
    BY <1>2, <1>3, <1>5, FS_RemoveElement
  <2>2. G \in SUBSET (H \cup {d}) /\ (d.pc \in Answered => G \in SUBSET H)
    BY <1>3, <1>5
  <2> HIDE DEF H
  <2>3. IsFiniteSet(H \cup {d}) /\ Cardinality(H \cup {d}) <= Cardinality(H) + 1
    <3>1. IsFiniteSet(H)
      BY <2>1
    <3>2. /\ IsFiniteSet(H \cup {d})
          /\ Cardinality(H \cup {d}) = IF d \in H THEN Cardinality(H) ELSE Cardinality(H) + 1
      BY <3>1, FS_AddElement
    <3> QED
      BY <1>2, <2>1, <3>2
  <2>4. Cardinality(G) <= Cardinality(F)
    <3>1. Cardinality(G) <= Cardinality(H \cup {d}) /\ Cardinality(H \cup {d}) \in Nat
      BY <2>2, <2>3, FS_Subset, FS_CardinalityType
    <3> QED
      BY <1>2, <2>1, <2>3, <3>1
  <2>5. d.pc \in Answered => Cardinality(G) <= Cardinality(F) - 1
    BY <1>2, <2>1, <2>2, FS_Subset
  <2> QED
    BY <1>1, <1>5, <2>4, <2>5 DEF F, G
<1> QED
  BY <1>1, <1>4, <1>5 DEF F, G

LEMMA FlyingSent ==
  ASSUME NEW S, IsFiniteSet(S), NEW c, NEW p
  PROVE  LET T == S \cup {c} IN
         /\ IsFiniteSet(T)
         /\ Cardinality(Flying(T, p)) <= Cardinality(Flying(S, p)) + 1
         /\ p # c.press => Cardinality(Flying(T, p)) <= Cardinality(Flying(S, p))
<1> DEFINE T == S \cup {c}
           F == Flying(S, p)
           G == Flying(T, p)
<1>1. IsFiniteSet(T)
  BY FS_AddElement
<1>2. /\ IsFiniteSet(F) /\ Cardinality(F) \in Nat
      /\ IsFiniteSet(G) /\ Cardinality(G) \in Nat
  BY <1>1, FlyingType
<1>3. IsFiniteSet(F \cup {c}) /\ Cardinality(F \cup {c}) \in {Cardinality(F), Cardinality(F) + 1}
  BY <1>2, FS_AddElement
<1>4. G \in SUBSET (F \cup {c}) /\ (p # c.press => G \in SUBSET F)
  BY DEF Flying
<1>5. Cardinality(G) <= Cardinality(F \cup {c}) /\ (p # c.press => Cardinality(G) <= Cardinality(F))
  BY <1>2, <1>3, <1>4, FS_Subset
<1> QED
  BY <1>1, <1>2, <1>3, <1>5

(* The screen is left or the page reloaded: the calls stay as many.        *)
LEMMA FlyingMapped ==
  ASSUME NEW S, IsFiniteSet(S), NEW T, NEW f \in Surjection(S, T), NEW p,
         \A c \in S : f[c].press = c.press /\ f[c].pc = c.pc
  PROVE  IsFiniteSet(T) /\ Cardinality(Flying(T, p)) <= Cardinality(Flying(S, p))
<1> DEFINE F == Flying(S, p)
           G == Flying(T, p)
           g == [c \in F |-> f[c]]
<1>1. IsFiniteSet(T)
  BY FS_Surjection
<1>2. IsFiniteSet(F)
  BY FlyingType
<1>3. g \in Surjection(F, G)
  BY DEF Surjection, Flying
<1> HIDE DEF g, F, G
<1>4. Cardinality(G) <= Cardinality(F)
  BY <1>2, <1>3, FS_Surjection
<1> QED
  BY <1>1, <1>4 DEF F, G

(* The server's steps.                                                     *)
LEMMA OnceServed ==
  ASSUME OInv, PInv, NEW c \in calls, NEW d, calls' = (calls \ {c}) \cup {d},
         d.press = c.press, d.by = c.by, d.waits = c.waits, c.pc \notin Answered,
         UNCHANGED <<press, flush, replays, lost>>,
         \/ d.pc # "ok" /\ UNCHANGED served
         \/ d.pc = "ok" /\ served' = [served EXCEPT ![c.press] = @ + 1]
  PROVE  OInv'
<1>1. /\ IsFiniteSet(calls) /\ lost \in [1..MaxPresses -> Nat] /\ served \in [1..MaxPresses -> Nat]
      /\ Presses \subseteq 1..MaxPresses /\ replays \subseteq Presses /\ c.press \in Presses
  BY PressesType DEF OInv, OShape, PInv, ShapeOK, CallOK, CallShape
<1>2. IsFiniteSet(calls') /\ \A p : Cardinality(Flying(calls, p)) \in Nat /\ Cardinality(Flying(calls', p)) \in Nat
  BY <1>1, FlyingReplaced, FlyingType
<1>3. /\ \A p \in Presses : Count(p)' <= Count(p)
      /\ d.pc = "5xx" => Count(c.press)' <= Count(c.press) - 1
  <2> SUFFICES ASSUME NEW p \in Presses
               PROVE  /\ Count(p)' <= Count(p)
                      /\ d.pc = "5xx" /\ p = c.press => Count(p)' <= Count(p) - 1
    BY <1>1
  <2> DEFINE m == Cardinality(Flying(calls, p))
             n == Cardinality(Flying(calls', p))
  <2>1. m \in Nat /\ n \in Nat /\ served[p] \in Nat
    BY <1>1, <1>2
  <2>2. n <= m /\ (d.pc \in {"ok", "5xx"} /\ p = c.press => n <= m - 1)
    BY <1>1, FlyingReplaced DEF Answered
  <2>3. IF d.pc = "ok" /\ p = c.press THEN served'[p] = served[p] + 1 ELSE served'[p] = served[p]
    BY <1>1
  <2>4. Count(p) = served[p] + m /\ Count(p)' = served'[p] + n
    BY DEF Count
  <2> HIDE DEF m, n
  <2> QED
    BY <2>1, <2>2, <2>3, <2>4
<1>4. OShape'
  BY <1>1, <1>2 DEF OInv, OShape, Presses
<1>5. \A p : Awaited(p)' <=> Awaited(p)
  BY DEF Awaited
<1>6. FlushOK'
  BY <1>5 DEF OInv, FlushOK
<1>7. CountOK'
  <2>1. ASSUME NEW p \in Presses PROVE Count(p) \in Int /\ Count(p)' \in Int /\ lost[p] \in Int
    <3>1. served[p] \in Nat /\ served'[p] \in Nat
      <4>1. served' \in [1..MaxPresses -> Nat]
        BY <1>1
      <4> QED
        BY <1>1, <4>1
    <3>2. Cardinality(Flying(calls, p)) \in Nat /\ Cardinality(Flying(calls', p)) \in Nat
      BY <1>2
    <3> QED
      BY <1>1, <3>1, <3>2 DEF Count
  <2>2. \A p \in Presses : Count(p)' <= 1 + lost'[p]
    BY <1>3, <2>1 DEF OInv, CountOK
  <2>3. \A p \in replays' : ~Awaited(p)' => Count(p)' <= lost'[p]
    BY <1>1, <1>3, <1>5, <2>1 DEF OInv, CountOK
  <2>4. ASSUME NEW x \in calls', x.waits, x.pc = "5xx" PROVE Count(x.press)' <= lost'[x.press]
    <3>1. CASE x \in calls
      <4>1. x.press \in Presses /\ Count(x.press) <= lost[x.press]
        BY <2>4, <3>1 DEF OInv, CountOK, PInv, CallOK, CallShape
      <4> QED
        BY <1>3, <2>1, <4>1, lost' = lost
    <3>2. CASE x = d
      <4>1. PICK p \in Presses : p = c.press /\ p = x.press
        BY <1>1, <3>2
      <4>2. Count(p)' <= Count(p) - 1 /\ Count(p) <= 1 + lost[p]
        BY <1>3, <2>4, <3>2, <4>1 DEF OInv, CountOK
      <4>3. Count(p) \in Int /\ Count(p)' \in Int /\ lost[p] \in Int
        BY <2>1
      <4>4. Count(p)' <= lost'[p]
        BY <4>2, <4>3, lost' = lost
      <4> QED
        BY <4>1, <4>4 DEF Count
    <3> QED
      BY <3>1, <3>2
  <2> QED
    BY <1>1, <2>2, <2>3, <2>4 DEF CountOK, Presses
<1> QED
  BY <1>4, <1>6, <1>7 DEF OInv

LEMMA OnceServeStep == ASSUME OInv, PInv, NEW c \in calls, Serve(c) PROVE OInv'
<1> USE DEF server, tablet, history
<1>1. CallShape(c)
  BY DEF PInv, CallOK
<1>2. UNCHANGED <<press, flush, replays, lost>> /\ c.pc \notin Answered
  BY DEF Serve, CheckinFind, CheckinInsert, CheckoutFind, CheckoutWrite, ResolveFind, AutoCheckin,
         ResolveWrite, Arrived, Answered
<1>3. ASSUME NEW code, Answer(c, code), \/ code # "ok" /\ UNCHANGED served
                                        \/ code = "ok" /\ served' = [served EXCEPT ![c.press] = @ + 1]
      PROVE  OInv'
  <2> DEFINE d == [c EXCEPT !.pc = code]
  <2>1. d.press = c.press /\ d.by = c.by /\ d.waits = c.waits /\ d.pc = code
    BY <1>1 DEF CallShape
  <2>2. calls' = (calls \ {c}) \cup {d}
    BY <1>3 DEF Answer
  <2> HIDE DEF d
  <2> QED
    BY <1>2, <1>3, <2>1, <2>2, OnceServed
<1>4. ASSUME NEW saw, calls' = (calls \ {c}) \cup {[c EXCEPT !.pc = "leave", !.saw = saw]}, UNCHANGED served
      PROVE  OInv'
  <2> DEFINE d == [c EXCEPT !.pc = "leave", !.saw = saw]
  <2>1. d.press = c.press /\ d.by = c.by /\ d.waits = c.waits /\ d.pc = "leave"
    BY <1>1 DEF CallShape
  <2>2. calls' = (calls \ {c}) \cup {d}
    BY <1>4
  <2> HIDE DEF d
  <2> QED
    BY <1>2, <1>4, <2>1, <2>2, OnceServed
<1>5. CASE CheckinFind(c) \/ ResolveFind(c) \/ AutoCheckin(c)
  BY <1>3, <1>5 DEF CheckinFind, ResolveFind, AutoCheckin
<1>6. CASE CheckinInsert(c) \/ CheckoutWrite(c) \/ ResolveWrite(c)
  BY <1>3, <1>6 DEF CheckinInsert, CheckoutWrite, ResolveWrite
<1>7. CASE CheckoutFind(c)
  <2>1. UNCHANGED served
    BY <1>7 DEF CheckoutFind
  <2>2. CASE ~MayReport(press[c.press].worker)
    BY <1>3, <1>7, <2>1, <2>2 DEF CheckoutFind
  <2>3. CASE MayReport(press[c.press].worker)
    BY <1>4, <1>7, <2>1, <2>3 DEF CheckoutFind
  <2> QED
    BY <2>2, <2>3
<1> QED
  BY <1>5, <1>6, <1>7 DEF Serve

(* The tablet's steps.                                                     *)
LEMMA OnceTypes ==
  ASSUME OInv, PInv
  PROVE  /\ IsFiniteSet(calls) /\ Presses \subseteq 1..MaxPresses /\ replays \subseteq Presses
         /\ flush \in [on : BOOLEAN, todo : SUBSET Nat, at : Nat] /\ lost \in [1..MaxPresses -> Nat]
         /\ \A p \in Presses : Count(p) \in Int /\ lost[p] \in Nat
         /\ \A c \in calls : c.press \in Presses /\ c.by \in {"ui", "replay"} /\ c.waits \in BOOLEAN
<1>1. /\ IsFiniteSet(calls) /\ Presses \subseteq 1..MaxPresses
      /\ served \in [1..MaxPresses -> Nat] /\ lost \in [1..MaxPresses -> Nat]
  BY PressesType DEF OInv, OShape, PInv, ShapeOK
<1>2. ASSUME NEW p \in Presses PROVE Count(p) \in Int /\ lost[p] \in Nat
  BY <1>1, FlyingType DEF Count
<1>3. \A c \in calls : c.press \in Presses /\ c.by \in {"ui", "replay"} /\ c.waits \in BOOLEAN
  BY DEF PInv, CallOK, CallShape
<1> QED
  BY <1>1, <1>2, <1>3 DEF OInv, OShape

LEMMA CountLess ==
  ASSUME OInv, PInv, UNCHANGED served, IsFiniteSet(calls'), NEW p \in Presses,
         Cardinality(Flying(calls', p)) <= Cardinality(Flying(calls, p))
  PROVE  Count(p)' \in Int /\ Count(p)' <= Count(p)
<1>1. served[p] \in Nat
  BY PressesType DEF PInv, ShapeOK
<1>2. Cardinality(Flying(calls, p)) \in Nat /\ Cardinality(Flying(calls', p)) \in Nat
  BY FlyingType, OnceTypes
<1> QED
  BY <1>1, <1>2 DEF Count

(* What a step that sends nothing has to see to.                           *)
LEMMA OnceStep ==
  ASSUME OInv, PInv, UNCHANGED <<press, served>>, IsFiniteSet(calls'),
         flush' \in [on : BOOLEAN, todo : SUBSET Nat, at : Nat], replays' \subseteq Presses,
         lost' \in [1..MaxPresses -> Nat], FlushOK',
         \A p \in Presses : Cardinality(Flying(calls', p)) <= Cardinality(Flying(calls, p)),
         \A p \in Presses : lost[p] <= lost'[p],
         \A p \in replays' : ~Awaited(p)' =>
           (p \in replays /\ ~Awaited(p)) \/ Count(p) <= lost[p] \/ lost[p] + 1 <= lost'[p],
         \A c \in calls' : c.waits => \E d \in calls : d.waits /\ d.press = c.press /\ d.pc = c.pc
  PROVE  OInv'
<1>1. ASSUME NEW p \in Presses
      PROVE  /\ Count(p)' <= Count(p) /\ Count(p) <= 1 + lost[p] /\ lost[p] <= lost'[p]
             /\ Count(p) \in Int /\ Count(p)' \in Int /\ lost[p] \in Nat /\ lost'[p] \in Nat
  BY CountLess, OnceTypes DEF OInv, CountOK
<1>2. \A p \in Presses : Count(p)' <= 1 + lost'[p]
  BY <1>1
<1>3. ASSUME NEW p \in replays', ~Awaited(p)' PROVE Count(p)' <= lost'[p]
  <2>1. Count(p) <= lost[p] \/ lost[p] + 1 <= lost'[p]
    BY <1>3 DEF OInv, CountOK
  <2> QED
    BY <1>1, <2>1
<1>4. ASSUME NEW c \in calls', c.waits, c.pc = "5xx" PROVE Count(c.press)' <= lost'[c.press]
  <2>1. PICK d \in calls : d.waits /\ d.press = c.press /\ d.pc = c.pc
    BY <1>4
  <2>2. PICK p \in Presses : p = d.press
    BY OnceTypes
  <2>3. Count(p) <= lost[p]
    BY <1>4, <2>1, <2>2 DEF OInv, CountOK
  <2>4. Count(p)' <= lost'[p]
    BY <1>1, <2>3
  <2> QED
    BY <2>1, <2>2, <2>4 DEF Count
<1>5. OShape'
  BY DEF OInv, OShape, Presses
<1>6. CountOK'
  BY <1>2, <1>3, <1>4 DEF CountOK, Presses
<1> QED
  BY <1>5, <1>6 DEF OInv

(* Nobody waits for this call any more, or it was answered.                *)
LEMMA OnceGone ==
  ASSUME OInv, PInv, NEW c \in calls, c.pc \in Answered, calls' = calls \ {c},
         UNCHANGED <<press, served, lost>>, flush'.todo = flush.todo,
         \/ c.by = "replay" /\ c.waits /\ flush' = [flush EXCEPT !.at = 0]
            /\ replays' = IF c.pc = "5xx" THEN replays ELSE replays \ {c.press}
         \/ (c.by = "ui" \/ ~c.waits) /\ UNCHANGED <<flush, replays>>
  PROVE  OInv'
<1>1. IsFiniteSet(calls')
  BY OnceTypes, FS_RemoveElement
<1>2. flush' \in [on : BOOLEAN, todo : SUBSET Nat, at : Nat] /\ replays' \subseteq Presses
      /\ flush'.on = flush.on
  BY OnceTypes
<1>3. ASSUME NEW p \in Presses PROVE Cardinality(Flying(calls', p)) <= Cardinality(Flying(calls, p))
  <2>1. Flying(calls', p) \in SUBSET Flying(calls, p)
    BY DEF Flying
  <2> QED
    BY <2>1, FlyingType, FS_Subset, OnceTypes
<1>4. \A p : Awaited(p)' => Awaited(p)
  BY DEF Awaited
<1>5. \A d \in calls : d.waits /\ c.waits /\ d.press = c.press => d = c
  BY DEF OInv, FlushOK
<1>6. FlushOK'
  <2>1. flush'.todo \subseteq replays' /\ \A p \in flush'.todo : ~Awaited(p)'
    BY <1>4 DEF OInv, FlushOK, Awaited
  <2>2. ASSUME NEW d \in calls', d.waits
        PROVE  \/ d.by = "replay" /\ flush'.on /\ flush'.at = d.press /\ d.press \in replays'
               \/ d.by = "ui" /\ d.press \notin replays'
    <3>1. CASE d.by = "replay"
      BY <1>2, <1>5, <2>2, <3>1 DEF OInv, FlushOK
    <3>2. CASE d.by = "ui"
      BY <2>2, <3>2 DEF OInv, FlushOK
    <3> QED
      BY <3>1, <3>2, OnceTypes
  <2> QED
    BY <2>1, <2>2 DEF OInv, FlushOK
<1>7. ASSUME NEW p \in replays', ~Awaited(p)'
      PROVE  (p \in replays /\ ~Awaited(p)) \/ Count(p) <= lost[p]
  <2>1. p \in replays
    BY <1>7
  <2>2. CASE Awaited(p)
    <3>1. c.press = p /\ c.waits
      BY <1>7, <2>2 DEF Awaited
    <3>2. c.by = "replay" /\ c.pc = "5xx"
      BY <1>7, <2>1, <3>1 DEF OInv, FlushOK
    <3>3. Count(c.press) <= lost[c.press]
      BY <3>1, <3>2 DEF OInv, CountOK
    <3> QED
      BY <3>1, <3>3
  <2> QED
    BY <2>1, <2>2
<1>8. lost' \in [1..MaxPresses -> Nat] /\ \A p \in Presses : lost[p] <= lost'[p]
  BY OnceTypes
<1>9. \A x \in calls' : x.waits => \E d \in calls : d.waits /\ d.press = x.press /\ d.pc = x.pc
  OBVIOUS
<1> QED
  BY <1>1, <1>2, <1>3, <1>6, <1>7, <1>8, <1>9, OnceStep

LEMMA OnceAnswers ==
  ASSUME OInv, PInv, NEW c \in calls, PressAnswered(c) \/ ReplayAnswered(c) \/ Unheard(c)
  PROVE  OInv'
<1>1. CASE PressAnswered(c) \/ Unheard(c)
  BY <1>1, OnceGone DEF PressAnswered, Unheard, tablet, history
<1>2. CASE ReplayAnswered(c)
  <2>1. c.by = "replay" /\ c.waits /\ c.pc \in Answered /\ calls' = calls \ {c}
        /\ flush' = [flush EXCEPT !.at = 0] /\ replays' = (IF c.pc = "5xx" THEN replays ELSE replays \ {c.press})
        /\ UNCHANGED <<press, served, lost>>
    BY <1>2 DEF ReplayAnswered, history
  <2>2. flush'.todo = flush.todo
    BY <2>1, OnceTypes
  <2> QED
    BY <2>1, <2>2, OnceGone
<1> QED
  BY <1>1, <1>2

LEMMA OnceGiveUp == ASSUME OInv, PInv, NEW c \in calls, GiveUp(c) PROVE OInv'
<1> DEFINE d == [c EXCEPT !.waits = FALSE]
<1>1. /\ UNCHANGED <<press, served>> /\ c.waits
      /\ calls' \in {calls \ {c}, (calls \ {c}) \cup {d}} /\ lost' = [lost EXCEPT ![c.press] = @ + 1]
      /\ \/ c.by = "ui" /\ replays' = replays \cup {c.press} /\ UNCHANGED flush
         \/ c.by # "ui" /\ flush' = [flush EXCEPT !.at = 0] /\ UNCHANGED replays
  BY DEF GiveUp
<1>2. d.press = c.press /\ d.pc = c.pc /\ ~d.waits
  <2>1. CallShape(c)
    BY DEF PInv, CallOK
  <2> QED
    BY <2>1 DEF CallShape
<1> HIDE DEF d
<1>3. /\ IsFiniteSet(calls) /\ c.press \in Presses /\ c.press \in 1..MaxPresses
      /\ Presses \subseteq 1..MaxPresses /\ replays \subseteq Presses
      /\ flush \in [on : BOOLEAN, todo : SUBSET Nat, at : Nat] /\ lost \in [1..MaxPresses -> Nat]
  BY OnceTypes
<1>4. IsFiniteSet(calls') /\ calls' \subseteq (calls \ {c}) \cup {d} /\ calls \ {c} \subseteq calls'
  <2>1. IsFiniteSet(calls \ {c})
    BY <1>3, FS_RemoveElement
  <2>2. IsFiniteSet((calls \ {c}) \cup {d})
    BY <2>1, FS_AddElement
  <2> QED
    BY <1>1, <2>1, <2>2
<1>5. /\ flush' \in [on : BOOLEAN, todo : SUBSET Nat, at : Nat] /\ replays' \subseteq Presses
      /\ flush'.on = flush.on /\ flush'.todo = flush.todo
  BY <1>1, <1>3
<1>6. /\ lost' \in [1..MaxPresses -> Nat] /\ lost'[c.press] = lost[c.press] + 1
      /\ \A p \in Presses : lost[p] <= lost'[p]
  BY <1>1, <1>3
<1>7. ASSUME NEW p \in Presses PROVE Cardinality(Flying(calls', p)) <= Cardinality(Flying(calls, p))
  <2>1. CASE c.pc \notin Answered /\ calls' = (calls \ {c}) \cup {d}
    BY <1>2, <1>3, <2>1, FlyingReplaced
  <2>2. CASE c.pc \in Answered \/ calls' = calls \ {c}
    <3>1. Flying(calls', p) \in SUBSET Flying(calls, p)
      BY <1>1, <1>2, <2>2 DEF Flying
    <3> QED
      BY <1>3, <3>1, FlyingType, FS_Subset
  <2> QED
    BY <1>1, <2>1, <2>2
<1>8. \A x \in calls' : x.waits => x \in calls /\ x # c
  BY <1>2, <1>4
<1>9. \A x \in calls : x.waits /\ x.press = c.press => x = c
  BY <1>1 DEF OInv, FlushOK
<1>10. FlushOK'
  <2>1. flush'.todo \subseteq replays' /\ \A p \in flush'.todo : ~Awaited(p)'
    BY <1>1, <1>5, <1>8 DEF OInv, FlushOK, Awaited
  <2>2. ASSUME NEW x \in calls', x.waits
        PROVE  \/ x.by = "replay" /\ flush'.on /\ flush'.at = x.press /\ x.press \in replays'
               \/ x.by = "ui" /\ x.press \notin replays'
    <3>1. x \in calls /\ x.press # c.press
      BY <1>8, <1>9, <2>2
    <3>2. CASE x.by = "replay"
      <4>1. flush.on /\ flush.at = x.press /\ x.press \in replays
        BY <2>2, <3>1, <3>2 DEF OInv, FlushOK
      <4>2. c.by # "replay"
        BY <1>1, <3>1, <4>1 DEF OInv, FlushOK
      <4>3. c.by = "ui"
        BY <4>2, OnceTypes
      <4> QED
        BY <1>1, <3>2, <4>1, <4>3
    <3>3. CASE x.by = "ui"
      BY <1>1, <2>2, <3>1, <3>3 DEF OInv, FlushOK
    <3> QED
      BY <3>1, <3>2, <3>3, OnceTypes
  <2>3. \A x, y \in calls' : x.waits /\ y.waits /\ x.press = y.press => x = y
    BY <1>8 DEF OInv, FlushOK
  <2> QED
    BY <2>1, <2>2, <2>3 DEF FlushOK
<1>11. ASSUME NEW p \in replays', ~Awaited(p)'
       PROVE  (p \in replays /\ ~Awaited(p)) \/ lost[p] + 1 <= lost'[p]
  <2>1. CASE p = c.press
    BY <1>3, <1>6, <2>1
  <2>2. CASE p # c.press
    BY <1>1, <1>4, <1>11, <2>2 DEF Awaited
  <2> QED
    BY <2>1, <2>2
<1>12. \A x \in calls' : x.waits => \E y \in calls : y.waits /\ y.press = x.press /\ y.pc = x.pc
  BY <1>8
<1> QED
  BY <1>1, <1>4, <1>5, <1>6, <1>7, <1>10, <1>11, <1>12, OnceStep

LEMMA OnceLeave == ASSUME OInv, PInv, Leave PROVE OInv'
<1> DEFINE f == [c \in calls |-> [c EXCEPT !.shown = FALSE]]
<1>1. UNCHANGED <<press, served, lost, flush, replays>> /\ calls' = {f[c] : c \in calls}
  BY DEF Leave, history
<1>2. \A c \in calls : f[c].press = c.press /\ f[c].by = c.by /\ f[c].pc = c.pc /\ f[c].waits = c.waits
  <2>1. \A c \in calls : CallShape(c)
    BY DEF PInv, CallOK
  <2> QED
    BY <2>1 DEF CallShape
<1>3. f \in Surjection(calls, calls')
  BY <1>1 DEF Surjection
<1> HIDE DEF f
<1>4. IsFiniteSet(calls') /\ \A p : Cardinality(Flying(calls', p)) <= Cardinality(Flying(calls, p))
  BY <1>2, <1>3, FlyingMapped, OnceTypes
<1>5. \A p : Awaited(p)' <=> Awaited(p)
  BY <1>1, <1>2 DEF Awaited
<1>6. FlushOK'
  BY <1>1, <1>2, <1>5 DEF OInv, FlushOK
<1>7. \A p \in Presses : lost[p] <= lost'[p]
  BY <1>1, OnceTypes
<1> QED
  BY <1>1, <1>2, <1>4, <1>5, <1>6, <1>7, OnceStep, OnceTypes

LEMMA OnceReload == ASSUME OInv, PInv, Reload PROVE OInv'
<1> DEFINE f == [c \in calls |-> [c EXCEPT !.waits = FALSE]]
<1>1. /\ UNCHANGED <<press, served, replays>> /\ calls' = {f[c] : c \in calls} /\ flush' = Idle
      /\ lost' = [p \in DOMAIN lost |-> lost[p] + IF \E c \in calls : c.waits /\ c.press = p THEN 1 ELSE 0]
  BY DEF Reload
<1>2. \A c \in calls : f[c].press = c.press /\ f[c].pc = c.pc /\ f[c].waits = FALSE
  <2>1. \A c \in calls : CallShape(c)
    BY DEF PInv, CallOK
  <2> QED
    BY <2>1 DEF CallShape
<1>3. f \in Surjection(calls, calls')
  BY <1>1 DEF Surjection
<1> HIDE DEF f
<1>4. IsFiniteSet(calls') /\ \A p : Cardinality(Flying(calls', p)) <= Cardinality(Flying(calls, p))
  BY <1>2, <1>3, FlyingMapped, OnceTypes
<1>5. \A c \in calls' : ~c.waits
  BY <1>1, <1>2
<1>6. FlushOK' /\ flush' \in [on : BOOLEAN, todo : SUBSET Nat, at : Nat]
  BY <1>1, <1>5 DEF FlushOK, Idle, Awaited
<1>7. /\ lost' \in [1..MaxPresses -> Nat]
      /\ \A p \in Presses : lost[p] <= lost'[p] /\ (Awaited(p) => lost[p] + 1 <= lost'[p])
  <2>1. lost \in [1..MaxPresses -> Nat] /\ Presses \subseteq 1..MaxPresses
    BY OnceTypes
  <2>2. \A p \in 1..MaxPresses : lost'[p] = IF Awaited(p) THEN lost[p] + 1 ELSE lost[p]
    BY <1>1, <2>1 DEF Awaited
  <2>3. lost' = [p \in 1..MaxPresses |-> lost'[p]]
    BY <1>1, <2>1
  <2>4. \A p \in 1..MaxPresses : lost[p] \in Nat /\ lost'[p] \in {lost[p], lost[p] + 1}
    BY <2>1, <2>2
  <2>5. \A p \in 1..MaxPresses : lost'[p] \in Nat /\ lost[p] <= lost'[p]
    BY <2>4
  <2> QED
    BY <2>1, <2>2, <2>3, <2>4, <2>5
<1> QED
  BY <1>1, <1>4, <1>5, <1>6, <1>7, OnceStep, OnceTypes

(* The flush begins and ends.                                              *)
LEMMA OnceFlush ==
  ASSUME OInv, PInv, UNCHANGED <<press, served, lost, replays, calls>>,
         flush' = flush \/ StartFlush \/ FlushDone
  PROVE  OInv'
<1>1. ASSUME NEW c \in calls, c.waits, c.by = "replay"
      PROVE  flush.on /\ flush.at \in Presses /\ flush' = flush
  <2>1. flush.on /\ flush.at = c.press /\ c.press \in Presses
    BY <1>1, OnceTypes DEF OInv, FlushOK
  <2> QED
    BY <2>1 DEF StartFlush, FlushDone, Presses
<1>2. flush' \in [on : BOOLEAN, todo : SUBSET Nat, at : Nat]
  <2>1. replays \in SUBSET Nat /\ flush \in [on : BOOLEAN, todo : SUBSET Nat, at : Nat]
    BY OnceTypes DEF Presses
  <2>2. flush' \in {flush, [on |-> TRUE, todo |-> replays, at |-> 0], [on |-> FALSE, todo |-> {}, at |-> 0]}
    BY DEF StartFlush, FlushDone, Idle
  <2>3. /\ [on |-> TRUE, todo |-> replays, at |-> 0] \in [on : BOOLEAN, todo : SUBSET Nat, at : Nat]
        /\ [on |-> FALSE, todo |-> {}, at |-> 0] \in [on : BOOLEAN, todo : SUBSET Nat, at : Nat]
    BY <2>1
  <2> QED
    BY <2>1, <2>2, <2>3
<1>3. FlushOK'
  <2>1. CASE flush' = flush
    BY <2>1 DEF OInv, FlushOK, Awaited
  <2>2. CASE flush' # flush /\ flush'.todo \subseteq replays
    BY <1>1, <2>2 DEF OInv, FlushOK, Awaited
  <2>3. flush' = flush \/ flush'.todo \subseteq replays
    BY DEF StartFlush, FlushDone, Idle
  <2> QED
    BY <2>1, <2>2, <2>3
<1>4. \A p : Awaited(p)' <=> Awaited(p)
  BY DEF Awaited
<1>5. \A p \in Presses : lost[p] <= lost'[p] /\ Cardinality(Flying(calls', p)) <= Cardinality(Flying(calls, p))
  BY FlyingType, OnceTypes
<1> QED
  BY <1>2, <1>3, <1>4, <1>5, OnceStep, OnceTypes

(* A press is sent: by a tap, or again by the flush.                       *)
LEMMA OnceSent ==
  ASSUME OInv, PInv, NEW p \in Presses, Replay(p) PROVE OInv'
<1>1. PICK r : r = Request(p, "replay")
  OBVIOUS
<1>2. /\ r.press = p /\ r.by = "replay" /\ r.waits = TRUE /\ r.pc = "sent" /\ calls' = calls \cup {r}
      /\ UNCHANGED <<press, served, lost, replays>> /\ flush.on /\ flush.at = 0 /\ p \in flush.todo
      /\ flush' = [flush EXCEPT !.at = p, !.todo = @ \ {p}]
  BY <1>1 DEF Replay, Send, Request, history
<1>3. /\ p \in replays /\ ~Awaited(p) /\ Count(p) <= lost[p] /\ flush'.on /\ flush'.at = p
      /\ flush'.todo = flush.todo \ {p} /\ flush' \in [on : BOOLEAN, todo : SUBSET Nat, at : Nat]
  <2>1. p \in replays /\ ~Awaited(p) /\ Count(p) <= lost[p]
    BY <1>2 DEF OInv, FlushOK, CountOK
  <2>2. p \in Nat /\ flush \in [on : BOOLEAN, todo : SUBSET Nat, at : Nat]
    BY OnceTypes DEF Presses
  <2> QED
    BY <1>2, <2>1, <2>2
<1>4. \A c \in calls : c.waits => c.by = "ui" /\ c.press # p
  BY <1>2, <1>3, OnceTypes DEF OInv, FlushOK, Awaited, Presses
<1>5. FlushOK'
  <2>1. flush'.todo \subseteq replays' /\ \A q \in flush'.todo : ~Awaited(q)'
    BY <1>2, <1>3 DEF OInv, FlushOK, Awaited
  <2>2. ASSUME NEW x \in calls', x.waits
        PROVE  \/ x.by = "replay" /\ flush'.on /\ flush'.at = x.press /\ x.press \in replays'
               \/ x.by = "ui" /\ x.press \notin replays'
    <3>1. CASE x = r
      BY <1>2, <1>3, <3>1
    <3>2. CASE x \in calls
      BY <1>2, <1>4, <2>2, <3>2 DEF OInv, FlushOK
    <3> QED
      BY <1>2, <3>1, <3>2
  <2>3. \A x, y \in calls' : x.waits /\ y.waits /\ x.press = y.press => x = y
    BY <1>2, <1>4 DEF OInv, FlushOK
  <2> QED
    BY <2>1, <2>2, <2>3 DEF FlushOK
<1>6. IsFiniteSet(calls') /\ OShape'
  <2>1. IsFiniteSet(calls')
    BY <1>2, OnceTypes, FlyingSent
  <2> QED
    BY <1>2, <1>3, <2>1 DEF OInv, OShape, Presses
<1>7. ASSUME NEW q \in Presses
      PROVE  Count(q)' \in Int /\ (q # p => Count(q)' <= Count(q)) /\ (q = p => Count(q)' <= Count(q) + 1)
  <2> DEFINE m == Cardinality(Flying(calls, q))
             n == Cardinality(Flying(calls', q))
  <2>1. m \in Nat /\ n \in Nat /\ served[q] \in Nat
    BY <1>6, OnceTypes, FlyingType, PressesType DEF PInv, ShapeOK
  <2>2. n <= m + 1 /\ (q # p => n <= m)
    BY <1>2, OnceTypes, FlyingSent
  <2>3. Count(q) = served[q] + m /\ Count(q)' = served[q] + n
    BY <1>2 DEF Count
  <2> HIDE DEF m, n
  <2> QED
    BY <2>1, <2>2, <2>3
<1>8. CountOK'
  <2>1. ASSUME NEW q \in Presses PROVE Count(q)' <= 1 + lost'[q]
    <3>1. Count(q) \in Int /\ lost[q] \in Nat /\ Count(q) <= 1 + lost[q] /\ lost' = lost
      BY <1>2, OnceTypes DEF OInv, CountOK
    <3> QED
      BY <1>3, <1>7, <3>1
  <2>2. ASSUME NEW q \in replays', ~Awaited(q)' PROVE Count(q)' <= lost'[q]
    <3>1. q \in Presses /\ q # p /\ q \in replays /\ ~Awaited(q)
      BY <1>2, <2>2, OnceTypes DEF Awaited
    <3>2. Count(q) <= lost[q] /\ Count(q) \in Int /\ lost[q] \in Nat /\ lost' = lost
      BY <1>2, <3>1, OnceTypes DEF OInv, CountOK
    <3> QED
      BY <1>7, <3>1, <3>2
  <2>3. ASSUME NEW x \in calls', x.waits, x.pc = "5xx" PROVE Count(x.press)' <= lost'[x.press]
    <3>1. x \in calls
      BY <1>2, <2>3
    <3>2. PICK q \in Presses : q = x.press /\ q # p
      BY <1>4, <2>3, <3>1, OnceTypes
    <3>3. Count(q) <= lost[q] /\ Count(q) \in Int /\ lost[q] \in Nat /\ lost' = lost
      BY <1>2, <2>3, <3>1, <3>2, OnceTypes DEF OInv, CountOK
    <3>4. Count(q)' <= lost'[q]
      BY <1>7, <3>2, <3>3
    <3> QED
      BY <3>2, <3>4 DEF Count
  <2> QED
    BY <1>2, <2>1, <2>2, <2>3 DEF CountOK, Presses
<1> QED
  BY <1>5, <1>6, <1>8 DEF OInv

LEMMA OnceTap ==
  ASSUME OInv, PInv, PInv', NEW w, NEW kind, NEW i, Tap(w, kind, i)
  PROVE  OInv'
<1>0. PICK p : p = Len(press) + 1
  OBVIOUS
<1>1. /\ p <= MaxPresses /\ press' = Append(press, [worker |-> w, kind |-> kind, incident |-> i])
      /\ UNCHANGED <<served, lost, flush>>
      /\ \/ Send(p, "ui") /\ UNCHANGED replays
         \/ replays' = replays \cup {p} /\ UNCHANGED calls
  BY <1>0 DEF Tap
<1>2. /\ p \in Nat /\ p \notin Presses /\ p \in 1..MaxPresses /\ Presses' = Presses \cup {p}
      /\ Presses \subseteq 1..MaxPresses
  <2>1. press \in Seq(PressRow) /\ Len(press) \in Nat /\ MaxPresses \in Nat
    BY ShiftsAssumption DEF PInv, ShapeOK
  <2>2. Len(press') = Len(press) + 1
    BY <1>1, <2>1
  <2> QED
    BY <1>0, <1>1, <2>1, <2>2 DEF Presses
<1>3. /\ IsFiniteSet(calls) /\ replays \subseteq Presses
      /\ flush \in [on : BOOLEAN, todo : SUBSET Nat, at : Nat] /\ lost \in [1..MaxPresses -> Nat]
      /\ \A q \in Presses : Count(q) \in Int /\ lost[q] \in Nat
      /\ \A c \in calls : c.press \in Presses /\ c.by \in {"ui", "replay"} /\ c.waits \in BOOLEAN
  BY OnceTypes
<1>4. PICK r : r = Request(p, "ui")
  OBVIOUS
<1>5. r.press = p /\ r.by = "ui" /\ r.waits = TRUE /\ r.pc = "sent"
  BY <1>4 DEF Request
<1>6. calls' = calls \/ (calls' = calls \cup {r} /\ UNCHANGED replays)
  BY <1>1, <1>4 DEF Send
<1>7. IsFiniteSet(calls') /\ calls \subseteq calls' /\ calls' \subseteq calls \cup {r}
  <2>1. IsFiniteSet(calls \cup {r})
    BY <1>3, FS_AddElement
  <2> QED
    BY <1>3, <1>6, <2>1
<1>8. OShape'
  <2>1. replays' \subseteq Presses'
    BY <1>1, <1>2, <1>3
  <2>2. \A q \in 1..MaxPresses : q \notin Presses' => served'[q] = 0
    BY <1>1, <1>2 DEF OInv, OShape
  <2> QED
    BY <1>1, <1>3, <1>7, <2>1, <2>2 DEF OShape
<1>9. \A q \in Presses : Awaited(q)' <=> Awaited(q)
  BY <1>2, <1>5, <1>7 DEF Awaited
<1>10. FlushOK'
  <2>1. flush'.todo \subseteq replays' /\ \A q \in flush'.todo : ~Awaited(q)'
    BY <1>1, <1>3, <1>9 DEF OInv, FlushOK
  <2>2. \A c \in calls : c.press # p
    BY <1>2, <1>3
  <2>3. ASSUME NEW x \in calls', x.waits
        PROVE  \/ x.by = "replay" /\ flush'.on /\ flush'.at = x.press /\ x.press \in replays'
               \/ x.by = "ui" /\ x.press \notin replays'
    <3>1. CASE x \in calls
      BY <1>1, <2>2, <2>3, <3>1 DEF OInv, FlushOK
    <3>2. CASE x \notin calls
      BY <1>2, <1>3, <1>5, <1>6, <2>3, <3>2
    <3> QED
      BY <3>1, <3>2
  <2>4. \A x, y \in calls' : x.waits /\ y.waits /\ x.press = y.press => x = y
    BY <1>5, <1>7, <2>2 DEF OInv, FlushOK
  <2> QED
    BY <2>1, <2>3, <2>4 DEF FlushOK
<1>11. ASSUME NEW q \in Presses PROVE Count(q)' \in Int /\ Count(q)' <= Count(q)
  <2> DEFINE m == Cardinality(Flying(calls, q))
             n == Cardinality(Flying(calls', q))
  <2>1. m \in Nat /\ n \in Nat /\ served[q] \in Nat
    BY <1>3, <1>7, FlyingType, PressesType DEF PInv, ShapeOK
  <2>2. n <= m
    <3>1. Flying(calls', q) \in SUBSET Flying(calls, q)
      BY <1>2, <1>5, <1>7 DEF Flying
    <3> QED
      BY <1>3, <3>1, FlyingType, FS_Subset
  <2>3. Count(q) = served[q] + m /\ Count(q)' = served[q] + n
    BY <1>1 DEF Count
  <2> HIDE DEF m, n
  <2> QED
    BY <2>1, <2>2, <2>3
<1>12. Count(p)' \in {0, 1} /\ (calls' = calls => Count(p)' = 0) /\ lost'[p] \in Nat
  <2> DEFINE n == Cardinality(Flying(calls', p))
  <2>1. served'[p] = 0 /\ lost'[p] \in Nat
    BY <1>1, <1>2, <1>3 DEF OInv, OShape
  <2>2. Flying(calls, p) = {}
    BY <1>2, <1>3 DEF Flying
  <2>3. n \in {0, 1} /\ (calls' = calls => n = 0)
    <3>1. Flying(calls', p) \in SUBSET {r}
      BY <1>7, <2>2 DEF Flying
    <3>2. n \in Nat /\ n <= 1
      <4>1. IsFiniteSet({r}) /\ Cardinality({r}) = 1
        BY FS_Singleton
      <4>2. IsFiniteSet(Flying(calls', p)) /\ n <= 1
        BY <3>1, <4>1, FS_Subset
      <4> QED
        BY <4>2, FS_CardinalityType
    <3>3. calls' = calls => n = 0
      BY <2>2, FS_EmptySet
    <3> QED
      BY <3>2, <3>3
  <2>4. Count(p)' = served'[p] + n
    BY DEF Count
  <2> HIDE DEF n
  <2> QED
    BY <2>1, <2>3, <2>4
<1>13. CountOK'
  <2>1. ASSUME NEW q \in Presses' PROVE Count(q)' <= 1 + lost'[q]
    <3>1. CASE q \in Presses
      <4>1. Count(q) <= 1 + lost[q] /\ lost' = lost
        BY <1>1, <3>1 DEF OInv, CountOK
      <4> QED
        BY <1>3, <1>11, <3>1, <4>1
    <3>2. CASE q = p
      BY <1>12, <3>2
    <3> QED
      BY <1>2, <3>1, <3>2
  <2>2. ASSUME NEW q \in replays', ~Awaited(q)' PROVE Count(q)' <= lost'[q]
    <3>1. CASE q \in replays
      <4>1. q \in Presses /\ ~Awaited(q) /\ Count(q) <= lost[q] /\ lost' = lost
        BY <1>1, <1>3, <1>9, <2>2, <3>1 DEF OInv, CountOK
      <4> QED
        BY <1>3, <1>11, <4>1
    <3>2. CASE q \notin replays
      <4>1. q = p /\ calls' = calls
        BY <1>1, <2>2, <3>2
      <4> QED
        BY <1>12, <4>1
    <3> QED
      BY <3>1, <3>2
  <2>3. ASSUME NEW x \in calls', x.waits, x.pc = "5xx" PROVE Count(x.press)' <= lost'[x.press]
    <3>1. x \in calls
      BY <1>5, <1>7, <2>3
    <3>2. PICK q \in Presses : q = x.press
      BY <1>3, <3>1
    <3>3. Count(q) <= lost[q] /\ lost' = lost
      BY <1>1, <2>3, <3>1, <3>2 DEF OInv, CountOK
    <3>4. Count(q)' <= lost'[q]
      BY <1>3, <1>11, <3>3
    <3> QED
      BY <3>2, <3>4 DEF Count
  <2> QED
    BY <2>1, <2>2, <2>3 DEF CountOK
<1> QED
  BY <1>8, <1>10, <1>13 DEF OInv

LEMMA OnceInit == Init => OInv
<1> SUFFICES ASSUME Init PROVE OInv
  OBVIOUS
<1>1. Presses = {} /\ calls = {} /\ replays = {} /\ flush = Idle
  BY DEF Init, Presses
<1>2. OShape
  BY <1>1, FS_EmptySet DEF Init, OShape, Idle
<1> QED
  BY <1>1, <1>2 DEF OInv, FlushOK, CountOK, Idle

LEMMA OnceNext == OInv /\ PInv /\ PInv' /\ [Next]_vars => OInv'
<1> SUFFICES ASSUME OInv, PInv, PInv', [Next]_vars PROVE OInv'
  OBVIOUS
<1> DEFINE Quiet == UNCHANGED <<press, served, lost, replays, calls>> /\ (flush' = flush \/ StartFlush \/ FlushDone)
<1>1. Quiet => OInv'
  BY OnceFlush
<1> USE DEF server, tablet, history
<1>2. CASE UsesTablet
  <2>1. (Open \/ (\E w \in Worker : Login(w)) \/ ToTasks \/ GoBack) => Quiet
    BY DEF Open, Login, ToTasks, GoBack
  <2> HIDE DEF Quiet
  <2> QED
    BY <1>1, <1>2, <2>1, OnceLeave, OnceTap DEF UsesTablet, Arrive, Checkout, Resolve
<1>3. CASE TabletRuns
  <2>1. (Verified \/ JoinFlush \/ Loaded \/ LoginOffline \/ Flush \/ FlushDone) => Quiet
    BY DEF Verified, JoinFlush, Loaded, LoginOffline, Flush, FlushDone
  <2> HIDE DEF Quiet
  <2> QED
    BY <1>1, <1>3, <2>1, OnceSent, OnceAnswers DEF TabletRuns
<1>4. CASE Environment
  <2>1. (Disconnect \/ Reconnect \/ Midnight \/ (\E i \in Incident : DeleteIncident(i))
         \/ \E w \in Worker : Deactivate(w) \/ AssignBuilding(w)) => Quiet
    BY DEF Disconnect, Reconnect, Midnight, DeleteIncident, Deactivate, AssignBuilding
  <2> HIDE DEF Quiet
  <2> QED
    BY <1>1, <1>4, <2>1, OnceReload, OnceGiveUp DEF Environment
<1>5. CASE UNCHANGED vars
  BY <1>1, <1>5 DEF vars
<1> QED
  BY <1>2, <1>3, <1>4, <1>5, OnceServeStep DEF Next

(* However the flushes, the answers and the reloads interleave, a press    *)
(* takes effect once more only for each answer the tablet gave up on       *)
(* (lib/offline.ts, syncReplays and its single flight).                    *)
THEOREM EffectsBounded == Spec => []ServedOncePerLoss
<1>1. OInv /\ PInv => ServedOncePerLoss
  <2> SUFFICES ASSUME OInv, PInv, NEW p \in Presses PROVE served[p] <= 1 + lost[p]
    BY DEF ServedOncePerLoss
  <2>1. Count(p) <= 1 + lost[p] /\ lost[p] \in Nat
    BY OnceTypes DEF OInv, CountOK
  <2>2. served[p] \in Nat /\ Cardinality(Flying(calls, p)) \in Nat
    BY FlyingType, OnceTypes, PressesType DEF PInv, ShapeOK
  <2> QED
    BY <2>1, <2>2 DEF Count
<1>2. Spec => []OInv
  BY OnceInit, OnceNext, InvariantHolds, PTL DEF Spec
<1> QED
  BY <1>1, <1>2, InvariantHolds, PTL
=============================================================================
