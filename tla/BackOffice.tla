----------------------------- MODULE BackOffice -----------------------------
(***************************************************************************)
(* BackOffice: Push, DailyReport, Screens and Office side by side.  The    *)
(* four share no state, so whatever each does alone it does in any         *)
(* interleaving with the others: a behaviour here runs one part and leaves *)
(* the others in one of their initial states.                              *)
(***************************************************************************)
EXTENDS Naturals, FiniteSets

CONSTANTS
  NULL,
  Phone, Owner, Site, PlaceOf, Endpoint, MaxPhoneSteps, MaxPhoneLosses,    (* Push *)
  Boss, Digested, Ranked, Hour, DayPlan, MaxDays, MaxEdits, MaxFaults,     (* DailyReport *)
  Task, Floor, FloorOf, User, Page, Sees, Chip, MaxEvents, MaxLost,        (* Screens *)
  General, Pm, Supervisor, Cleaner, Property, Building, Number, MaxRequests (* Office *)

VARIABLES
  part,      (* which of the four runs: "push", "report", "screens", "office" *)
  login, granted, sub, endpoints, row, posts, left, got, steps, losses,
  day, plan, slot, org, own, mailed, sentDates, cron, edit, mails, excused, forgot, edits, faults,
  tasks, praise, user, filter, cache, asking, wasOpen, cutoff, notice, events, lost,
  alive, prop, bld, number, hidden, inactive, managed, props, houses, houseProp, asked, form,
  made, requests

P == INSTANCE Push WITH User <- Owner, Building <- Site, status <- endpoints, asked <- posts
D == INSTANCE DailyReport WITH Pm <- Digested, Property <- Ranked, managed <- mailed
S == INSTANCE Screens WITH status <- tasks
O == INSTANCE Office

ASSUME PartsAssumption ==
  P!PushAssumption /\ D!ReportAssumption /\ S!ScreensAssumption /\ O!OfficeAssumption

pushVars == <<login, granted, sub, endpoints, row, posts, left, got, steps, losses>>
reportVars == <<day, plan, slot, org, own, mailed, sentDates, cron, edit, mails, excused,
                forgot, edits, faults>>
screenVars == <<tasks, praise, user, filter, cache, asking, wasOpen, cutoff, notice, events, lost>>
officeVars == <<alive, prop, bld, number, hidden, inactive, managed, props, houses, houseProp,
                asked, form, made, requests>>
vars == <<part, pushVars, reportVars, screenVars, officeVars>>

Alone(p) ==
  /\ part = p /\ part' = p
  /\ p # "push" => UNCHANGED pushVars
  /\ p # "report" => UNCHANGED reportVars
  /\ p # "screens" => UNCHANGED screenVars
  /\ p # "office" => UNCHANGED officeVars

Init ==
  /\ part \in {"push", "report", "screens", "office"}
  /\ P!Init /\ D!Init /\ S!Init /\ O!Init
  /\ part # "report" => plan = CHOOSE p \in DayPlan : TRUE
  /\ part # "office" => houses = {} /\ managed = [m \in Pm |-> {}]

Next ==
  \/ Alone("push") /\ P!Next
  \/ Alone("report") /\ D!Next
  \/ Alone("screens") /\ S!Next
  \/ Alone("office") /\ O!Next

(* The fairness of FairSpec of Push and of Screens.                        *)
Spec == Init /\ [][Next]_vars
FairSpec ==
  /\ Spec
  /\ WF_vars(Alone("push") /\ P!Serve)
  /\ \A p \in Phone : WF_vars(Alone("push") /\ P!Register(p))
  /\ \A k \in S!Query :
       /\ WF_vars(Alone("screens") /\ S!Refetch(k))
       /\ WF_vars(Alone("screens") /\ S!Serve(k))
       /\ WF_vars(Alone("screens") /\ S!Receive(k))

-----------------------------------------------------------------------------
(* The properties of the parts, each stated in its module; a part that does *)
(* not run is in an initial state.                                         *)

(* Each part's state has its type.                                         *)
TypeOK ==
  CASE part = "push" -> P!TypeOK [] part = "report" -> D!TypeOK
    [] part = "screens" -> S!TypeOK [] part = "office" -> O!TypeOK

(* No phone shows one send twice (push.service.ts:90-92).                  *)
OnePerSend == part = "push" => P!OnePerSend

(* The phone of a logged-in worker ends up with that worker's row.         *)
PhoneIsReached == P!PhoneIsReached

(* One automatic mail a day and reader (daily-report.service.ts:16-17).    *)
OncePerDay == part = "report" => D!OncePerDay

(* The mail of an undisturbed reader is out by midnight.                   *)
NobodyForgotten == part = "report" => D!NobodyForgotten

(* No list shows a task the server hides from whoever is logged in.        *)
OnlyInScope == part = "screens" => S!OnlyInScope

(* A page left open comes to show the server's list.                       *)
ScreensFollow == S!ScreensFollow

(* What a property manager creates stays in its view.                      *)
CreatedIsSeen == part = "office" => O!CreatedIsSeen
=============================================================================
