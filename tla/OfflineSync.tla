---------------------------- MODULE OfflineSync ----------------------------
(***************************************************************************)
(* Reports of one kiosk tablet on their way to the server: the POST of a   *)
(* press (KioskPage.handleIssuePress), the IndexedDB queues it falls back  *)
(* to (lib/offline.ts), the batch upload of those queues (syncPending) and *)
(* the server's loop over a batch (IncidentsService.syncBatch).            *)
(*                                                                         *)
(* The queues survive a reload of the page; everything the page was doing  *)
(* does not, while the server goes on with what it received.  Requests and *)
(* responses get lost.  The steps inside create() and applyOfflineAction() *)
(* are those of module Incidents; here each is one step.                   *)
(***************************************************************************)
EXTENDS Naturals, FiniteSets

CONSTANTS
  Press,      (* presses of an issue button on the tablet                  *)
  Group,      (* (restroom, issue type) pairs                              *)
  GroupOf,    (* GroupOf[p]: the group press p is about                    *)
  Batch,      (* slots for batches the server is working on                *)
  MaxReports, (* the most reports the server takes in one batch: 500       *)
  MaxActions, (* the most resolutions it takes in one batch: 1000          *)
  MaxTrouble, (* bound: disconnections, reloads and lost messages          *)
  MaxFaults,  (* bound: items of a batch the server fails on               *)
  NULL

ASSUME OfflineSyncAssumption ==
  /\ GroupOf \in [Press -> Group]
  /\ MaxReports \in Nat /\ MaxActions \in Nat
  /\ MaxTrouble \in Nat /\ MaxFaults \in Nat
  /\ NULL \notin Batch

VARIABLES
  online,    (* navigator.onLine                                           *)
  press,     (* press[p]: how far handleIssuePress has come with p         *)
  post,      (* post[p]: the POST of p on the network and on the server    *)
  incidents, (* the object store of reports: incidents[p]                  *)
  actions,   (* the object store of resolutions, by the report they are of *)
  sync,      (* the syncPending run of the open page                       *)
  batch,     (* batch[b]: what the server still has to do of batch b       *)
  row,       (* row[k]: the incident with clientId k on the server; "OPEN" *)
             (*   stands for OPEN and IN_PROGRESS                          *)
  recorded,  (* the queued resolutions with an action row on the server,   *)
             (*   i.e. applied; the row goes with its incident             *)
  heard,     (* history: the presses the server has stored or answered     *)
             (*   as duplicates of an open incident                        *)
  deduped,   (* history: the presses whose queued report was answered as a *)
             (*   duplicate at least once                                  *)
  gone,      (* history: the presses whose queued report had become an     *)
             (*   incident that was deleted                                *)
  trouble, faults

tablet == <<online, press, incidents, actions, sync>>
server == <<row, recorded, heard, deduped, gone>>
vars   == <<tablet, post, batch, server, trouble, faults>>

(* handleIssuePress draws one clientId for its POST, and queueIncident a   *)
(* new one when the press falls back to the queue.                         *)
Key      == Press \X {"live", "queued"}
Live(p)   == <<p, "live">>
Queued(p) == <<p, "queued">>

Stored == {"none", "pending", "synced"}
Pending(store) == {p \in Press : store[p] = "pending"}
NoSync == [pc |-> "idle", batch |-> NULL, incidents |-> {}, actions |-> {}]
NoBatch == [pc |-> "free", incidents |-> {}, actions |-> {}]

(* The stores, the requests under way and the rows have types.             *)
TypeOK ==
  /\ online \in BOOLEAN
  /\ press \in [Press -> {"none", "posting", "confirmed", "abandoned"}]
  /\ post \in [Press -> {"none", "sent", "stored", "conflict", "failed"}]
  /\ incidents \in [Press -> Stored] /\ actions \in [Press -> Stored]
  /\ sync \in [pc : {"idle", "sent", "mark"}, batch : Batch \cup {NULL},
               incidents : SUBSET Press, actions : SUBSET Press]
  /\ batch \in [Batch -> [pc : {"free", "running", "answered", "dead"},
                          incidents : SUBSET Press, actions : SUBSET Press]]
  /\ row \in [Key -> {"none", "OPEN", "RESOLVED"}]
  /\ recorded \subseteq Press /\ heard \subseteq Press
  /\ deduped \subseteq Press /\ gone \subseteq Press
  /\ trouble \in 0..MaxTrouble /\ faults \in 0..MaxFaults

Init ==
  /\ online \in BOOLEAN
  /\ press = [p \in Press |-> "none"]
  /\ post = [p \in Press |-> "none"]
  /\ incidents = [p \in Press |-> "none"]
  /\ actions = [p \in Press |-> "none"]
  /\ sync = NoSync
  /\ batch = [b \in Batch |-> NoBatch]
  /\ row = [k \in Key |-> "none"]
  /\ recorded = {} /\ heard = {} /\ deduped = {} /\ gone = {}
  /\ trouble = 0 /\ faults = 0

Trouble == trouble < MaxTrouble /\ trouble' = trouble + 1

-----------------------------------------------------------------------------
(* handleIssuePress.                                                       *)

QueueIncident(p) ==
  /\ incidents' = [incidents EXCEPT ![p] = "pending"]
  /\ press' = [press EXCEPT ![p] = "confirmed"]

PressOnline(p) ==
  /\ press[p] = "none" /\ online
  /\ press' = [press EXCEPT ![p] = "posting"]
  /\ post' = [post EXCEPT ![p] = "sent"]
  /\ UNCHANGED <<online, incidents, actions, sync, batch, server, trouble, faults>>

PressOffline(p) ==
  /\ press[p] = "none" /\ ~online
  /\ QueueIncident(p)
  /\ UNCHANGED <<online, actions, sync, post, batch, server, trouble, faults>>

(* 2xx, or 409: the reporter sees the confirmation either way.             *)
PostConfirmed(p) ==
  /\ press[p] = "posting" /\ online /\ post[p] \in {"stored", "conflict"}
  /\ press' = [press EXCEPT ![p] = "confirmed"]
  /\ UNCHANGED <<online, incidents, actions, sync, post, batch, server, trouble, faults>>

(* Any other error: no connection, an answer lost or later than the        *)
(* timeout of 10 s, an error status.                                       *)
PostRejected(p) ==
  /\ press[p] = "posting"
  /\ \/ (~online \/ post[p] = "failed") /\ UNCHANGED trouble
     \/ online /\ post[p] # "failed" /\ Trouble
  /\ QueueIncident(p)
  /\ UNCHANGED <<online, actions, sync, post, batch, server, faults>>

-----------------------------------------------------------------------------
(* The team screen lists what is queued for the restroom; a cleaner closes *)
(* one of these (CleanerCheckIn.handleResolve).  The list may be older     *)
(* than the sync of the report.                                            *)
ResolveQueued(p) ==
  /\ incidents[p] # "none" /\ actions[p] = "none"
  /\ actions' = [actions EXCEPT ![p] = "pending"]
  /\ UNCHANGED <<online, press, incidents, sync, post, batch, server, trouble, faults>>

-----------------------------------------------------------------------------
(* The server's side of a new request; SyncBatchDto refuses (400) a body   *)
(* with too many items.                                                    *)
NewBatch ==
  IF Cardinality(Pending(incidents)) <= MaxReports /\ Cardinality(Pending(actions)) <= MaxActions
    THEN [pc |-> "running", incidents |-> Pending(incidents), actions |-> Pending(actions)]
    ELSE [NoBatch EXCEPT !.pc = "dead"]

(* Mutant: only a queued report starts a sync.                             *)
StartSyncOfReports(b) ==
  /\ online /\ sync.pc = "idle" /\ batch[b].pc = "free"
  /\ Pending(incidents) # {}
  /\ sync' = [pc |-> "sent", batch |-> b,
              incidents |-> Pending(incidents), actions |-> Pending(actions)]
  /\ batch' = [batch EXCEPT ![b] = NewBatch]
  /\ UNCHANGED <<online, press, incidents, actions, post, server, trouble, faults>>

(* syncPending, called on load, on the online event, by the team screen    *)
(* and by handleResolve; a call while one is in flight joins it.           *)
StartSync(b) ==
  /\ online /\ sync.pc = "idle" /\ batch[b].pc = "free"
  /\ Pending(incidents) # {} \/ Pending(actions) # {}
  /\ sync' = [pc |-> "sent", batch |-> b,
              incidents |-> Pending(incidents), actions |-> Pending(actions)]
  /\ batch' = [batch EXCEPT ![b] = NewBatch]
  /\ UNCHANGED <<online, press, incidents, actions, post, server, trouble, faults>>

(* Mutant: whatever is queued by the time of the answer is marked.         *)
MarkAll(store, items) == [p \in Press |-> IF store[p] = "pending" THEN "synced" ELSE store[p]]

(* put({...item, synced: true}) for the items of a snapshot.               *)
Mark(store, items) == [p \in Press |-> IF p \in items THEN "synced" ELSE store[p]]

(* response.ok: the snapshot is marked, whatever the body says failed, in  *)
(* one transaction per store.                                              *)
MarkIncidents ==
  /\ sync.pc = "sent" /\ online /\ batch[sync.batch].pc = "answered"
  /\ incidents' = Mark(incidents, sync.incidents)
  /\ sync' = [sync EXCEPT !.pc = "mark"]
  /\ batch' = [batch EXCEPT ![sync.batch] = NoBatch]
  /\ UNCHANGED <<online, press, actions, post, server, trouble, faults>>

MarkActions ==
  /\ sync.pc = "mark"
  /\ actions' = Mark(actions, sync.actions)
  /\ sync' = NoSync
  /\ UNCHANGED <<online, press, incidents, post, batch, server, trouble, faults>>

(* The page no longer waits for batch b; the server may be at it still.    *)
Orphan(b) ==
  batch' = [batch EXCEPT ![b] = IF @.pc = "running" THEN @ ELSE NoBatch]

(* Mutant: syncInFlight is not cleared when the run fails.                 *)
SyncFailsStuck ==
  /\ sync.pc = "sent"
  /\ \/ (~online \/ batch[sync.batch].pc = "dead") /\ UNCHANGED trouble
     \/ online /\ batch[sync.batch].pc # "dead" /\ Trouble
  /\ Orphan(sync.batch)
  /\ UNCHANGED <<online, press, incidents, actions, sync, post, server, faults>>

(* The fetch rejects, or the answer is an error: everything stays queued.  *)
SyncFails ==
  /\ sync.pc = "sent"
  /\ \/ (~online \/ batch[sync.batch].pc = "dead") /\ UNCHANGED trouble
     \/ online /\ batch[sync.batch].pc # "dead" /\ Trouble
  /\ sync' = NoSync
  /\ Orphan(sync.batch)
  /\ UNCHANGED <<online, press, incidents, actions, post, server, faults>>

-----------------------------------------------------------------------------
(* The server.                                                             *)

(* create(): known clientId, duplicate of an incident that was reported or *)
(* taken in hand within the window, or a new row.  The window is that of   *)
(* module Incidents; here an open incident may be within it or not.        *)
Create(p, k) ==
  /\ heard' = heard \cup {p}
  /\ \/ row' = IF row[k] = "none" THEN [row EXCEPT ![k] = "OPEN"] ELSE row
     \/ /\ \E l \in Key : GroupOf[l[1]] = GroupOf[p] /\ row[l] = "OPEN"
        /\ UNCHANGED row
Duplicate(k) == row[k] = "none" /\ UNCHANGED row

ServePost(p) ==
  /\ post[p] = "sent"
  /\ Create(p, Live(p))
  /\ post' = [post EXCEPT ![p] = IF Duplicate(Live(p)) THEN "conflict" ELSE "stored"]
  /\ UNCHANGED <<tablet, batch, recorded, deduped, gone, trouble, faults>>

(* The request does not arrive, or the server answers with a 5xx.          *)
PostLost(p) ==
  /\ post[p] = "sent" /\ Trouble
  /\ post' = [post EXCEPT ![p] = "failed"]
  /\ UNCHANGED <<tablet, batch, server, faults>>

(* One turn of syncBatch's first loop; a 409 counts as synced.             *)
ServeIncident(b, p) ==
  /\ batch[b].pc = "running" /\ p \in batch[b].incidents
  /\ \/ /\ Create(p, Queued(p)) /\ UNCHANGED faults
        /\ deduped' = IF Duplicate(Queued(p)) THEN deduped \cup {p} ELSE deduped
     \/ /\ faults < MaxFaults /\ faults' = faults + 1     \* caught, into errors
        /\ UNCHANGED <<row, heard, deduped>>
  /\ batch' = [batch EXCEPT ![b].incidents = @ \ {p}]
  /\ UNCHANGED <<tablet, post, recorded, gone, trouble>>

(* applyOfflineAction(): recorded before, no incident with that clientId   *)
(* (404, into errors), or recorded and applied.                            *)
Apply(p) ==
  IF p \in recorded \/ row[Queued(p)] = "none"
    THEN UNCHANGED <<row, recorded>>
    ELSE /\ recorded' = recorded \cup {p}
         /\ row' = [row EXCEPT ![Queued(p)] = "RESOLVED"]

(* Mutant: both lists of a batch are served at once.                       *)
ServeActionUnordered(b, p) ==
  /\ batch[b].pc = "running" /\ p \in batch[b].actions
  /\ \/ Apply(p) /\ UNCHANGED faults
     \/ /\ faults < MaxFaults /\ faults' = faults + 1
        /\ UNCHANGED <<row, recorded>>
  /\ batch' = [batch EXCEPT ![b].actions = @ \ {p}]
  /\ UNCHANGED <<tablet, post, heard, deduped, gone, trouble>>

(* One turn of its second loop, entered when the first is through.         *)
ServeAction(b, p) ==
  /\ batch[b].pc = "running" /\ batch[b].incidents = {} /\ p \in batch[b].actions
  /\ \/ Apply(p) /\ UNCHANGED faults
     \/ /\ faults < MaxFaults /\ faults' = faults + 1
        /\ UNCHANGED <<row, recorded>>
  /\ batch' = [batch EXCEPT ![b].actions = @ \ {p}]
  /\ UNCHANGED <<tablet, post, heard, deduped, gone, trouble>>

AnswerBatch(b) ==
  /\ batch[b].pc = "running" /\ batch[b].incidents = {} /\ batch[b].actions = {}
  /\ batch' = [batch EXCEPT ![b] = IF sync.batch = b THEN [@ EXCEPT !.pc = "answered"]
                                                     ELSE NoBatch]
  /\ UNCHANGED <<tablet, post, server, trouble, faults>>

(* The request does not arrive, or the server dies over it.                *)
BatchLost(b) ==
  /\ batch[b].pc = "running" /\ Trouble
  /\ batch' = [batch EXCEPT ![b] = IF sync.batch = b THEN [NoBatch EXCEPT !.pc = "dead"]
                                                     ELSE NoBatch]
  /\ UNCHANGED <<tablet, post, server, faults>>

(* Somebody resolves the incident from the cleaner's or the admin's app.   *)
ResolveElsewhere(k) ==
  /\ row[k] = "OPEN"
  /\ row' = [row EXCEPT ![k] = "RESOLVED"]
  /\ UNCHANGED <<tablet, post, batch, recorded, heard, deduped, gone, trouble, faults>>

(* deleteBulk or the retention sweep: the incident goes with its actions,  *)
(* and the clientIds of both are free again.                               *)
DeleteIncident(k) ==
  /\ row[k] # "none"
  /\ row' = [row EXCEPT ![k] = "none"]
  /\ recorded' = {p \in recorded : Queued(p) # k}
  /\ gone' = gone \cup {p \in Press : Queued(p) = k}
  /\ UNCHANGED <<tablet, post, batch, heard, deduped, trouble, faults>>

-----------------------------------------------------------------------------
(* The tablet's surroundings.                                              *)

Disconnect ==
  /\ online /\ Trouble /\ online' = FALSE
  /\ UNCHANGED <<press, incidents, actions, sync, post, batch, server, faults>>

Connect ==
  /\ ~online /\ online' = TRUE
  /\ UNCHANGED <<press, incidents, actions, sync, post, batch, server, trouble, faults>>

(* The hourly window.location.reload(), a crash or a power cut: a press    *)
(* that was not confirmed yet is forgotten, and so is a sync in flight.    *)
Reload ==
  /\ Trouble
  /\ press' = [p \in Press |-> IF press[p] = "posting" THEN "abandoned" ELSE press[p]]
  /\ sync' = NoSync
  /\ IF sync.pc = "sent" THEN Orphan(sync.batch) ELSE UNCHANGED batch
  /\ UNCHANGED <<online, incidents, actions, post, server, faults>>

Progress(p) == PostConfirmed(p) \/ PostRejected(p)
SyncStep    == (\E b \in Batch : StartSync(b)) \/ MarkIncidents \/ MarkActions \/ SyncFails
Serve(b)    == (\E p \in Press : ServeIncident(b, p) \/ ServeAction(b, p)) \/ AnswerBatch(b)

Next ==
  \/ \E p \in Press : \/ PressOnline(p) \/ PressOffline(p) \/ Progress(p)
                      \/ ResolveQueued(p) \/ ServePost(p) \/ PostLost(p)
  \/ SyncStep
  \/ \E b \in Batch : Serve(b) \/ BatchLost(b)
  \/ \E k \in Key : ResolveElsewhere(k) \/ DeleteIncident(k)
  \/ Disconnect \/ Connect \/ Reload

Spec == Init /\ [][Next]_vars

(* An outage ends; axios settles every POST within its timeout; the page   *)
(* is reloaded every hour and syncs on load, so syncPending runs again as  *)
(* long as something is queued; the server works off what it received.     *)
Fairness ==
  /\ WF_vars(Connect) /\ WF_vars(SyncStep)
  /\ \A p \in Press : WF_vars(Progress(p)) /\ WF_vars(ServePost(p))
  /\ \A b \in Batch : WF_vars(Serve(b))
FairSpec == Spec /\ Fairness

-----------------------------------------------------------------------------
(* Properties.                                                             *)

(* A press that was confirmed to the reporter is never lost: the server    *)
(* has heard of it or the tablet will still send it.                       *)
NoReportLost ==
  \A p \in Press :
    press[p] = "confirmed" => p \in heard \/ incidents[p] = "pending"

(* The tablet keeps the promise of module Outbox: a confirmed press is     *)
(* held until it is delivered, and it is delivered, over reloads, outages, *)
(* lost answers and batches the server works on twice.                     *)
Promise == INSTANCE Outbox WITH
  report <- [p \in Press |-> CASE p \in heard -> "delivered"
                               [] p \notin heard /\ press[p] = "confirmed" -> "held"
                               [] OTHER -> "none"]
KeepsPromise == Promise!FairSpec

(* The tablet stops sending a resolution only once it is applied, unless   *)
(* no incident is left to close: its report was answered as a duplicate,   *)
(* or the incident was deleted on the server, and the 404 of the action is *)
(* marked as synced with the rest (offline.ts:131-145).  In every other    *)
(* case the batch with the resolution also holds its report, earlier,      *)
(* unless the server has answered for that one.                            *)
LostOnlyWithItsIncident ==
  \A p \in Press : actions[p] = "synced" => p \in recorded \cup deduped \cup gone

(* A queued resolution is applied in the end, with the same exceptions.    *)
ResolutionArrives ==
  \A p \in Press : actions[p] = "pending" ~> p \in recorded \cup deduped \cup gone

-----------------------------------------------------------------------------
(* Promises of comments and documents the code does not keep.  The README   *)
(* gives the constants under which TLC finds each counterexample.           *)

(* What is stored as synced has taken effect: a resolution a cleaner       *)
(* queued on the tablet is applied on the server before the tablet stops   *)
(* sending it.                                                             *)
SyncedIsApplied == \A p \in Press : actions[p] = "synced" => p \in recorded

(* "So nothing stays stranded": a queued report does not stay queued.      *)
NothingStranded ==
  \A p \in Press : incidents[p] = "pending" ~> incidents[p] # "pending"

(* clientId is there "for dedup": one press is one incident.               *)
OnePressOneRow ==
  \A p \in Press : ~(row[Live(p)] # "none" /\ row[Queued(p)] # "none")
=============================================================================
