-------------------------- MODULE OfflineSyncProofs --------------------------
(***************************************************************************)
(* Theorems about OfflineSync for any number of presses, batches in        *)
(* flight, outages, reloads and lost messages.                             *)
(***************************************************************************)
EXTENDS OfflineSync, TLAPS

(* The server has answered for the queued report of p.                     *)
Answered(p) == row[Queued(p)] # "none" \/ p \in deduped \cup gone
Settled(p)  == p \in recorded \cup deduped \cup gone

(* Only a press the server has heard of is answered for.                   *)
AnswersOK ==
  \A p \in Press :
    /\ Answered(p) => p \in heard
    /\ post[p] \in {"stored", "conflict"} => p \in heard

(* What the tablet no longer sends.                                        *)
StoresOK ==
  \A p \in Press :
    /\ incidents[p] = "synced" => Answered(p)
    /\ actions[p] # "none" => incidents[p] # "none"

(* A resolution is in a batch after its report, or the report is done.     *)
BatchesOK ==
  \A b \in Batch : batch[b].pc = "running" =>
    \A p \in batch[b].actions : p \in batch[b].incidents \/ Answered(p)

(* What the sync under way sent is still in its batch or done.             *)
SyncOK ==
  /\ sync.pc = "sent" =>
       /\ sync.batch \in Batch
       /\ batch[sync.batch].pc = "running" =>
            /\ \A p \in sync.incidents : p \in batch[sync.batch].incidents \/ Answered(p)
            /\ \A p \in sync.actions : p \in batch[sync.batch].actions \/ Settled(p)
       /\ batch[sync.batch].pc = "answered" =>
            /\ \A p \in sync.incidents : Answered(p)
            /\ \A p \in sync.actions : Settled(p)
  /\ sync.pc = "mark" => \A p \in sync.actions : Settled(p)
  /\ sync.pc # "idle" => \A p \in sync.actions : incidents[p] # "none"

SInv ==
  /\ TypeOK /\ AnswersOK /\ StoresOK /\ BatchesOK /\ SyncOK
  /\ NoReportLost /\ LostOnlyWithItsIncident

-----------------------------------------------------------------------------
(* What the server has answered for stays answered for.                    *)
Grows ==
  /\ heard \subseteq heard'
  /\ \A p \in Press : Answered(p) => Answered(p)'
  /\ \A p \in Press : Settled(p) => Settled(p)'

LEMMA TypeInit == Init => TypeOK
  BY OfflineSyncAssumption DEF Init, TypeOK, NoSync, NoBatch, Stored

(* Presses and the POST.                                                   *)
LEMMA TypePress ==
  ASSUME TypeOK, NEW p \in Press,
         \/ PressOnline(p) \/ PressOffline(p) \/ PostConfirmed(p) \/ PostRejected(p)
         \/ ResolveQueued(p) \/ ServePost(p) \/ PostLost(p)
  PROVE TypeOK'
<1> USE OfflineSyncAssumption DEF TypeOK, tablet, server, Stored
<1>1. CASE PressOnline(p) BY <1>1 DEF PressOnline
<1>2. CASE PressOffline(p) BY <1>2 DEF PressOffline, QueueIncident
<1>3. CASE PostConfirmed(p) BY <1>3 DEF PostConfirmed
<1>4. CASE PostRejected(p) BY <1>4 DEF PostRejected, QueueIncident, Trouble
<1>5. CASE ResolveQueued(p) BY <1>5 DEF ResolveQueued
<1>6. CASE PostLost(p) BY <1>6 DEF PostLost, Trouble
<1>7. CASE ServePost(p)
  <2>1. Live(p) \in Key BY DEF Live, Key
  <2> QED BY <1>7, <2>1 DEF ServePost, Create
<1> QED BY <1>1, <1>2, <1>3, <1>4, <1>5, <1>6, <1>7

(* The sync of the page.                                                   *)
LEMMA TypeSync ==
  ASSUME TypeOK, SyncStep PROVE TypeOK'
<1> USE OfflineSyncAssumption DEF TypeOK, server, Stored
<1> DEFINE I == Pending(incidents)
           A == Pending(actions)
<1>0. I \in SUBSET Press /\ A \in SUBSET Press
  BY DEF Pending
<1>1. ASSUME NEW b \in Batch, StartSync(b) PROVE TypeOK'
  <2>1. NewBatch \in [pc : {"free", "running", "answered", "dead"},
                      incidents : SUBSET Press, actions : SUBSET Press]
    BY <1>0 DEF NewBatch, NoBatch
  <2> QED BY <1>1, <1>0, <2>1 DEF StartSync
<1>2. CASE MarkIncidents BY <1>2 DEF MarkIncidents, Mark, NoBatch
<1>3. CASE MarkActions BY <1>3 DEF MarkActions, Mark, NoSync
<1>4. CASE SyncFails
  <2>1. trouble' \in 0..MaxTrouble BY <1>4 DEF SyncFails, Trouble
  <2>2. sync' \in [pc : {"idle", "sent", "mark"}, batch : Batch \cup {NULL},
                    incidents : SUBSET Press, actions : SUBSET Press]
    BY <1>4 DEF SyncFails, NoSync
  <2>3. batch' \in [Batch -> [pc : {"free", "running", "answered", "dead"},
                              incidents : SUBSET Press, actions : SUBSET Press]]
    BY <1>4 DEF SyncFails, Orphan, NoBatch
  <2> QED BY <1>4, <2>1, <2>2, <2>3 DEF SyncFails
<1> QED BY <1>1, <1>2, <1>3, <1>4 DEF SyncStep

(* The server and the surroundings.                                        *)
LEMMA TypeServe ==
  ASSUME TypeOK, NEW p \in Press, NEW b \in Batch,
         \/ ServeIncident(b, p) \/ ServeAction(b, p)
  PROVE TypeOK'
<1> USE OfflineSyncAssumption DEF TypeOK, tablet, Stored
<1>0. Queued(p) \in Key /\ Live(p) \in Key
  BY DEF Queued, Live, Key
<1>2. CASE ServeIncident(b, p) BY <1>0, <1>2 DEF ServeIncident, Create
<1>3. CASE ServeAction(b, p) BY <1>0, <1>3 DEF ServeAction, Apply
<1> QED BY <1>2, <1>3

LEMMA TypeRest ==
  ASSUME TypeOK,
         \/ \E b \in Batch : AnswerBatch(b) \/ BatchLost(b)
         \/ \E k \in Key : ResolveElsewhere(k) \/ DeleteIncident(k)
         \/ Disconnect \/ Connect \/ Reload
  PROVE TypeOK'
<1> USE OfflineSyncAssumption DEF TypeOK, tablet, server, Stored
<1>1. ASSUME NEW b \in Batch, AnswerBatch(b) PROVE TypeOK'
  BY <1>1 DEF AnswerBatch, NoBatch
<1>2. ASSUME NEW b \in Batch, BatchLost(b) PROVE TypeOK'
  BY <1>2 DEF BatchLost, NoBatch, Trouble
<1>3. ASSUME NEW k \in Key, ResolveElsewhere(k) \/ DeleteIncident(k) PROVE TypeOK'
  BY <1>3 DEF ResolveElsewhere, DeleteIncident
<1>4. CASE Disconnect
  <2>1. trouble' \in 0..MaxTrouble BY <1>4 DEF Disconnect, Trouble
  <2>2. online' \in BOOLEAN BY <1>4 DEF Disconnect
  <2> QED BY <1>4, <2>1, <2>2 DEF Disconnect
<1>5. CASE Connect BY <1>5 DEF Connect
<1>6. CASE Reload BY <1>6 DEF Reload, Orphan, NoBatch, NoSync, Trouble
<1> QED BY <1>1, <1>2, <1>3, <1>4, <1>5, <1>6

LEMMA TypeStep == ASSUME TypeOK, [Next]_vars PROVE TypeOK'
<1>1. CASE UNCHANGED vars
  BY <1>1 DEF TypeOK, vars, tablet, server
<1>2. CASE Next
  <2>1. ASSUME NEW p \in Press,
               \/ PressOnline(p) \/ PressOffline(p) \/ Progress(p)
               \/ ResolveQueued(p) \/ ServePost(p) \/ PostLost(p)
        PROVE TypeOK'
    BY <2>1, TypePress DEF Progress
  <2>2. CASE SyncStep BY <2>2, TypeSync
  <2>3. ASSUME NEW b \in Batch, NEW p \in Press, ServeIncident(b, p) \/ ServeAction(b, p)
        PROVE TypeOK'
    BY <2>3, TypeServe
  <2>4. CASE \E b \in Batch : AnswerBatch(b) \/ BatchLost(b) BY <2>4, TypeRest
  <2>5. CASE \E k \in Key : ResolveElsewhere(k) \/ DeleteIncident(k) BY <2>5, TypeRest
  <2>6. CASE Disconnect \/ Connect \/ Reload BY <2>6, TypeRest
  <2> QED BY <1>2, <2>1, <2>2, <2>3, <2>4, <2>5, <2>6 DEF Next, Serve
<1> QED BY <1>1, <1>2

(* OfflineSync keeps its types, for all constants.                         *)
THEOREM TypeCorrect == Spec => []TypeOK
  BY TypeInit, TypeStep, PTL DEF Spec

-----------------------------------------------------------------------------
(* The steps of the server that write incidents and actions; no other step *)
(* touches what the server keeps.                                          *)
ServerStep ==
  \/ \E p \in Press : ServePost(p)
  \/ \E b \in Batch, p \in Press : ServeIncident(b, p) \/ ServeAction(b, p)
  \/ \E k \in Key : ResolveElsewhere(k) \/ DeleteIncident(k)

LEMMA ServerKept == ASSUME [Next]_vars, ~ServerStep PROVE UNCHANGED server
<1>1. CASE UNCHANGED vars BY <1>1 DEF vars, server
<1>2. CASE Next
  <2> USE DEF tablet, server
  <2>1. ASSUME NEW p \in Press,
               \/ PressOnline(p) \/ PressOffline(p) \/ Progress(p)
               \/ ResolveQueued(p) \/ ServePost(p) \/ PostLost(p)
        PROVE UNCHANGED server
    BY <2>1 DEF PressOnline, PressOffline, Progress, PostConfirmed, PostRejected, ResolveQueued,
                PostLost, ServerStep
  <2>2. CASE SyncStep
    BY <2>2 DEF SyncStep, StartSync, MarkIncidents, MarkActions, SyncFails
  <2>3. ASSUME NEW b \in Batch, Serve(b) \/ BatchLost(b) PROVE UNCHANGED server
    BY <2>3 DEF Serve, AnswerBatch, BatchLost, ServerStep
  <2>4. ASSUME NEW k \in Key, ResolveElsewhere(k) \/ DeleteIncident(k) PROVE UNCHANGED server
    BY <2>4 DEF ServerStep
  <2>5. CASE Disconnect \/ Connect \/ Reload
    BY <2>5 DEF Disconnect, Connect, Reload
  <2> QED BY <1>2, <2>1, <2>2, <2>3, <2>4, <2>5 DEF Next
<1> QED BY <1>1, <1>2

LEMMA Keys ==
  ASSUME NEW p \in Press, NEW q \in Press
  PROVE /\ Queued(p) \in Key /\ Live(p) \in Key /\ Queued(p) # Live(q)
        /\ Queued(p) = Queued(q) => p = q
  BY DEF Queued, Live, Key

(* An answer of create() hears of the press and leaves other keys alone.   *)
LEMMA CreateOK ==
  ASSUME TypeOK, NEW p \in Press, NEW k \in Key, Create(p, k)
  PROVE /\ heard' = heard \cup {p}
        /\ \A l \in Key : row[l] # "none" => row'[l] # "none"
        /\ \A l \in Key \ {k} : row'[l] = row[l]
        /\ row'[k] # "none" \/ Duplicate(k)
  BY DEF Create, TypeOK, Duplicate

(* ServeIncident answers for its report when no item of a batch fails.     *)
LEMMA ServedAnswered ==
  ASSUME TypeOK, MaxFaults = 0, NEW b \in Batch, NEW p \in Press, ServeIncident(b, p)
  PROVE Create(p, Queued(p)) /\ Answered(p)'
        /\ deduped' = IF Duplicate(Queued(p)) THEN deduped \cup {p} ELSE deduped
<1>1. Create(p, Queued(p)) /\ deduped' = IF Duplicate(Queued(p)) THEN deduped \cup {p} ELSE deduped
  BY DEF ServeIncident, TypeOK
<1>2. row'[Queued(p)] # "none" \/ Duplicate(Queued(p))
  BY <1>1, CreateOK, Keys
<1> QED BY <1>1, <1>2 DEF Answered, Queued

LEMMA GrowStep == ASSUME TypeOK, MaxFaults = 0, [Next]_vars PROVE Grows
<1>1. ASSUME NEW p \in Press, ServePost(p) PROVE Grows
  <2>1. Create(p, Live(p)) /\ UNCHANGED <<recorded, deduped, gone>>
    BY <1>1 DEF ServePost
  <2> QED BY <2>1, CreateOK, Keys DEF Grows, Answered, Settled, Queued
<1>2. ASSUME NEW b \in Batch, NEW p \in Press, ServeIncident(b, p) PROVE Grows
  <2>1. /\ Create(p, Queued(p)) /\ deduped \subseteq deduped'
        /\ UNCHANGED <<recorded, gone>>
    BY <1>2, ServedAnswered DEF ServeIncident
  <2> QED BY <2>1, CreateOK, Keys DEF Grows, Answered, Settled, Queued
<1>3. ASSUME NEW b \in Batch, NEW p \in Press, ServeAction(b, p) PROVE Grows
  BY <1>3, Keys DEF ServeAction, Apply, Grows, Answered, Settled, TypeOK, Queued
<1>4. ASSUME NEW k \in Key, ResolveElsewhere(k) PROVE Grows
  BY <1>4, Keys DEF ResolveElsewhere, Grows, Answered, Settled, TypeOK, Queued
<1>5. ASSUME NEW k \in Key, DeleteIncident(k) PROVE Grows
  <2>1. \A p \in Press : Queued(p) # k => row'[Queued(p)] = row[Queued(p)]
    BY <1>5, Keys DEF DeleteIncident, TypeOK
  <2>2. \A p \in Press : Queued(p) = k => p \in gone'
    BY <1>5 DEF DeleteIncident
  <2> QED BY <1>5, <2>1, <2>2 DEF DeleteIncident, Grows, Answered, Settled, TypeOK, Queued
<1>6. CASE ~ServerStep
  BY <1>6, ServerKept DEF server, Grows, Answered, Settled, Queued
<1> QED BY <1>1, <1>2, <1>3, <1>4, <1>5, <1>6 DEF ServerStep

-----------------------------------------------------------------------------
(* Each part of SInv is kept.                                              *)

LEMMA AnswersStep ==
  ASSUME TypeOK, AnswersOK, MaxFaults = 0, [Next]_vars PROVE AnswersOK'
<1>0. heard \subseteq heard'
  BY GrowStep DEF Grows
<1>1. ASSUME NEW p \in Press, Answered(p)' PROVE p \in heard'
  <2>1. CASE Answered(p) BY <1>0, <2>1 DEF AnswersOK
  <2>2. CASE ~Answered(p)
    <3>1. ASSUME NEW q \in Press, ServePost(q) PROVE FALSE
      <4>1. Create(q, Live(q)) /\ UNCHANGED <<deduped, gone>> BY <3>1 DEF ServePost
      <4> QED BY <4>1, CreateOK, Keys, <1>1, <2>2 DEF Answered, Queued
    <3>2. ASSUME NEW b \in Batch, NEW q \in Press, ServeIncident(b, q) PROVE p \in heard'
      <4>1. /\ Create(q, Queued(q))
            /\ deduped' = IF Duplicate(Queued(q)) THEN deduped \cup {q} ELSE deduped
            /\ gone' = gone
        BY <3>2, ServedAnswered DEF ServeIncident
      <4> QED BY <4>1, CreateOK, Keys, <1>1, <2>2 DEF Answered, Queued
    <3>3. ASSUME NEW b \in Batch, NEW q \in Press, ServeAction(b, q) PROVE FALSE
      BY <3>3, Keys, <1>1, <2>2 DEF ServeAction, Apply, Answered, TypeOK, Queued
    <3>4. ASSUME NEW k \in Key, ResolveElsewhere(k) PROVE FALSE
      BY <3>4, Keys, <1>1, <2>2 DEF ResolveElsewhere, Answered, TypeOK, Queued
    <3>5. ASSUME NEW k \in Key, DeleteIncident(k) PROVE FALSE
      <4>1. row'[Queued(p)] \in {row[Queued(p)], "none"}
        BY <3>5, Keys DEF DeleteIncident, TypeOK
      <4>2. p \in gone' /\ Queued(p) = k
        BY <3>5, <4>1, <1>1, <2>2 DEF DeleteIncident, Answered, Queued
      <4> QED BY <3>5, <4>2, <2>2 DEF DeleteIncident, Answered, Queued
    <3>6. CASE ~ServerStep
      BY <3>6, ServerKept, <1>1, <2>2 DEF server, Answered, Queued
    <3> QED BY <3>1, <3>2, <3>3, <3>4, <3>5, <3>6 DEF ServerStep
  <2> QED BY <2>1, <2>2
<1>2. ASSUME NEW p \in Press, post'[p] \in {"stored", "conflict"} PROVE p \in heard'
  <2>1. CASE post[p] \in {"stored", "conflict"} BY <1>0, <2>1 DEF AnswersOK
  <2>2. CASE post[p] \notin {"stored", "conflict"} /\ ServePost(p)
    BY <2>2, CreateOK, Keys DEF ServePost
  <2>3. CASE ~ServePost(p)
    <3>1. post'[p] = post[p] \/ post'[p] \in {"sent", "failed"}
      <4>1. CASE UNCHANGED vars BY <4>1 DEF vars
      <4>2. ASSUME NEW q \in Press,
                   \/ PressOnline(q) \/ PressOffline(q) \/ Progress(q)
                   \/ ResolveQueued(q) \/ ServePost(q) \/ PostLost(q)
            PROVE post'[p] = post[p] \/ post'[p] \in {"sent", "failed"}
        BY <4>2, <2>3 DEF TypeOK, PressOnline, PressOffline, Progress, PostConfirmed,
             PostRejected, ResolveQueued, ServePost, PostLost
      <4>3. CASE SyncStep
        BY <4>3 DEF SyncStep, StartSync, MarkIncidents, MarkActions, SyncFails
      <4>4. ASSUME NEW b \in Batch, Serve(b) \/ BatchLost(b) PROVE post' = post
        BY <4>4 DEF Serve, ServeIncident, ServeAction, AnswerBatch, BatchLost
      <4>5. ASSUME NEW k \in Key, ResolveElsewhere(k) \/ DeleteIncident(k) PROVE post' = post
        BY <4>5 DEF ResolveElsewhere, DeleteIncident
      <4>6. CASE Disconnect \/ Connect \/ Reload
        BY <4>6 DEF Disconnect, Connect, Reload
      <4> QED BY <4>1, <4>2, <4>3, <4>4, <4>5, <4>6 DEF Next
    <3> QED BY <3>1, <1>2, <1>0 DEF AnswersOK
  <2> QED BY <2>1, <2>2, <2>3
<1> QED BY <1>1, <1>2 DEF AnswersOK

(* The steps that write a store.                                           *)
LEMMA StoreWrites ==
  ASSUME [Next]_vars
  PROVE \/ UNCHANGED <<incidents, actions>>
        \/ \E p \in Press : PressOffline(p) \/ PostRejected(p) \/ ResolveQueued(p)
        \/ MarkIncidents \/ MarkActions
<1> DEFINE Goal == \/ UNCHANGED <<incidents, actions>>
                   \/ \E p \in Press : PressOffline(p) \/ PostRejected(p) \/ ResolveQueued(p)
                   \/ MarkIncidents \/ MarkActions
<1> SUFFICES Goal OBVIOUS
<1>1. CASE UNCHANGED vars BY <1>1 DEF vars, tablet
<1>2. ASSUME NEW p \in Press,
             \/ PressOnline(p) \/ PressOffline(p) \/ Progress(p)
             \/ ResolveQueued(p) \/ ServePost(p) \/ PostLost(p)
      PROVE Goal
  BY <1>2 DEF PressOnline, Progress, PostConfirmed, ServePost, PostLost, tablet
<1>3. CASE SyncStep
  BY <1>3 DEF SyncStep, StartSync, SyncFails
<1>4. ASSUME NEW b \in Batch, Serve(b) \/ BatchLost(b) PROVE Goal
  BY <1>4 DEF Serve, ServeIncident, ServeAction, AnswerBatch, BatchLost, tablet
<1>5. ASSUME NEW k \in Key, ResolveElsewhere(k) \/ DeleteIncident(k) PROVE Goal
  BY <1>5 DEF ResolveElsewhere, DeleteIncident, tablet
<1>6. CASE Disconnect \/ Connect \/ Reload
  BY <1>6 DEF Disconnect, Connect, Reload
<1> HIDE DEF Goal
<1> QED BY <1>1, <1>2, <1>3, <1>4, <1>5, <1>6 DEF Next

(* Only a mark moves an entry of a store to "synced", and no entry leaves. *)
LEMMA StoresStep ==
  ASSUME TypeOK, StoresOK, SyncOK, MaxFaults = 0, [Next]_vars PROVE StoresOK'
<1>0. \A p \in Press : Answered(p) => Answered(p)'
  BY GrowStep DEF Grows
<1> USE DEF StoresOK
<1>1. CASE UNCHANGED <<incidents, actions>> BY <1>0, <1>1
<1>2. ASSUME NEW p \in Press, PressOffline(p) \/ PostRejected(p) PROVE StoresOK'
  BY <1>0, <1>2 DEF PressOffline, PostRejected, QueueIncident, TypeOK
<1>3. ASSUME NEW p \in Press, ResolveQueued(p) PROVE StoresOK'
  BY <1>0, <1>3 DEF ResolveQueued, TypeOK
<1>4. CASE MarkIncidents
  <2>1. \A p \in sync.incidents : Answered(p)
    BY <1>4 DEF MarkIncidents, SyncOK
  <2> QED BY <1>0, <1>4, <2>1 DEF MarkIncidents, Mark, TypeOK
<1>5. CASE MarkActions
  <2>1. \A p \in Press : p \in sync.actions => incidents[p] # "none"
    BY <1>5 DEF MarkActions, SyncOK
  <2> QED BY <1>0, <1>5, <2>1 DEF MarkActions, Mark, TypeOK
<1> QED BY <1>1, <1>2, <1>3, <1>4, <1>5, StoreWrites

LEMMA StoredStays ==
  ASSUME TypeOK, [Next]_vars, NEW p \in Press, incidents[p] # "none"
  PROVE incidents'[p] # "none"
<1>1. CASE UNCHANGED <<incidents, actions>> BY <1>1
<1>2. ASSUME NEW q \in Press, PressOffline(q) \/ PostRejected(q) \/ ResolveQueued(q)
      PROVE incidents'[p] # "none"
  BY <1>2 DEF PressOffline, PostRejected, QueueIncident, ResolveQueued, TypeOK
<1>3. CASE MarkIncidents \/ MarkActions
  BY <1>3 DEF MarkIncidents, MarkActions, Mark, TypeOK
<1> QED BY <1>1, <1>2, <1>3, StoreWrites

(* The page begins, ends or gives up a sync.                               *)
LEMMA BatchOfPage ==
  ASSUME TypeOK, StoresOK, BatchesOK, SyncOK, MaxFaults = 0, SyncStep \/ Reload
  PROVE BatchesOK' /\ SyncOK'
<1>0. [Next]_vars BY DEF Next
<1>1. \A p \in Press : Answered(p) => Answered(p)' BY <1>0, GrowStep DEF Grows
<1>2. \A p \in Press : Settled(p) => Settled(p)' BY <1>0, GrowStep DEF Grows
<1>3. \A p \in Press : incidents[p] # "none" => incidents'[p] # "none"
  BY <1>0, StoredStays
<1>4. ASSUME NEW b \in Batch, StartSync(b) PROVE BatchesOK' /\ SyncOK'
  <2>1. /\ sync' = [pc |-> "sent", batch |-> b,
                    incidents |-> Pending(incidents), actions |-> Pending(actions)]
        /\ batch' = [batch EXCEPT ![b] = NewBatch] /\ batch'[b] = NewBatch
        /\ UNCHANGED <<incidents, actions>>
    BY <1>4 DEF StartSync, TypeOK
  <2>2. /\ NewBatch.pc # "answered"
        /\ NewBatch.pc = "running" =>
             NewBatch.incidents = Pending(incidents) /\ NewBatch.actions = Pending(actions)
    BY DEF NewBatch, NoBatch
  <2>3. \A p \in Pending(actions) : p \in Pending(incidents) \/ Answered(p)
    BY DEF Pending, StoresOK, TypeOK, Stored
  <2>4. \A p \in Pending(actions) : p \in Press /\ incidents[p] # "none"
    BY DEF Pending, StoresOK
  <2>5. BatchesOK'
    BY <2>1, <2>2, <2>3, <2>4, <1>1 DEF BatchesOK, TypeOK
  <2>6. SyncOK'
    BY <2>1, <2>2, <2>4 DEF SyncOK
  <2> QED BY <2>5, <2>6
<1>5. CASE MarkIncidents
  <2>1. /\ sync' = [sync EXCEPT !.pc = "mark"]
        /\ batch' = [batch EXCEPT ![sync.batch] = NoBatch]
        /\ \A p \in sync.actions : Settled(p) /\ p \in Press /\ incidents[p] # "none"
    BY <1>5 DEF MarkIncidents, SyncOK, TypeOK
  <2>2. BatchesOK'
    BY <2>1, <1>1 DEF BatchesOK, TypeOK, NoBatch
  <2>3. SyncOK'
    BY <2>1, <1>2, <1>3 DEF SyncOK, TypeOK
  <2> QED BY <2>2, <2>3
<1>6. CASE MarkActions
  <2>1. BatchesOK' BY <1>6, <1>1 DEF MarkActions, BatchesOK, TypeOK
  <2>2. SyncOK' BY <1>6 DEF MarkActions, SyncOK, NoSync
  <2> QED BY <2>1, <2>2
<1>7. CASE SyncFails \/ Reload
  <2>1. SyncOK' BY <1>7 DEF SyncFails, Reload, SyncOK, NoSync
  <2>2. \A b \in Batch : batch'[b].pc = "running" => batch'[b] = batch[b]
    BY <1>7 DEF SyncFails, Reload, Orphan, NoBatch, TypeOK
  <2>3. BatchesOK' BY <2>2, <1>1 DEF BatchesOK, TypeOK
  <2> QED BY <2>1, <2>3
<1> QED BY <1>4, <1>5, <1>6, <1>7 DEF SyncStep

(* The server works off, answers or loses a batch.                         *)
LEMMA BatchOfServer ==
  ASSUME TypeOK, BatchesOK, SyncOK, MaxFaults = 0, NEW b \in Batch, Serve(b) \/ BatchLost(b)
  PROVE BatchesOK' /\ SyncOK'
<1>0. [Next]_vars BY DEF Next
<1>1. \A p \in Press : Answered(p) => Answered(p)' BY <1>0, GrowStep DEF Grows
<1>2. \A p \in Press : Settled(p) => Settled(p)' BY <1>0, GrowStep DEF Grows
<1>3. UNCHANGED <<incidents, actions, sync>>
  BY DEF Serve, ServeIncident, ServeAction, AnswerBatch, BatchLost, tablet
<1>4. ASSUME NEW q \in Press, ServeIncident(b, q) PROVE BatchesOK' /\ SyncOK'
  <2>1. batch' = [batch EXCEPT ![b].incidents = @ \ {q}] /\ batch[b].pc = "running"
    BY <1>4 DEF ServeIncident
  <2>2. Answered(q)' BY <1>4, ServedAnswered
  <2>3. BatchesOK' BY <1>1, <2>1, <2>2 DEF BatchesOK, TypeOK
  <2>4. SyncOK' BY <1>1, <1>2, <1>3, <2>1, <2>2 DEF SyncOK, TypeOK
  <2> QED BY <2>3, <2>4
<1>5. ASSUME NEW q \in Press, ServeAction(b, q) PROVE BatchesOK' /\ SyncOK'
  <2>1. /\ batch' = [batch EXCEPT ![b].actions = @ \ {q}] /\ batch[b].pc = "running"
        /\ batch[b].incidents = {} /\ q \in batch[b].actions /\ Apply(q) /\ UNCHANGED <<deduped, gone>>
    BY <1>5 DEF ServeAction, TypeOK
  <2>2. Answered(q) BY <2>1 DEF BatchesOK
  <2>3. Settled(q)' BY <2>1, <2>2 DEF Apply, Answered, Settled
  <2>4. BatchesOK' BY <1>1, <2>1 DEF BatchesOK, TypeOK
  <2>5. SyncOK' BY <1>1, <1>2, <1>3, <2>1, <2>3 DEF SyncOK, TypeOK
  <2> QED BY <2>4, <2>5
<1>6. CASE AnswerBatch(b)
  <2>1. /\ batch' = [batch EXCEPT ![b] = IF sync.batch = b THEN [@ EXCEPT !.pc = "answered"]
                                                           ELSE NoBatch]
        /\ batch[b].pc = "running" /\ batch[b].incidents = {} /\ batch[b].actions = {}
    BY <1>6 DEF AnswerBatch
  <2>2. BatchesOK' BY <1>1, <2>1 DEF BatchesOK, TypeOK, NoBatch
  <2>3. SyncOK' BY <1>1, <1>2, <1>3, <2>1 DEF SyncOK, TypeOK, NoBatch
  <2> QED BY <2>2, <2>3
<1>7. CASE BatchLost(b)
  <2>1. /\ \A c \in Batch : batch'[c].pc \in {"running", "answered"} => batch'[c] = batch[c]
    BY <1>7 DEF BatchLost, TypeOK, NoBatch
  <2>2. BatchesOK' BY <1>1, <2>1 DEF BatchesOK, TypeOK
  <2>3. SyncOK' BY <1>1, <1>2, <1>3, <2>1 DEF SyncOK, TypeOK
  <2> QED BY <2>2, <2>3
<1> QED BY <1>4, <1>5, <1>6, <1>7 DEF Serve

(* The other steps leave the batches and the sync alone.                   *)
LEMMA BatchKept ==
  ASSUME TypeOK, BatchesOK, SyncOK, MaxFaults = 0, [Next]_vars, UNCHANGED <<batch, sync>>
  PROVE BatchesOK' /\ SyncOK'
<1>1. \A p \in Press : Answered(p) => Answered(p)' BY GrowStep DEF Grows
<1>2. \A p \in Press : Settled(p) => Settled(p)' BY GrowStep DEF Grows
<1>3. \A p \in Press : incidents[p] # "none" => incidents'[p] # "none" BY StoredStays
<1>4. BatchesOK' BY <1>1 DEF BatchesOK, TypeOK
<1>5. SyncOK' BY <1>1, <1>2, <1>3 DEF SyncOK, TypeOK
<1> QED BY <1>4, <1>5

LEMMA BatchAndSync ==
  ASSUME TypeOK, StoresOK, BatchesOK, SyncOK, MaxFaults = 0, [Next]_vars
  PROVE BatchesOK' /\ SyncOK'
<1> USE DEF tablet
<1>1. CASE UNCHANGED vars BY <1>1, BatchKept DEF vars
<1>2. ASSUME NEW p \in Press,
             \/ PressOnline(p) \/ PressOffline(p) \/ Progress(p)
             \/ ResolveQueued(p) \/ ServePost(p) \/ PostLost(p)
      PROVE UNCHANGED <<batch, sync>>
  BY <1>2 DEF PressOnline, PressOffline, Progress, PostConfirmed, PostRejected, ResolveQueued,
       ServePost, PostLost
<1>3. ASSUME NEW k \in Key, ResolveElsewhere(k) \/ DeleteIncident(k) PROVE UNCHANGED <<batch, sync>>
  BY <1>3 DEF ResolveElsewhere, DeleteIncident
<1>4. CASE Disconnect \/ Connect
  BY <1>4, BatchKept DEF Disconnect, Connect
<1>5. CASE SyncStep \/ Reload BY <1>5, BatchOfPage
<1>6. ASSUME NEW b \in Batch, Serve(b) \/ BatchLost(b) PROVE BatchesOK' /\ SyncOK'
  BY <1>6, BatchOfServer
<1> QED BY <1>1, <1>2, <1>3, <1>4, <1>5, <1>6, BatchKept DEF Next

(* A press is confirmed by an answer of the server or by the queue.        *)
LEMMA ReportStep ==
  ASSUME TypeOK, AnswersOK, SyncOK, NoReportLost, MaxFaults = 0, [Next]_vars
  PROVE NoReportLost'
<1>0. heard \subseteq heard' BY GrowStep DEF Grows
<1> SUFFICES ASSUME NEW p \in Press, press'[p] = "confirmed", p \notin heard'
             PROVE incidents'[p] = "pending"
  BY DEF NoReportLost
<1>1. CASE press[p] = "confirmed"
  <2>1. incidents[p] = "pending" BY <1>0, <1>1 DEF NoReportLost
  <2>2. ASSUME NEW q \in Press, PressOffline(q) \/ PostRejected(q) \/ ResolveQueued(q)
        PROVE incidents'[p] = "pending"
    BY <2>1, <2>2 DEF PressOffline, PostRejected, QueueIncident, ResolveQueued, TypeOK
  <2>3. CASE MarkIncidents
    <3>1. p \notin sync.incidents
      BY <2>3, <1>0 DEF MarkIncidents, SyncOK, AnswersOK
    <3> QED BY <2>1, <2>3, <3>1 DEF MarkIncidents, Mark
  <2>4. CASE MarkActions BY <2>1, <2>4 DEF MarkActions
  <2> QED BY <2>1, <2>2, <2>3, <2>4, StoreWrites
<1>2. CASE press[p] # "confirmed"
  <2>1. CASE UNCHANGED press BY <1>2, <2>1
  <2>2. ASSUME NEW q \in Press, PressOnline(q) PROVE FALSE
    BY <1>2, <2>2 DEF PressOnline, TypeOK
  <2>3. ASSUME NEW q \in Press, PressOffline(q) \/ PostRejected(q)
        PROVE incidents'[p] = "pending"
    BY <1>2, <2>3 DEF PressOffline, PostRejected, QueueIncident, TypeOK
  <2>4. ASSUME NEW q \in Press, PostConfirmed(q) PROVE FALSE
    BY <1>0, <1>2, <2>4 DEF PostConfirmed, AnswersOK, TypeOK
  <2>5. CASE Reload BY <1>2, <2>5 DEF Reload
  <2>6. ASSUME NEW q \in Press, ResolveQueued(q) \/ ServePost(q) \/ PostLost(q)
        PROVE UNCHANGED press
    BY <2>6 DEF ResolveQueued, ServePost, PostLost, tablet
  <2>7. CASE SyncStep
    BY <2>1, <2>7 DEF SyncStep, StartSync, MarkIncidents, MarkActions, SyncFails
  <2>8. ASSUME NEW b \in Batch, Serve(b) \/ BatchLost(b) PROVE UNCHANGED press
    BY <2>8 DEF Serve, ServeIncident, ServeAction, AnswerBatch, BatchLost, tablet
  <2>9. ASSUME NEW k \in Key, ResolveElsewhere(k) \/ DeleteIncident(k) PROVE UNCHANGED press
    BY <2>9 DEF ResolveElsewhere, DeleteIncident, tablet
  <2>10. CASE Disconnect \/ Connect BY <2>1, <2>10 DEF Disconnect, Connect
  <2>11. CASE UNCHANGED vars BY <2>1, <2>11 DEF vars, tablet
  <2> QED BY <2>1, <2>2, <2>3, <2>4, <2>5, <2>6, <2>7, <2>8, <2>9, <2>10, <2>11
          DEF Next, Progress
<1> QED BY <1>1, <1>2

LEMMA ResolutionStep ==
  ASSUME TypeOK, SyncOK, LostOnlyWithItsIncident, MaxFaults = 0, [Next]_vars
  PROVE LostOnlyWithItsIncident'
<1>0. \A p \in Press : Settled(p) => Settled(p)' BY GrowStep DEF Grows
<1> USE DEF LostOnlyWithItsIncident, Settled
<1>1. CASE UNCHANGED <<incidents, actions>> BY <1>0, <1>1
<1>2. ASSUME NEW p \in Press, PressOffline(p) \/ PostRejected(p) \/ ResolveQueued(p)
      PROVE LostOnlyWithItsIncident'
  BY <1>0, <1>2 DEF PressOffline, PostRejected, ResolveQueued, TypeOK
<1>3. CASE MarkIncidents BY <1>0, <1>3 DEF MarkIncidents
<1>4. CASE MarkActions BY <1>0, <1>4 DEF MarkActions, Mark, SyncOK, TypeOK
<1> QED BY <1>1, <1>2, <1>3, <1>4, StoreWrites

LEMMA SInvInit == ASSUME Init PROVE SInv
<1>1. TypeOK BY TypeInit
<1>2. AnswersOK /\ StoresOK
  BY DEF Init, AnswersOK, StoresOK, Answered, Key, Queued
<1>3. BatchesOK /\ SyncOK
  BY DEF Init, BatchesOK, SyncOK, NoBatch, NoSync
<1>4. NoReportLost /\ LostOnlyWithItsIncident
  BY DEF Init, NoReportLost, LostOnlyWithItsIncident
<1> QED BY <1>1, <1>2, <1>3, <1>4 DEF SInv

LEMMA SInvStep == ASSUME SInv, MaxFaults = 0, [Next]_vars PROVE SInv'
<1> USE DEF SInv
<1>1. TypeOK' BY TypeStep
<1>2. AnswersOK' BY AnswersStep
<1>3. StoresOK' BY StoresStep
<1>4. BatchesOK' /\ SyncOK' BY BatchAndSync
<1>5. NoReportLost' BY ReportStep
<1>6. LostOnlyWithItsIncident' BY ResolutionStep
<1> QED BY <1>1, <1>2, <1>3, <1>4, <1>5, <1>6

(* As long as the server fails on no item of a batch, a confirmed press is *)
(* on the server or still queued (offline.ts, syncPending), whatever is    *)
(* lost, repeated or reloaded, for any limits of a batch.                  *)
THEOREM ReportsKept == ASSUME MaxFaults = 0 PROVE Spec => []NoReportLost
<1>1. Init => SInv BY SInvInit
<1>2. SInv /\ [Next]_vars => SInv' BY SInvStep
<1>3. SInv => NoReportLost BY DEF SInv
<1> QED BY <1>1, <1>2, <1>3, PTL DEF Spec

(* Likewise a queued resolution leaves the tablet only when it is applied  *)
(* or its report was answered as a duplicate (syncBatch, reports first).   *)
THEOREM ResolutionsKept == ASSUME MaxFaults = 0 PROVE Spec => []LostOnlyWithItsIncident
<1>1. Init => SInv BY SInvInit
<1>2. SInv /\ [Next]_vars => SInv' BY SInvStep
<1>3. SInv => LostOnlyWithItsIncident BY DEF SInv
<1> QED BY <1>1, <1>2, <1>3, PTL DEF Spec
-----------------------------------------------------------------------------
(* What module Outbox sees of the tablet and the server.                   *)
Report ==
  [p \in Press |-> CASE p \in heard -> "delivered"
                     [] p \notin heard /\ press[p] = "confirmed" -> "held"
                     [] OTHER -> "none"]

(* No step hears of two presses, or confirms one and hears of another.     *)
OneReport(p) ==
  /\ heard' \in {heard, heard \cup {p}}
  /\ \A q \in Press \ {p} : (press[q] = "confirmed") <=> (press'[q] = "confirmed")
  /\ press[p] = "confirmed" => press'[p] = "confirmed"
  /\ heard' = heard \/ UNCHANGED press

LEMMA OneReportStep ==
  ASSUME TypeOK, [Next]_vars, ~UNCHANGED Report PROVE \E p \in Press : OneReport(p)
<1> SUFFICES ASSUME ~UNCHANGED <<heard, press>>, ~Reload PROVE \E p \in Press : OneReport(p)
  BY DEF Report, Reload, TypeOK, server
<1> USE DEF TypeOK, OneReport, tablet, server
<1>1. CASE UNCHANGED vars BY <1>1 DEF vars
<1>2. ASSUME NEW p \in Press,
             \/ PressOnline(p) \/ PressOffline(p) \/ Progress(p) \/ ServePost(p)
      PROVE OneReport(p)
  BY <1>2 DEF PressOnline, PressOffline, QueueIncident, Progress, PostConfirmed, PostRejected,
       ServePost, Create
<1>3. ASSUME NEW p \in Press, ResolveQueued(p) \/ PostLost(p) PROVE FALSE
  BY <1>3 DEF ResolveQueued, PostLost
<1>4. CASE SyncStep
  BY <1>4 DEF SyncStep, StartSync, MarkIncidents, MarkActions, SyncFails
<1>5. ASSUME NEW b \in Batch, NEW p \in Press, ServeIncident(b, p) PROVE OneReport(p)
  BY <1>5 DEF ServeIncident, Create
<1>6. ASSUME NEW b \in Batch, NEW p \in Press, ServeAction(b, p) PROVE FALSE
  BY <1>6 DEF ServeAction
<1>7. ASSUME NEW b \in Batch, AnswerBatch(b) \/ BatchLost(b) PROVE FALSE
  BY <1>7 DEF AnswerBatch, BatchLost
<1>8. ASSUME NEW k \in Key, ResolveElsewhere(k) \/ DeleteIncident(k) PROVE FALSE
  BY <1>8 DEF ResolveElsewhere, DeleteIncident
<1>9. CASE Disconnect \/ Connect
  BY <1>9 DEF Disconnect, Connect
<1> HIDE DEF OneReport
<1> QED BY <1>1, <1>2, <1>3, <1>4, <1>5, <1>6, <1>7, <1>8, <1>9 DEF Next, Serve

LEMMA PromiseStep ==
  ASSUME TypeOK, [Next]_vars PROVE [Promise!Next]_Report
<1> SUFFICES ASSUME ~UNCHANGED Report PROVE Promise!Next
  OBVIOUS
<1>1. PICK p \in Press : OneReport(p) BY OneReportStep
<1>2. \A q \in Press \ {p} : Report'[q] = Report[q]
  BY <1>1 DEF OneReport, Report
<1>3. Report' = [Report EXCEPT ![p] = Report'[p]]
  BY <1>2 DEF Report
<1>4. CASE Report'[p] = "delivered"
  <2>1. Report[p] # "delivered" BY <1>3, <1>4 DEF Report
  <2> QED BY <1>3, <1>4, <2>1 DEF Promise!Next, Promise!Deliver, Report
<1>5. CASE Report'[p] # "delivered"
  <2>1. Report[p] = "none" /\ Report'[p] = "held"
    BY <1>1, <1>3, <1>5 DEF OneReport, Report
  <2> QED BY <1>3, <2>1 DEF Promise!Next, Promise!Accept, Report
<1> QED BY <1>4, <1>5

(* The tablet and the server implement the outbox: every step of theirs    *)
(* accepts one press, delivers one, or changes nothing a reporter sees; no *)
(* press is taken back or delivered twice (handleIssuePress, syncBatch).   *)
THEOREM ImplementsOutbox == Spec => Promise!Spec
<1>1. Init => Promise!Init
  BY DEF Init, Promise!Init
<1>2. TypeOK /\ [Next]_vars => [Promise!Next]_Report BY PromiseStep
<1> QED BY <1>1, <1>2, TypeCorrect, PTL DEF Spec, Promise!Spec, Report
=============================================================================
