-------------------------- MODULE SensorBridgeProofs --------------------------
(***************************************************************************)
(* Ends follow starts, and no visit is counted twice without a loss, for    *)
(* any gaps between two passes of the loop, any number of visits, troubles *)
(* and tunings.                                                            *)
(***************************************************************************)
EXTENDS SensorBridge, TLAPS, FiniteSetTheorems

Tuning  == [occ : Int \cup {NULL}, emp : Int \cup {NULL}]
AnyCall == [event : {"presence_start", "presence_end", "heartbeat"}, visits : SUBSET Nat,
            late : Nat, pc : {"sent", "create", "store", "ok", "error"}, config : Tuning]
AnyEvent == [type : {"presence_start", "presence_end", "heartbeat"}, visits : SUBSET Nat]

(* As much of the types as the argument needs.                             *)
ShapeOK ==
  /\ mode \in {"run", "portal"} /\ visit \in Nat /\ trouble \in Nat /\ occupied \in BOOLEAN
  /\ pending \in [start : SUBSET Nat, end : Nat]
  /\ row \in Tuning \cup {NULL} /\ events \in Seq(AnyEvent) /\ calls \subseteq AnyCall

(* The bridge waits for one answer at a time, and for none in the portal;  *)
(* while it waits for the answer to a start its flag does not change.      *)
OneWaits ==
  /\ \A c, d \in calls : Waited(c) /\ Waited(d) => c = d
  /\ mode = "portal" => \A c \in calls : ~Waited(c)

Started(V) == \E m \in DOMAIN events :
  events[m].type = "presence_start" /\ V \subseteq events[m].visits

StartPending ==
  \A c \in calls : Waited(c) /\ c.event = "presence_start" =>
    c.visits = pending.start /\ (c.pc = "ok" => Started(c.visits))

(* A visit that can still end has its start stored or pending; an end that *)
(* is on its way has it stored.                                            *)
Announced(v) == v \in pending.start \/ Started({v})
Announcing ==
  /\ occupied => Announced(visit)
  /\ pending.end # 0 => Announced(pending.end)
  /\ \A c \in calls : c.event = "presence_end" => Started(c.visits)

BInv == ShapeOK /\ OneWaits /\ StartPending /\ Announcing /\ EndsFollowStarts

-----------------------------------------------------------------------------
(* The invariant holds at first.                                           *)
LEMMA BridgeInit == Init => BInv
<1> SUFFICES ASSUME Init PROVE BInv
  OBVIOUS
<1>1. ShapeOK
  <2>1. events \in Seq(AnyEvent)
    BY DEF Init
  <2>2. pending \in [start : SUBSET Nat, end : Nat]
    BY DEF Init, None
  <2> QED
    BY <2>1, <2>2 DEF Init, ShapeOK
<1>2. OneWaits /\ StartPending /\ Announcing
  BY DEF Init, OneWaits, StartPending, Announcing, None
<1>3. EndsFollowStarts
  BY DEF Init, EndsFollowStarts
<1> QED
  BY <1>1, <1>2, <1>3 DEF BInv

(* Steps that leave the events and the bridge's own state alone, and only  *)
(* move or drop calls that keep their report.                              *)
LEMMA CallsMove ==
  ASSUME BInv, calls' \subseteq AnyCall, UNCHANGED <<visit, occupied, pending, events, mode>>,
         trouble' \in Nat, row' \in Tuning \cup {NULL},
         \A d \in calls' : \E c \in calls :
           /\ d.event = c.event /\ d.visits = c.visits
           /\ Waited(d) => Waited(c) /\ (d.pc = "ok" => c.pc = "ok"),
         \A c, d \in calls' : Waited(c) /\ Waited(d) => c = d
  PROVE  BInv'
<1>1. ShapeOK'
  BY DEF BInv, ShapeOK
<1>2. OneWaits'
  BY DEF BInv, OneWaits, Waited
<1>3. StartPending'
  BY DEF BInv, StartPending, Started, Waited
<1>4. Announcing'
  BY DEF BInv, Announcing, Announced, Started
<1>5. EndsFollowStarts'
  BY DEF BInv, EndsFollowStarts
<1> QED
  BY <1>1, <1>2, <1>3, <1>4, <1>5 DEF BInv

(* The loop: a start rises or an end falls, and at most one report is sent.*)
LEMMA PassStep ==
  ASSUME BInv, NEW d \in Gaps, NEW frames \in SUBSET {"present", "absent"}, Pass(d, frames)
  PROVE  BInv'
<1> DEFINE s    == Pumped(d, frames)
           rise == Rises(s)
           fall == Falls(s)
           v    == IF rise THEN visit + 1 ELSE visit
           p    == [start |-> IF rise THEN pending.start \cup {v} ELSE pending.start,
                    end   |-> IF fall THEN visit ELSE pending.end]
           age  == Capped(beat + d, HEARTBEAT_EVERY_MS)
           due  == IF net = "noWifi" THEN {} ELSE Due(p, age)
           sent == IF net = "up" /\ nvs.code THEN due ELSE {}
<1>1. /\ mode = "run" /\ \A c \in calls : ~Waited(c)
      /\ visit' = v /\ pending' = p /\ occupied' = ((occupied \/ rise) /\ ~fall)
      /\ calls' = calls \cup {Report(e, p) : e \in sent}
      /\ UNCHANGED <<mode, row, events, trouble>>
  BY DEF Pass, server
<1>2. /\ rise \in BOOLEAN /\ fall \in BOOLEAN /\ ~(rise /\ fall)
      /\ rise => ~occupied
      /\ fall => occupied
  BY DEF Rises, Falls, Fresh, Long
<1> HIDE DEF s, rise, fall
<1>3. ShapeOK
  BY DEF BInv
<1>4. /\ p \in [start : SUBSET Nat, end : Nat] /\ v \in Nat
      /\ rise => v = visit + 1 /\ p.start = pending.start \cup {v}
      /\ ~rise => v = visit /\ p.start = pending.start
      /\ p.end = IF fall THEN visit ELSE pending.end
  BY <1>2, <1>3 DEF ShapeOK
<1>5. /\ sent \subseteq {"presence_start", "presence_end", "heartbeat"}
      /\ \A e, f \in sent : e = f
      /\ "presence_end" \in sent => p.start = {} /\ p.end # 0
  BY DEF Due
<1> HIDE DEF p, v, sent, age, due
<1>6. \A x \in calls' \ calls :
        /\ x \in AnyCall /\ Waited(x) /\ x.pc = "sent" /\ x.event \in sent
        /\ x.event = "presence_start" => x.visits = p.start
        /\ x.event = "presence_end" => x.visits = {p.end}
  <2> SUFFICES ASSUME NEW e \in sent
               PROVE  LET x == Report(e, p) IN
                 /\ x \in AnyCall /\ Waited(x) /\ x.pc = "sent" /\ x.event \in sent
                 /\ x.event = "presence_start" => x.visits = p.start
                 /\ x.event = "presence_end" => x.visits = {p.end}
    BY <1>1
  <2> QED
    BY <1>4, <1>5 DEF Report, AnyCall, Waited, Untuned, Tuning
<1>7. \A x, y \in calls' \ calls : x = y
  BY <1>1, <1>5
<1>8. ShapeOK'
  <2>1. calls' \subseteq AnyCall
    BY <1>3, <1>6 DEF ShapeOK
  <2> QED
    BY <1>1, <1>2, <1>3, <1>4, <2>1 DEF ShapeOK
<1>9. OneWaits'
  <2>1. \A x \in calls' : Waited(x) => x \notin calls
    BY <1>1
  <2> QED
    BY <1>1, <1>7, <2>1 DEF OneWaits, Waited
<1>10. StartPending'
  <2> SUFFICES ASSUME NEW c \in calls', Waited(c), c.event = "presence_start"
               PROVE  c.visits = pending'.start /\ c.pc # "ok"
    BY DEF StartPending, Waited
  <2>1. c \notin calls
    BY <1>1
  <2> QED
    BY <1>1, <1>6, <2>1
<1>12. (occupied => Announced(visit))' /\ (pending.end # 0 => Announced(pending.end))'
  <2>1. \A x : Announced(x) => Announced(x)'
    BY <1>1, <1>4 DEF Announced, Started
  <2>2. rise => visit' \in pending'.start
    BY <1>1, <1>4
  <2>3. ~rise => visit' = visit
    BY <1>1, <1>4
  <2>4. pending'.end = IF fall THEN visit ELSE pending.end
    BY <1>1, <1>4
  <2>5. (occupied => Announced(visit)) /\ (pending.end # 0 => Announced(pending.end))
    BY DEF BInv, Announcing
  <2>6. CASE rise
    <3>1. Announced(visit)'
      BY <2>2, <2>6 DEF Announced
    <3>2. pending'.end = pending.end
      BY <1>2, <2>4, <2>6
    <3> QED
      BY <2>1, <2>5, <3>1, <3>2
  <2>7. CASE ~rise
    <3>1. occupied' => occupied
      BY <1>1, <2>7
    <3>2. fall => pending'.end = visit /\ occupied
      BY <1>2, <2>4
    <3>0. ASSUME occupied' PROVE Announced(visit)'
      <4>1. Announced(visit) /\ visit' = visit
        BY <2>3, <2>5, <2>7, <3>0, <3>1
      <4> QED
        BY <2>1, <4>1 DEF Announced, Started
    <3>3. (occupied => Announced(visit))'
      BY <3>0
    <3>4. pending'.end # 0 => Announced(pending.end)'
      <4>1. CASE fall
        BY <2>1, <2>5, <3>2, <4>1 DEF Announced, Started
      <4>2. CASE ~fall
        BY <2>1, <2>4, <2>5, <4>2 DEF Announced, Started
      <4> QED
        BY <4>1, <4>2
    <3> QED
      BY <3>3, <3>4
  <2> QED
    BY <2>6, <2>7
<1>13. \A c \in calls' : c.event = "presence_end" => Started(c.visits)'
  <2> SUFFICES ASSUME NEW c \in calls', c.event = "presence_end" PROVE Started(c.visits)'
    OBVIOUS
  <2>1. CASE c \in calls
    BY <1>1, <2>1 DEF BInv, Announcing, Started
  <2>2. CASE c \notin calls
    <3>1. "presence_end" \in sent /\ c.visits = {pending'.end}
      BY <1>1, <1>6, <2>2
    <3>2. pending'.end # 0 /\ pending'.start = {}
      BY <1>1, <1>5, <3>1
    <3> QED
      BY <1>12, <3>1, <3>2 DEF Announced
  <2> QED
    BY <2>1, <2>2
<1>14. Announcing'
  BY <1>12, <1>13 DEF Announcing
<1>15. EndsFollowStarts'
  BY <1>1 DEF BInv, EndsFollowStarts
<1> QED
  BY <1>8, <1>9, <1>10, <1>14, <1>15 DEF BInv

(* An acknowledged start is stored before its flag is cleared.             *)
LEMMA AnsweredStep ==
  ASSUME BInv, NEW c \in calls, Answered(c)
  PROVE  BInv'
<1>1. /\ Waited(c) /\ c.pc = "ok" /\ calls' = calls \ {c} /\ pending' = Sent(c)
      /\ UNCHANGED <<mode, occupied, visit, row, events, trouble>>
  BY DEF Answered, server, history
<1>2. ShapeOK /\ c \in AnyCall
  BY DEF BInv, ShapeOK
<1>3. /\ pending'.start = IF c.event = "presence_start" THEN {} ELSE pending.start
      /\ pending'.end = IF c.event = "presence_end" THEN 0 ELSE pending.end
      /\ pending' \in [start : SUBSET Nat, end : Nat]
  BY <1>1, <1>2 DEF Sent, ShapeOK
<1>4. ShapeOK'
  BY <1>1, <1>2, <1>3 DEF ShapeOK
<1>5. OneWaits' /\ \A x \in calls' : ~Waited(x)
  BY <1>1 DEF BInv, OneWaits, Waited
<1>6. StartPending'
  BY <1>5 DEF StartPending, Waited
<1>7. \A x : Announced(x) => Announced(x)'
  BY <1>1, <1>3 DEF BInv, StartPending, Announced, Started
<1>8. Announcing'
  BY <1>1, <1>3, <1>7 DEF BInv, Announcing, Started
<1>9. EndsFollowStarts'
  BY <1>1 DEF BInv, EndsFollowStarts
<1> QED
  BY <1>4, <1>5, <1>6, <1>8, <1>9 DEF BInv

(* A stored end has its start before it.                                   *)
LEMMA StoreStep ==
  ASSUME BInv, NEW c \in calls, Store(c)
  PROVE  BInv'
<1> DEFINE e == [type |-> c.event, visits |-> c.visits]
           ok == [c EXCEPT !.pc = "ok"]
<1>1. /\ c.pc = "store" /\ UNCHANGED <<mode, occupied, visit, pending, row, trouble>>
      /\ events' = IF c.event = "heartbeat" THEN events ELSE Append(events, e)
      /\ calls' = (calls \ {c}) \cup (IF Waited(c) THEN {ok} ELSE {})
  BY DEF Store, At, Reply, bridge, history
<1>2. ShapeOK /\ c \in AnyCall
  BY DEF BInv, ShapeOK
<1>3. /\ ok \in AnyCall /\ ok.event = c.event /\ ok.visits = c.visits /\ ok.late = c.late
      /\ e \in AnyEvent
  BY <1>2 DEF AnyCall, AnyEvent
<1>4. /\ events' \in Seq(AnyEvent) /\ DOMAIN events \subseteq DOMAIN events'
      /\ \A m \in DOMAIN events : events'[m] = events[m]
      /\ c.event # "heartbeat" => /\ DOMAIN events' = DOMAIN events \cup {Len(events) + 1}
                                  /\ events'[Len(events) + 1] = e
      /\ c.event = "heartbeat" => DOMAIN events' = DOMAIN events
      /\ DOMAIN events = 1..Len(events) /\ Len(events) \in Nat
  BY <1>1, <1>2, <1>3 DEF ShapeOK
<1>5. ShapeOK'
  BY <1>1, <1>2, <1>3, <1>4 DEF ShapeOK
<1>6. OneWaits'
  BY <1>1, <1>3 DEF BInv, OneWaits, Waited
<1>7. \A V : Started(V) => Started(V)'
  BY <1>4 DEF Started
<1>8. c.event = "presence_start" => Started(c.visits)'
  BY <1>4 DEF Started
<1>9. StartPending'
  BY <1>1, <1>3, <1>7, <1>8 DEF BInv, StartPending, Waited
<1>10. Announcing'
  BY <1>1, <1>3, <1>7 DEF BInv, Announcing, Announced
<1>11. EndsFollowStarts'
  <2> SUFFICES ASSUME NEW n \in DOMAIN events', events'[n].type = "presence_end"
               PROVE  \E m \in 1..n - 1 : events'[m].type = "presence_start"
                                        /\ events'[n].visits \subseteq events'[m].visits
    BY DEF EndsFollowStarts
  <2>1. CASE n \in DOMAIN events
    BY SMTT(20), <1>4, <2>1 DEF BInv, EndsFollowStarts
  <2>2. CASE n \notin DOMAIN events
    <3>1. n = Len(events) + 1 /\ events'[n] = e /\ c.event = "presence_end"
      BY <1>4, <2>2
    <3>2. Started(c.visits)
      BY <3>1 DEF BInv, Announcing
    <3> QED
      BY <1>4, <3>1, <3>2 DEF Started
  <2> QED
    BY <2>1, <2>2
<1> QED
  BY <1>5, <1>6, <1>9, <1>10, <1>11 DEF BInv

(* Everything else.                                                        *)
LEMMA DropStep ==
  ASSUME BInv, NEW c \in calls, calls' = calls \ {c}, trouble' = trouble,
         UNCHANGED <<visit, occupied, pending, events, mode, row>>
  PROVE  BInv'
<1>1. calls \subseteq AnyCall /\ trouble \in Nat /\ row \in Tuning \cup {NULL}
  BY DEF BInv, ShapeOK
<1> QED
  BY <1>1, CallsMove DEF BInv, OneWaits

(* A report goes on to another line of the server, or is refused there.    *)
LEMMA MovedStep ==
  ASSUME BInv, NEW c \in calls, NEW x, calls' = (calls \ {c}) \cup {x}, trouble' = trouble,
         UNCHANGED <<visit, occupied, pending, events, mode>>, row' \in Tuning \cup {NULL},
         x \in AnyCall, x.event = c.event, x.visits = c.visits, x.late = c.late, x.pc # "ok"
  PROVE  BInv'
<1>1. calls \subseteq AnyCall /\ trouble \in Nat
  BY DEF BInv, ShapeOK
<1> QED
  BY <1>1, CallsMove DEF BInv, OneWaits, Waited

LEMMA FindDeviceStep == ASSUME BInv, NEW c \in calls, FindDevice(c) PROVE BInv'
<1>1. /\ UNCHANGED <<visit, occupied, pending, events, mode, row, trouble>>
      /\ c \in AnyCall /\ row \in Tuning \cup {NULL}
  BY DEF FindDevice, bridge, server, history, BInv, ShapeOK
<1> DEFINE to(pc) == [c EXCEPT !.pc = pc]
           b == [c EXCEPT !.pc = "store", !.config = row]
<1>2. \/ calls' = calls \ {c}
      \/ \E pc \in {"create", "error"} : calls' = (calls \ {c}) \cup {to(pc)}
      \/ row # NULL /\ calls' = (calls \ {c}) \cup {b}
  BY DEF FindDevice, At, Reply
<1>3. /\ \A pc \in {"create", "error"} :
           /\ to(pc) \in AnyCall /\ to(pc).event = c.event /\ to(pc).visits = c.visits
           /\ to(pc).late = c.late /\ to(pc).pc # "ok"
      /\ row # NULL => /\ b \in AnyCall /\ b.event = c.event /\ b.visits = c.visits
                       /\ b.late = c.late /\ b.pc # "ok"
  BY <1>1 DEF AnyCall
<1> HIDE DEF to, b
<1> QED
  BY <1>1, <1>2, <1>3, DropStep, MovedStep

LEMMA CreateDeviceStep == ASSUME BInv, NEW c \in calls, CreateDevice(c) PROVE BInv'
<1>1. /\ UNCHANGED <<visit, occupied, pending, events, mode, trouble>>
      /\ c \in AnyCall /\ row' \in Tuning \cup {NULL}
  BY DEF CreateDevice, bridge, history, BInv, ShapeOK, Untuned, Tuning
<1> DEFINE to(pc) == [c EXCEPT !.pc = pc]
<1>2. \/ calls' = calls \ {c} /\ row' = row
      \/ \E pc \in {"store", "error"} : calls' = (calls \ {c}) \cup {to(pc)}
  BY DEF CreateDevice, At, Reply
<1>3. \A pc \in {"store", "error"} :
        /\ to(pc) \in AnyCall /\ to(pc).event = c.event /\ to(pc).visits = c.visits
        /\ to(pc).late = c.late /\ to(pc).pc # "ok"
  BY <1>1 DEF AnyCall
<1> HIDE DEF to
<1> QED
  BY <1>1, <1>2, <1>3, DropStep, MovedStep

LEMMA TimedOutStep == ASSUME BInv, NEW c \in calls, TimedOut(c) PROVE BInv'
<1>1. /\ UNCHANGED <<visit, occupied, pending, events, mode, row>>
      /\ c \in AnyCall /\ trouble' = trouble + 1 /\ trouble \in Nat /\ calls \subseteq AnyCall
      /\ row \in Tuning \cup {NULL}
  BY DEF TimedOut, Trouble, bridge, server, BInv, ShapeOK
<1> DEFINE a == [c EXCEPT !.late = trouble']
<1>2. calls' = calls \ {c} \/ calls' = (calls \ {c}) \cup {a}
  BY DEF TimedOut
<1>3. a \in AnyCall /\ a.event = c.event /\ a.visits = c.visits /\ ~Waited(a)
  BY <1>1 DEF AnyCall, Waited
<1> HIDE DEF a
<1> QED
  BY <1>1, <1>2, <1>3, CallsMove DEF BInv, OneWaits

(* The server cuts off some of the reports: what it answers is not "ok".   *)
LEMMA CutStep ==
  ASSUME BInv, UNCHANGED <<visit, occupied, pending, events, mode>>,
         row' \in Tuning \cup {NULL}, trouble' \in Nat,
         \A d \in calls' : d \in calls \/ \E c \in calls : d = [c EXCEPT !.pc = "error"],
         \A c \in calls : Waited(c) /\ c \in calls' /\ [c EXCEPT !.pc = "error"] \in calls'
                          => c.pc = "error"
  PROVE  BInv'
<1> DEFINE cut(c) == [c EXCEPT !.pc = "error"]
<1>1. calls \subseteq AnyCall
  BY DEF BInv, ShapeOK
<1>2. \A c \in calls : cut(c) \in AnyCall /\ cut(c).event = c.event /\ cut(c).pc = "error"
        /\ cut(c).visits = c.visits /\ cut(c).late = c.late /\ (c.pc = "error" => cut(c) = c)
  BY <1>1 DEF AnyCall
<1>3. \A d \in calls' : d \in calls \/ \E c \in calls : d = cut(c)
  OBVIOUS
<1>4. \A c \in calls : Waited(c) /\ c \in calls' /\ cut(c) \in calls' => c.pc = "error"
  OBVIOUS
<1> HIDE DEF cut
<1>5. \A d \in calls' : \E c \in calls :
        /\ d \in AnyCall /\ d.event = c.event /\ d.visits = c.visits
        /\ Waited(d) => Waited(c) /\ d \in {c, cut(c)}
        /\ d.pc = "ok" => c.pc = "ok"
  BY <1>1, <1>2, <1>3 DEF Waited
<1>6. \A c, d \in calls' : Waited(c) /\ Waited(d) => c = d
  <2> SUFFICES ASSUME NEW c \in calls', NEW d \in calls', Waited(c), Waited(d) PROVE c = d
    OBVIOUS
  <2>1. PICK w \in calls : Waited(w) /\ c \in {w, cut(w)} /\ d \in {w, cut(w)}
    BY <1>5 DEF BInv, OneWaits
  <2> QED
    BY <1>2, <1>4, <2>1
<1> QED
  BY <1>5, <1>6, CallsMove

LEMMA ServerRestartStep == ASSUME BInv, ServerRestart PROVE BInv'
<1>1. /\ UNCHANGED <<visit, occupied, pending, events, mode, row>>
      /\ trouble' \in Nat /\ row \in Tuning \cup {NULL} /\ calls \subseteq AnyCall
      /\ calls' = {IF Waited(c) THEN [c EXCEPT !.pc = "error"] ELSE c :
                     c \in {x \in calls : Waited(x) \/ x.pc = "sent"}}
  BY DEF ServerRestart, Trouble, bridge, BInv, ShapeOK
<1>2. \A c \in calls : [c EXCEPT !.pc = "error"].late = c.late /\ [c EXCEPT !.pc = "error"].pc = "error"
  BY <1>1 DEF AnyCall
<1>3. \A d \in calls' : d \in calls \/ \E c \in calls : d = [c EXCEPT !.pc = "error"]
  BY <1>1
<1>4. \A c \in calls' : c.pc = "error" \/ ~Waited(c)
  BY <1>1, <1>2
<1> QED
  BY <1>1, <1>3, <1>4, CutStep

LEMMA DropRowStep ==
  ASSUME BInv, DropRow, trouble' \in Nat, UNCHANGED <<bridge, events>>
  PROVE  BInv'
<1>1. /\ row' = NULL /\ calls \subseteq AnyCall
      /\ UNCHANGED <<visit, occupied, pending, events, mode>>
      /\ calls' = {IF c.pc = "store" THEN [c EXCEPT !.pc = "error"] ELSE c :
                     c \in {x \in calls : Waited(x) \/ x.pc # "store"}}
  BY DEF DropRow, bridge, BInv, ShapeOK
<1>2. \A c \in calls : [c EXCEPT !.pc = "error"].pc = "error"
  BY <1>1 DEF AnyCall
<1>3. \A d \in calls' : d \in calls \/ \E c \in calls : d = [c EXCEPT !.pc = "error"]
  BY <1>1
<1>4. \A d \in calls' : d.pc # "store"
  BY <1>1, <1>2
<1>5. \A c \in calls : Waited(c) /\ c \in calls' /\ [c EXCEPT !.pc = "error"] \in calls'
                       => c.pc = "error"
  <2> SUFFICES ASSUME NEW c \in calls, Waited(c), c \in calls', [c EXCEPT !.pc = "error"] \in calls'
               PROVE  c.pc = "error"
    OBVIOUS
  <2>1. [c EXCEPT !.pc = "error"].late = c.late
    BY <1>1 DEF AnyCall
  <2>2. c.pc # "store"
    BY <1>4
  <2>3. PICK x \in calls : /\ Waited(x)
                           /\ [c EXCEPT !.pc = "error"] = IF x.pc = "store" THEN [x EXCEPT !.pc = "error"] ELSE x
    <3>1. \A x \in calls : [x EXCEPT !.pc = "error"].late = x.late
      BY <1>1 DEF AnyCall
    <3> QED
      BY <1>1, <2>1, <3>1 DEF Waited
  <2>4. x = c
    BY <2>3 DEF BInv, OneWaits
  <2> QED
    BY <1>2, <2>2, <2>3, <2>4
<1> QED
  BY <1>1, <1>3, <1>5, CutStep

LEMMA RemovalStep == ASSUME BInv, DeleteDevice \/ DeleteRestroom \/ BlockCode PROVE BInv'
<1>1. trouble \in Nat /\ calls \subseteq AnyCall /\ row \in Tuning \cup {NULL}
  BY DEF BInv, ShapeOK
<1>2. CASE DeleteDevice \/ DeleteRestroom
  BY <1>1, <1>2, DropRowStep DEF DeleteDevice, DeleteRestroom, Trouble
<1>3. CASE BlockCode
  BY <1>1, <1>3, CallsMove DEF BlockCode, bridge, history, BInv, OneWaits
<1> QED
  BY <1>2, <1>3

(* The power comes back, or the portal restarts: memory is gone, and what  *)
(* was awaited is awaited no longer.                                       *)
LEMMA BootStep ==
  ASSUME BInv, Boot, trouble' \in Nat, trouble' # 0 \/ \A c \in calls : ~Waited(c)
  PROVE  BInv'
<1> DEFINE late(c) == [c EXCEPT !.late = trouble']
<1>1. /\ UNCHANGED <<visit, row, events>> /\ occupied' = FALSE /\ pending' = None
      /\ calls \subseteq AnyCall /\ row \in Tuning \cup {NULL}
      /\ visit \in Nat /\ events \in Seq(AnyEvent) /\ mode' \in {"run", "portal"}
  BY DEF Boot, server, BInv, ShapeOK
<1>2. \A c \in calls : /\ late(c) \in AnyCall /\ late(c).event = c.event
                       /\ late(c).visits = c.visits /\ late(c).late = trouble'
  BY <1>1 DEF AnyCall
<1> HIDE DEF late
<1>3. \A d \in calls' : \E c \in calls : d = IF Waited(c) THEN late(c) ELSE c
  BY DEF Boot, late
<1>4. \A d \in calls' : \E c \in calls :
        d \in AnyCall /\ d.event = c.event /\ d.visits = c.visits /\ ~Waited(d)
  BY <1>1, <1>2, <1>3 DEF Waited
<1>5. ShapeOK'
  BY <1>1, <1>4 DEF ShapeOK, None
<1>6. OneWaits' /\ StartPending'
  BY <1>4 DEF OneWaits, StartPending, Waited
<1>7. Announcing'
  BY <1>1, <1>4 DEF BInv, Announcing, Started, None
<1>8. EndsFollowStarts'
  BY <1>1 DEF BInv, EndsFollowStarts
<1> QED
  BY <1>5, <1>6, <1>7, <1>8 DEF BInv

(* What the administrator and the network do leaves the bridge and the     *)
(* calls alone.                                                            *)
LEMMA OutsideStep ==
  ASSUME BInv, UNCHANGED <<bridge, events, calls>>, row' \in Tuning \cup {NULL}, trouble' \in Nat
  PROVE  BInv'
<1>1. calls \subseteq AnyCall
  BY DEF BInv, ShapeOK
<1> QED
  BY <1>1, CallsMove DEF BInv, OneWaits, bridge

LEMMA UpdateConfigStep ==
  ASSUME BInv, NEW dto \in Inputs, UpdateConfig(dto)
  PROVE  BInv'
<1>1. /\ row \in Tuning /\ trouble' \in Nat /\ UNCHANGED <<bridge, events, calls>>
      /\ dto.occupiedAfterSec \in Int \cup {NULL} /\ dto.emptyAfterSec \in Int \cup {NULL}
  BY BridgeAssumption DEF UpdateConfig, BInv, ShapeOK
<1>2. row' \in Tuning
  BY <1>1 DEF UpdateConfig, Clamp, Tuning
<1> QED
  BY <1>1, <1>2, OutsideStep

LEMMA BridgeStep == BInv /\ [Next]_vars => BInv'
<1> SUFFICES ASSUME BInv, [Next]_vars PROVE BInv'
  OBVIOUS
<1>0. ShapeOK /\ OneWaits
  BY DEF BInv
<1>1. CASE Loop
  BY <1>1, PassStep DEF Loop
<1>2. ASSUME NEW c \in calls, FindDevice(c) \/ CreateDevice(c) \/ Store(c) \/ Answered(c) \/ TimedOut(c)
      PROVE  BInv'
  BY <1>2, FindDeviceStep, CreateDeviceStep, StoreStep, AnsweredStep, TimedOutStep
<1>3. ASSUME NEW c \in calls, Failed(c) \/ Unreached(c) PROVE BInv'
  BY <1>3, DropStep DEF Failed, Unreached, bridge, server, history
<1>4. ASSUME NEW dto \in Inputs, UpdateConfig(dto) PROVE BInv'
  BY <1>4, UpdateConfigStep
<1>5. CASE PowerCycle \/ WipeAndReboot
  BY <1>0, <1>5, BootStep DEF PowerCycle, WipeAndReboot, Trouble, ShapeOK
<1>6. CASE PortalRetry \/ \E code \in BOOLEAN : Save(code)
  BY <1>0, <1>6, BootStep DEF PortalRetry, Save, ShapeOK, OneWaits
<1>7. CASE Reconnect \/ \E n \in {"noServer", "noWifi"} : Outage(n)
  BY <1>0, <1>7, OutsideStep DEF Reconnect, Outage, Trouble, ShapeOK, server, history
<1>8. CASE ServerRestart
  BY <1>8, ServerRestartStep
<1>9. CASE DeleteDevice \/ DeleteRestroom \/ BlockCode
  BY <1>9, RemovalStep
<1>10. CASE UNCHANGED vars
  BY <1>0, <1>10, OutsideStep DEF vars, ShapeOK, server, history
<1> QED
  BY <1>1, <1>2, <1>3, <1>4, <1>5, <1>6, <1>7, <1>8, <1>9, <1>10 DEF Next, Progress

(* No end of a visit is stored before a start that stands for it, whatever *)
(* is lost, late, repeated or forgotten (main.cpp:350-359).                *)
THEOREM StartsComeFirst == Spec => []EndsFollowStarts
<1>1. BInv => EndsFollowStarts
  BY DEF BInv
<1> QED
  BY BridgeInit, BridgeStep, <1>1, PTL DEF Spec
-----------------------------------------------------------------------------
(* No visit is counted twice without a loss.  An end can come to be stored *)
(* from one of three places: it is stored already, it is carried by a      *)
(* report the bridge no longer waits for, or the bridge still owes it.     *)
(* There are never more of these than visits that are over, but for one    *)
(* for each report the bridge gave up on: that one may be carried and owed *)
(* at once.                                                                *)
EndsStored == {n \in DOMAIN events : events[n].type = "presence_end"}
LateEnds == {c \in calls : ~Waited(c) /\ c.event = "presence_end"}
Acknowledged(c) == Waited(c) /\ c.event = "presence_end" /\ c.pc = "ok"
Owed == IF pending.end # 0 /\ ~\E c \in calls : Acknowledged(c) THEN 1 ELSE 0
Over == IF occupied THEN visit - 1 ELSE visit

CountTypes ==
  /\ IsFiniteSet(calls) /\ ignored \in Nat
  /\ occupied => visit # 0

EndIsPending == \A c \in calls : Waited(c) /\ c.event = "presence_end" => pending.end # 0

CountBound == Cardinality(EndsStored) + Cardinality(LateEnds) + Owed <= ignored + Over

CInv == CountTypes /\ EndIsPending /\ CountBound

(* The sets that are counted are finite.                                   *)
LEMMA CountsAreNumbers ==
  ASSUME BInv, CInv
  PROVE  /\ IsFiniteSet(EndsStored) /\ Cardinality(EndsStored) \in Nat
         /\ IsFiniteSet(LateEnds) /\ Cardinality(LateEnds) \in Nat
         /\ Owed \in {0, 1} /\ Over \in Nat /\ ignored \in Nat /\ visit \in Nat
<1>1. EndsStored \in SUBSET (1..Len(events)) /\ Len(events) \in Nat
  BY DEF BInv, ShapeOK, EndsStored
<1>2. IsFiniteSet(1..Len(events))
  BY <1>1, FS_Interval
<1>3. IsFiniteSet(EndsStored) /\ Cardinality(EndsStored) \in Nat
  BY <1>1, <1>2, FS_Subset, FS_CardinalityType
<1>4. IsFiniteSet(calls) /\ LateEnds \in SUBSET calls
  BY DEF CInv, CountTypes, LateEnds
<1>5. IsFiniteSet(LateEnds) /\ Cardinality(LateEnds) \in Nat
  BY <1>4, FS_Subset, FS_CardinalityType
<1> QED
  BY <1>3, <1>5 DEF BInv, ShapeOK, CInv, CountTypes, Owed, Over

(* How the number of ends carried by late reports moves.                   *)
LEMMA FewerLate ==
  ASSUME BInv, CInv, LateEnds' \subseteq LateEnds
  PROVE  Cardinality(LateEnds') <= Cardinality(LateEnds) /\ Cardinality(LateEnds') \in Nat
BY CountsAreNumbers, FS_Subset, FS_CardinalityType

LEMMA OneMoreLate ==
  ASSUME BInv, CInv, NEW x, LateEnds' \subseteq LateEnds \cup {x}
  PROVE  Cardinality(LateEnds') <= Cardinality(LateEnds) + 1 /\ Cardinality(LateEnds') \in Nat
<1>1. /\ IsFiniteSet(LateEnds \cup {x}) /\ Cardinality(LateEnds) \in Nat
      /\ Cardinality(LateEnds \cup {x}) \in {Cardinality(LateEnds), Cardinality(LateEnds) + 1}
  BY CountsAreNumbers, FS_AddElement
<1>2. /\ Cardinality(LateEnds') <= Cardinality(LateEnds \cup {x})
      /\ Cardinality(LateEnds') \in Nat
  BY <1>1, FS_Subset, FS_CardinalityType
<1> QED
  BY <1>1, <1>2

LEMMA OneLateLess ==
  ASSUME BInv, CInv, NEW c \in LateEnds, LateEnds' \subseteq LateEnds \ {c}
  PROVE  Cardinality(LateEnds') <= Cardinality(LateEnds) - 1 /\ Cardinality(LateEnds') \in Nat
<1>1. /\ IsFiniteSet(LateEnds \ {c}) /\ Cardinality(LateEnds) \in Nat
      /\ Cardinality(LateEnds \ {c}) = Cardinality(LateEnds) - 1
  BY CountsAreNumbers, FS_RemoveElement
<1>2. /\ Cardinality(LateEnds') <= Cardinality(LateEnds \ {c})
      /\ Cardinality(LateEnds') \in Nat
  BY <1>1, FS_Subset, FS_CardinalityType
<1> QED
  BY <1>1, <1>2

LEMMA LateChanges ==
  ASSUME BInv, CInv, NEW c \in LateEnds, NEW x, LateEnds' \subseteq (LateEnds \ {c}) \cup {x}
  PROVE  Cardinality(LateEnds') <= Cardinality(LateEnds) /\ Cardinality(LateEnds') \in Nat
<1>1. /\ IsFiniteSet(LateEnds \ {c}) /\ Cardinality(LateEnds) \in Nat
      /\ Cardinality(LateEnds \ {c}) = Cardinality(LateEnds) - 1
  BY CountsAreNumbers, FS_RemoveElement
<1>2. /\ IsFiniteSet((LateEnds \ {c}) \cup {x})
      /\ Cardinality((LateEnds \ {c}) \cup {x}) <= Cardinality(LateEnds)
  BY <1>1, FS_AddElement
<1>3. /\ Cardinality(LateEnds') <= Cardinality((LateEnds \ {c}) \cup {x})
      /\ Cardinality(LateEnds') \in Nat
  BY <1>2, FS_Subset, FS_CardinalityType
<1>4. Cardinality((LateEnds \ {c}) \cup {x}) \in Nat
  BY <1>2, FS_CardinalityType
<1> QED
  BY <1>1, <1>2, <1>3, <1>4

(* Nothing is counted at first.                                            *)
LEMMA CountInit == Init => CInv
<1> SUFFICES ASSUME Init PROVE CInv
  OBVIOUS
<1>1. calls = {} /\ events = <<>> /\ pending.end = 0 /\ ignored = 0 /\ ~occupied /\ visit = 0
  BY DEF Init, None
<1>2. EndsStored = {} /\ LateEnds = {} /\ Owed = 0 /\ Over = 0
  BY <1>1 DEF EndsStored, LateEnds, Owed, Over
<1>3. Cardinality(EndsStored) = 0 /\ Cardinality(LateEnds) = 0 /\ IsFiniteSet(calls)
  BY <1>1, <1>2, FS_EmptySet
<1> QED
  BY <1>1, <1>2, <1>3 DEF CInv, CountTypes, EndIsPending, CountBound

(* A step of a report that stays with the same reader: nothing is counted  *)
(* anew as long as no report becomes late and no acknowledgement is lost.  *)
LEMMA CountKept ==
  ASSUME BInv, CInv, UNCHANGED <<visit, occupied, pending, events, ignored>>,
         IsFiniteSet(calls'),
         Cardinality(LateEnds') <= Cardinality(LateEnds), Cardinality(LateEnds') \in Nat,
         \A d \in calls' : Waited(d) => \E c \in calls : Waited(c) /\ c.event = d.event,
         (\E c \in calls : Acknowledged(c)) => \E d \in calls' : Acknowledged(d)
  PROVE  CInv'
<1>1. CountTypes' /\ EndIsPending'
  BY DEF CInv, CountTypes, EndIsPending, Waited
<1>2. Owed' <= Owed /\ Owed' \in {0, 1}
  BY DEF Owed
<1>3. Over' = Over /\ EndsStored' = EndsStored
  BY DEF Over, EndsStored
<1>4. CountBound'
  BY <1>2, <1>3, CountsAreNumbers DEF CInv, CountBound
<1> QED
  BY <1>1, <1>4 DEF CInv

(* The visit that ends is over and its end is owed; an end that was owed   *)
(* until then is overwritten.                                              *)
LEMMA PassCounts ==
  ASSUME BInv, CInv, NEW d \in Gaps, NEW frames \in SUBSET {"present", "absent"}, Pass(d, frames)
  PROVE  CInv'
<1> DEFINE s    == Pumped(d, frames)
           rise == Rises(s)
           fall == Falls(s)
           v    == IF rise THEN visit + 1 ELSE visit
           p    == [start |-> IF rise THEN pending.start \cup {v} ELSE pending.start,
                    end   |-> IF fall THEN visit ELSE pending.end]
           age  == Capped(beat + d, HEARTBEAT_EVERY_MS)
           due  == IF net = "noWifi" THEN {} ELSE Due(p, age)
           sent == IF net = "up" /\ nvs.code THEN due ELSE {}
<1>1. /\ \A c \in calls : ~Waited(c)
      /\ visit' = v /\ pending' = p /\ occupied' = ((occupied \/ rise) /\ ~fall)
      /\ calls' = calls \cup {Report(e, p) : e \in sent}
      /\ UNCHANGED <<events, ignored>>
  BY DEF Pass, server
<1>2. /\ rise \in BOOLEAN /\ fall \in BOOLEAN
      /\ rise => ~occupied /\ ~fall
      /\ fall => occupied
  BY DEF Rises, Falls, Fresh, Long
<1> HIDE DEF s, rise, fall
<1>3. sent = {} \/ \E e : sent = {e} /\ (e = "presence_end" => p.end # 0)
  BY DEF Due
<1>4. p.end = (IF fall THEN visit ELSE pending.end) /\ v \in Nat /\ visit \in Nat /\ occupied \in BOOLEAN
  BY DEF BInv, ShapeOK
<1> HIDE DEF p, sent, age, due
<1>5. calls' = calls \/ \E e : /\ calls' = calls \cup {Report(e, p)}
                               /\ e = "presence_end" => p.end # 0
  <2>1. CASE sent = {}
    BY <1>1, <2>1
  <2>2. CASE sent # {}
    <3>1. PICK e : sent = {e} /\ (e = "presence_end" => p.end # 0)
      BY <1>3, <2>2
    <3>2. {Report(f, p) : f \in sent} = {Report(e, p)}
      BY <3>1
    <3> QED
      BY <1>1, <3>1, <3>2
  <2> QED
    BY <2>1, <2>2
<1>6. \A e : Waited(Report(e, p)) /\ Report(e, p).pc = "sent" /\ Report(e, p).event = e
  BY DEF Report, Waited
<1>7. CountTypes'
  <2>1. IsFiniteSet(calls')
    BY <1>5, FS_AddElement DEF CInv, CountTypes
  <2>2. occupied' => visit' # 0
    BY <1>1, <1>2, <1>4 DEF CInv, CountTypes
  <2> QED
    BY <1>1, <2>1, <2>2 DEF CInv, CountTypes
<1>8. EndIsPending'
  BY <1>1, <1>5, <1>6 DEF EndIsPending, Waited
<1>9. LateEnds' = LateEnds /\ EndsStored' = EndsStored
  <2>1. EndsStored' = EndsStored
    BY <1>1 DEF EndsStored
  <2>2. LateEnds' = LateEnds
    BY <1>5, <1>6 DEF LateEnds, Waited
  <2> QED
    BY <2>1, <2>2
<1>10. Owed' \in {0, 1} /\ (~fall => Owed' = Owed)
  <2>1. ~(\E c \in calls : Acknowledged(c)) /\ ~(\E c \in calls : Acknowledged(c))'
    BY <1>1, <1>5, <1>6 DEF Acknowledged, Waited
  <2> QED
    BY <1>1, <1>4, <2>1 DEF Owed
<1>11. Over' = IF fall THEN Over + 1 ELSE Over
  BY <1>1, <1>2, <1>4 DEF Over
<1>12. CountBound'
  BY <1>1, <1>9, <1>10, <1>11, CountsAreNumbers DEF CInv, CountBound
<1> QED
  BY <1>7, <1>8, <1>12 DEF CInv

(* An end is stored: it was owed, or a late report carried it.             *)
LEMMA StoreCounts ==
  ASSUME BInv, CInv, NEW c \in calls, Store(c)
  PROVE  CInv'
<1> DEFINE e == [type |-> c.event, visits |-> c.visits]
           ok == [c EXCEPT !.pc = "ok"]
<1>1. /\ c.pc = "store" /\ UNCHANGED <<occupied, visit, pending, ignored>>
      /\ events' = IF c.event = "heartbeat" THEN events ELSE Append(events, e)
      /\ calls' = (calls \ {c}) \cup (IF Waited(c) THEN {ok} ELSE {})
  BY DEF Store, At, Reply, bridge, history
<1>2. c \in AnyCall /\ events \in Seq(AnyEvent) /\ OneWaits
  BY DEF BInv, ShapeOK
<1>3. ok.event = c.event /\ ok.late = c.late /\ ok.pc = "ok" /\ e \in AnyEvent /\ e.type = c.event
  BY <1>2 DEF AnyCall, AnyEvent
<1>4. /\ DOMAIN events = 1..Len(events) /\ Len(events) \in Nat
      /\ c.event = "heartbeat" => events' = events
      /\ c.event # "heartbeat" => /\ DOMAIN events' = DOMAIN events \cup {Len(events) + 1}
                                  /\ \A m \in DOMAIN events : events'[m] = events[m]
                                  /\ events'[Len(events) + 1] = e
  BY <1>1, <1>2, <1>3
<1> HIDE DEF e, ok
<1>5. EndsStored' = IF c.event = "presence_end" THEN EndsStored \cup {Len(events) + 1}
                    ELSE EndsStored
  <2>1. CASE c.event = "heartbeat"
    BY <1>4, <2>1 DEF EndsStored
  <2>2. CASE c.event # "heartbeat"
    <3>1. \A n : n \in EndsStored' <=> \/ n \in EndsStored
                                       \/ n = Len(events) + 1 /\ c.event = "presence_end"
      <4>1. \A n \in DOMAIN events : n # Len(events) + 1
        BY <1>4
      <4> QED
        BY <1>3, <1>4, <2>2, <4>1 DEF EndsStored
    <3> QED
      BY <3>1
  <2> QED
    BY <2>1, <2>2
<1>6. /\ Cardinality(EndsStored') = Cardinality(EndsStored) +
           (IF c.event = "presence_end" THEN 1 ELSE 0)
      /\ Cardinality(EndsStored) \in Nat
  <2>1. Len(events) + 1 \notin EndsStored
    BY <1>4 DEF EndsStored
  <2>2. IsFiniteSet(EndsStored) /\ Cardinality(EndsStored) \in Nat
    BY CountsAreNumbers
  <2>3. Cardinality(EndsStored \cup {Len(events) + 1}) = Cardinality(EndsStored) + 1
    BY <2>1, <2>2, FS_AddElement
  <2> QED
    BY <1>5, <2>2, <2>3
<1>7. CountTypes' /\ EndIsPending'
  <2>0. IsFiniteSet(calls \ {c})
    BY FS_RemoveElement DEF CInv, CountTypes
  <2>1. IsFiniteSet(calls')
    BY <1>1, <2>0, FS_AddElement
  <2> QED
    BY <1>1, <1>3, <2>1 DEF CInv, CountTypes, EndIsPending, Waited
<1>8. Over' = Over
  BY <1>1 DEF Over
<1>9. CASE Waited(c)
  <2>1. LateEnds' = LateEnds
    BY <1>1, <1>3, <1>9 DEF LateEnds, Waited
  <2>2. c.event = "presence_end" => Owed = 1 /\ Owed' = 0
    <3>1. c.event = "presence_end" => pending.end # 0 /\ Acknowledged(ok)'
      BY <1>3, <1>9 DEF CInv, EndIsPending, Acknowledged, Waited
    <3>2. \A x \in calls : ~Acknowledged(x)
      BY <1>1, <1>2, <1>9 DEF OneWaits, Acknowledged
    <3> QED
      BY <1>1, <1>9, <3>1, <3>2 DEF Owed
  <2>3. c.event # "presence_end" => Owed' = Owed
    <3>1. c.event # "presence_end" => \A x \in calls \cup calls' : ~Acknowledged(x)
      BY <1>1, <1>2, <1>3, <1>9 DEF OneWaits, Acknowledged, Waited
    <3> QED
      BY <1>1, <3>1 DEF Owed, Acknowledged, Waited
  <2>4. CountBound'
    BY <1>1, <1>6, <1>8, <2>1, <2>2, <2>3, CountsAreNumbers DEF CInv, CountBound
  <2> QED
    BY <1>7, <2>4 DEF CInv
<1>10. CASE ~Waited(c)
  <2>1. Owed' = Owed
    <3>1. \A x : (x \in calls' /\ Acknowledged(x)) <=> (x \in calls /\ Acknowledged(x))
      BY <1>1, <1>10 DEF Acknowledged, Waited
    <3> QED
      BY <1>1, <3>1 DEF Owed, Acknowledged, Waited
  <2>2. LateEnds' = LateEnds \ {c}
    BY <1>1, <1>10 DEF LateEnds, Waited
  <2>3. c.event = "presence_end" => c \in LateEnds
    BY <1>10 DEF LateEnds
  <2>4. /\ Cardinality(LateEnds') \in Nat
        /\ Cardinality(LateEnds') <= Cardinality(LateEnds) -
             (IF c.event = "presence_end" THEN 1 ELSE 0)
    BY <2>2, <2>3, OneLateLess, FewerLate, CountsAreNumbers
  <2>5. CountBound'
    BY <1>1, <1>6, <1>8, <2>1, <2>4, CountsAreNumbers DEF CInv, CountBound
  <2> QED
    BY <1>7, <2>5 DEF CInv
<1> QED
  BY <1>9, <1>10

(* An acknowledged end is owed no longer, and was not since it was stored. *)
LEMMA AnsweredCounts ==
  ASSUME BInv, CInv, NEW c \in calls, Answered(c)
  PROVE  CInv'
<1>1. /\ Waited(c) /\ c.pc = "ok" /\ calls' = calls \ {c} /\ pending' = Sent(c)
      /\ UNCHANGED <<occupied, visit, events, ignored>>
  BY DEF Answered, server, history
<1>2. /\ pending'.end = IF c.event = "presence_end" THEN 0 ELSE pending.end
      /\ c \in AnyCall /\ OneWaits
  BY <1>1 DEF Sent, BInv, ShapeOK
<1>3. CountTypes' /\ EndIsPending'
  <2>1. \A x \in calls' : ~Waited(x)
    BY <1>1, <1>2 DEF OneWaits
  <2> QED
    BY <1>1, <2>1, FS_RemoveElement DEF CInv, CountTypes, EndIsPending, Waited
<1>4. Owed' \in {0, 1} /\ Owed' <= Owed
  <2>1. CASE c.event = "presence_end"
    BY <1>2, <2>1 DEF Owed
  <2>2. CASE c.event # "presence_end"
    <3>1. \A x \in calls : ~Acknowledged(x)
      BY <1>1, <1>2, <2>2 DEF OneWaits, Acknowledged
    <3> QED
      BY <1>2, <2>2, <3>1 DEF Owed
  <2> QED
    BY <2>1, <2>2
<1>5. LateEnds' \subseteq LateEnds /\ EndsStored' = EndsStored /\ Over' = Over
  BY <1>1 DEF LateEnds, EndsStored, Over, Waited
<1>6. CountBound'
  BY <1>1, <1>4, <1>5, FewerLate, CountsAreNumbers DEF CInv, CountBound
<1> QED
  BY <1>3, <1>6 DEF CInv

(* The bridge gives up on a report: it is counted as ignored, and may be   *)
(* carried from now on while what it reports is owed again.                *)
LEMMA TimedOutCounts ==
  ASSUME BInv, CInv, NEW c \in calls, TimedOut(c)
  PROVE  CInv'
<1> DEFINE a == [c EXCEPT !.late = trouble']
<1>1. /\ Waited(c) /\ UNCHANGED <<visit, occupied, pending, events>> /\ ignored' = ignored + 1
      /\ calls' = (calls \ {c}) \cup (IF c.pc \in {"ok", "error"} THEN {} ELSE {a})
      /\ trouble' = trouble + 1 /\ trouble \in Nat /\ c \in AnyCall /\ OneWaits
  BY DEF TimedOut, Trouble, bridge, server, BInv, ShapeOK
<1>2. a.event = c.event /\ ~Waited(a)
  BY <1>1 DEF AnyCall, Waited
<1> HIDE DEF a
<1>3. CountTypes' /\ EndIsPending'
  <2>1. \A x \in calls' : ~Waited(x)
    BY <1>1, <1>2 DEF OneWaits
  <2>0. IsFiniteSet(calls \ {c})
    BY FS_RemoveElement DEF CInv, CountTypes
  <2>2. IsFiniteSet(calls')
    BY <1>1, <2>0, FS_AddElement
  <2> QED
    BY <1>1, <2>1, <2>2 DEF CInv, CountTypes, EndIsPending, Waited
<1>4. EndsStored' = EndsStored /\ Over' = Over
  BY <1>1 DEF EndsStored, Over
<1>5. Owed' \in {0, 1} /\ (Owed' = Owed \/ c.pc = "ok")
  <2>1. c.pc # "ok" => \A x \in calls \cup calls' : ~Acknowledged(x)
    BY <1>1, <1>2 DEF OneWaits, Acknowledged, Waited
  <2> QED
    BY <1>1, <2>1 DEF Owed, Acknowledged, Waited
<1>6. CASE c.pc = "ok"
  <2>1. LateEnds' \subseteq LateEnds
    BY <1>1, <1>6 DEF LateEnds, Waited
  <2>2. CountBound'
    BY <1>1, <1>4, <1>5, <2>1, FewerLate, CountsAreNumbers DEF CInv, CountBound
  <2> QED
    BY <1>3, <2>2 DEF CInv
<1>7. CASE c.pc # "ok"
  <2>1. LateEnds' \subseteq LateEnds \cup {a}
    BY <1>1 DEF LateEnds, Waited
  <2>0. Cardinality(LateEnds') <= Cardinality(LateEnds) + 1 /\ Cardinality(LateEnds') \in Nat
    BY <2>1, OneMoreLate
  <2>2. CountBound'
    BY <1>1, <1>4, <1>5, <1>7, <2>0, CountsAreNumbers DEF CInv, CountBound
  <2> QED
    BY <1>3, <2>2 DEF CInv
<1> QED
  BY <1>6, <1>7

(* Of the reports a restart cuts off, the one that is waited for counts.   *)
LEMMA BootCounts ==
  ASSUME BInv, CInv, Boot, trouble' \in Nat, trouble' # 0 \/ \A c \in calls : ~Waited(c)
  PROVE  CInv'
<1> DEFINE late(c) == [c EXCEPT !.late = trouble']
           W == {c \in calls : Waited(c)}
<1>1. /\ UNCHANGED <<visit, events>> /\ occupied' = FALSE /\ pending' = None
      /\ calls' = {IF Waited(c) THEN late(c) ELSE c : c \in {x \in calls : x.pc \notin {"ok", "error"}}}
      /\ ignored' = ignored + Cardinality(W)
      /\ calls \subseteq AnyCall /\ OneWaits /\ visit \in Nat
  BY DEF Boot, server, BInv, ShapeOK
<1>2. \A c \in calls : Waited(c) => late(c).event = c.event /\ ~Waited(late(c))
  BY <1>1 DEF AnyCall, Waited
<1> HIDE DEF late, W
<1>3. \A x \in calls' : ~Waited(x)
  BY <1>1, <1>2
<1>4. \/ W = {} /\ Cardinality(W) = 0 /\ calls' \subseteq calls
      \/ \E w \in calls : W = {w} /\ Cardinality(W) = 1 /\ calls' \subseteq calls \cup {late(w)}
  <2>1. CASE W = {}
    <3>1. \A c \in calls : ~Waited(c)
      BY <2>1 DEF W
    <3> QED
      BY <1>1, <2>1, <3>1, FS_EmptySet
  <2>2. CASE W # {}
    <3>1. PICK w \in calls : w \in W
      BY <2>2 DEF W
    <3>2. W = {w}
      BY <1>1, <3>1 DEF W, OneWaits
    <3>3. calls' \subseteq calls \cup {late(w)}
      BY <1>1, <3>2 DEF W
    <3> QED
      BY <3>2, <3>3, FS_Singleton
  <2> QED
    BY <2>1, <2>2
<1>5. IsFiniteSet(calls) /\ ignored \in Nat
  BY DEF CInv, CountTypes
<1>6. IsFiniteSet(calls')
  BY <1>4, <1>5, FS_AddElement, FS_Subset
<1>7. CountTypes' /\ EndIsPending'
  BY <1>1, <1>3, <1>4, <1>5, <1>6 DEF CountTypes, EndIsPending, Waited
<1>8. /\ EndsStored' = EndsStored /\ Over' \in Nat /\ Over <= Over' /\ Owed' = 0
  BY <1>1 DEF EndsStored, Over, Owed, None
<1>9. /\ Cardinality(LateEnds') \in Nat
      /\ Cardinality(LateEnds') <= Cardinality(LateEnds) + Cardinality(W)
      /\ Cardinality(W) \in {0, 1}
  <2>1. CASE W = {} /\ Cardinality(W) = 0 /\ calls' \subseteq calls
    <3>1. LateEnds' \subseteq LateEnds
      BY <2>1 DEF LateEnds, Waited
    <3> QED
      BY <2>1, <3>1, FewerLate, CountsAreNumbers
  <2>2. ASSUME NEW w \in calls, W = {w}, Cardinality(W) = 1, calls' \subseteq calls \cup {late(w)}
        PROVE  /\ Cardinality(LateEnds') \in Nat
               /\ Cardinality(LateEnds') <= Cardinality(LateEnds) + Cardinality(W)
               /\ Cardinality(W) \in {0, 1}
    <3>1. LateEnds' \subseteq LateEnds \cup {late(w)}
      BY <2>2 DEF LateEnds, Waited
    <3> QED
      BY <2>2, <3>1, OneMoreLate
  <2> QED
    BY <1>4, <2>1, <2>2
<1>10. CountBound'
  BY <1>1, <1>8, <1>9, CountsAreNumbers DEF CInv, CountBound
<1> QED
  BY <1>7, <1>10 DEF CInv

(* The server restarts: an acknowledgement that is lost counts.            *)
LEMMA RestartCounts ==
  ASSUME BInv, CInv, ServerRestart
  PROVE  CInv'
<1> DEFINE cut(c) == [c EXCEPT !.pc = "error"]
           A == {c \in calls : Waited(c) /\ c.pc = "ok"}
<1>1. /\ UNCHANGED <<visit, occupied, pending, events>>
      /\ calls' = {IF Waited(c) THEN cut(c) ELSE c : c \in {x \in calls : Waited(x) \/ x.pc = "sent"}}
      /\ ignored' = ignored + Cardinality(A)
      /\ calls \subseteq AnyCall /\ OneWaits
  BY DEF ServerRestart, bridge, BInv, ShapeOK
<1>2. \A c \in calls : cut(c).event = c.event /\ cut(c).late = c.late /\ cut(c).pc = "error"
  BY <1>1 DEF AnyCall
<1> HIDE DEF cut, A
<1>3. IsFiniteSet(calls')
  <2>1. CASE \A c \in calls : ~Waited(c)
    <3>1. calls' \in SUBSET calls
      BY <1>1, <2>1
    <3> QED
      BY <3>1, FS_Subset DEF CInv, CountTypes
  <2>2. ASSUME NEW w \in calls, Waited(w) PROVE IsFiniteSet(calls')
    <3>1. calls' \in SUBSET (calls \cup {cut(w)})
      BY <1>1, <2>2 DEF OneWaits
    <3>2. IsFiniteSet(calls \cup {cut(w)})
      BY FS_AddElement DEF CInv, CountTypes
    <3> QED
      BY <3>1, <3>2, FS_Subset
  <2> QED
    BY <2>1, <2>2
<1>4. Cardinality(A) \in Nat /\ (A # {} => Cardinality(A) = 1)
  <2>1. CASE A = {}
    BY <2>1, FS_EmptySet
  <2>2. CASE A # {}
    <3>1. PICK w \in calls : A = {w}
      BY <1>1, <2>2 DEF A, OneWaits
    <3>2. Cardinality({w}) = 1
      BY FS_Singleton
    <3> QED
      BY <3>1, <3>2
  <2> QED
    BY <2>1, <2>2
<1>5. CountTypes' /\ EndIsPending'
  <2>1. \A x \in calls' : Waited(x) => \E c \in calls : Waited(c) /\ c.event = x.event
    BY <1>1, <1>2 DEF Waited
  <2> QED
    BY <1>1, <1>3, <1>4, <2>1 DEF CInv, CountTypes, EndIsPending, Waited
<1>6. EndsStored' = EndsStored /\ Over' = Over /\ LateEnds' \subseteq LateEnds
  BY <1>1, <1>2 DEF EndsStored, Over, LateEnds, Waited
<1>7. Owed' \in {0, 1} /\ (A = {} => Owed' <= Owed)
  <2>1. A = {} => \A c \in calls : ~Acknowledged(c)
    BY DEF A, Acknowledged
  <2> QED
    BY <1>1, <2>1 DEF Owed
<1>8. CountBound'
  <2>1. CASE A = {}
    BY <1>1, <1>4, <1>6, <1>7, <2>1, FewerLate, CountsAreNumbers DEF CInv, CountBound
  <2>2. CASE A # {}
    BY <1>1, <1>4, <1>6, <1>7, <2>2, FewerLate, CountsAreNumbers DEF CInv, CountBound
  <2> QED
    BY <2>1, <2>2
<1> QED
  BY <1>5, <1>8 DEF CInv

(* Nothing happens to the reports, or one that nobody acknowledged goes.   *)
LEMMA QuietCounts ==
  ASSUME BInv, CInv, UNCHANGED <<visit, occupied, pending, events, ignored>>,
         calls' = calls \/ \E c \in calls : calls' = calls \ {c} /\ c.pc # "ok"
  PROVE  CInv'
<1>1. IsFiniteSet(calls')
  BY FS_RemoveElement DEF CInv, CountTypes
<1>2. LateEnds' \subseteq LateEnds
  BY DEF LateEnds, Waited
<1>3. \A d \in calls' : Waited(d) => \E c \in calls : Waited(c) /\ c.event = d.event
  BY DEF Waited
<1>4. (\E b \in calls : Acknowledged(b)) => \E d \in calls' : Acknowledged(d)
  BY DEF Acknowledged
<1> QED
  BY <1>1, <1>2, <1>3, <1>4, FewerLate, CountKept

(* The server looks the device up or creates it: the report goes on, or is *)
(* refused.                                                                *)
LEMMA ServedCounts ==
  ASSUME BInv, CInv, NEW c \in calls, FindDevice(c) \/ CreateDevice(c)
  PROVE  CInv'
<1>1. /\ UNCHANGED <<visit, occupied, pending, events, ignored>> /\ c.pc # "ok" /\ c \in AnyCall
  BY DEF FindDevice, CreateDevice, bridge, server, history, BInv, ShapeOK
<1> DEFINE to(pc) == [c EXCEPT !.pc = pc]
           found  == [c EXCEPT !.pc = "store", !.config = row]
<1>2. CASE calls' = calls \ {c}
  BY <1>1, <1>2, QuietCounts
<1>3. ASSUME NEW x, calls' = (calls \ {c}) \cup {x}, x.event = c.event, x.late = c.late
      PROVE  CInv'
  <2>1. IsFiniteSet(calls')
    BY <1>3, FS_AddElement, FS_RemoveElement DEF CInv, CountTypes
  <2>2. Cardinality(LateEnds') <= Cardinality(LateEnds) /\ Cardinality(LateEnds') \in Nat
    <3>1. CASE c \in LateEnds
      <4>1. LateEnds' \subseteq (LateEnds \ {c}) \cup {x}
        BY <1>3 DEF LateEnds, Waited
      <4> QED
        BY <3>1, <4>1, LateChanges
    <3>2. CASE c \notin LateEnds
      <4>1. LateEnds' \subseteq LateEnds
        BY <1>3, <3>2 DEF LateEnds, Waited
      <4> QED
        BY <4>1, FewerLate
    <3> QED
      BY <3>1, <3>2
  <2>3. \A d \in calls' : Waited(d) => \E b \in calls : Waited(b) /\ b.event = d.event
    BY <1>3 DEF Waited
  <2>4. (\E b \in calls : Acknowledged(b)) => \E d \in calls' : Acknowledged(d)
    BY <1>1, <1>3 DEF Acknowledged
  <2> QED
    BY <1>1, <2>1, <2>2, <2>3, <2>4, CountKept
<1>4. \A pc : to(pc).event = c.event /\ to(pc).late = c.late
  BY <1>1 DEF AnyCall
<1>5. found.event = c.event /\ found.late = c.late
  BY <1>1 DEF AnyCall
<1>6. \/ calls' = calls \ {c} \/ calls' = (calls \ {c}) \cup {found}
      \/ \E pc : calls' = (calls \ {c}) \cup {to(pc)}
  BY DEF FindDevice, CreateDevice, At, Reply
<1> HIDE DEF to, found
<1> QED
  BY <1>2, <1>3, <1>4, <1>5, <1>6

(* A deletion cuts off reports that are not acknowledged yet.              *)
LEMMA RemovalCounts ==
  ASSUME BInv, CInv, DeleteDevice \/ DeleteRestroom \/ BlockCode
  PROVE  CInv'
<1> DEFINE cut(c) == [c EXCEPT !.pc = "error"]
<1>1. UNCHANGED <<visit, occupied, pending, events, ignored>> /\ calls \subseteq AnyCall /\ OneWaits
  BY DEF DeleteDevice, DeleteRestroom, BlockCode, bridge, history, BInv, ShapeOK
<1>2. CASE BlockCode
  BY <1>1, <1>2, QuietCounts DEF BlockCode
<1>3. CASE DeleteDevice \/ DeleteRestroom
  <2>1. calls' = {IF c.pc = "store" THEN cut(c) ELSE c :
                    c \in {x \in calls : Waited(x) \/ x.pc # "store"}}
    BY <1>3 DEF DeleteDevice, DeleteRestroom, DropRow
  <2>2. \A c \in calls : cut(c).event = c.event /\ cut(c).late = c.late
    BY <1>1 DEF AnyCall
  <2> HIDE DEF cut
  <2>3. IsFiniteSet(calls')
    <3>1. CASE \A c \in calls : ~Waited(c)
      <4>1. calls' \in SUBSET calls
        BY <2>1, <3>1
      <4> QED
        BY <4>1, FS_Subset DEF CInv, CountTypes
    <3>2. ASSUME NEW w \in calls, Waited(w) PROVE IsFiniteSet(calls')
      <4>1. calls' \in SUBSET (calls \cup {cut(w)})
        BY <1>1, <2>1, <3>2 DEF OneWaits
      <4>2. IsFiniteSet(calls \cup {cut(w)})
        BY FS_AddElement DEF CInv, CountTypes
      <4> QED
        BY <4>1, <4>2, FS_Subset
    <3> QED
      BY <3>1, <3>2
  <2>4. LateEnds' \subseteq LateEnds
    BY <2>1, <2>2 DEF LateEnds, Waited
  <2>5. \A d \in calls' : Waited(d) => \E c \in calls : Waited(c) /\ c.event = d.event
    BY <2>1, <2>2 DEF Waited
  <2>6. (\E c \in calls : Acknowledged(c)) => \E d \in calls' : Acknowledged(d)
    BY <2>1 DEF Acknowledged
  <2> QED
    BY <1>1, <2>3, <2>4, <2>5, <2>6, FewerLate, CountKept
<1> QED
  BY <1>2, <1>3

LEMMA CountStep == BInv /\ CInv /\ [Next]_vars => CInv'
<1> SUFFICES ASSUME BInv, CInv, [Next]_vars PROVE CInv'
  OBVIOUS
<1>0. ShapeOK /\ OneWaits
  BY DEF BInv
<1>1. CASE Loop
  BY <1>1, PassCounts DEF Loop
<1>2. ASSUME NEW c \in calls, FindDevice(c) \/ CreateDevice(c) \/ Store(c) \/ Answered(c) \/ TimedOut(c)
      PROVE  CInv'
  BY <1>2, ServedCounts, StoreCounts, AnsweredCounts, TimedOutCounts
<1>3. ASSUME NEW c \in calls, Failed(c) \/ Unreached(c) PROVE CInv'
  BY <1>3, QuietCounts DEF Failed, Unreached, bridge, server, history
<1>4. ASSUME NEW dto \in Inputs, UpdateConfig(dto) PROVE CInv'
  BY <1>4, QuietCounts DEF UpdateConfig, bridge
<1>5. CASE PowerCycle \/ WipeAndReboot
  BY <1>0, <1>5, BootCounts DEF PowerCycle, WipeAndReboot, Trouble, ShapeOK
<1>6. CASE PortalRetry \/ \E code \in BOOLEAN : Save(code)
  BY <1>0, <1>6, BootCounts DEF PortalRetry, Save, ShapeOK, OneWaits
<1>7. CASE Reconnect \/ \E n \in {"noServer", "noWifi"} : Outage(n)
  BY <1>7, QuietCounts DEF Reconnect, Outage, bridge, server, history
<1>8. CASE ServerRestart
  BY <1>8, RestartCounts
<1>9. CASE DeleteDevice \/ DeleteRestroom \/ BlockCode
  BY <1>9, RemovalCounts
<1>10. CASE UNCHANGED vars
  BY <1>10, QuietCounts DEF vars, bridge, server, history
<1> QED
  BY <1>1, <1>2, <1>3, <1>4, <1>5, <1>6, <1>7, <1>8, <1>9, <1>10 DEF Next, Progress

(* The dashboard counts what is left of the events.                        *)
ErasedOK == erased \in Nat

LEMMA ErasedStep == BInv /\ ErasedOK /\ [Next]_vars => ErasedOK'
<1> SUFFICES ASSUME BInv, ErasedOK, [Next]_vars PROVE erased' \in Nat
  BY DEF ErasedOK
<1>1. CASE DeleteDevice \/ DeleteRestroom
  BY <1>1 DEF DeleteDevice, DeleteRestroom, DropRow, BInv, ShapeOK
<1>2. CASE ~(DeleteDevice \/ DeleteRestroom)
  <2>1. erased' = erased
    BY <1>2 DEF Next, vars, Loop, Pass, Progress, FindDevice, CreateDevice, Store, Answered, Failed,
      Unreached, TimedOut, UpdateConfig, BlockCode, PowerCycle, WipeAndReboot, PortalRetry, Save,
      Boot, Outage, Reconnect, ServerRestart, server, removal
  <2> QED
    BY <2>1 DEF ErasedOK
<1> QED
  BY <1>1, <1>2

(* The dashboard counts a visit once, and once more for each report the    *)
(* bridge gave up on: the endpoint knows no report from its repetition     *)
(* (sensors.service.ts:66-76), so an acknowledged one is never repeated.   *)
THEOREM CountedOnce == Spec => []CountedOncePerLoss
<1>1. BInv /\ CInv /\ ErasedOK => CountedOncePerLoss
  <2> SUFFICES ASSUME BInv, CInv, ErasedOK PROVE CountedOncePerLoss
    OBVIOUS
  <2>0. /\ Cardinality(EndsStored) \in Nat /\ Cardinality(LateEnds) \in Nat
        /\ Owed \in {0, 1} /\ Over \in Nat /\ ignored \in Nat /\ visit \in Nat
    BY CountsAreNumbers
  <2>1. {v \in 1..visit : v # visit \/ ~occupied} = 1..Over
    BY <2>0 DEF Over, CInv, CountTypes
  <2>2. Cardinality(1..Over) = Over
    BY <2>0, FS_Interval
  <2>3. VisitsToday <= Cardinality(EndsStored) /\ VisitsToday \in Nat
    <3>1. {n \in erased + 1..Len(events) : events[n].type = "presence_end"} \in SUBSET EndsStored
      BY DEF EndsStored, ErasedOK, BInv, ShapeOK
    <3> QED
      BY <3>1, CountsAreNumbers, FS_Subset, FS_CardinalityType DEF VisitsToday
  <2>4. Cardinality(EndsStored) <= ignored + Over
    BY <2>0 DEF CInv, CountBound
  <2>5. VisitsToday <= ignored + Over
    BY <2>0, <2>3, <2>4
  <2> QED
    BY <2>1, <2>2, <2>5 DEF CountedOncePerLoss
<1>2. Init => ErasedOK
  BY DEF Init, ErasedOK
<1> QED
  BY BridgeInit, BridgeStep, CountInit, CountStep, ErasedStep, <1>1, <1>2, PTL DEF Spec
=============================================================================
