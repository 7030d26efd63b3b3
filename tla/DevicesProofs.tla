---------------------------- MODULE DevicesProofs ----------------------------
(***************************************************************************)
(* A deleted code stays dead until somebody pairs it, for any number of    *)
(* tablets, codes, restrooms, templates, operations under way and          *)
(* troubles.                                                               *)
(***************************************************************************)
EXTENDS Devices, TLAPS

DeviceRow == [room : Restroom, tpl : Template \cup {NULL}]
DeleteOp == [n : Nat, op : {"delete"}, pc : {"row", "block"}, rooms : SUBSET Restroom,
             devs : SUBSET [code : Code, room : Restroom]]
PairOp == [n : Nat, op : {"pair"}, pc : {"room", "unblock", "upsert"}, code : Code, room : Restroom, by : Tablet,
           from : {"selector", "team"}]
NotifyOp ==
  [n : Nat, op : {"template"}, pc : {"notify"}, tpl : Template]
    \cup [n : Nat, op : {"building"}, pc : {"notify"}, building : Building]
    \cup [n : Nat, op : {"device"}, pc : {"notify"}, code : Code]
DropOp == [n : Nat, op : {"drop"}, pc : {"notify", "buildings", "devices", "row"}, tpl : Template]
PageRow == [at : Code \cup {NULL}, theme : Themes \cup {NULL, "removed"},
            room : Restroom \cup {NULL}, kick : BOOLEAN, config : {"sent", "alive", "404", "done"},
            device : {"sent", "find", "create", "done"}, live : BOOLEAN, after : BOOLEAN]
CachedRow == [config : Themes \cup {NULL}, room : Restroom \cup {NULL}]

RegistryOK ==
  /\ rooms \subseteq Restroom /\ blocked \subseteq Code /\ dead \subseteq Code /\ nops \in Nat
  /\ device \in [Code -> DeviceRow \cup {NULL}]
  /\ theme \in [Template -> Themes \cup {NULL}] /\ chosen \in [Building -> Template \cup {NULL}]
AnyOp == DeleteOp \cup PairOp \cup NotifyOp \cup DropOp
OpsOK == ops \subseteq AnyOp
PagesOK ==
  /\ tab \in [Tablet -> PageRow]
  /\ \A t \in Tablet : tab[t].at = NULL => tab[t].config = "done" /\ tab[t].device = "done"
  /\ cached \in [Tablet -> [Code -> CachedRow]]

(* A dead code is blocked and nobody is pairing it; the page of a dead     *)
(* code, opened since, has not got past the look at the block.             *)
DeadPages == \A t \in Tablet : tab[t].after =>
  tab[t].at \in dead /\ tab[t].config # "alive" /\ ~tab[t].live
DeadOK ==
  /\ dead \subseteq blocked
  /\ \A o \in ops : o.op = "pair" => o.code \notin dead
  /\ DeadPages

DInv == RegistryOK /\ OpsOK /\ PagesOK /\ DeadOK

-----------------------------------------------------------------------------
(* A page that has just been opened.                                       *)
LEMMA PageType ==
  ASSUME NEW c \in Code \cup {NULL}
  PROVE  /\ Page(c) \in PageRow /\ Page(c).at = c /\ Page(c).config # "alive" /\ ~Page(c).live
         /\ Page(c).after => c \in dead
         /\ c = NULL => Page(c).config = "done" /\ Page(c).device = "done"
<1>1. Page(c).after = (c # NULL /\ c \in dead)
  BY DEF Page
<1>2. /\ Page(c).at = c /\ Page(c).config # "alive" /\ Page(c).live = FALSE
      /\ c = NULL => Page(c).config = "done" /\ Page(c).device = "done"
  BY DEF Page
<1>3. Page(c) \in PageRow
  BY DEF Page, PageRow
<1> QED
  BY <1>1, <1>2, <1>3

LEMMA DevicesInit == Init => DInv
<1> SUFFICES ASSUME Init PROVE DInv
  OBVIOUS
<1>1. RegistryOK /\ OpsOK
  BY DevicesAssumption DEF Init, RegistryOK, OpsOK
<1>2. PagesOK /\ DeadOK
  <2>1. \A t \in Tablet : tab[t] = Page(NULL)
    BY DEF Init
  <2>2. tab \in [Tablet -> PageRow]
    BY PageType DEF Init
  <2>3. cached \in [Tablet -> [Code -> CachedRow]]
    BY DEF Init, Nothing, CachedRow
  <2> QED
    BY <2>1, <2>2, <2>3, PageType DEF Init, PagesOK, DeadOK, DeadPages
<1> QED
  BY <1>1, <1>2 DEF DInv

(* A tablet's page changes: what it shows, asks or keeps.  It gets past    *)
(* the block only with a code that is not blocked.                         *)
LEMMA PageStep ==
  ASSUME DInv, NEW t \in Tablet, NEW p \in PageRow, Set(t, p),
         UNCHANGED <<rooms, blocked, looks, ops, dead, nops>>,
         device' \in [Code -> DeviceRow \cup {NULL}], cached' \in [Tablet -> [Code -> CachedRow]],
         p.at = NULL => p.config = "done" /\ p.device = "done",
         p.after => p.at \in dead /\ p.config # "alive" /\ ~p.live
  PROVE  DInv'
<1>1. RegistryOK' /\ OpsOK'
  BY DEF DInv, RegistryOK, OpsOK, looks
<1>2. PagesOK'
  BY DEF DInv, PagesOK, Set
<1>3. DeadOK'
  BY DEF DInv, DeadOK, DeadPages, PagesOK, Set
<1> QED
  BY <1>1, <1>2, <1>3 DEF DInv

(* Asking the server.                                                      *)
LEMMA ThemeType ==
  ASSUME RegistryOK, NEW c \in Code
  PROVE  ThemeOf(c) \in Themes \cup {NULL}
<1> DEFINE d == device[c]
           x == IF d = NULL THEN NULL
                ELSE Fallback(Fallback(d.tpl, chosen[BuildingOf[d.room]]),
                              IF theme[Default] = NULL THEN NULL ELSE Default)
<1>1. x \in Template \cup {NULL}
  <2>1. CASE d = NULL
    BY <2>1
  <2>2. CASE d # NULL
    <3>1. d.tpl \in Template \cup {NULL} /\ d.room \in Restroom
      BY <2>2 DEF RegistryOK, DeviceRow
    <3>2. chosen[BuildingOf[d.room]] \in Template \cup {NULL}
      BY <3>1, DevicesAssumption DEF RegistryOK
    <3> QED
      BY <2>2, <3>1, <3>2, DevicesAssumption DEF Fallback
  <2> QED
    BY <2>1, <2>2
<1>2. ThemeOf(c) = IF x = NULL THEN "default" ELSE theme[x]
  BY DEF ThemeOf
<1> HIDE DEF x
<1> QED
  BY <1>1, <1>2, DevicesAssumption DEF RegistryOK

LEMMA ConfigStep ==
  ASSUME DInv, NEW t \in Tablet,
         ConfigBlocked(t) \/ ConfigAnswered(t) \/ ConfigRefused(t) \/ ConfigOffline(t)
  PROVE  DInv'
<1> DEFINE p == tab[t]
<1>1. /\ p \in PageRow /\ (p.after => p.at \in dead /\ p.config # "alive" /\ ~p.live)
      /\ p.at = NULL => p.config = "done" /\ p.device = "done"
      /\ cached \in [Tablet -> [Code -> CachedRow]]
      /\ device \in [Code -> DeviceRow \cup {NULL}] /\ dead \subseteq blocked
  BY DEF DInv, PagesOK, DeadOK, DeadPages, RegistryOK
<1>2. /\ UNCHANGED <<rooms, blocked, device, theme, chosen, ops, dead, nops>>
      /\ p.config # "done"
  BY DEF ConfigBlocked, ConfigAnswered, ConfigRefused, ConfigOffline, registry, looks, history
<1>3. p.at \in Code
  BY <1>1, <1>2 DEF PageRow
<1>4. ASSUME NEW x \in {"alive", "404"}, x = "alive" => p.at \notin blocked,
             Set(t, [p EXCEPT !.config = x]), UNCHANGED cached
      PROVE  DInv'
  <2> DEFINE q == [p EXCEPT !.config = x]
  <2>1. /\ q \in PageRow /\ q.after = p.after /\ q.at = p.at /\ q.config = x /\ q.live = p.live
        /\ q.device = p.device
    BY <1>1 DEF PageRow
  <2>2. Set(t, q)
    BY <1>4
  <2> HIDE DEF q
  <2> QED
    BY <1>1, <1>2, <1>3, <1>4, <2>1, <2>2, PageStep DEF looks
<1>5. CASE ConfigBlocked(t)
  <2>1. UNCHANGED cached
    BY <1>5 DEF ConfigBlocked
  <2>2. CASE p.at \in blocked
    <3>1. Set(t, [p EXCEPT !.config = "404"])
      BY <1>5, <2>2 DEF ConfigBlocked
    <3> QED
      BY <1>4, <2>1, <3>1
  <2>3. CASE p.at \notin blocked
    <3>1. Set(t, [p EXCEPT !.config = "alive"])
      BY <1>5, <2>3 DEF ConfigBlocked
    <3> QED
      BY <1>4, <2>1, <2>3, <3>1
  <2> QED
    BY <2>2, <2>3
<1>6. CASE ConfigAnswered(t)
  <2>1. CASE Known(p.at)
    <3> DEFINE th == ThemeOf(p.at)
               q == [p EXCEPT !.config = "done", !.theme = th, !.live = TRUE]
    <3>1. th \in Themes \cup {NULL}
      BY <1>3, ThemeType DEF DInv
    <3>2. Set(t, q) /\ cached' = [cached EXCEPT ![t][p.at].config = th]
      BY <1>6, <2>1 DEF ConfigAnswered
    <3> HIDE DEF th
    <3>3. /\ q \in PageRow /\ q.after = p.after /\ q.at = p.at /\ q.config = "done"
      BY <1>1, <3>1 DEF PageRow
    <3>4. p.config = "alive"
      BY <1>6 DEF ConfigAnswered
    <3>5. cached' \in [Tablet -> [Code -> CachedRow]]
      <4>1. cached[t] \in [Code -> CachedRow] /\ cached[t][p.at] \in CachedRow
        BY <1>1, <1>3
      <4>2. [cached[t][p.at] EXCEPT !.config = th] \in CachedRow
        BY <3>1, <4>1 DEF CachedRow
      <4>3. [cached[t] EXCEPT ![p.at] = [cached[t][p.at] EXCEPT !.config = th]] \in [Code -> CachedRow]
        BY <4>1, <4>2
      <4> QED
        BY <1>1, <3>2, <4>3
    <3> HIDE DEF q
    <3> QED
      BY <1>1, <1>2, <1>3, <3>2, <3>3, <3>4, <3>5, PageStep DEF looks
  <2>2. CASE ~Known(p.at)
    BY <1>4, <1>6, <2>2 DEF ConfigAnswered
  <2> QED
    BY <2>1, <2>2
<1>7. ASSUME NEW th \in Themes \cup {NULL, "removed"},
             Set(t, [p EXCEPT !.config = "done", !.theme = th]), UNCHANGED cached
      PROVE  DInv'
  <2> DEFINE q == [p EXCEPT !.config = "done", !.theme = th]
  <2>1. /\ q \in PageRow /\ q.after = p.after /\ q.at = p.at /\ q.config = "done" /\ q.live = p.live
    BY <1>1 DEF PageRow
  <2>2. Set(t, q)
    BY <1>7
  <2> HIDE DEF q
  <2> QED
    BY <1>1, <1>2, <1>3, <1>7, <2>1, <2>2, PageStep DEF looks
<1>8. CASE ConfigRefused(t)
  BY <1>7, <1>8 DEF ConfigRefused
<1>9. CASE ConfigOffline(t)
  <2> DEFINE th == Fallback(cached[t][p.at].config, "default")
  <2>1. th \in Themes \cup {NULL}
    BY <1>1, <1>3, DevicesAssumption DEF Fallback, CachedRow
  <2>2. Set(t, [p EXCEPT !.config = "done", !.theme = th]) /\ UNCHANGED cached
    BY <1>9 DEF ConfigOffline
  <2> HIDE DEF th
  <2> QED
    BY <1>7, <2>1, <2>2
<1> QED
  BY <1>5, <1>6, <1>8, <1>9

LEMMA DeviceStep ==
  ASSUME DInv, NEW t \in Tablet,
         DeviceBlocked(t) \/ DeviceFind(t) \/ DeviceCreate(t) \/ DeviceOffline(t)
  PROVE  DInv'
<1> DEFINE p == tab[t]
<1>1. /\ p \in PageRow /\ (p.after => p.at \in dead /\ p.config # "alive" /\ ~p.live)
      /\ p.at = NULL => p.config = "done" /\ p.device = "done"
      /\ cached \in [Tablet -> [Code -> CachedRow]]
      /\ device \in [Code -> DeviceRow \cup {NULL}] /\ dead \subseteq blocked
  BY DEF DInv, PagesOK, DeadOK, DeadPages, RegistryOK
<1>2. /\ UNCHANGED <<rooms, blocked, theme, chosen, ops, dead, nops>>
      /\ p.device # "done"
  BY DEF DeviceBlocked, DeviceFind, DeviceCreate, DeviceOffline, registry, looks, history
<1>3. p.at \in Code /\ HomeOf[p.at] \in Restroom
  BY <1>1, <1>2, DevicesAssumption DEF PageRow
<1>4. ASSUME NEW x \in {"find", "create", "done"}, NEW r \in Restroom \cup {NULL},
             Set(t, [p EXCEPT !.device = x, !.room = r]),
             cached' \in [Tablet -> [Code -> CachedRow]],
             device' \in [Code -> DeviceRow \cup {NULL}]
      PROVE  DInv'
  <2> DEFINE q == [p EXCEPT !.device = x, !.room = r]
  <2>1. /\ q \in PageRow /\ q.after = p.after /\ q.at = p.at /\ q.config = p.config /\ q.live = p.live
    BY <1>1 DEF PageRow
  <2>2. Set(t, q)
    BY <1>4
  <2> HIDE DEF q
  <2> QED
    BY <1>1, <1>2, <1>3, <1>4, <2>1, <2>2, PageStep DEF looks
<1>5. ASSUME NEW x \in {"find", "create", "done"}, Set(t, [p EXCEPT !.device = x]),
             cached' \in [Tablet -> [Code -> CachedRow]], UNCHANGED device
      PROVE  DInv'
  <2>1. [p EXCEPT !.device = x] = [p EXCEPT !.device = x, !.room = p.room] /\ p.room \in Restroom \cup {NULL}
    BY <1>1 DEF PageRow
  <2> QED
    BY <1>1, <1>4, <1>5, <2>1
<1>6. ASSUME NEW r \in Restroom, Joined(t, r), device' \in [Code -> DeviceRow \cup {NULL}]
      PROVE  DInv'
  <2>1. cached' \in [Tablet -> [Code -> CachedRow]]
    <3>1. cached[t] \in [Code -> CachedRow] /\ cached[t][p.at] \in CachedRow
      BY <1>1, <1>3
    <3>2. [cached[t][p.at] EXCEPT !.room = r] \in CachedRow
      BY <3>1 DEF CachedRow
    <3>3. [cached[t] EXCEPT ![p.at] = [cached[t][p.at] EXCEPT !.room = r]] \in [Code -> CachedRow]
      BY <3>1, <3>2
    <3>4. cached' = [cached EXCEPT ![t][p.at].room = r]
      BY <1>6 DEF Joined
    <3> QED
      BY <1>1, <3>3, <3>4
  <2>2. Set(t, [p EXCEPT !.device = "done", !.room = r])
    BY <1>6 DEF Joined
  <2> QED
    BY <1>4, <1>6, <2>1, <2>2
<1>11. ASSUME Unauthorized(t), UNCHANGED device PROVE DInv'
  <2>1. cached' \in [Tablet -> [Code -> CachedRow]]
    BY <1>1, <1>11 DEF Unauthorized, Nothing, CachedRow
  <2>2. Set(t, [p EXCEPT !.device = "done"])
    BY <1>11 DEF Unauthorized
  <2> QED
    BY <1>5, <1>11, <2>1, <2>2
<1>7. CASE DeviceBlocked(t)
  <2>1. UNCHANGED device
    BY <1>7 DEF DeviceBlocked, registry
  <2>2. Unauthorized(t) \/ (Set(t, [p EXCEPT !.device = "find"]) /\ UNCHANGED cached)
    BY <1>7 DEF DeviceBlocked
  <2> QED
    BY <1>1, <1>5, <1>11, <2>1, <2>2
<1>8. CASE DeviceFind(t)
  <2>1. UNCHANGED device
    BY <1>8 DEF DeviceFind, registry
  <2>2. CASE device[p.at] # NULL
    <3>1. device[p.at].room \in Restroom /\ Joined(t, device[p.at].room)
      BY <1>1, <1>3, <1>8, <2>2 DEF DeviceFind, DeviceRow
    <3> QED
      BY <1>1, <1>6, <2>1, <3>1
  <2>3. CASE device[p.at] = NULL
    <3>1. Unauthorized(t) \/ (Set(t, [p EXCEPT !.device = "create"]) /\ UNCHANGED cached)
      BY <1>8, <2>3 DEF DeviceFind
    <3> QED
      BY <1>1, <1>5, <1>11, <2>1, <3>1
  <2> QED
    BY <2>2, <2>3
<1>9. CASE DeviceCreate(t)
  <2>1. CASE device[p.at] # NULL
    <3>1. UNCHANGED device
      BY <1>9, <2>1 DEF DeviceCreate
    <3>2. device[p.at].room \in Restroom /\ Joined(t, device[p.at].room)
      BY <1>1, <1>3, <1>9, <2>1 DEF DeviceCreate, DeviceRow
    <3> QED
      BY <1>1, <1>6, <3>1, <3>2
  <2>2. CASE device[p.at] = NULL /\ HomeOf[p.at] \in rooms
    <3> DEFINE d == [room |-> HomeOf[p.at], tpl |-> NULL]
    <3>1. device' = [device EXCEPT ![p.at] = d] /\ Joined(t, HomeOf[p.at])
      BY <1>9, <2>2 DEF DeviceCreate
    <3>2. d \in DeviceRow
      BY <1>3 DEF DeviceRow
    <3> HIDE DEF d
    <3>3. device' \in [Code -> DeviceRow \cup {NULL}]
      BY <1>1, <3>1, <3>2
    <3> QED
      BY <1>3, <1>6, <3>1, <3>3
  <2>3. CASE device[p.at] = NULL /\ HomeOf[p.at] \notin rooms
    <3>1. Set(t, [p EXCEPT !.device = "done"]) /\ UNCHANGED <<device, cached>>
      BY <1>9, <2>3 DEF DeviceCreate
    <3> QED
      BY <1>1, <1>5, <3>1
  <2> QED
    BY <2>1, <2>2, <2>3
<1>10. CASE DeviceOffline(t)
  <2> DEFINE r == cached[t][p.at].room
  <2>1. r \in Restroom \cup {NULL}
    BY <1>1, <1>3 DEF CachedRow
  <2>2. UNCHANGED <<device, cached>> /\ Set(t, [p EXCEPT !.device = "done", !.room = r])
    BY <1>10 DEF DeviceOffline, registry
  <2> HIDE DEF r
  <2> QED
    BY <1>1, <1>4, <2>1, <2>2
<1> QED
  BY <1>7, <1>8, <1>9, <1>10
-----------------------------------------------------------------------------
(* The pages while an operation is served: as they were, told to reload,   *)
(* or opened anew.                                                         *)
LEMMA PagesSame ==
  ASSUME DInv, UNCHANGED <<tab, cached>>, dead \subseteq dead'
  PROVE  PagesOK' /\ DeadPages'
  BY DEF DInv, PagesOK, DeadOK, DeadPages

LEMMA PagesKicked ==
  ASSUME DInv, NEW T \in SUBSET Tablet, UNCHANGED cached, dead \subseteq dead',
         tab' = [t \in Tablet |-> IF t \in T THEN [tab[t] EXCEPT !.kick = TRUE] ELSE tab[t]]
  PROVE  PagesOK' /\ DeadPages'
<1>1. tab \in [Tablet -> PageRow]
  BY DEF DInv, PagesOK
<1>2. \A t \in Tablet : LET q == [tab[t] EXCEPT !.kick = TRUE] IN
        /\ q \in PageRow /\ q.after = tab[t].after /\ q.at = tab[t].at
        /\ q.config = tab[t].config /\ q.device = tab[t].device /\ q.live = tab[t].live
  BY <1>1 DEF PageRow
<1>3. \A t \in Tablet :
        /\ tab'[t] \in PageRow /\ tab'[t].after = tab[t].after /\ tab'[t].at = tab[t].at
        /\ tab'[t].config = tab[t].config /\ tab'[t].device = tab[t].device /\ tab'[t].live = tab[t].live
  BY <1>1, <1>2
<1>4. tab' \in [Tablet -> PageRow]
  BY <1>3
<1> QED
  BY <1>3, <1>4 DEF DInv, PagesOK, DeadOK, DeadPages

LEMMA PagesOpened ==
  ASSUME DInv, UNCHANGED <<cached, dead>>, NEW c \in Code, NEW T \in SUBSET Tablet,
         tab' = [t \in Tablet |-> IF t \in T THEN Page(c) ELSE tab[t]]
  PROVE  PagesOK' /\ DeadPages'
<1>1. tab \in [Tablet -> PageRow] /\ Page(c) \in PageRow /\ c # NULL
  BY PageType, DevicesAssumption DEF DInv, PagesOK
<1>2. tab' \in [Tablet -> PageRow]
  BY <1>1
<1> QED
  BY <1>1, <1>2, PageType DEF DInv, PagesOK, DeadOK, DeadPages

LEMMA Assemble ==
  ASSUME DInv, PagesOK', DeadPages', RegistryOK',
         dead' \subseteq blocked',
         \A o \in ops' \ ops : o \in AnyOp /\ (o.op = "pair" => o.code \notin dead'),
         \A o \in ops \cap ops' : o.op = "pair" => o.code \notin dead'
  PROVE  DInv'
<1>1. OpsOK'
  BY DEF DInv, OpsOK
<1>2. DeadOK'
  BY DEF DeadOK
<1> QED
  BY <1>1, <1>2 DEF DInv

(* Most steps neither bury a code nor touch the registry.                  *)
LEMMA QuietStep ==
  ASSUME DInv, UNCHANGED <<rooms, device, blocked, theme, chosen, dead>>, nops' \in Nat,
         PagesOK', DeadPages',
         \A o \in ops' \ ops : o \in AnyOp /\ (o.op = "pair" => o.code \notin dead)
  PROVE  DInv'
<1>1. RegistryOK'
  BY DEF DInv, RegistryOK
<1> QED
  BY <1>1, Assemble DEF DInv, DeadOK

-----------------------------------------------------------------------------
(* Deletions.                                                              *)
LEMMA RowsType ==
  ASSUME RegistryOK, NEW R \in SUBSET Restroom
  PROVE  Rows(R) \in SUBSET [code : Code, room : Restroom]
  BY DEF Rows, RegistryOK, DeviceRow

LEMMA BeginStep ==
  ASSUME DInv, NEW o \in AnyOp, o.op # "pair", Operation, ops' = ops \cup {o},
         UNCHANGED <<registry, looks, tablets, dead>>
  PROVE  DInv'
<1>1. nops' \in Nat
  BY DEF Operation, DInv, RegistryOK
<1>2. PagesOK' /\ DeadPages'
  BY PagesSame DEF tablets
<1> QED
  BY <1>1, <1>2, QuietStep DEF registry, looks

LEMMA DeleteRoomsStep == ASSUME DInv, NEW R \in SUBSET Restroom, DeleteRooms(R) PROVE DInv'
<1> DEFINE o == [n |-> nops', op |-> "delete", pc |-> "row", rooms |-> R, devs |-> Rows(R)]
<1>1. Operation /\ ops' = ops \cup {o} /\ UNCHANGED <<registry, looks, tablets, dead>>
  BY DEF DeleteRooms, Begin
<1>2. nops' \in Nat /\ Rows(R) \in SUBSET [code : Code, room : Restroom]
  BY <1>1, RowsType DEF Operation, DInv, RegistryOK
<1>3. o \in AnyOp /\ o.op # "pair"
  BY <1>2 DEF AnyOp, DeleteOp
<1> HIDE DEF o
<1> QED
  BY <1>1, <1>3, BeginStep

LEMMA DeleteDeviceStep == ASSUME DInv, NEW c \in Code, DeleteDevice(c) PROVE DInv'
<1> DEFINE d == [code |-> c, room |-> device[c].room]
           o == [n |-> nops', op |-> "delete", pc |-> "row", rooms |-> {}, devs |-> {d}]
<1>1. Operation /\ ops' = ops \cup {o} /\ UNCHANGED <<registry, looks, tablets, dead>>
  BY DEF DeleteDevice, Begin
<1>2. nops' \in Nat /\ d \in [code : Code, room : Restroom]
  BY <1>1 DEF Operation, DInv, RegistryOK, DeleteDevice, DeviceRow
<1> HIDE DEF d
<1>3. o \in AnyOp /\ o.op # "pair"
  BY <1>2 DEF AnyOp, DeleteOp
<1> HIDE DEF o
<1> QED
  BY <1>1, <1>3, BeginStep

(* An operation goes on or ends.                                           *)
LEMMA OpType ==
  ASSUME DInv, NEW o \in ops
  PROVE  /\ o.op = "delete" => o \in DeleteOp
         /\ o.op = "pair" => o \in PairOp /\ o.code \notin dead
         /\ o.op = "drop" => o \in DropOp
         /\ o.op \notin {"delete", "pair", "drop"} => o \in NotifyOp
  BY DEF DInv, OpsOK, AnyOp, DeleteOp, PairOp, NotifyOp, DropOp, DeadOK

LEMMA DeleteRowStep == ASSUME DInv, NEW o \in ops, DeleteRow(o) PROVE DInv'
<1> DEFINE p == [o EXCEPT !.pc = "block"]
           goes == o.rooms \subseteq rooms /\ (o.rooms # {} \/ \A d \in o.devs : device[d.code] # NULL)
           cut(c) == device[c] # NULL /\ (device[c].room \in o.rooms
                                          \/ (o.rooms = {} /\ \E d \in o.devs : d.code = c))
<1>1. /\ o \in DeleteOp /\ RegistryOK /\ dead \subseteq blocked
      /\ UNCHANGED <<blocked, theme, chosen, tab, cached, dead, nops>>
  BY OpType DEF DeleteRow, DInv, DeadOK, looks, tablets, history
<1>2. p \in AnyOp /\ p.op = "delete"
  BY <1>1 DEF AnyOp, DeleteOp
<1> HIDE DEF p
<1>3. PagesOK' /\ DeadPages'
  BY <1>1, PagesSame
<1>4. CASE goes
  <2>1. /\ rooms' = rooms \ o.rooms /\ ops' = (ops \ {o}) \cup {p}
        /\ device' = [c \in Code |-> IF cut(c) THEN NULL ELSE device[c]]
    BY <1>4 DEF DeleteRow, Go, p
  <2> HIDE DEF cut
  <2>3. RegistryOK'
    BY <1>1, <2>1 DEF RegistryOK
  <2> QED
    BY <1>1, <1>2, <1>3, <2>1, <2>3, Assemble DEF DInv, DeadOK
<1>5. CASE ~goes
  <2>1. UNCHANGED <<rooms, device>> /\ ops' = ops \ {o}
    BY <1>5 DEF DeleteRow, End
  <2> QED
    BY <1>1, <1>3, <2>1, QuietStep DEF RegistryOK
<1> QED
  BY <1>4, <1>5

LEMMA OpEnds ==
  ASSUME DInv, NEW o \in ops, ops' = ops \ {o}, UNCHANGED <<registry, looks, tablets, dead, nops>>
  PROVE  DInv'
<1>1. PagesOK' /\ DeadPages'
  BY PagesSame DEF tablets
<1> QED
  BY <1>1, QuietStep DEF registry, looks, DInv, RegistryOK

LEMMA BlockNextStep ==
  ASSUME DInv, NEW o \in ops, NEW d \in [code : Code, room : Restroom], BlockNext(o, d)
  PROVE  DInv'
<1> DEFINE p == [o EXCEPT !.devs = @ \ {d}]
           T == {t \in Tablet : net[t] /\ tab[t].room = d.room /\ tab[t].at \in {d.code}}
<1>1. /\ o \in DeleteOp /\ RegistryOK /\ dead \subseteq blocked
      /\ UNCHANGED <<rooms, device, theme, chosen, cached, nops>>
      /\ blocked' = blocked \cup {d.code} /\ ops' = (ops \ {o}) \cup {p}
      /\ dead' = dead \cup {c \in {d.code} : ~\E q \in ops : q.op = "pair" /\ q.code = c}
  BY OpType DEF BlockNext, Block, DInv, DeadOK, looks
<1>2. p \in AnyOp /\ p.op = "delete"
  BY <1>1 DEF AnyOp, DeleteOp
<1>3. tab' = [t \in Tablet |-> IF t \in T THEN [tab[t] EXCEPT !.kick = TRUE] ELSE tab[t]]
  BY DEF BlockNext, Block, Kicked
<1> HIDE DEF p, T
<1>4. PagesOK' /\ DeadPages'
  <2>1. T \in SUBSET Tablet /\ dead \subseteq dead'
    BY <1>1 DEF T
  <2> QED
    BY <1>1, <1>3, <2>1, PagesKicked
<1>5. RegistryOK'
  BY <1>1 DEF RegistryOK
<1>6. dead' \subseteq blocked' /\ \A q \in ops : q.op = "pair" => q.code \notin dead'
  BY <1>1 DEF DInv, DeadOK
<1> QED
  BY <1>1, <1>2, <1>4, <1>5, <1>6, Assemble

(* Pairings.                                                               *)
LEMMA PairBegun ==
  ASSUME DInv, NEW c \in Code, NEW r \in Restroom, NEW t \in Tablet, NEW from \in {"selector", "team"},
         Pair(c, r, t, from)
  PROVE  DInv'
<1> DEFINE o == [n |-> nops', op |-> "pair", pc |-> "room", code |-> c, room |-> r, by |-> t, from |-> from]
           turned(u) == [tab[u] EXCEPT !.after = @ /\ tab[u].at # c]
<1>1. /\ Operation /\ ops' = ops \cup {o} /\ dead' = dead \ {c}
      /\ tab' = [u \in Tablet |-> turned(u)]
      /\ UNCHANGED <<rooms, device, blocked, theme, chosen, cached>>
  BY DEF Pair, Begin, registry, looks
<1>2. nops' \in Nat
  BY <1>1 DEF Operation, DInv, RegistryOK
<1>3. o \in AnyOp /\ o.op = "pair" /\ o.code = c
  BY <1>2 DEF AnyOp, PairOp
<1>4. \A u \in Tablet :
        /\ turned(u) \in PageRow /\ turned(u).after = (tab[u].after /\ tab[u].at # c)
        /\ turned(u).at = tab[u].at /\ turned(u).config = tab[u].config
        /\ turned(u).device = tab[u].device /\ turned(u).live = tab[u].live
  BY ZenonT(60) DEF DInv, PagesOK, PageRow
<1> HIDE DEF o, turned
<1>5. PagesOK' /\ DeadPages'
  <2>1. tab' \in [Tablet -> PageRow] /\ \A u \in Tablet : tab'[u] = turned(u)
    BY <1>1, <1>4
  <2> QED
    BY ZenonT(60), <1>1, <1>4, <2>1 DEF DInv, PagesOK, DeadOK, DeadPages
<1>6. RegistryOK'
  BY <1>1, <1>2 DEF DInv, RegistryOK
<1>7. dead' \subseteq blocked' /\ \A q \in ops : q.op = "pair" => q.code \notin dead'
  BY <1>1 DEF DInv, DeadOK
<1> QED
  BY <1>1, <1>3, <1>5, <1>6, <1>7, Assemble

LEMMA PickStep == ASSUME DInv, NEW t \in Tablet, NEW c \in Code, Pick(t, c) PROVE DInv'
  BY PairBegun, DevicesAssumption DEF Pick

LEMMA ReassignStep == ASSUME DInv, NEW t \in Tablet, NEW r \in Restroom, Reassign(t, r) PROVE DInv'
<1>1. tab[t].at \in Code
  BY DEF Reassign, DInv, PagesOK, PageRow
<1> QED
  BY <1>1, PairBegun DEF Reassign

LEMMA PagesAnswered ==
  ASSUME DInv, NEW o \in PairOp, NEW ok \in BOOLEAN, PairAnswered(o, ok), UNCHANGED <<cached, dead>>
  PROVE  PagesOK' /\ DeadPages'
<1>1. CASE ok \/ o.from = "selector"
  <2>1. tab' = [t \in Tablet |-> IF t \in {o.by} THEN Page(o.code) ELSE tab[t]]
    BY <1>1 DEF PairAnswered, Set, DInv, PagesOK
  <2>2. o.code \in Code /\ {o.by} \in SUBSET Tablet
    BY DEF PairOp
  <2> QED
    BY <2>1, <2>2, PagesOpened
<1>2. CASE ~(ok \/ o.from = "selector")
  BY <1>2, PagesSame DEF PairAnswered
<1> QED
  BY <1>1, <1>2

LEMMA PairFindStep == ASSUME DInv, NEW o \in ops, PairFind(o) PROVE DInv'
<1> DEFINE p == [o EXCEPT !.pc = "unblock"]
<1>1. /\ o \in PairOp /\ o.code \notin dead
      /\ UNCHANGED <<rooms, device, blocked, theme, chosen, cached, dead, nops>>
  BY OpType DEF PairFind, registry, looks, history
<1>2. p \in AnyOp /\ p.code = o.code
  BY <1>1 DEF AnyOp, PairOp
<1> HIDE DEF p
<1>3. nops' \in Nat
  BY <1>1 DEF DInv, RegistryOK
<1>4. CASE o.room \in rooms
  <2>1. ops' = (ops \ {o}) \cup {p} /\ UNCHANGED tab
    BY <1>4 DEF PairFind, Go, p
  <2>2. PagesOK' /\ DeadPages'
    BY <1>1, <2>1, PagesSame
  <2> QED
    BY <1>1, <1>2, <1>3, <2>1, <2>2, QuietStep
<1>5. CASE o.room \notin rooms
  <2>1. PairAnswered(o, FALSE) /\ ops' = ops \ {o}
    BY <1>5 DEF PairFind, PairAnswered, End
  <2>2. PagesOK' /\ DeadPages'
    BY <1>1, <2>1, PagesAnswered
  <2> QED
    BY <1>1, <1>3, <2>1, <2>2, QuietStep
<1> QED
  BY <1>4, <1>5

LEMMA PairUnblockStep == ASSUME DInv, NEW o \in ops, PairUnblock(o) PROVE DInv'
<1> DEFINE p == [o EXCEPT !.pc = "upsert"]
<1>1. /\ o \in PairOp /\ o.code \notin dead /\ blocked' = blocked \ {o.code}
      /\ UNCHANGED <<rooms, device, theme, chosen, tab, cached, dead, nops>>
  BY OpType DEF PairUnblock, looks, tablets, history
<1>2. p \in AnyOp /\ p.code = o.code /\ ops' = (ops \ {o}) \cup {p}
  BY <1>1 DEF AnyOp, PairOp, PairUnblock, Go
<1> HIDE DEF p
<1>3. PagesOK' /\ DeadPages'
  BY <1>1, PagesSame
<1>4. RegistryOK'
  BY <1>1 DEF DInv, RegistryOK
<1> QED
  BY <1>1, <1>2, <1>3, <1>4, Assemble DEF DInv, DeadOK

LEMMA UpsertedType ==
  ASSUME DInv, NEW c \in Code, NEW r \in rooms, device' = Upserted(c, r), UNCHANGED rooms
  PROVE  device' \in [Code -> DeviceRow \cup {NULL}]
<1> DEFINE d == [room |-> r, tpl |-> IF device[c] = NULL THEN NULL ELSE device[c].tpl]
<1>1. d \in DeviceRow
  BY DEF DInv, RegistryOK, DeviceRow
<1>2. device' = [device EXCEPT ![c] = d]
  BY DEF Upserted
<1> HIDE DEF d
<1> QED
  BY <1>1, <1>2 DEF DInv, RegistryOK

LEMMA PairUpsertStep == ASSUME DInv, NEW o \in ops, PairUpsert(o) PROVE DInv'
<1>1. /\ o \in PairOp /\ PairAnswered(o, o.room \in rooms) /\ ops' = ops \ {o}
      /\ UNCHANGED <<rooms, blocked, theme, chosen, cached, dead, nops>>
  BY OpType DEF PairUpsert, PairAnswered, End, looks, history
<1>2. PagesOK' /\ DeadPages'
  <2>1. CASE PairAnswered(o, TRUE)
    BY <1>1, <2>1, PagesAnswered
  <2>2. CASE PairAnswered(o, FALSE)
    BY <1>1, <2>2, PagesAnswered
  <2> QED
    BY <1>1, <2>1, <2>2 DEF PairAnswered
<1>3. device' \in [Code -> DeviceRow \cup {NULL}]
  <2>1. CASE o.room \in rooms
    <3>1. o.code \in Code /\ device' = Upserted(o.code, o.room)
      BY <1>1, <2>1 DEF PairUpsert, PairOp
    <3> QED
      BY <1>1, <2>1, <3>1, UpsertedType
  <2>2. CASE o.room \notin rooms
    BY <1>1, <2>2 DEF PairUpsert, DInv, RegistryOK
  <2> QED
    BY <2>1, <2>2
<1>4. RegistryOK'
  BY <1>1, <1>3 DEF DInv, RegistryOK
<1> QED
  BY <1>1, <1>2, <1>3, <1>4, Assemble DEF DInv, DeadOK

LEMMA RegisterStep == ASSUME DInv, NEW c \in Code, NEW r \in Restroom, Register(c, r) PROVE DInv'
<1>1. /\ r \in rooms /\ device' = Upserted(c, r) /\ nops' = nops + 1
      /\ UNCHANGED <<rooms, blocked, theme, chosen, ops, tab, cached, dead>>
  BY DEF Register, Operation, looks, tablets
<1>2. device' \in [Code -> DeviceRow \cup {NULL}] /\ RegistryOK'
  BY <1>1, UpsertedType DEF DInv, RegistryOK
<1>3. PagesOK' /\ DeadPages'
  BY <1>1, PagesSame
<1> QED
  BY <1>1, <1>2, <1>3, Assemble DEF DInv, DeadOK

LEMMA UnpairStep == ASSUME DInv, NEW t \in Tablet, Unpair(t) \/ Reload(t) PROVE DInv'
<1>1. /\ UNCHANGED <<rooms, blocked, device, looks, ops, cached, dead, nops>>
      /\ cached \in [Tablet -> [Code -> CachedRow]]
      /\ device \in [Code -> DeviceRow \cup {NULL}] /\ tab[t].at \in Code \cup {NULL}
  BY DEF Unpair, Reload, DInv, PagesOK, PageRow, RegistryOK, registry, history
<1>2. PICK c \in Code \cup {NULL} : Set(t, Page(c))
  BY <1>1 DEF Unpair, Reload
<1> QED
  BY <1>1, <1>2, PageType, PageStep
-----------------------------------------------------------------------------
(* Templates.                                                              *)
LEMMA PagesNotified ==
  ASSUME DInv, NEW devs, tab' = KickedAll(devs), UNCHANGED cached, dead \subseteq dead'
  PROVE  PagesOK' /\ DeadPages'
<1> DEFINE T == {t \in Tablet : net[t] /\ tab[t].at # NULL /\ (\E d \in devs : d.room = tab[t].room)
                                /\ (\E d \in devs : d.code = tab[t].at)}
<1>1. tab' = [t \in Tablet |-> IF t \in T THEN [tab[t] EXCEPT !.kick = TRUE] ELSE tab[t]]
  BY DEF KickedAll
<1>2. T \in SUBSET Tablet
  OBVIOUS
<1> HIDE DEF T
<1> QED
  BY <1>1, <1>2, PagesKicked

LEMMA NotifyStep ==
  ASSUME DInv, NEW o \in ops, NotifyTemplate(o) \/ NotifyAssigned(o) \/ DropNotify(o)
  PROVE  DInv'
<1>1. UNCHANGED <<rooms, device, blocked, theme, chosen, cached, dead, nops>>
  BY DEF NotifyTemplate, NotifyAssigned, DropNotify, registry, looks, history
<1>2. \E devs : tab' = KickedAll(devs)
  BY DEF NotifyTemplate, NotifyAssigned, DropNotify, Notify
<1>3. PagesOK' /\ DeadPages' /\ nops' \in Nat
  BY <1>1, <1>2, PagesNotified DEF DInv, RegistryOK
<1>4. CASE ops' = ops \ {o}
  BY <1>1, <1>3, <1>4, QuietStep
<1>5. CASE DropNotify(o)
  <2> DEFINE p == [o EXCEPT !.pc = "buildings"]
  <2>1. o \in DropOp /\ ops' = (ops \ {o}) \cup {p}
    BY <1>5, OpType DEF DropNotify, Go
  <2>2. p \in AnyOp /\ p.op = "drop"
    BY <2>1 DEF AnyOp, DropOp
  <2> HIDE DEF p
  <2> QED
    BY <1>1, <1>3, <2>1, <2>2, QuietStep
<1> QED
  BY <1>4, <1>5 DEF NotifyTemplate, NotifyAssigned, End

LEMMA DeleteTemplateStep == ASSUME DInv, NEW x \in Template, DeleteTemplate(x) PROVE DInv'
<1> DEFINE o == [n |-> nops', op |-> "drop", pc |-> "notify", tpl |-> x]
<1>1. Operation /\ ops' = ops \cup {o} /\ UNCHANGED <<registry, looks, tablets, dead>>
  BY DEF DeleteTemplate, Begin
<1>2. nops' \in Nat
  BY <1>1 DEF Operation, DInv, RegistryOK
<1>3. o \in AnyOp /\ o.op # "pair"
  BY <1>2 DEF AnyOp, DropOp
<1> HIDE DEF o
<1> QED
  BY <1>1, <1>3, BeginStep

(* An edit of a template or a choice, and the operation that will tell.    *)
LEMMA ChoiceStep ==
  ASSUME DInv, NEW o \in AnyOp, o.op # "pair", Operation, ops' = ops \cup {o},
         UNCHANGED <<rooms, blocked, tablets, dead>>, RegistryOK'
  PROVE  DInv'
<1>1. PagesOK' /\ DeadPages'
  BY PagesSame DEF tablets
<1> QED
  BY <1>1, Assemble DEF DInv, DeadOK

LEMMA UpdateTemplateStep ==
  ASSUME DInv, NEW x \in Template, NEW th \in Themes, UpdateTemplate(x, th)
  PROVE  DInv'
<1> DEFINE o == [n |-> nops', op |-> "template", pc |-> "notify", tpl |-> x]
<1>1. /\ Operation /\ ops' = ops \cup {o} /\ UNCHANGED <<rooms, device, blocked, chosen, tablets, dead>>
      /\ theme' = [theme EXCEPT ![x] = th]
  BY DEF UpdateTemplate, Begin, registry
<1>2. nops' \in Nat
  BY <1>1 DEF Operation, DInv, RegistryOK
<1>3. o \in AnyOp /\ o.op # "pair"
  BY <1>2 DEF AnyOp, NotifyOp
<1> HIDE DEF o
<1>4. RegistryOK'
  BY <1>1, <1>2 DEF DInv, RegistryOK
<1> QED
  BY <1>1, <1>3, <1>4, ChoiceStep

LEMMA AssignTemplateStep ==
  ASSUME DInv, NEW b \in Building, NEW x \in Template \cup {NULL}, AssignTemplate(b, x)
  PROVE  DInv'
<1> DEFINE o == [n |-> nops', op |-> "building", pc |-> "notify", building |-> b]
<1>1. /\ Operation /\ ops' = ops \cup {o} /\ UNCHANGED <<rooms, device, blocked, theme, tablets, dead>>
      /\ chosen' = [chosen EXCEPT ![b] = x]
  BY DEF AssignTemplate, Begin, registry
<1>2. nops' \in Nat
  BY <1>1 DEF Operation, DInv, RegistryOK
<1>3. o \in AnyOp /\ o.op # "pair"
  BY <1>2 DEF AnyOp, NotifyOp
<1> HIDE DEF o
<1>4. RegistryOK'
  BY <1>1, <1>2 DEF DInv, RegistryOK
<1> QED
  BY <1>1, <1>3, <1>4, ChoiceStep

LEMMA AssignDeviceStep ==
  ASSUME DInv, NEW c \in Code, NEW x \in Template \cup {NULL}, AssignTemplateToDevice(c, x)
  PROVE  DInv'
<1> DEFINE o == [n |-> nops', op |-> "device", pc |-> "notify", code |-> c]
           d == [device[c] EXCEPT !.tpl = x]
<1>1. /\ Operation /\ ops' = ops \cup {o} /\ UNCHANGED <<rooms, chosen, blocked, theme, tablets, dead>>
      /\ device' = [device EXCEPT ![c] = d] /\ device[c] # NULL
  BY DEF AssignTemplateToDevice, Begin, looks
<1>2. nops' \in Nat /\ device[c] \in DeviceRow
  BY <1>1 DEF Operation, DInv, RegistryOK
<1>3. o \in AnyOp /\ o.op # "pair"
  BY <1>2 DEF AnyOp, NotifyOp
<1>4. d \in DeviceRow
  BY <1>2 DEF DeviceRow
<1> HIDE DEF o, d
<1>5. RegistryOK'
  BY <1>1, <1>2, <1>4 DEF DInv, RegistryOK
<1> QED
  BY <1>1, <1>3, <1>5, ChoiceStep

(* A template that goes is cut from the buildings, from the devices, and   *)
(* from both once more.                                                    *)
LEMMA LinksCut ==
  ASSUME DInv, NEW x \in Template
  PROVE  /\ NoBuildingUses(x) \in [Building -> Template \cup {NULL}]
         /\ NoDeviceUses(x) \in [Code -> DeviceRow \cup {NULL}]
<1>1. \A c \in Code : device[c] # NULL => [device[c] EXCEPT !.tpl = NULL] \in DeviceRow
  BY DEF DInv, RegistryOK, DeviceRow
<1> QED
  BY <1>1 DEF DInv, RegistryOK, NoBuildingUses, NoDeviceUses

LEMMA UnlinkStep ==
  ASSUME DInv, NEW o \in ops, UnlinkBuildings(o) \/ UnlinkDevices(o) \/ DropTemplate(o)
  PROVE  DInv'
<1>1. o \in DropOp /\ o.tpl \in Template
  BY OpType DEF UnlinkBuildings, UnlinkDevices, DropTemplate, DropOp
<1>2. /\ UNCHANGED <<rooms, blocked, tab, cached, dead, nops>>
      /\ device' = device \/ device' = NoDeviceUses(o.tpl)
      /\ chosen' = chosen \/ chosen' = NoBuildingUses(o.tpl)
      /\ theme' = theme \/ theme' = [theme EXCEPT ![o.tpl] = NULL]
  BY DEF UnlinkBuildings, UnlinkDevices, DropTemplate, registry, looks, tablets, history
<1>3. RegistryOK'
  BY <1>1, <1>2, LinksCut DEF DInv, RegistryOK
<1>4. PagesOK' /\ DeadPages'
  BY <1>2, PagesSame
<1>5. \A q \in ops' \ ops : q \in AnyOp /\ q.op # "pair"
  <2>1. ops' = ops \ {o} \/ \E pc \in {"devices", "row"} : ops' = (ops \ {o}) \cup {[o EXCEPT !.pc = pc]}
    BY DEF UnlinkBuildings, UnlinkDevices, DropTemplate, Go, End
  <2>2. \A pc \in {"devices", "row"} : [o EXCEPT !.pc = pc] \in AnyOp /\ [o EXCEPT !.pc = pc].op # "pair"
    BY <1>1 DEF AnyOp, DropOp
  <2> QED
    BY <2>1, <2>2
<1> QED
  BY <1>2, <1>3, <1>4, <1>5, Assemble DEF DInv, DeadOK

-----------------------------------------------------------------------------
(* The server's restart: the pairings from a selector are answered by an   *)
(* error, and their tablets go on to the kiosk page.                       *)
LEMMA RestartStep == ASSUME DInv, Restart PROVE DInv'
<1> DEFINE asked(t) == \E o \in ops : o.op = "pair" /\ o.by = t /\ o.from = "selector"
           code(t) == (CHOOSE o \in ops : o.op = "pair" /\ o.by = t).code
<1>1. /\ UNCHANGED <<rooms, device, blocked, theme, chosen, cached, dead, nops>> /\ ops' = {}
      /\ tab' = [t \in Tablet |-> IF asked(t) THEN Page(code(t)) ELSE tab[t]]
      /\ tab \in [Tablet -> PageRow]
  BY DEF Restart, registry, looks, DInv, PagesOK
<1>2. \A t \in Tablet : asked(t) => code(t) \in Code
  <2> SUFFICES ASSUME NEW t \in Tablet, asked(t) PROVE code(t) \in Code
    OBVIOUS
  <2>1. \E o \in ops : o.op = "pair" /\ o.by = t
    OBVIOUS
  <2>2. \A o \in ops : o.op = "pair" => o.code \in Code
    BY OpType DEF PairOp
  <2> QED
    BY <2>1, <2>2
<1> HIDE DEF asked, code
<1>3. \A t \in Tablet : tab'[t] = tab[t] \/ \E c \in Code : tab'[t] = Page(c)
  BY <1>1, <1>2
<1>4. NULL \notin Code
  BY DevicesAssumption
<1>5. \A t \in Tablet : tab'[t] = tab[t] \/
        (/\ tab'[t] \in PageRow /\ tab'[t].at # NULL /\ tab'[t].config # "alive" /\ ~tab'[t].live
         /\ tab'[t].after => tab'[t].at \in dead)
  BY <1>3, <1>4, PageType
<1>6. tab' \in [Tablet -> PageRow]
  BY <1>1, <1>5
<1>7. PagesOK' /\ DeadPages'
  BY <1>1, <1>5, <1>6 DEF DInv, PagesOK, DeadOK, DeadPages
<1> QED
  BY <1>1, <1>7, QuietStep DEF DInv, RegistryOK

LEMMA StandStill ==
  ASSUME DInv, UNCHANGED <<registry, looks, ops, tab, cached, dead, nops>>
  PROVE  DInv'
<1>1. PagesOK' /\ DeadPages'
  BY PagesSame
<1> QED
  BY <1>1, QuietStep DEF registry, looks, DInv, RegistryOK

LEMMA DevicesNext == DInv /\ [Next]_vars => DInv'
<1> SUFFICES ASSUME DInv, [Next]_vars PROVE DInv'
  OBVIOUS
<1>1. ASSUME NEW t \in Tablet, Asked(t) \/ Reload(t) \/ UseTablet(t) \/ Lose(t) \/ Regain(t) PROVE DInv'
  <2>1. CASE Asked(t)
    BY <2>1, ConfigStep, DeviceStep DEF Asked
  <2>2. CASE Reload(t)
    BY <2>2, UnpairStep
  <2>3. CASE UseTablet(t)
    BY <2>3, PickStep, ReassignStep, UnpairStep DEF UseTablet
  <2>4. CASE Lose(t) \/ Regain(t)
    BY <2>4, StandStill DEF Lose, Regain, history
  <2> QED
    BY <1>1, <2>1, <2>2, <2>3, <2>4
<1>2. CASE Serve
  <2>1. ASSUME NEW o \in ops, DeleteDone(o) PROVE DInv'
    BY <2>1, OpEnds DEF DeleteDone, End, history
  <2>2. ASSUME NEW o \in ops, NEW d \in [code : Code, room : Restroom], BlockNext(o, d) PROVE DInv'
    BY <2>2, BlockNextStep
  <2> QED
    BY <1>2, <2>1, <2>2, DeleteRowStep, PairFindStep, PairUnblockStep, PairUpsertStep,
       NotifyStep, UnlinkStep DEF Serve
<1>3. CASE Administer
  <2>1. ASSUME NEW r \in Restroom, RestroomRow(r) PROVE DInv'
    BY <2>1, DeleteRoomsStep, DeleteDeviceStep, RegisterStep DEF RestroomRow
  <2>2. ASSUME NEW b \in Building, BuildingCard(b) PROVE DInv'
    <3>1. {r \in rooms : BuildingOf[r] = b} \in SUBSET Restroom
      BY DEF DInv, RegistryOK
    <3> QED
      BY <2>2, <3>1, DeleteRoomsStep DEF BuildingCard
  <2>3. ASSUME NEW x \in Template, TemplateCard(x) PROVE DInv'
    BY <2>3, DeleteTemplateStep, UpdateTemplateStep DEF TemplateCard
  <2>4. CASE AssignPanel
    BY <2>4, AssignTemplateStep, AssignDeviceStep DEF AssignPanel
  <2> QED
    BY <1>3, <2>1, <2>2, <2>3, <2>4 DEF Administer
<1>4. CASE Restart
  BY <1>4, RestartStep
<1>5. ASSUME NEW o \in ops, DeleteFails(o) PROVE DInv'
  BY <1>5, OpEnds DEF DeleteFails, End
<1>6. CASE UNCHANGED vars
  BY <1>6, StandStill DEF vars, tablets, history
<1> QED
  BY <1>1, <1>2, <1>3, <1>4, <1>5, <1>6 DEF Next

(* The invariant: types, and a dead code is blocked, in nobody's hands,    *)
(* and not past the block on any page opened since.                        *)
THEOREM InvariantHolds == Spec => []DInv
<1> QED
  BY DevicesInit, DevicesNext, PTL DEF Spec

(* A page opened after the deletion of its code gets no kiosk from the     *)
(* server, however the deletion, the pages' requests and other pairings    *)
(* interleave (buildings.service.ts, blockAndKickDevices).                 *)
THEOREM DeadCodesStayDead == Spec => []DeletedStaysDead
<1>1. DInv => DeletedStaysDead
  BY DEF DInv, DeadOK, DeadPages, DeletedStaysDead
<1> QED
  BY <1>1, InvariantHolds, PTL
=============================================================================
