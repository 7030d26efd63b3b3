------------------------------ MODULE Devices ------------------------------
(***************************************************************************)
(* Devices: the registry of kiosk tablets and what each tablet shows.      *)
(* BuildingsService and AuthService register, move, block and delete the   *)
(* code of a tablet and resolve its template; KioskDispatcher asks for the *)
(* configuration when the page loads, joins the Socket.IO room of its      *)
(* restroom and reloads on 'kiosk:config-changed'; AdminKiosk.tsx edits    *)
(* the templates.                                                          *)
(*                                                                         *)
(* A code is ROOM-<restroom>; HomeOf names the restroom.  A request of     *)
(* the server is one action per database call, and so is an operation of   *)
(* an administrator.                                                       *)
(***************************************************************************)
EXTENDS Naturals, FiniteSets

CONSTANTS
  NULL,
  Code, Restroom, Building, Template, Tablet,
  HomeOf,       (* HomeOf[c]: the restroom a ROOM-* code was made for      *)
  BuildingOf,   (* BuildingOf[r]: the building restroom r is in            *)
  Default,      (* Default: the template with isDefault                    *)
  Themes,
  MaxOps,       (* bound: operations of administrators                     *)
  MaxTrouble    (* bound: outages, restarts and failing deletes            *)

ASSUME DevicesAssumption ==
  /\ MaxOps \in Nat /\ MaxTrouble \in Nat /\ Default \in Template
  /\ HomeOf \in [Code -> Restroom] /\ BuildingOf \in [Restroom -> Building]
  /\ NULL \notin Code \cup Restroom \cup Template \cup Themes
  /\ "default" \in Themes /\ "removed" \notin Themes

VARIABLES
  rooms,      (* the restrooms there are                                   *)
  device,     (* device[c]: NULL or the row's restroom and template        *)
  blocked,    (* blocked_device_codes                                      *)
  theme,      (* theme[x]: of template x, NULL once it is deleted          *)
  chosen,     (* chosen[b]: the template of building b, or NULL            *)
  ops,        (* operations of administrators that are being served        *)
  tab,        (* tab[t]: the page open on tablet t                         *)
  cached,     (* cached[t]: the api layer's cache of what t was answered   *)
  net,        (* net[t]: tablet t has internet                             *)
  dead,       (* history: codes deleted and not paired again since         *)
  nops, trouble

registry == <<rooms, device, blocked>>
looks    == <<theme, chosen>>
tablets  == <<tab, cached, net>>
history  == <<dead, nops, trouble>>
vars == <<registry, looks, ops, tablets, history>>

Trouble == trouble < MaxTrouble /\ trouble' = trouble + 1

(* A page that has just been opened with code c (NULL: the selector).      *)
Page(c) == [at |-> c, theme |-> NULL, room |-> NULL, kick |-> FALSE,
            config |-> IF c = NULL THEN "done" ELSE "sent",
            device |-> IF c = NULL THEN "done" ELSE "sent",
            live |-> FALSE, after |-> c # NULL /\ c \in dead]
Nothing == [config |-> NULL, room |-> NULL]

Init ==
  /\ rooms = Restroom /\ blocked = {}
  /\ device = [c \in Code |-> NULL]
  /\ theme = [x \in Template |-> "default"] /\ chosen = [b \in Building |-> NULL]
  /\ ops = {} /\ dead = {} /\ nops = 0 /\ trouble = 0
  /\ tab = [t \in Tablet |-> Page(NULL)]
  /\ cached = [t \in Tablet |-> [c \in Code |-> Nothing]]
  /\ net = [t \in Tablet |-> TRUE]

-----------------------------------------------------------------------------
(* What the server answers about a code.                                   *)

(* resolveTemplate and the theme of getKioskConfig: the device's template, *)
(* its building's, or the default one.                                     *)
Fallback(x, y) == IF x # NULL THEN x ELSE y

ThemeOf(c) ==
  LET d == device[c]
      x == IF d = NULL THEN NULL
           ELSE Fallback(Fallback(d.tpl, chosen[BuildingOf[d.room]]),
                         IF theme[Default] = NULL THEN NULL ELSE Default)
  IN IF x = NULL THEN "default" ELSE theme[x]

(* assertKioskCodeAlive, without the block.                                *)
Known(c) == device[c] # NULL \/ HomeOf[c] \in rooms

Served(c) == IF c \in blocked \/ ~Known(c) THEN "removed" ELSE ThemeOf(c)

-----------------------------------------------------------------------------
(* The page of a tablet.                                                   *)

Set(t, p) == tab' = [tab EXCEPT ![t] = p]

(* A page load: the hourly timer, 'kiosk:config-changed', or by hand.  The *)
(* pages themselves are precached, so it works offline too.                *)
Reload(t) ==
  /\ tab[t].at # NULL
  /\ tab[t].kick \/ (tab[t].config = "done" /\ tab[t].device = "done")
  /\ Set(t, Page(tab[t].at))
  /\ UNCHANGED <<registry, looks, ops, cached, net, history>>

(* Nobody need do it by hand: the message came, or the timer of a page     *)
(* that shows a kiosk ran out; the removed screen has no timer.            *)
ReloadItself(t) == (tab[t].kick \/ tab[t].theme \in Themes) /\ Reload(t)

(* GET kiosk-config: the look at the blocked codes, then the rest.         *)
ConfigBlocked(t) ==
  /\ net[t] /\ tab[t].config = "sent"
  /\ Set(t, [tab[t] EXCEPT !.config = IF tab[t].at \in blocked THEN "404" ELSE "alive"])
  /\ UNCHANGED <<registry, looks, ops, cached, net, history>>

ConfigAnswered(t) ==
  /\ net[t] /\ tab[t].config = "alive"
  /\ IF Known(tab[t].at)
     THEN /\ Set(t, [tab[t] EXCEPT !.config = "done", !.theme = ThemeOf(tab[t].at), !.live = TRUE])
          /\ cached' = [cached EXCEPT ![t][tab[t].at].config = ThemeOf(tab[t].at)]
     ELSE Set(t, [tab[t] EXCEPT !.config = "404"]) /\ UNCHANGED cached
  /\ UNCHANGED <<registry, looks, ops, net, history>>

(* Mutant: any error leaves the default kiosk on the screen.               *)
ConfigRefusedDefault(t) ==
  /\ net[t] /\ tab[t].config = "404"
  /\ Set(t, [tab[t] EXCEPT !.config = "done", !.theme = "default"])
  /\ UNCHANGED <<registry, looks, ops, cached, net, history>>

(* 404 shows KioskRemoved.                                                 *)
ConfigRefused(t) ==
  /\ net[t] /\ tab[t].config = "404"
  /\ Set(t, [tab[t] EXCEPT !.config = "done", !.theme = "removed"])
  /\ UNCHANGED <<registry, looks, ops, cached, net, history>>

(* A network error shows what the api layer has cached, or the default.    *)
ConfigOffline(t) ==
  /\ ~net[t] /\ tab[t].config # "done"
  /\ Set(t, [tab[t] EXCEPT !.config = "done",
             !.theme = Fallback(cached[t][tab[t].at].config, "default")])
  /\ UNCHANGED <<registry, looks, ops, cached, net, history>>

(* 401 on a tablet where nobody is logged in, so that there is no refresh  *)
(* token: localStorage is cleared, and with it whatever was cached.        *)
Unauthorized(t) ==
  /\ Set(t, [tab[t] EXCEPT !.device = "done"])
  /\ cached' = [cached EXCEPT ![t] = [c \in Code |-> Nothing]]

(* GET /auth/kiosk/:code, validateKioskDevice: the block, then the row,    *)
(* then the upsert for a ROOM-* code whose restroom exists.                *)
DeviceBlocked(t) ==
  /\ net[t] /\ tab[t].device = "sent"
  /\ IF tab[t].at \in blocked THEN Unauthorized(t)
     ELSE Set(t, [tab[t] EXCEPT !.device = "find"]) /\ UNCHANGED cached
  /\ UNCHANGED <<registry, looks, ops, net, history>>

(* The answer names the restroom, and the page joins its room.             *)
Joined(t, r) ==
  /\ Set(t, [tab[t] EXCEPT !.device = "done", !.room = r])
  /\ cached' = [cached EXCEPT ![t][tab[t].at].room = r]

DeviceFind(t) ==
  /\ net[t] /\ tab[t].device = "find"
  /\ IF device[tab[t].at] # NULL THEN Joined(t, device[tab[t].at].room)
     ELSE IF HomeOf[tab[t].at] \in rooms
     THEN Set(t, [tab[t] EXCEPT !.device = "create"]) /\ UNCHANGED cached
     ELSE Unauthorized(t)
  /\ UNCHANGED <<registry, looks, ops, net, history>>

(* upsert; it fails, with 500, when the restroom has been deleted meanwhile.*)
DeviceCreate(t) ==
  /\ net[t] /\ tab[t].device = "create"
  /\ LET c == tab[t].at IN
       IF device[c] # NULL THEN Joined(t, device[c].room) /\ UNCHANGED device
       ELSE IF HomeOf[c] \in rooms
       THEN /\ device' = [device EXCEPT ![c] = [room |-> HomeOf[c], tpl |-> NULL]]
            /\ Joined(t, HomeOf[c])
       ELSE Set(t, [tab[t] EXCEPT !.device = "done"]) /\ UNCHANGED <<device, cached>>
  /\ UNCHANGED <<rooms, blocked, looks, ops, net, history>>

DeviceOffline(t) ==
  /\ ~net[t] /\ tab[t].device # "done"
  /\ Set(t, [tab[t] EXCEPT !.device = "done", !.room = cached[t][tab[t].at].room])
  /\ UNCHANGED <<registry, looks, ops, cached, net, history>>

(* broadcastToRestroom: the pages in the room whose code is named reload.  *)
Kicked(r, codes) == [t \in Tablet |->
  IF net[t] /\ tab[t].room = r /\ tab[t].at \in codes
  THEN [tab[t] EXCEPT !.kick = TRUE] ELSE tab[t]]

KickedAll(devs) == [t \in Tablet |->
  IF net[t] /\ tab[t].at # NULL /\ (\E d \in devs : d.room = tab[t].room)
             /\ (\E d \in devs : d.code = tab[t].at)
  THEN [tab[t] EXCEPT !.kick = TRUE] ELSE tab[t]]

Lose(t) ==
  /\ net[t] /\ Trouble /\ net' = [net EXCEPT ![t] = FALSE]
  /\ UNCHANGED <<registry, looks, ops, tab, cached, dead, nops>>

(* The socket reconnects and joins its rooms again.                        *)
Regain(t) ==
  /\ ~net[t] /\ net' = [net EXCEPT ![t] = TRUE]
  /\ UNCHANGED <<registry, looks, ops, tab, cached, history>>

-----------------------------------------------------------------------------
(* Operations of administrators.                                           *)

Operation == nops < MaxOps /\ nops' = nops + 1
Begin(o) == ops' = ops \cup {o}
Go(o, pc) == ops' = (ops \ {o}) \cup {[o EXCEPT !.pc = pc]}
End(o) == ops' = ops \ {o}

Rows(R) == {[code |-> c, room |-> device[c].room] :
              c \in {x \in Code : device[x] # NULL /\ device[x].room \in R}}

(* deleteRestroom, deleteFloor and deleteBuilding: the devices are listed, *)
(* the incidents deleted, the row deleted (its restrooms and devices go    *)
(* with it), and the listed codes blocked.  deleteDevice lists itself.     *)
DeleteRooms(R) ==
  /\ R # {} /\ R \subseteq rooms /\ Operation
  /\ Begin([n |-> nops', op |-> "delete", pc |-> "row", rooms |-> R, devs |-> Rows(R)])
  /\ UNCHANGED <<registry, looks, tablets, dead, trouble>>

DeleteDevice(c) ==
  /\ device[c] # NULL /\ Operation
  /\ Begin([n |-> nops', op |-> "delete", pc |-> "row", rooms |-> {}, devs |-> {[code |-> c, room |-> device[c].room]}])
  /\ UNCHANGED <<registry, looks, tablets, dead, trouble>>

DeleteRow(o) ==
  /\ o.op = "delete" /\ o.pc = "row"
  /\ IF o.rooms \subseteq rooms /\ (o.rooms # {} \/ \A d \in o.devs : device[d.code] # NULL)
     THEN /\ rooms' = rooms \ o.rooms
          /\ device' = [c \in Code |->
               IF device[c] # NULL /\ (device[c].room \in o.rooms
                                       \/ (o.rooms = {} /\ \E d \in o.devs : d.code = c))
               THEN NULL ELSE device[c]]
          /\ Go(o, "block")
     ELSE End(o) /\ UNCHANGED <<rooms, device>>
  /\ UNCHANGED <<blocked, looks, tablets, history>>

(* An incident reported since keeps the row: the delete fails half-way.    *)
DeleteFails(o) ==
  /\ o.op = "delete" /\ o.pc = "row" /\ Trouble /\ End(o)
  /\ UNCHANGED <<registry, looks, tablets, dead, nops>>

(* Mutant: the row alone is deleted.                                       *)
BlockNoCode(o, d) == tab' = Kicked(d.room, {d.code}) /\ UNCHANGED blocked

(* blockAndKickDevices, one code at a time.                                *)
Block(o, d) == blocked' = blocked \cup {d.code} /\ tab' = Kicked(d.room, {d.code})

BlockNext(o, d) ==
  /\ o.op = "delete" /\ o.pc = "block" /\ d \in o.devs
  /\ Block(o, d)
  /\ ops' = (ops \ {o}) \cup {[o EXCEPT !.devs = @ \ {d}]}
  /\ dead' = dead \cup {c \in {d.code} : ~\E p \in ops : p.op = "pair" /\ p.code = c}
  /\ UNCHANGED <<rooms, device, looks, cached, net, nops, trouble>>

DeleteDone(o) ==
  /\ o.op = "delete" /\ o.pc = "block" /\ o.devs = {}
  /\ End(o)
  /\ UNCHANGED <<registry, looks, tablets, history>>

(* reassignDevice, from the selector (by: the tablet that navigates when   *)
(* the answer is there) or from the team screen of a tablet.               *)
Pair(c, r, t, from) ==
  /\ Operation
  /\ Begin([n |-> nops', op |-> "pair", pc |-> "room", code |-> c, room |-> r, by |-> t, from |-> from])
  /\ dead' = dead \ {c}
  /\ tab' = [u \in Tablet |-> [tab[u] EXCEPT !.after = @ /\ tab[u].at # c]]
  /\ UNCHANGED <<registry, looks, cached, net, trouble>>

Busy(t) == \E o \in ops : o.op = "pair" /\ o.by = t

(* KioskSelector: the code of the restroom picked, from a tree loaded      *)
(* earlier: the restroom may be gone.                                      *)
Pick(t, c) ==
  /\ net[t] /\ tab[t].at = NULL /\ ~Busy(t)
  /\ Pair(c, HomeOf[c], t, "selector")

(* CleanerCheckIn.handleReassign: the tablet keeps its code.               *)
Reassign(t, r) ==
  /\ net[t] /\ tab[t].at # NULL /\ tab[t].theme \in Themes /\ tab[t].room # NULL
  /\ ~Busy(t)
  /\ Pair(tab[t].at, r, t, "team")

(* The tablet goes on to the kiosk page; the selector does so after an     *)
(* error too, the team screen shows the error instead.                     *)
PairAnswered(o, ok) ==
  /\ End(o)
  /\ IF ok \/ o.from = "selector" THEN Set(o.by, Page(o.code)) ELSE UNCHANGED tab

PairFind(o) ==
  /\ o.op = "pair" /\ o.pc = "room"
  /\ IF o.room \in rooms THEN Go(o, "unblock") /\ UNCHANGED tab ELSE PairAnswered(o, FALSE)
  /\ UNCHANGED <<registry, looks, cached, net, history>>

PairUnblock(o) ==
  /\ o.op = "pair" /\ o.pc = "unblock"
  /\ blocked' = blocked \ {o.code} /\ Go(o, "upsert")
  /\ UNCHANGED <<rooms, device, looks, tablets, history>>

Upserted(c, r) == [device EXCEPT ![c] =
  [room |-> r, tpl |-> IF device[c] = NULL THEN NULL ELSE device[c].tpl]]

PairUpsert(o) ==
  /\ o.op = "pair" /\ o.pc = "upsert"
  /\ device' = IF o.room \in rooms THEN Upserted(o.code, o.room) ELSE device
  /\ PairAnswered(o, o.room \in rooms)
  /\ UNCHANGED <<rooms, blocked, looks, cached, net, history>>

(* KioskRemoved: back to the selector.                                     *)
Unpair(t) ==
  /\ tab[t].theme = "removed" /\ Set(t, Page(NULL))
  /\ UNCHANGED <<registry, looks, ops, cached, net, history>>

(* registerDevice: an upsert that leaves a block alone.                    *)
Register(c, r) ==
  /\ r \in rooms /\ Operation
  /\ device' = Upserted(c, r)
  /\ UNCHANGED <<rooms, blocked, looks, ops, tablets, dead, trouble>>

-----------------------------------------------------------------------------
(* Templates.                                                              *)

Existing == {x \in Template : theme[x] # NULL}

UsingTemplate(x) == Rows({r \in rooms : chosen[BuildingOf[r]] = x})
  \cup {d \in Rows(rooms) : device[d.code].tpl = x}

(* notifyKiosksOfTemplate, -OfBuilding and -OfDevice                       *)
Notify(o, devs) == o.pc = "notify" /\ tab' = KickedAll(devs)

(* updateTemplate with a theme.                                          *)
UpdateTemplate(x, th) ==
  /\ theme[x] \notin {NULL, th} /\ Operation /\ theme' = [theme EXCEPT ![x] = th]
  /\ Begin([n |-> nops', op |-> "template", pc |-> "notify", tpl |-> x])
  /\ UNCHANGED <<registry, chosen, tablets, dead, trouble>>

NotifyTemplate(o) ==
  /\ o.op = "template" /\ Notify(o, UsingTemplate(o.tpl)) /\ End(o)
  /\ UNCHANGED <<registry, looks, cached, net, history>>

(* assignTemplate and assignTemplateToDevice                               *)
AssignTemplate(b, x) ==
  /\ x \in {NULL} \cup Existing
  /\ (\E r \in rooms : BuildingOf[r] = b) /\ Operation
  /\ chosen' = [chosen EXCEPT ![b] = x]
  /\ Begin([n |-> nops', op |-> "building", pc |-> "notify", building |-> b])
  /\ UNCHANGED <<registry, theme, tablets, dead, trouble>>

AssignTemplateToDevice(c, x) ==
  /\ x \in {NULL} \cup Existing
  /\ device[c] # NULL /\ Operation
  /\ device' = [device EXCEPT ![c].tpl = x]
  /\ Begin([n |-> nops', op |-> "device", pc |-> "notify", code |-> c])
  /\ UNCHANGED <<rooms, blocked, looks, tablets, dead, trouble>>

NotifyAssigned(o) ==
  /\ \/ o.op = "building" /\ Notify(o, Rows({r \in rooms : BuildingOf[r] = o.building}))
     \/ o.op = "device" /\ Notify(o, {d \in Rows(rooms) : d.code = o.code})
  /\ End(o)
  /\ UNCHANGED <<registry, looks, cached, net, history>>

(* deleteTemplate: the kiosks are told before the links are cut.           *)
DeleteTemplate(x) ==
  /\ theme[x] # NULL /\ Operation
  /\ Begin([n |-> nops', op |-> "drop", pc |-> "notify", tpl |-> x])
  /\ UNCHANGED <<registry, looks, tablets, dead, trouble>>

DropNotify(o) ==
  /\ o.op = "drop" /\ Notify(o, UsingTemplate(o.tpl)) /\ Go(o, "buildings")
  /\ UNCHANGED <<registry, looks, cached, net, history>>

NoBuildingUses(x) == [b \in Building |-> IF chosen[b] = x THEN NULL ELSE chosen[b]]
NoDeviceUses(x) == [c \in Code |-> IF device[c] # NULL /\ device[c].tpl = x
                                   THEN [device[c] EXCEPT !.tpl = NULL] ELSE device[c]]

UnlinkBuildings(o) ==
  /\ o.op = "drop" /\ o.pc = "buildings" /\ Go(o, "devices")
  /\ chosen' = NoBuildingUses(o.tpl)
  /\ UNCHANGED <<registry, theme, tablets, history>>

UnlinkDevices(o) ==
  /\ o.op = "drop" /\ o.pc = "devices" /\ Go(o, "row")
  /\ device' = NoDeviceUses(o.tpl)
  /\ UNCHANGED <<rooms, blocked, looks, tablets, history>>

(* The foreign keys cut the links made since (SetNull); another deletion   *)
(* may have been faster.                                                   *)
DropTemplate(o) ==
  /\ o.op = "drop" /\ o.pc = "row" /\ End(o)
  /\ theme' = [theme EXCEPT ![o.tpl] = NULL]
  /\ chosen' = NoBuildingUses(o.tpl) /\ device' = NoDeviceUses(o.tpl)
  /\ UNCHANGED <<rooms, blocked, tablets, history>>

(* The server's process restarts: what it was serving is cut off.          *)
Restart ==
  /\ Trouble /\ ops # {} /\ ops' = {}
  /\ tab' = [t \in Tablet |->
       IF \E o \in ops : o.op = "pair" /\ o.by = t /\ o.from = "selector"
       THEN Page((CHOOSE o \in ops : o.op = "pair" /\ o.by = t).code) ELSE tab[t]]
  /\ UNCHANGED <<registry, looks, cached, net, dead, nops>>

-----------------------------------------------------------------------------
Asked(t) ==
  \/ ConfigBlocked(t) \/ ConfigAnswered(t) \/ ConfigRefused(t) \/ ConfigOffline(t)
  \/ DeviceBlocked(t) \/ DeviceFind(t) \/ DeviceCreate(t) \/ DeviceOffline(t)

Serve == \E o \in ops :
  \/ DeleteRow(o) \/ (\E d \in [code : Code, room : Restroom] : BlockNext(o, d)) \/ DeleteDone(o)
  \/ PairFind(o) \/ PairUnblock(o) \/ PairUpsert(o)
  \/ NotifyTemplate(o) \/ NotifyAssigned(o)
  \/ DropNotify(o) \/ UnlinkBuildings(o) \/ UnlinkDevices(o) \/ DropTemplate(o)

(* What the settings page offers for a restroom, a floor and a building,   *)
(* and the kiosk page for the templates.                                   *)
RestroomRow(r) ==
  \/ DeleteRooms({r})
  \/ \E c \in Code : Register(c, r) \/ (DeleteDevice(c) /\ device[c].room = r)

BuildingCard(b) == DeleteRooms({r \in rooms : BuildingOf[r] = b})

TemplateCard(x) == DeleteTemplate(x) \/ \E th \in Themes : UpdateTemplate(x, th)

AssignPanel == \E x \in Template \cup {NULL} :
  (\E b \in Building : AssignTemplate(b, x)) \/ (\E c \in Code : AssignTemplateToDevice(c, x))

Administer ==
  \/ \E r \in Restroom : RestroomRow(r)
  \/ \E b \in Building : BuildingCard(b)
  \/ \E x \in Template : TemplateCard(x)
  \/ AssignPanel

UseTablet(t) ==
  \/ \E c \in Code : Pick(t, c)
  \/ \E r \in Restroom : Reassign(t, r)
  \/ Unpair(t)

Next ==
  \/ \E t \in Tablet : Asked(t) \/ Reload(t) \/ UseTablet(t) \/ Lose(t) \/ Regain(t)
  \/ Serve \/ Administer \/ Restart
  \/ \E o \in ops : DeleteFails(o)

Spec == Init /\ [][Next]_vars

(* The server serves, an outage ends, a page that shows a kiosk reloads    *)
(* every hour (KioskPage.tsx, and likewise each template's page).          *)
Fairness ==
  /\ WF_vars(Serve)
  /\ \A t \in Tablet : WF_vars(Asked(t)) /\ WF_vars(ReloadItself(t)) /\ WF_vars(Regain(t))
FairSpec == Spec /\ Fairness

-----------------------------------------------------------------------------
(* Type invariant.                                                         *)
PageOK(p) ==
  /\ p.at \in Code \cup {NULL} /\ p.room \in Restroom \cup {NULL}
  /\ p.theme \in Themes \cup {NULL, "removed"}
  /\ p.config \in {"sent", "alive", "404", "done"}
  /\ p.device \in {"sent", "find", "create", "done"}
  /\ p.kick \in BOOLEAN /\ p.live \in BOOLEAN /\ p.after \in BOOLEAN
  /\ p.at = NULL => p.theme = NULL /\ p.room = NULL
(* Rows, pages and blocks have types; codes are known ones.                *)
TypeOK ==
  /\ rooms \subseteq Restroom /\ blocked \subseteq Code /\ dead \subseteq Code
  /\ \A x \in Template : theme[x] \in Themes \cup {NULL}
  /\ \A t \in Tablet : PageOK(tab[t])

(* A page opened after a deletion of its code was done never gets a kiosk  *)
(* from the server again, unless somebody pairs the code deliberately:     *)
(* "Codes deleted from the admin UI stay blocked - otherwise the public    *)
(* ROOM-* auto-create resurrects the device" (auth.service.ts:76-77).      *)
DeletedStaysDead ==
  \A t \in Tablet : tab[t].after /\ tab[t].live => tab[t].at \notin dead

(* In the end a tablet that shows a kiosk shows the one the server would   *)
(* serve it, and none if its code is blocked or gone: messages may be      *)
(* missed, the page told to reload before the change it is told of, and    *)
(* the cache be old, but the kiosk asks again every hour                   *)
(* (KioskPage.tsx:169-173, KioskDispatcher.tsx:36-81).                     *)
TabletsFollow ==
  <>[](\A t \in Tablet : tab[t].theme \in Themes => tab[t].theme = Served(tab[t].at))

-----------------------------------------------------------------------------
(* Not kept, see the README.                                               *)

(* "admin theme changes propagate to the kiosk in real time"               *)
(* (KioskDispatcher.tsx:22-24): with no operation under way, no reload due *)
(* and no answer awaited, an online tablet shows what it would be served.  *)
RealTime ==
  ops = {} => \A t \in Tablet :
    tab[t].at # NULL /\ net[t] /\ tab[t].live /\ ~tab[t].kick /\ tab[t].device = "done"
      => tab[t].theme = Served(tab[t].at)

(* The removed screen goes once its code is paired again, on another       *)
(* tablet say: KioskRemoved has no timer, and reassignDevice tells nobody. *)
RemovedComesBack ==
  <>[](\A t \in Tablet : tab[t].theme = "removed" => Served(tab[t].at) = "removed")

(* A pairing that was answered leaves a code that is alive: "Deliberate    *)
(* re-registration lifts any block" (auth.service.ts:126-127).             *)
PairingIsAlive ==
  [][\A o \in ops : o.op = "pair" /\ o.pc = "upsert" /\ o \notin ops' /\ ops' # {}
       /\ o.room \in rooms => o.code \notin blocked']_vars
=============================================================================
