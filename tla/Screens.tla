------------------------------ MODULE Screens ------------------------------
(***************************************************************************)
(* Screens: the lists of incidents in one browser.  The pages of cleaners  *)
(* and supervisors and the incidents page of the managers keep the answers *)
(* of the server in one cache (react-query), show them at once, and ask    *)
(* again on a timer, on a broadcast and after their own changes.  Answers  *)
(* may be late or missing, the socket may be down, tasks change meanwhile, *)
(* and one worker logs in after the other.                                 *)
(***************************************************************************)
EXTENDS Naturals, FiniteSets

CONSTANTS
  NULL,
  Task, Floor,
  FloorOf,      (* FloorOf[i]: the floor of the restroom of task i         *)
  User,
  Page,         (* Page[u]: "cleaner", "supervisor" or "manager"           *)
  Sees,         (* Sees[u]: the floors the server shows u                  *)
  Chip,         (* Chip[u]: the floors of u's building, to filter by       *)
  MaxEvents,    (* bound: what workers and visitors do elsewhere           *)
  MaxLost       (* bound: failed requests, broadcasts missed               *)

ScreensAssumption ==
  /\ NULL \notin User \cup Floor /\ MaxEvents \in Nat /\ MaxLost \in Nat
  /\ FloorOf \in [Task -> Floor]
  /\ Page \in [User -> {"cleaner", "supervisor", "manager"}] /\ Sees \in [User -> SUBSET Floor]
  /\ \A u \in User : Chip[u] \subseteq Floor

VARIABLES
  status,    (* status[i]: none, open, taken or done, on the server        *)
  praise,    (* how many visitors praised so far                           *)
  user,      (* who is logged in in this browser                           *)
  filter,    (* the floor the worker filters by, NULL for all              *)
  cache,     (* cache[k]: the last answer to query k                       *)
  asking,    (* queries under way: sent, or the answer on its way          *)
  wasOpen,   (* prevOpenRef.current > 0                                    *)
  cutoff,    (* cutoff[u] in localStorage: praise up to here is hidden     *)
  notice,    (* a broadcast the socket has not delivered yet               *)
  events, lost

screenVars == <<status, praise, user, filter, cache, asking, wasOpen, cutoff, notice, events, lost>>
page == <<wasOpen, cutoff>>

(* Query keys.  None of them names the user.                               *)
Queue == {<<"queue", f>> : f \in Floor \cup {NULL}}
Board == <<"board">>
Query == Queue \cup {Board}

Sent == [at |-> "sent"]
Empty == [k \in Query |-> NULL]

Init ==
  /\ status = [i \in Task |-> "none"] /\ praise = 0
  /\ user = NULL /\ filter = NULL /\ cache = Empty /\ asking = Empty
  /\ wasOpen = FALSE /\ cutoff = [u \in User |-> 0]
  /\ notice = FALSE /\ events = 0 /\ lost = 0

-----------------------------------------------------------------------------
(* What a page shows and asks for                                          *)

Known(c, k) == IF c[k] = NULL THEN {} ELSE c[k]
WorkerList(c, f) == Known(c, <<"queue", f>>)
ManagerList(c) == Known(c, Board)
Shown(c, u, f) == IF Page[u] = "manager" THEN ManagerList(c) ELSE WorkerList(c, f)

(* The query the page polls.                                               *)
Polled(u, f) == IF Page[u] = "manager" THEN Board ELSE <<"queue", f>>
Wanted == IF user = NULL THEN {} ELSE {Polled(user, filter)}

(* The server's answer to a query of u: findAll in the scope of the caller, *)
(* the queue only open tasks, the board also those taken.  The page of the  *)
(* answer (limit) is taken to hold every task of the model, the scope of a  *)
(* user does not change while logged in, and the manager's mode of a chosen *)
(* date range, which asks once and has no timer, is outside the model.      *)
(* (Today's count and the list of praise are polled the same way.)          *)
Scope(u) == {i \in Task : FloorOf[i] \in Sees[u]}
Answer(u, k) ==
  IF k = Board THEN {i \in Scope(u) : status[i] \in {"open", "taken"}}
  ELSE {i \in Scope(u) : status[i] = "open" /\ k[2] \in {NULL, FloorOf[i]}}

(* The effect after each rendering: when the list shown empties, the praise *)
(* so far is hidden for good.                                              *)
Render(c, u, f) ==
  LET now == Shown(c, u, f) # {}
      loading == c[<<"queue", f>>] = NULL
  IN  IF Page[u] = "manager" THEN UNCHANGED page
      ELSE /\ wasOpen' = now
           /\ cutoff' = IF wasOpen /\ ~now /\ ~loading THEN [cutoff EXCEPT ![u] = praise] ELSE cutoff

-----------------------------------------------------------------------------
(* The session of the browser                                              *)

(* Mutant: the cache outlives the login.                                   *)
LoginKeep(u) ==
  /\ user = NULL \/ u # user
  /\ user' = u /\ filter' = NULL /\ cache' = cache /\ asking' = Empty
  /\ wasOpen' = FALSE /\ UNCHANGED <<status, praise, cutoff, notice, events, lost>>

(* handleLogin of the three login pages, which are also reached by hand    *)
(* while somebody is logged in: queryClient.clear().                       *)
Login(u) ==
  /\ user = NULL \/ u # user
  /\ user' = u /\ filter' = NULL /\ cache' = Empty /\ asking' = Empty
  /\ wasOpen' = FALSE
  /\ UNCHANGED <<status, praise, cutoff, notice, events, lost>>

Logout ==
  /\ user # NULL /\ user' = NULL /\ cache' = Empty /\ asking' = Empty
  /\ wasOpen' = FALSE
  /\ UNCHANGED <<status, praise, filter, cutoff, notice, events, lost>>

(* A floor or restroom chip; the list of that filter may be in the cache.  *)
ChooseFilter(f) ==
  /\ user # NULL /\ Page[user] # "manager" /\ f # filter /\ f \in Chip[user] \cup {NULL}
  /\ filter' = f /\ Render(cache, user, f)
  /\ UNCHANGED <<status, praise, user, cache, asking, notice, events, lost>>

-----------------------------------------------------------------------------
(* Fetching.  refetchInterval, the first use of a key and refetchOnWindowFocus *)
(* ask unless the query is under way; an invalidation starts it over.      *)

(* Mutant: only invalidations ask again.                                   *)
RefetchOnce(k) ==
  /\ k \in Wanted /\ asking[k] = NULL /\ cache[k] = NULL
  /\ asking' = [asking EXCEPT ![k] = Sent]
  /\ UNCHANGED <<status, praise, user, filter, cache, page, notice, events, lost>>
Refetch(k) ==
  /\ k \in Wanted /\ asking[k] = NULL
  /\ asking' = [asking EXCEPT ![k] = Sent]
  /\ UNCHANGED <<status, praise, user, filter, cache, page, notice, events, lost>>

Serve(k) ==
  /\ asking[k] = Sent
  /\ asking' = [asking EXCEPT ![k] = [at |-> "back", items |-> Answer(user, k)]]
  /\ UNCHANGED <<status, praise, user, filter, cache, page, notice, events, lost>>

(* The answer is kept even if the page has moved on to another filter.     *)
Receive(k) ==
  /\ asking[k] \notin {NULL, Sent}
  /\ cache' = [cache EXCEPT ![k] = asking[k].items] /\ asking' = [asking EXCEPT ![k] = NULL]
  /\ Render(cache', user, filter)
  /\ UNCHANGED <<status, praise, user, filter, notice, events, lost>>

(* After its retries a query keeps what it had.                            *)
Fail(k) ==
  /\ asking[k] # NULL /\ lost < MaxLost /\ lost' = lost + 1
  /\ asking' = [asking EXCEPT ![k] = NULL]
  /\ UNCHANGED <<status, praise, user, filter, cache, page, notice, events>>

Invalidated == [k \in Query |-> IF k \in Wanted THEN Sent ELSE asking[k]]

(* 'incident:created', ':resolved', ':updated' and the socket's 'connect'; *)
(* a page that does not listen to one of them may still hear another.      *)
Hear ==
  /\ notice /\ notice' = FALSE
  /\ asking' = Invalidated
  /\ UNCHANGED <<status, praise, user, filter, cache, page, events, lost>>

Miss ==
  /\ notice /\ notice' = FALSE /\ lost < MaxLost /\ lost' = lost + 1
  /\ UNCHANGED <<status, praise, user, filter, cache, asking, page, events>>

-----------------------------------------------------------------------------
(* Changes: from a page, of a task it shows, whatever has become of it; or *)
(* from elsewhere.  Praise is not broadcast.                               *)

Event == events < MaxEvents /\ events' = events + 1

Change(i, s) ==
  /\ user # NULL /\ status[i] # "none" /\ Event
  /\ status' = [status EXCEPT ![i] = s] /\ notice' = TRUE
  /\ asking' = Invalidated
  /\ UNCHANGED <<praise, user, filter, cache, page, lost>>

(* handleResolve; the page of the cleaners has no such button.             *)
Resolve(i) ==
  user # NULL /\ Page[user] = "supervisor" /\ i \in WorkerList(cache, filter) /\ Change(i, "done")

(* IncidentRow: "accept" and "mark resolved".                              *)
RowButton(i, s) ==
  user # NULL /\ Page[user] = "manager" /\ i \in ManagerList(cache) /\ Change(i, s)

(* The kiosk: a report, a resolution by a worker, an end of the day's rows. *)
Elsewhere(i) ==
  /\ Event
  /\ \E s \in {"open", "taken", "done", "none"} :
       /\ s # status[i] /\ (status[i] = "none" => s = "open")
       /\ status' = [status EXCEPT ![i] = s]
       /\ notice' = IF s = "none" THEN notice ELSE TRUE
  /\ UNCHANGED <<praise, user, filter, cache, asking, page, lost>>

Visitor ==
  /\ Event /\ praise' = praise + 1
  /\ UNCHANGED <<status, user, filter, cache, asking, page, notice, lost>>

-----------------------------------------------------------------------------
Network == \E k \in Query : Serve(k) \/ Receive(k)

Next ==
  \/ Logout \/ Hear \/ Miss \/ Visitor \/ Network
  \/ \E u \in User : Login(u)
  \/ \E f \in Floor \cup {NULL} : ChooseFilter(f)
  \/ \E k \in Query : Refetch(k) \/ Fail(k)
  \/ \E i \in Task :
       Elsewhere(i) \/ Resolve(i) \/ \E s \in {"taken", "done"} : RowButton(i, s)

Spec == Init /\ [][Next]_screenVars
FairSpec ==
  /\ Spec
  /\ \A k \in Query :
       WF_screenVars(Refetch(k)) /\ WF_screenVars(Serve(k)) /\ WF_screenVars(Receive(k))

-----------------------------------------------------------------------------
(* The page holds tasks that exist and praise that was given.              *)
TypeOK ==
  /\ user \in User \cup {NULL} /\ filter \in Floor \cup {NULL}
  /\ \A k \in Query : cache[k] # NULL => cache[k] \subseteq Task
  /\ \A u \in User : cutoff[u] <= praise

(* "don't leak this user's cached data to the next login"                  *)
(* (AdminLayout.tsx, CleanerPage.tsx): no list shows a task of a place the *)
(* server hides from whoever is logged in, although the keys of the cache  *)
(* name no user and answers arrive late.                                   *)
OnlyInScope == user # NULL => Shown(cache, user, filter) \subseteq Scope(user)

(* If a page is left open, the list it shows becomes the server's list and *)
(* stays it once nothing changes any more, whatever broadcasts and answers *)
(* were lost and in whatever order the answers came.                       *)
ScreensFollow ==
  \A u \in User, f \in Floor \cup {NULL} :
    <>[](user = u /\ filter = f)
      => <>[](user # NULL => Shown(cache, user, filter) = Answer(user, Polled(user, filter)))

(* Not kept, see the README: "each time the cleaner reaches an empty queue *)
(* (= all tasks cleared)" (CleanerPage.tsx:143): praise is only hidden when *)
(* no task of the worker was open in the last answer.                      *)
HiddenWhenCleared ==
  [][cutoff' # cutoff =>
       cache'[<<"queue", NULL>>] # NULL /\ cache'[<<"queue", NULL>>] = {}]_screenVars
=============================================================================
