------------------------------ MODULE Sessions ------------------------------
(***************************************************************************)
(* Login sessions: the refresh tokens of AuthService, which are rotated    *)
(* each time they are used, and the browsers that hold them.  The tabs of  *)
(* a browser share its localStorage, but each tab has an interceptor of    *)
(* its own in lib/api.ts, which sends one refresh at a time.               *)
(*                                                                         *)
(* A token's signature and its seven days are not modelled, nor are tokens *)
(* from before rotation.  All browsers belong to one account.              *)
(***************************************************************************)
EXTENDS Naturals

CONSTANTS
  Browser, Tab,
  BrowserOf,   (* BrowserOf[t]: the browser tab t is open in               *)
  Call,        (* slots for login and refresh calls in flight              *)
  Token,       (* refresh tokens, each named by its jti                    *)
  MaxTrouble,  (* bound: failures, reloads and deactivations               *)
  NULL

ASSUME SessionsAssumption ==
  /\ BrowserOf \in [Tab -> Browser]
  /\ MaxTrouble \in Nat
  /\ NULL \notin Token /\ NULL \notin Tab

VARIABLES
  active,    (* the account's isActive                                     *)
  table,     (* the rows of refresh_tokens                                 *)
  family,    (* family[k]: the first token of the login k descends from,   *)
             (*   NULL for a token that was never issued                   *)
  store,     (* store[b]: the refreshToken in b's localStorage             *)
  call,      (* call[c]: the call in slot c                                *)
  bye,       (* tokens whose logout request is under way                   *)
  left,      (* history: browsers somebody has logged out of               *)
  trouble

vars == <<active, table, family, store, call, bye, left, trouble>>

NoCall == [pc |-> "free", kind |-> "login", token |-> NULL, tab |-> NULL, new |-> NULL]

Init ==
  /\ active = TRUE
  /\ table = {}
  /\ family = [k \in Token |-> NULL]
  /\ store = [b \in Browser |-> NULL]
  /\ call = [c \in Call |-> NoCall]
  /\ bye = {}
  /\ left = {}
  /\ trouble = 0

Issued == {k \in Token : family[k] # NULL}

Trouble == trouble < MaxTrouble /\ trouble' = trouble + 1

InFlight(t, kind) == \E c \in Call : call[c].pc # "free" /\ call[c].tab = t /\ call[c].kind = kind

-----------------------------------------------------------------------------
(* The browser.                                                            *)

Send(c, t, kind, k) ==
  /\ call[c].pc = "free"
  /\ call' = [call EXCEPT ![c] = [NoCall EXCEPT
       !.pc = "check", !.kind = kind, !.token = k, !.tab = t]]
  /\ UNCHANGED <<active, table, family, store, bye, left, trouble>>

(* The button is disabled while the answer is awaited.                     *)
SendLogin(c, t) == ~InFlight(t, "login") /\ Send(c, t, "login", NULL)

(* Mutant: each 401 sends a refresh of its own.                            *)
SendRefreshEach(c, t) ==
  /\ store[BrowserOf[t]] # NULL
  /\ Send(c, t, "refresh", store[BrowserOf[t]])

(* Some call of the tab was answered 401; refreshPromise is shared.        *)
SendRefresh(c, t) ==
  /\ store[BrowserOf[t]] # NULL /\ ~InFlight(t, "refresh")
  /\ Send(c, t, "refresh", store[BrowserOf[t]])

Own(c) == BrowserOf[call[c].tab]

(* The answer is stored whatever the store holds by now.                   *)
TakeAnswer(c) ==
  /\ call[c].pc = "ok"
  /\ store' = [store EXCEPT ![Own(c)] = call[c].new]
  /\ call' = [call EXCEPT ![c] = NoCall]
  /\ UNCHANGED <<active, table, family, bye, left, trouble>>

(* A refresh that does not succeed clears localStorage; a failed login is  *)
(* only shown.                                                             *)
Rejected(c) ==
  store' = IF call[c].kind = "refresh" THEN [store EXCEPT ![Own(c)] = NULL] ELSE store

TakeRefusal(c) ==
  /\ call[c].pc = "refused"
  /\ Rejected(c)
  /\ call' = [call EXCEPT ![c] = NoCall]
  /\ UNCHANGED <<active, table, family, bye, left, trouble>>

Answered(c) == call[c].pc \in {"ok", "refused"}
Orphan(c)   == IF Answered(c) THEN NoCall ELSE [call[c] EXCEPT !.tab = NULL]

(* The connection breaks under a call, before the server has read it or    *)
(* while it works on it, or the answer is lost.                            *)
GiveUp(c) ==
  /\ Trouble
  /\ call[c].tab # NULL
  /\ Rejected(c)
  /\ \/ call' = [call EXCEPT ![c] = Orphan(c)]
     \/ call[c].pc = "check" /\ call' = [call EXCEPT ![c] = NoCall]
  /\ UNCHANGED <<active, table, family, bye, left>>

(* The admin's screen also revokes the token, without waiting for it; the  *)
(* cleaner's and the supervisor's only forget it.                          *)
Logout(t, revoke) ==
  LET b == BrowserOf[t]
  IN  /\ bye' = IF revoke /\ store[b] # NULL THEN bye \cup {store[b]} ELSE bye
      /\ store' = [store EXCEPT ![b] = NULL]
      /\ left' = left \cup {b}
      /\ UNCHANGED <<active, table, family, call, trouble>>

(* The page is loaded anew: what it awaited is answered to nobody.         *)
Reload(t) ==
  /\ Trouble
  /\ call' = [c \in Call |-> IF call[c].tab = t THEN Orphan(c) ELSE call[c]]
  /\ UNCHANGED <<active, table, family, store, bye, left>>

-----------------------------------------------------------------------------
(* The server.                                                             *)

(* The call in slot c ends; nobody may be waiting for it.                  *)
Reply(c, pc, k) ==
  call' = [call EXCEPT ![c] = IF @.tab = NULL THEN NoCall ELSE [@ EXCEPT !.pc = pc, !.new = k]]

(* loginAdmin, loginCleaner and refreshToken look the account up first.    *)
CheckUser(c) ==
  /\ call[c].pc = "check"
  /\ IF active
       THEN call' = [call EXCEPT ![c].pc = IF call[c].kind = "login" THEN "issue" ELSE "rotate"]
       ELSE Reply(c, "refused", NULL)
  /\ UNCHANGED <<active, table, family, store, bye, left, trouble>>

(* Mutant: whether a row was deleted is not looked at.                     *)
RotateUnchecked(c) ==
  /\ call[c].pc = "rotate"
  /\ table' = table \ {call[c].token}
  /\ call' = [call EXCEPT ![c].pc = "issue"]
  /\ UNCHANGED <<active, family, store, bye, left, trouble>>

(* Mutant: the row is looked for, and left in place.                       *)
RotateKeep(c) ==
  /\ call[c].pc = "rotate"
  /\ IF call[c].token \in table
       THEN call' = [call EXCEPT ![c].pc = "issue"]
       ELSE Reply(c, "refused", NULL)
  /\ UNCHANGED <<active, table, family, store, bye, left, trouble>>

(* deleteMany by jti: one of two calls with the same token finds the row.  *)
Rotate(c) ==
  /\ call[c].pc = "rotate"
  /\ table' = table \ {call[c].token}
  /\ IF call[c].token \in table
       THEN call' = [call EXCEPT ![c].pc = "issue"]
       ELSE Reply(c, "refused", NULL)
  /\ UNCHANGED <<active, family, store, bye, left, trouble>>

(* generateTokens.                                                         *)
Issue(c, k) ==
  /\ call[c].pc = "issue" /\ k \notin Issued
  /\ table' = table \cup {k}
  /\ family' = [family EXCEPT ![k] =
       IF call[c].kind = "login" THEN k ELSE family[call[c].token]]
  /\ Reply(c, "ok", k)
  /\ UNCHANGED <<active, store, bye, left, trouble>>

(* A database call is rejected.                                            *)
Fail(c) ==
  /\ Trouble
  /\ call[c].pc \in {"check", "rotate", "issue"}
  /\ Reply(c, "refused", NULL)
  /\ UNCHANGED <<active, table, family, store, bye, left>>

ServeLogout(k) ==
  /\ k \in bye
  /\ bye' = bye \ {k}
  /\ table' = table \ {k}
  /\ UNCHANGED <<active, family, store, call, left, trouble>>

LogoutLost(k) ==
  /\ Trouble
  /\ k \in bye
  /\ bye' = bye \ {k}
  /\ UNCHANGED <<active, table, family, store, call, left>>

(* toggleActive: the rows of the account stay.                             *)
ToggleActive ==
  /\ Trouble
  /\ active' = ~active
  /\ UNCHANGED <<table, family, store, call, bye, left>>

Next ==
  \/ \E c \in Call : \/ TakeAnswer(c) \/ TakeRefusal(c) \/ GiveUp(c)
                     \/ CheckUser(c) \/ Rotate(c) \/ Fail(c)
                     \/ \E t \in Tab : SendLogin(c, t) \/ SendRefresh(c, t)
                     \/ \E k \in Token : Issue(c, k)
  \/ \E t \in Tab : Reload(t) \/ \E revoke \in BOOLEAN : Logout(t, revoke)
  \/ \E k \in Token : ServeLogout(k) \/ LogoutLost(k)
  \/ ToggleActive

Spec == Init /\ [][Next]_vars

-----------------------------------------------------------------------------
(* Properties.                                                             *)

CallRecord ==
  [pc : {"free", "check", "rotate", "issue", "ok", "refused"}, kind : {"login", "refresh"},
   token : Token \cup {NULL}, tab : Tab \cup {NULL}, new : Token \cup {NULL}]

(* The state keeps its types; a call under way has what its steps use.     *)
TypeOK ==
  /\ active \in BOOLEAN
  /\ table \subseteq Token
  /\ family \in [Token -> Token \cup {NULL}]
  /\ store \in [Browser -> Token \cup {NULL}]
  /\ call \in [Call -> CallRecord]
  /\ bye \subseteq Token
  /\ left \subseteq Browser
  /\ trouble \in 0..MaxTrouble
  /\ \A c \in Call :
       /\ call[c].kind = "refresh" => call[c].token # NULL
       /\ call[c].pc = "rotate" => call[c].kind = "refresh"
       /\ Answered(c) => call[c].tab # NULL
       /\ call[c].pc = "ok" => call[c].new # NULL

(* Tokens in use were issued, and so was the first of their login.         *)
KnownTokens ==
  /\ table \subseteq Issued /\ bye \subseteq Issued
  /\ \A b \in Browser : store[b] # NULL => store[b] \in Issued
  /\ \A k \in Issued : family[k] \in Issued
  /\ \A c \in Call : /\ call[c].token # NULL => call[c].token \in Issued
                     /\ call[c].new # NULL => call[c].new \in Issued

Renewing(c) == call[c].pc = "issue" /\ call[c].kind = "refresh"
FamilyOf(c) == family[call[c].token]

(* A login hangs by one thread: one row, or one call that has deleted the  *)
(* row and is about to insert its successor.                               *)
OneThread ==
  /\ \A k1, k2 \in table : family[k1] = family[k2] => k1 = k2
  /\ \A c1, c2 \in Call :
       Renewing(c1) /\ Renewing(c2) /\ FamilyOf(c1) = FamilyOf(c2) => c1 = c2
  /\ \A c \in Call, k \in table : Renewing(c) => FamilyOf(c) # family[k]

(* The inductive invariant of the proofs: no interleaving of refreshes,    *)
(* logins and logouts leaves two working tokens of one login.              *)
IInv == TypeOK /\ KnownTokens /\ OneThread

(* "Two concurrent refreshes with the same jti can't both succeed", a      *)
(* replayed token is rejected, and what logout has revoked stays dead:     *)
(* the table and the calls in flight implement module SessionChain.        *)
Chain == INSTANCE SessionChain WITH
  Credential <- Token,
  live       <- [l \in Token |-> {k \in table : family[k] = l}],
  renewing   <- {FamilyOf(c) : c \in {d \in Call : Renewing(d)}},
  issued     <- Issued
ImplementsChain == Chain!Spec

LoggedOut(b) == store[b] # NULL /\ store'[b] = NULL

(* "Otherwise several parallel requests would each present the same token, *)
(* all but the first would be rejected, and the user would be logged out": *)
(* a browser with one tab keeps its session as long as nothing fails and   *)
(* nobody logs out, whatever other browsers of the account do.             *)
StaysLoggedIn ==
  [][\A b \in Browser :
       LoggedOut(b) =>
         \/ b \in left' \/ trouble' > 0
         \/ \E t1, t2 \in Tab : t1 # t2 /\ BrowserOf[t1] = b /\ BrowserOf[t2] = b]_vars

-----------------------------------------------------------------------------
(* Promises of comments and documents the code does not keep.  The README   *)
(* gives the constants under which TLC finds each counterexample.           *)

(* The same of a browser with several tabs: nobody is logged out because   *)
(* two requests refreshed at the same time.                                *)
ParallelRefreshes ==
  [][\A b \in Browser : LoggedOut(b) => b \in left' \/ trouble' > 0]_vars

(* "Revoke the presented refresh session (logout)": once the server has    *)
(* served a logout, the login that presented it has no working token.      *)
LogoutRevokes ==
  [][\A k \in Token : ServeLogout(k) =>
       /\ \A j \in table' : family[j] # family[k]
       /\ \A c \in Call : Renewing(c) => FamilyOf(c) # family[k]]_vars
=============================================================================
