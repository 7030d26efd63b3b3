--------------------------- MODULE SessionsProofs ---------------------------
(***************************************************************************)
(* Proofs about module Sessions, for any number of browsers, tabs, calls,  *)
(* tokens and troubles.                                                    *)
(***************************************************************************)
EXTENDS Sessions, TLAPS

(* The invariant holds at the start.                                      *)
LEMMA InitInv == Init => IInv
  BY SessionsAssumption
  DEF Init, IInv, TypeOK, KnownTokens, OneThread, Issued, NoCall, CallRecord, Answered,
      Renewing, FamilyOf, SessionsAssumption

-----------------------------------------------------------------------------
(* What the helpers do to the calls.                                       *)

(* A reply ends the call or leaves it answered, and touches no other.      *)
LEMMA ReplyEffect ==
  ASSUME TypeOK, NEW c \in Call, NEW pc \in {"ok", "refused"}, NEW k \in Token \cup {NULL},
         Reply(c, pc, k)
  PROVE  /\ call' \in [Call -> CallRecord]
         /\ \A d \in Call : d # c => call'[d] = call[d]
         /\ \/ call'[c] = NoCall
            \/ /\ call'[c].pc = pc /\ call'[c].new = k /\ call'[c].kind = call[c].kind
               /\ call'[c].token = call[c].token /\ call'[c].tab # NULL
<1>1. CASE call[c].tab = NULL
  <2>1. call' = [call EXCEPT ![c] = NoCall]
    BY <1>1 DEF Reply, TypeOK
  <2>2. NoCall \in CallRecord
    BY DEF NoCall, CallRecord
  <2> QED BY <2>1, <2>2 DEF TypeOK
<1>2. CASE call[c].tab # NULL
  <2> DEFINE r == [[call[c] EXCEPT !.pc = pc] EXCEPT !.new = k]
  <2>1. call' = [call EXCEPT ![c] = r]
    BY <1>2 DEF Reply, TypeOK
  <2>2. call[c] \in CallRecord
    BY DEF TypeOK
  <2>3. /\ r \in CallRecord /\ r.pc = pc /\ r.new = k /\ r.kind = call[c].kind
        /\ r.token = call[c].token /\ r.tab = call[c].tab
    BY <2>2 DEF CallRecord
  <2> HIDE DEF r
  <2> QED BY <1>2, <2>1, <2>3 DEF TypeOK
<1> QED BY <1>1, <1>2

(* A step that only moves a call on.                                       *)
LEMMA MoveEffect ==
  ASSUME TypeOK, NEW c \in Call, NEW pc \in {"rotate", "issue"},
         call' = [call EXCEPT ![c].pc = pc]
  PROVE  /\ call' \in [Call -> CallRecord]
         /\ \A d \in Call : d # c => call'[d] = call[d]
         /\ call'[c].pc = pc /\ call'[c].new = call[c].new /\ call'[c].kind = call[c].kind
         /\ call'[c].token = call[c].token
<1> DEFINE r == [call[c] EXCEPT !.pc = pc]
<1>1. call' = [call EXCEPT ![c] = r]
  BY DEF TypeOK
<1>2. call[c] \in CallRecord
  BY DEF TypeOK
<1>3. /\ r \in CallRecord /\ r.pc = pc /\ r.new = call[c].new /\ r.kind = call[c].kind
      /\ r.token = call[c].token
  BY <1>2 DEF CallRecord
<1> HIDE DEF r
<1> QED BY <1>1, <1>3 DEF TypeOK

(* A call nobody waits for any more is over, or goes on as it was.         *)
LEMMA OrphanEffect ==
  ASSUME TypeOK, NEW c \in Call
  PROVE  /\ Orphan(c) \in CallRecord
         /\ \/ Orphan(c) = NoCall /\ Answered(c)
            \/ /\ ~Answered(c)
               /\ Orphan(c).pc = call[c].pc /\ Orphan(c).new = call[c].new
               /\ Orphan(c).kind = call[c].kind /\ Orphan(c).token = call[c].token
<1>1. call[c] \in CallRecord
  BY DEF TypeOK
<1>2. NoCall \in CallRecord
  BY DEF NoCall, CallRecord
<1>3. CASE Answered(c)
  BY <1>2, <1>3 DEF Orphan
<1>4. CASE ~Answered(c)
  <2> DEFINE r == [call[c] EXCEPT !.tab = NULL]
  <2>1. /\ r \in CallRecord /\ r.pc = call[c].pc /\ r.new = call[c].new
        /\ r.kind = call[c].kind /\ r.token = call[c].token
    BY <1>1 DEF CallRecord
  <2>2. Orphan(c) = r
    BY <1>4 DEF Orphan
  <2> HIDE DEF r
  <2> QED BY <1>4, <2>1, <2>2
<1> QED BY <1>3, <1>4

(* A call that is sent carries what it was sent with.                      *)
LEMMA SendEffect ==
  ASSUME TypeOK, NEW c \in Call, NEW t \in Tab, NEW kind \in {"login", "refresh"},
         NEW k \in Token \cup {NULL}, Send(c, t, kind, k)
  PROVE  /\ call' \in [Call -> CallRecord]
         /\ \A d \in Call : d # c => call'[d] = call[d]
         /\ call'[c].pc = "check" /\ call'[c].kind = kind /\ call'[c].token = k
         /\ call'[c].tab = t /\ call'[c].new = NULL
         /\ call[c].pc = "free"
         /\ UNCHANGED <<active, table, family, store, bye, left, trouble>>
<1> DEFINE r == [NoCall EXCEPT !.pc = "check", !.kind = kind, !.token = k, !.tab = t]
<1>1. /\ r \in CallRecord /\ r.pc = "check" /\ r.kind = kind /\ r.token = k
      /\ r.tab = t /\ r.new = NULL
  BY DEF NoCall, CallRecord
<1>2. call' = [call EXCEPT ![c] = r]
  BY DEF Send
<1> HIDE DEF r
<1> QED BY <1>1, <1>2 DEF TypeOK, Send
(* A refresh presents a token that was issued.                             *)
LEMMA TokenOfRefresh ==
  ASSUME TypeOK, KnownTokens, NEW c \in Call, call[c].kind # "login"
  PROVE  call[c].token \in Issued /\ family[call[c].token] \in Issued
<1>1. call[c].kind = "refresh"
  BY DEF TypeOK, CallRecord
<1> QED BY <1>1 DEF TypeOK, KnownTokens

-----------------------------------------------------------------------------
(* The inductive invariant, part by part.                                  *)

(* Every step keeps the types.                                             *)
LEMMA TypeStep == IInv /\ [Next]_vars => TypeOK'
<1> SUFFICES ASSUME IInv, [Next]_vars PROVE TypeOK'
  OBVIOUS
<1>0. TypeOK
  BY DEF IInv
<1>1. ASSUME NEW c \in Call, NEW t \in Tab, SendLogin(c, t) PROVE TypeOK'
  <2>1. Send(c, t, "login", NULL)
    BY <1>1 DEF SendLogin
  <2> QED BY <2>1, SendEffect, <1>0, SessionsAssumption DEF TypeOK, Answered
<1>2. ASSUME NEW c \in Call, NEW t \in Tab, SendRefresh(c, t) PROVE TypeOK'
  <2>1. Send(c, t, "refresh", store[BrowserOf[t]]) /\ store[BrowserOf[t]] \in Token
    BY <1>2, <1>0, SessionsAssumption DEF SendRefresh, TypeOK, SessionsAssumption
  <2> QED BY <2>1, SendEffect, <1>0, SessionsAssumption DEF TypeOK, Answered, SessionsAssumption
<1>3. ASSUME NEW c \in Call, TakeAnswer(c) PROVE TypeOK'
  BY <1>3, <1>0, SessionsAssumption
     DEF TakeAnswer, TypeOK, Answered, CallRecord, NoCall, SessionsAssumption, Own
<1>4. ASSUME NEW c \in Call, TakeRefusal(c) PROVE TypeOK'
  BY <1>4, <1>0, SessionsAssumption
     DEF TakeRefusal, Rejected, TypeOK, Answered, CallRecord, NoCall, SessionsAssumption, Own
<1>5. ASSUME NEW c \in Call, GiveUp(c) PROVE TypeOK'
  <2>1. /\ store' \in [Browser -> Token \cup {NULL}] /\ trouble' \in 0..MaxTrouble
        /\ UNCHANGED <<active, table, family, bye, left>>
    <3>1. Trouble /\ Rejected(c) /\ UNCHANGED <<active, table, family, bye, left>>
      BY <1>5 DEF GiveUp
    <3>2. store' \in [Browser -> Token \cup {NULL}]
      BY <3>1, <1>0 DEF Rejected, TypeOK
    <3>3. trouble' \in 0..MaxTrouble
      BY <3>1, <1>0, SessionsAssumption DEF Trouble, TypeOK, SessionsAssumption
    <3> QED BY <3>1, <3>2, <3>3
  <2>2. \/ call' = [call EXCEPT ![c] = Orphan(c)]
        \/ call' = [call EXCEPT ![c] = NoCall]
    BY <1>5 DEF GiveUp
  <2>3. NoCall \in CallRecord
    BY DEF NoCall, CallRecord
  <2>4. /\ call' \in [Call -> CallRecord]
        /\ \A d \in Call : d # c => call'[d] = call[d]
        /\ call'[c] \in {NoCall, Orphan(c)}
    BY <2>2, <2>3, <1>0, OrphanEffect DEF TypeOK
  <2> QED BY <2>1, <2>4, <1>0, OrphanEffect DEF TypeOK, Answered, NoCall
<1>6. ASSUME NEW t \in Tab, NEW revoke \in BOOLEAN, Logout(t, revoke) PROVE TypeOK'
  BY <1>6, <1>0, SessionsAssumption DEF Logout, TypeOK, Answered, SessionsAssumption
<1>7. ASSUME NEW t \in Tab, Reload(t) PROVE TypeOK'
  <2>1. /\ trouble' \in 0..MaxTrouble
        /\ UNCHANGED <<active, table, family, store, bye, left>>
    BY <1>7, <1>0, SessionsAssumption DEF Reload, Trouble, TypeOK, SessionsAssumption
  <2>2. /\ call' \in [Call -> CallRecord]
        /\ \A c \in Call : call'[c] \in {call[c], Orphan(c)}
    BY <1>7, <1>0, OrphanEffect DEF Reload, TypeOK
  <2> QED BY <2>1, <2>2, <1>0, OrphanEffect DEF TypeOK, Answered, NoCall
<1>8. ASSUME NEW c \in Call, CheckUser(c) PROVE TypeOK'
  <2>1. call[c].pc = "check" /\ UNCHANGED <<active, table, family, store, bye, left, trouble>>
    BY <1>8 DEF CheckUser
  <2>2. CASE Reply(c, "refused", NULL)
    BY <2>1, <2>2, <1>0, ReplyEffect DEF TypeOK, Answered, NoCall
  <2>3. CASE call' = [call EXCEPT ![c].pc = "issue"]
    BY ZenonT(60), <2>1, <2>3, <1>0, MoveEffect DEF TypeOK, Answered
  <2>4. CASE call' = [call EXCEPT ![c].pc = "rotate"] /\ call[c].kind # "login"
    <3>1. call[c].kind = "refresh"
      BY <2>4, <1>0 DEF TypeOK, CallRecord
    <3> QED BY ZenonT(60), <2>1, <2>4, <3>1, <1>0, MoveEffect DEF TypeOK, Answered
  <2> QED BY <1>8, <2>2, <2>3, <2>4 DEF CheckUser
<1>9. ASSUME NEW c \in Call, Rotate(c) PROVE TypeOK'
  <2>1. /\ call[c].pc = "rotate" /\ table' \subseteq table
        /\ UNCHANGED <<active, family, store, bye, left, trouble>>
    BY <1>9 DEF Rotate
  <2>2. CASE Reply(c, "refused", NULL)
    BY <2>1, <2>2, <1>0, ReplyEffect DEF TypeOK, Answered, NoCall
  <2>3. CASE call' = [call EXCEPT ![c].pc = "issue"]
    BY <2>1, <2>3, <1>0, MoveEffect DEF TypeOK, Answered
  <2> QED BY <1>9, <2>2, <2>3 DEF Rotate
<1>10. ASSUME NEW c \in Call, NEW k \in Token, Issue(c, k) PROVE TypeOK'
  <2>1. /\ table' \subseteq Token /\ UNCHANGED <<active, store, bye, left, trouble>>
        /\ Reply(c, "ok", k)
    BY <1>10, <1>0 DEF Issue, TypeOK
  <2>2. family' \in [Token -> Token \cup {NULL}]
    <3>1. call[c] \in CallRecord /\ (call[c].kind = "refresh" => call[c].token # NULL)
      BY <1>0 DEF TypeOK
    <3>2. call[c].kind = "login" \/ family[call[c].token] \in Token \cup {NULL}
      BY <3>1, <1>0 DEF TypeOK, CallRecord
    <3> QED BY <1>10, <3>2, <1>0 DEF Issue, TypeOK
  <2> QED BY <2>1, <2>2, <1>0, ReplyEffect, SessionsAssumption
          DEF TypeOK, Answered, NoCall, SessionsAssumption
<1>11. ASSUME NEW c \in Call, Fail(c) PROVE TypeOK'
  <2>1. /\ trouble' \in 0..MaxTrouble /\ Reply(c, "refused", NULL)
        /\ UNCHANGED <<active, table, family, store, bye, left>>
    BY <1>11, <1>0, SessionsAssumption DEF Fail, Trouble, TypeOK, SessionsAssumption
  <2> QED BY <2>1, <1>0, ReplyEffect DEF TypeOK, Answered, NoCall
<1>12. ASSUME NEW k \in Token, ServeLogout(k) \/ LogoutLost(k) PROVE TypeOK'
  BY <1>12, <1>0, SessionsAssumption
     DEF ServeLogout, LogoutLost, Trouble, TypeOK, Answered, SessionsAssumption
<1>13. ASSUME ToggleActive PROVE TypeOK'
  BY <1>13, <1>0, SessionsAssumption DEF ToggleActive, Trouble, TypeOK, Answered, SessionsAssumption
<1>14. ASSUME UNCHANGED vars PROVE TypeOK'
  BY <1>14, <1>0 DEF vars, TypeOK, Answered
<1> QED BY <1>1, <1>2, <1>3, <1>4, <1>5, <1>6, <1>7, <1>8, <1>9, <1>10, <1>11, <1>12, <1>13, <1>14 DEF Next

(* What is enough for a step that issues no token to keep KnownTokens.     *)
LEMMA KnownKept ==
  ASSUME TypeOK, KnownTokens, family' = family, table' \subseteq table, bye' \subseteq Issued,
         \A b \in Browser : store'[b] # NULL => store'[b] \in Issued,
         \A c \in Call : /\ call'[c].token # NULL => call'[c].token \in Issued
                         /\ call'[c].new # NULL => call'[c].new \in Issued
  PROVE  KnownTokens'
  BY DEF KnownTokens, Issued

(* Every token that travels was issued.                                    *)
LEMMA KnownStep == IInv /\ [Next]_vars => KnownTokens'
<1> SUFFICES ASSUME IInv, [Next]_vars PROVE KnownTokens'
  OBVIOUS
<1>0. TypeOK /\ KnownTokens
  BY DEF IInv
<1>1. ASSUME NEW c \in Call, NEW t \in Tab, SendLogin(c, t) PROVE KnownTokens'
  <2>1. Send(c, t, "login", NULL)
    BY <1>1 DEF SendLogin
  <2> QED BY <2>1, SendEffect, <1>0, KnownKept DEF KnownTokens
<1>2. ASSUME NEW c \in Call, NEW t \in Tab, SendRefresh(c, t) PROVE KnownTokens'
  <2>1. Send(c, t, "refresh", store[BrowserOf[t]]) /\ store[BrowserOf[t]] \in Token \cap Issued
    BY <1>2, <1>0, SessionsAssumption
       DEF SendRefresh, TypeOK, KnownTokens, SessionsAssumption
  <2> QED BY <2>1, SendEffect, <1>0, KnownKept DEF KnownTokens
<1>3. ASSUME NEW c \in Call, TakeAnswer(c) PROVE KnownTokens'
  BY <1>3, <1>0, KnownKept DEF TakeAnswer, TypeOK, KnownTokens, NoCall
<1>4. ASSUME NEW c \in Call, TakeRefusal(c) PROVE KnownTokens'
  BY <1>4, <1>0, KnownKept DEF TakeRefusal, Rejected, TypeOK, KnownTokens, NoCall
<1>5. ASSUME NEW c \in Call, GiveUp(c) PROVE KnownTokens'
  <2>1. /\ Rejected(c) /\ UNCHANGED <<table, family, bye>>
        /\ \/ call' = [call EXCEPT ![c] = Orphan(c)]
           \/ call' = [call EXCEPT ![c] = NoCall]
    BY <1>5 DEF GiveUp
  <2>2. \A b \in Browser : store'[b] # NULL => store'[b] \in Issued
    BY <2>1, <1>0 DEF Rejected, TypeOK, KnownTokens
  <2>3. \A d \in Call : call'[d] \in {call[d], NoCall, Orphan(d)}
    BY <2>1, <1>0 DEF TypeOK
  <2> QED BY <2>1, <2>2, <2>3, <1>0, OrphanEffect, KnownKept DEF KnownTokens, NoCall
<1>6. ASSUME NEW t \in Tab, NEW revoke \in BOOLEAN, Logout(t, revoke) PROVE KnownTokens'
  BY <1>6, <1>0, KnownKept, SessionsAssumption
     DEF Logout, TypeOK, KnownTokens, SessionsAssumption
<1>7. ASSUME NEW t \in Tab, Reload(t) PROVE KnownTokens'
  <2>1. UNCHANGED <<table, family, store, bye>> /\ \A d \in Call : call'[d] \in {call[d], Orphan(d)}
    BY <1>7, <1>0 DEF Reload, TypeOK
  <2> QED BY <2>1, <1>0, OrphanEffect, KnownKept DEF KnownTokens, NoCall
<1>8. ASSUME NEW c \in Call, CheckUser(c) PROVE KnownTokens'
  <2>1. UNCHANGED <<table, family, store, bye>>
    BY <1>8 DEF CheckUser
  <2>2. CASE Reply(c, "refused", NULL)
    BY <2>1, <2>2, <1>0, ReplyEffect, KnownKept DEF KnownTokens, NoCall
  <2>3. CASE \E pc \in {"issue", "rotate"} : call' = [call EXCEPT ![c].pc = pc]
    BY <2>1, <2>3, <1>0, MoveEffect, KnownKept DEF KnownTokens
  <2> QED BY <1>8, <2>2, <2>3 DEF CheckUser
<1>9. ASSUME NEW c \in Call, Rotate(c) PROVE KnownTokens'
  <2>1. table' \subseteq table /\ UNCHANGED <<family, store, bye>>
    BY <1>9 DEF Rotate
  <2>2. CASE Reply(c, "refused", NULL)
    BY <2>1, <2>2, <1>0, ReplyEffect, KnownKept DEF KnownTokens, NoCall
  <2>3. CASE call' = [call EXCEPT ![c].pc = "issue"]
    BY <2>1, <2>3, <1>0, MoveEffect, KnownKept DEF KnownTokens
  <2> QED BY <1>9, <2>2, <2>3 DEF Rotate
<1>10. ASSUME NEW c \in Call, NEW k \in Token, Issue(c, k) PROVE KnownTokens'
  <2>1. /\ table' = table \cup {k} /\ Reply(c, "ok", k) /\ UNCHANGED <<store, bye>>
        /\ k \notin Issued
    BY <1>10 DEF Issue
  <2>2. /\ family'[k] \in Issued \cup {k}
        /\ \A j \in Token : j # k => family'[j] = family[j]
    BY <1>10, <1>0, TokenOfRefresh DEF Issue, TypeOK, KnownTokens, CallRecord
  <2>3. Issued' = Issued \cup {k}
    BY <2>2, <1>0, SessionsAssumption DEF Issued, SessionsAssumption
  <2>4. \A j \in Issued' : family'[j] \in Issued'
    BY <2>1, <2>2, <2>3, <1>0 DEF KnownTokens, Issued
  <2>5. \A d \in Call : /\ call'[d].token # NULL => call'[d].token \in Issued
                        /\ call'[d].new # NULL => call'[d].new \in Issued \cup {k}
    BY <2>1, <1>0, ReplyEffect DEF KnownTokens, NoCall
  <2> QED BY <2>1, <2>3, <2>4, <2>5, <1>0 DEF KnownTokens
<1>11. ASSUME NEW c \in Call, Fail(c) PROVE KnownTokens'
  <2>1. UNCHANGED <<table, family, store, bye>> /\ Reply(c, "refused", NULL)
    BY <1>11 DEF Fail
  <2> QED BY <2>1, <1>0, ReplyEffect, KnownKept DEF KnownTokens, NoCall
<1>12. ASSUME NEW k \in Token, ServeLogout(k) \/ LogoutLost(k) PROVE KnownTokens'
  BY <1>12, <1>0, KnownKept DEF ServeLogout, LogoutLost, KnownTokens
<1>13. ASSUME ToggleActive PROVE KnownTokens'
  BY <1>13, <1>0, KnownKept DEF ToggleActive, KnownTokens
<1>14. ASSUME UNCHANGED vars PROVE KnownTokens'
  BY <1>14, <1>0, KnownKept DEF vars, KnownTokens
<1> QED BY <1>1, <1>2, <1>3, <1>4, <1>5, <1>6, <1>7, <1>8, <1>9, <1>10, <1>11, <1>12, <1>13, <1>14 DEF Next

(* What is enough for a step that renews nothing to keep OneThread.        *)
LEMMA ThreadKept ==
  ASSUME OneThread, family' = family, table' \subseteq table,
         \A c \in Call : call'[c].pc = "issue" /\ call'[c].kind = "refresh" =>
                           Renewing(c) /\ call'[c].token = call[c].token
  PROVE  OneThread'
  BY DEF OneThread, Renewing, FamilyOf

(* A login never has two threads.                                          *)
LEMMA ThreadStep == IInv /\ [Next]_vars => OneThread'
<1> SUFFICES ASSUME IInv, [Next]_vars PROVE OneThread'
  OBVIOUS
<1>0. TypeOK /\ KnownTokens /\ OneThread
  BY DEF IInv
<1>1. ASSUME NEW c \in Call, NEW t \in Tab, SendLogin(c, t) PROVE OneThread'
  <2>1. Send(c, t, "login", NULL)
    BY <1>1 DEF SendLogin
  <2> QED BY <2>1, SendEffect, <1>0, ThreadKept DEF Renewing
<1>2. ASSUME NEW c \in Call, NEW t \in Tab, SendRefresh(c, t) PROVE OneThread'
  <2>1. Send(c, t, "refresh", store[BrowserOf[t]]) /\ store[BrowserOf[t]] \in Token
    BY <1>2, <1>0, SessionsAssumption DEF SendRefresh, TypeOK, SessionsAssumption
  <2> QED BY <2>1, SendEffect, <1>0, ThreadKept DEF Renewing
<1>3. ASSUME NEW c \in Call, TakeAnswer(c) PROVE OneThread'
  BY <1>3, <1>0, ThreadKept DEF TakeAnswer, TypeOK, Renewing, NoCall
<1>4. ASSUME NEW c \in Call, TakeRefusal(c) PROVE OneThread'
  BY <1>4, <1>0, ThreadKept DEF TakeRefusal, TypeOK, Renewing, NoCall
<1>5. ASSUME NEW c \in Call, GiveUp(c) PROVE OneThread'
  <2>1. /\ UNCHANGED <<table, family>>
        /\ \/ call' = [call EXCEPT ![c] = Orphan(c)]
           \/ call' = [call EXCEPT ![c] = NoCall]
    BY <1>5 DEF GiveUp
  <2>2. \A d \in Call : call'[d] \in {call[d], NoCall, Orphan(d)}
    BY <2>1, <1>0 DEF TypeOK
  <2> QED BY <2>1, <2>2, <1>0, OrphanEffect, ThreadKept DEF Renewing, NoCall
<1>6. ASSUME NEW t \in Tab, NEW revoke \in BOOLEAN, Logout(t, revoke) PROVE OneThread'
  BY <1>6, <1>0, ThreadKept DEF Logout, Renewing
<1>7. ASSUME NEW t \in Tab, Reload(t) PROVE OneThread'
  <2>1. UNCHANGED <<table, family>> /\ \A d \in Call : call'[d] \in {call[d], Orphan(d)}
    BY <1>7, <1>0 DEF Reload, TypeOK
  <2> QED BY <2>1, <1>0, OrphanEffect, ThreadKept DEF Renewing, NoCall
<1>8. ASSUME NEW c \in Call, CheckUser(c) PROVE OneThread'
  <2>1. UNCHANGED <<table, family>>
    BY <1>8 DEF CheckUser
  <2>2. CASE Reply(c, "refused", NULL)
    BY <2>1, <2>2, <1>0, ReplyEffect, ThreadKept DEF Renewing, NoCall
  <2>3. CASE call' = [call EXCEPT ![c].pc = "issue"] /\ call[c].kind = "login"
    BY <2>1, <2>3, <1>0, MoveEffect, ThreadKept DEF Renewing
  <2>4. CASE call' = [call EXCEPT ![c].pc = "rotate"]
    BY <2>1, <2>4, <1>0, MoveEffect, ThreadKept DEF Renewing
  <2> QED BY <1>8, <2>2, <2>3, <2>4 DEF CheckUser
<1>9. ASSUME NEW c \in Call, Rotate(c) PROVE OneThread'
  <2>1. /\ table' = table \ {call[c].token} /\ family' = family
        /\ call[c].pc = "rotate" /\ call[c].kind = "refresh"
    BY <1>9, <1>0 DEF Rotate, TypeOK
  <2>2. CASE Reply(c, "refused", NULL)
    BY <2>1, <2>2, <1>0, ReplyEffect, ThreadKept DEF Renewing, NoCall
  <2>3. CASE call[c].token \in table /\ call' = [call EXCEPT ![c].pc = "issue"]
    <3>1. /\ \A d \in Call : d # c => call'[d] = call[d]
          /\ call'[c].kind = "refresh" /\ call'[c].token = call[c].token
      BY <2>1, <2>3, <1>0, MoveEffect
    <3>2. \A j \in table' : family[j] # FamilyOf(c)
      BY <2>1, <2>3, <1>0 DEF OneThread, FamilyOf
    <3>3. \A d \in Call : Renewing(d) => FamilyOf(d) # FamilyOf(c)
      BY <2>3, <1>0 DEF OneThread, FamilyOf
    <3> QED BY <2>1, <3>1, <3>2, <3>3, <1>0 DEF OneThread, Renewing, FamilyOf
  <2> QED BY <1>9, <2>2, <2>3 DEF Rotate
<1>10. ASSUME NEW c \in Call, NEW k \in Token, Issue(c, k) PROVE OneThread'
  <2>1. /\ table' = table \cup {k} /\ Reply(c, "ok", k) /\ k \notin Issued
        /\ call[c].pc = "issue"
    BY <1>10 DEF Issue
  <2>2. \A j \in Issued : family'[j] = family[j]
    BY <1>10, <2>1, <1>0 DEF Issue, TypeOK, Issued
  <2>3. \A d \in Call : Renewing(d)' => /\ d # c /\ Renewing(d)
                                       /\ FamilyOf(d)' = FamilyOf(d) /\ FamilyOf(d) \in Issued
    <3>1. SUFFICES ASSUME NEW d \in Call, Renewing(d)'
                   PROVE  d # c /\ Renewing(d) /\ call'[d] = call[d]
      BY <2>2, <1>0, TokenOfRefresh DEF Renewing, FamilyOf
    <3> QED BY <3>1, <2>1, <1>0, ReplyEffect DEF Renewing, NoCall
  <2>4. \A j \in table : family'[j] = family[j] /\ family[j] \in Issued
    BY <2>2, <1>0 DEF KnownTokens
  <2>5. /\ \A j \in table : family[j] # family'[k]
        /\ \A d \in Call : Renewing(d) /\ d # c => FamilyOf(d) # family'[k]
    <3>1. CASE call[c].kind = "login"
      <4>1. family'[k] = k
        BY <1>10, <3>1, <1>0 DEF Issue, TypeOK
      <4>2. \A d \in Call : Renewing(d) => FamilyOf(d) \in Issued
        BY <1>0, TokenOfRefresh DEF Renewing, FamilyOf
      <4> QED BY <4>1, <4>2, <2>1, <2>4
    <3>2. CASE call[c].kind # "login"
      <4>1. family'[k] = FamilyOf(c) /\ Renewing(c)
        BY <1>10, <3>2, <2>1, <1>0 DEF Issue, TypeOK, FamilyOf, Renewing, CallRecord
      <4> QED BY <4>1, <1>0 DEF OneThread
    <3> QED BY <3>1, <3>2
  <2> QED BY <2>1, <2>3, <2>4, <2>5, <1>0 DEF OneThread
<1>11. ASSUME NEW c \in Call, Fail(c) PROVE OneThread'
  <2>1. UNCHANGED <<table, family>> /\ Reply(c, "refused", NULL)
    BY <1>11 DEF Fail
  <2> QED BY <2>1, <1>0, ReplyEffect, ThreadKept DEF Renewing, NoCall
<1>12. ASSUME NEW k \in Token, ServeLogout(k) \/ LogoutLost(k) PROVE OneThread'
  BY <1>12, <1>0, ThreadKept DEF ServeLogout, LogoutLost, Renewing
<1>13. ASSUME ToggleActive PROVE OneThread'
  BY <1>13, <1>0, ThreadKept DEF ToggleActive, Renewing
<1>14. ASSUME UNCHANGED vars PROVE OneThread'
  BY <1>14, <1>0, ThreadKept DEF vars, Renewing
<1> QED BY <1>1, <1>2, <1>3, <1>4, <1>5, <1>6, <1>7, <1>8, <1>9, <1>10, <1>11, <1>12, <1>13, <1>14 DEF Next

(* The state keeps its types whatever calls are under way.                 *)
THEOREM TypeCorrect == Spec => []TypeOK
<1>1. IInv /\ [Next]_vars => IInv'
  BY TypeStep, KnownStep, ThreadStep DEF IInv
<1>2. IInv => TypeOK
  BY DEF IInv
<1> QED BY InitInv, <1>1, <1>2, PTL DEF Spec

(* However many refreshes, logins and logouts run at once, a login has one *)
(* working token or one refresh about to insert it, never two.             *)
THEOREM SessionsSafe == Spec => []IInv
<1>1. IInv /\ [Next]_vars => IInv'
  BY TypeStep, KnownStep, ThreadStep DEF IInv
<1> QED BY InitInv, <1>1, PTL DEF Spec

-----------------------------------------------------------------------------
(* Every step of the table and the calls is a step of SessionChain, or     *)
(* none.                                                                   *)

Live == [l \in Token |-> {k \in table : family[k] = l}]
Renewals == {FamilyOf(c) : c \in {d \in Call : Renewing(d)}}

(* Steps that neither touch the table nor begin or end a renewal.          *)
LEMMA Stutter ==
  ASSUME TypeOK, family' = family, table' = table,
         \A c \in Call : Renewing(c)' <=> Renewing(c),
         \A c \in Call : Renewing(c) => call'[c].token = call[c].token
  PROVE  UNCHANGED Chain!vars
<1>1. Issued' = Issued
  BY DEF Issued
<1>2. Live' = Live
  BY DEF Live
<1>3. Renewals' = Renewals
  BY DEF Renewals, FamilyOf
<1> QED BY <1>1, <1>2, <1>3 DEF Chain!vars, Live, Renewals

(* A token that leaves the table leaves its login without one.             *)
LEMMA Closed ==
  ASSUME TypeOK, KnownTokens, OneThread, family' = family,
         NEW k \in table, table' = table \ {k}
  PROVE  /\ family[k] \in Token /\ Live[family[k]] # {}
         /\ Live' = [Live EXCEPT ![family[k]] = {}]
         /\ Issued' = Issued
<1>1. family[k] \in Token /\ k \in Token
  BY DEF TypeOK, KnownTokens, Issued
<1>2. \A l \in Token : {j \in table : family[j] = l} \ {k}
        = IF l = family[k] THEN {} ELSE {j \in table : family[j] = l}
  BY DEF OneThread
<1>3. Live' = [l \in Token |-> {j \in table : family[j] = l} \ {k}]
  BY DEF Live
<1>4. k \in Live[family[k]]
  BY <1>1 DEF Live
<1>5. Live' = [Live EXCEPT ![family[k]] = {}]
  BY <1>1, <1>2, <1>3 DEF Live
<1> QED BY <1>1, <1>4, <1>5 DEF Issued

(* A token that enters the table joins a login that had none.              *)
LEMMA Joined ==
  ASSUME TypeOK, KnownTokens, NEW k \in Token, k \notin Issued, NEW l \in Token,
         family' = [family EXCEPT ![k] = l], table' = table \cup {k},
         \A j \in table : family[j] # l
  PROVE  /\ Live' = [Live EXCEPT ![l] = {k}]
         /\ Issued' = Issued \cup {k}
<1>1. /\ family'[k] = l /\ k \notin table
      /\ \A j \in Token : j # k => family'[j] = family[j]
  BY DEF TypeOK, KnownTokens
<1>2. \A m \in Token : {j \in table' : family'[j] = m}
        = IF m = l THEN {k} ELSE {j \in table : family[j] = m}
  BY <1>1 DEF TypeOK
<1>3. Live' = [Live EXCEPT ![l] = {k}]
  BY <1>2 DEF Live
<1>4. Issued' = Issued \cup {k}
  BY <1>1, SessionsAssumption DEF Issued, SessionsAssumption
<1> QED BY <1>3, <1>4

(* Only call c begins or ends a renewal.                                   *)
LEMMA Others ==
  ASSUME TypeOK, KnownTokens, OneThread, NEW c \in Call,
         \A d \in Call : d # c => call'[d] = call[d],
         \A j \in Issued : family'[j] = family[j]
  PROVE  /\ \A d \in Call : d # c /\ Renewing(d) => FamilyOf(d)' = FamilyOf(d)
         /\ Renewing(c) => FamilyOf(c) \in Renewals /\ FamilyOf(c) \in Token
         /\ Renewing(c) /\ ~Renewing(c)' => Renewals' = Renewals \ {FamilyOf(c)}
         /\ ~Renewing(c) /\ ~Renewing(c)' => Renewals' = Renewals
         /\ ~Renewing(c) /\ Renewing(c)' => Renewals' = Renewals \cup {FamilyOf(c)'}
<1>1. \A d \in Call : Renewing(d) =>
        call[d].token \in Issued /\ FamilyOf(d) \in Issued /\ FamilyOf(d) \in Token
  BY TokenOfRefresh DEF Renewing, FamilyOf, Issued
<1>2. \A d \in Call : d # c => /\ Renewing(d)' <=> Renewing(d)
                               /\ Renewing(d) => FamilyOf(d)' = FamilyOf(d)
  BY <1>1 DEF Renewing, FamilyOf
<1>3. \A d \in Call : d # c /\ Renewing(d) /\ Renewing(c) => FamilyOf(d) # FamilyOf(c)
  BY DEF OneThread
<1> HIDE DEF FamilyOf, Renewing
<1>4. Renewals' = {FamilyOf(d)' : d \in {e \in Call : Renewing(e)'}}
  BY DEF Renewals
<1> QED BY <1>1, <1>2, <1>3, <1>4 DEF Renewals

(* Each step of the server and the browsers, seen as a step of the chain.  *)
LEMMA ChainStep == IInv /\ [Next]_vars => [Chain!Next]_Chain!vars
<1> SUFFICES ASSUME IInv, [Next]_vars PROVE Chain!Next \/ UNCHANGED Chain!vars
  OBVIOUS
<1>0. TypeOK /\ KnownTokens /\ OneThread
  BY DEF IInv
<1>1. ASSUME NEW c \in Call, NEW t \in Tab, SendLogin(c, t)
      PROVE  Chain!Next \/ UNCHANGED Chain!vars
  <2>1. Send(c, t, "login", NULL)
    BY <1>1 DEF SendLogin
  <2> QED BY <2>1, SendEffect, <1>0, Stutter DEF Renewing
<1>2. ASSUME NEW c \in Call, NEW t \in Tab, SendRefresh(c, t)
      PROVE  Chain!Next \/ UNCHANGED Chain!vars
  <2>1. Send(c, t, "refresh", store[BrowserOf[t]]) /\ store[BrowserOf[t]] \in Token
    BY <1>2, <1>0, SessionsAssumption DEF SendRefresh, TypeOK, SessionsAssumption
  <2> QED BY <2>1, SendEffect, <1>0, Stutter DEF Renewing
<1>3. ASSUME NEW c \in Call, TakeAnswer(c)
      PROVE  Chain!Next \/ UNCHANGED Chain!vars
  BY <1>3, <1>0, Stutter DEF TakeAnswer, TypeOK, Renewing, NoCall
<1>4. ASSUME NEW c \in Call, TakeRefusal(c)
      PROVE  Chain!Next \/ UNCHANGED Chain!vars
  BY <1>4, <1>0, Stutter DEF TakeRefusal, TypeOK, Renewing, NoCall
<1>5. ASSUME NEW c \in Call, GiveUp(c)
      PROVE  Chain!Next \/ UNCHANGED Chain!vars
  <2>1. /\ UNCHANGED <<table, family>>
        /\ \/ call' = [call EXCEPT ![c] = Orphan(c)]
           \/ call' = [call EXCEPT ![c] = NoCall] /\ call[c].pc = "check"
    BY <1>5 DEF GiveUp
  <2>2. \A d \in Call : \/ call'[d] \in {call[d], Orphan(d)}
                        \/ call'[d] = NoCall /\ call[d].pc = "check"
    BY <2>1, <1>0 DEF TypeOK
  <2> QED BY <2>1, <2>2, <1>0, OrphanEffect, Stutter DEF Renewing, NoCall, Answered
<1>6. ASSUME NEW t \in Tab, NEW revoke \in BOOLEAN, Logout(t, revoke)
      PROVE  Chain!Next \/ UNCHANGED Chain!vars
  BY <1>6, <1>0, Stutter DEF Logout, Renewing
<1>7. ASSUME NEW t \in Tab, Reload(t)
      PROVE  Chain!Next \/ UNCHANGED Chain!vars
  <2>1. UNCHANGED <<table, family>> /\ \A d \in Call : call'[d] \in {call[d], Orphan(d)}
    BY <1>7, <1>0 DEF Reload, TypeOK
  <2> QED BY <2>1, <1>0, OrphanEffect, Stutter DEF Renewing, NoCall, Answered
<1>8. ASSUME NEW c \in Call, CheckUser(c)
      PROVE  Chain!Next \/ UNCHANGED Chain!vars
  <2>1. UNCHANGED <<table, family>> /\ call[c].pc = "check"
    BY <1>8 DEF CheckUser
  <2>2. CASE Reply(c, "refused", NULL)
    BY <2>1, <2>2, <1>0, ReplyEffect, Stutter DEF Renewing, NoCall
  <2>3. CASE call' = [call EXCEPT ![c].pc = "issue"] /\ call[c].kind = "login"
    BY <2>1, <2>3, <1>0, MoveEffect, Stutter DEF Renewing
  <2>4. CASE call' = [call EXCEPT ![c].pc = "rotate"]
    BY <2>1, <2>4, <1>0, MoveEffect, Stutter DEF Renewing
  <2> QED BY <1>8, <2>2, <2>3, <2>4 DEF CheckUser
<1>9. ASSUME NEW c \in Call, Rotate(c)
      PROVE  Chain!Next \/ UNCHANGED Chain!vars
  <2>1. /\ table' = table \ {call[c].token} /\ family' = family
        /\ call[c].pc = "rotate" /\ call[c].kind = "refresh"
    BY <1>9, <1>0 DEF Rotate, TypeOK
  <2>2. CASE call[c].token \notin table /\ Reply(c, "refused", NULL)
    BY <2>1, <2>2, <1>0, ReplyEffect, Stutter DEF Renewing, NoCall
  <2>3. CASE call[c].token \in table /\ call' = [call EXCEPT ![c].pc = "issue"]
    <3>1. /\ \A d \in Call : d # c => call'[d] = call[d]
          /\ ~Renewing(c) /\ Renewing(c)' /\ FamilyOf(c)' = family[call[c].token]
      BY <2>1, <2>3, <1>0, MoveEffect DEF Renewing, FamilyOf
    <3>2. Renewals' = Renewals \cup {family[call[c].token]}
      BY <2>1, <3>1, <1>0, Others
    <3>3. PICK l \in Token : l = family[call[c].token]
      BY <2>3, <1>0 DEF TypeOK, KnownTokens, Issued
    <3>4. Chain!TakeIn(l)
      BY <2>1, <2>3, <3>2, <3>3, <1>0, Closed DEF Chain!TakeIn, Chain!Close, Live, Renewals
    <3> QED BY <3>4 DEF Chain!Next
  <2> QED BY <1>9, <2>2, <2>3 DEF Rotate
<1>10. ASSUME NEW c \in Call, NEW k \in Token, Issue(c, k)
      PROVE  Chain!Next \/ UNCHANGED Chain!vars
  <2>1. /\ table' = table \cup {k} /\ Reply(c, "ok", k) /\ k \notin Issued
        /\ call[c].pc = "issue"
    BY <1>10 DEF Issue
  <2>2. /\ \A d \in Call : d # c => call'[d] = call[d]
        /\ ~Renewing(c)'
    BY <2>1, <1>0, ReplyEffect DEF Renewing, NoCall
  <2>3. \A j \in Issued : family'[j] = family[j]
    BY <1>10, <2>1, <1>0 DEF Issue, TypeOK, Issued
  <2>4. CASE call[c].kind = "login"
    <3>1. family' = [family EXCEPT ![k] = k] /\ \A j \in table : family[j] # k
      BY <1>10, <2>1, <2>4, <1>0 DEF Issue, KnownTokens
    <3>2. Renewals' = Renewals
      BY <2>2, <2>3, <2>4, <1>0, Others DEF Renewing
    <3>3. Chain!Open(k)
      BY <2>1, <3>1, <3>2, <1>0, Joined DEF Chain!Open, Chain!Issue, Live, Renewals
    <3> QED BY <3>3 DEF Chain!Next
  <2>5. CASE call[c].kind # "login"
    <3>1. Renewing(c)
      BY <2>1, <2>5, <1>0 DEF Renewing, TypeOK, CallRecord
    <3>2. /\ family' = [family EXCEPT ![k] = FamilyOf(c)]
          /\ \A j \in table : family[j] # FamilyOf(c)
      BY <1>10, <2>5, <3>1, <1>0 DEF Issue, FamilyOf, OneThread
    <3>3. /\ Renewals' = Renewals \ {FamilyOf(c)} /\ FamilyOf(c) \in Renewals /\ FamilyOf(c) \in Token
      BY <2>2, <2>3, <3>1, <1>0, Others
    <3>4. PICK l \in Token : l = FamilyOf(c)
      BY <3>3
    <3>5. Chain!Renew(l, k)
      BY <2>1, <3>2, <3>3, <3>4, <1>0, Joined DEF Chain!Renew, Chain!Issue, Live, Renewals
    <3> QED BY <3>5 DEF Chain!Next
  <2> QED BY <2>4, <2>5
<1>11. ASSUME NEW c \in Call, Fail(c)
      PROVE  Chain!Next \/ UNCHANGED Chain!vars
  <2>1. UNCHANGED <<table, family>> /\ Reply(c, "refused", NULL)
    BY <1>11 DEF Fail
  <2>2. /\ \A d \in Call : d # c => call'[d] = call[d]
        /\ ~Renewing(c)'
    BY <2>1, <1>0, ReplyEffect DEF Renewing, NoCall
  <2>3. CASE ~Renewing(c)
    BY <2>1, <2>2, <2>3, <1>0, Stutter DEF Renewing
  <2>4. CASE Renewing(c)
    <3>1. /\ Renewals' = Renewals \ {FamilyOf(c)} /\ FamilyOf(c) \in Renewals /\ FamilyOf(c) \in Token
      BY <2>1, <2>2, <2>4, <1>0, Others
    <3>2. PICK l \in Token : l = FamilyOf(c)
      BY <3>1
    <3>3. Chain!Abandon(l)
      BY <2>1, <3>1, <3>2 DEF Chain!Abandon, Renewals, Issued
    <3> QED BY <3>3 DEF Chain!Next
  <2> QED BY <2>3, <2>4
<1>12. ASSUME NEW k \in Token, ServeLogout(k) \/ LogoutLost(k)
      PROVE  Chain!Next \/ UNCHANGED Chain!vars
  <2>1. UNCHANGED <<family, call>>
    BY <1>12 DEF ServeLogout, LogoutLost
  <2>2. CASE table' = table
    BY <2>1, <2>2, <1>0, Stutter DEF Renewing
  <2>3. CASE table' = table \ {k} /\ k \in table
    <3>1. Renewals' = Renewals
      BY <2>1 DEF Renewals, FamilyOf, Renewing
    <3>2. PICK l \in Token : l = family[k]
      BY <2>3, <1>0 DEF TypeOK, KnownTokens, Issued
    <3>3. Chain!Revoke(l)
      BY <2>1, <2>3, <3>1, <3>2, <1>0, Closed DEF Chain!Revoke, Chain!Close, Live, Renewals
    <3> QED BY <3>3 DEF Chain!Next
  <2> QED BY <1>12, <2>2, <2>3 DEF ServeLogout, LogoutLost
<1>13. ASSUME ToggleActive
      PROVE  Chain!Next \/ UNCHANGED Chain!vars
  BY <1>13, <1>0, Stutter DEF ToggleActive, Renewing
<1>14. ASSUME UNCHANGED vars
      PROVE  Chain!Next \/ UNCHANGED Chain!vars
  BY <1>14, <1>0, Stutter DEF vars, Renewing
<1> QED BY <1>1, <1>2, <1>3, <1>4, <1>5, <1>6, <1>7, <1>8, <1>9, <1>10, <1>11, <1>12, <1>13, <1>14 DEF Next

(* A token is exchanged at most once, a login has one working token at a   *)
(* time, and one that was revoked while nobody renewed it stays dead: the  *)
(* rotation implements the chain of credentials.                           *)
THEOREM ChainImplemented == Spec => ImplementsChain
<1>1. Init => Chain!Init
  <2>1. ASSUME Init PROVE Live = [l \in Token |-> {}] /\ Renewals = {} /\ Issued = {}
    BY <2>1 DEF Init, Live, Renewals, Issued, Renewing, NoCall
  <2> QED BY <2>1 DEF Chain!Init, Live, Renewals
<1> QED BY <1>1, SessionsSafe, ChainStep, PTL DEF Spec, ImplementsChain, Chain!Spec

-----------------------------------------------------------------------------
(* StaysLoggedIn: as long as there was no trouble, what a browser with one *)
(* tab holds is in the table, unless its own refresh has just taken it.    *)

Several(b) == \E t, u \in Tab : t # u /\ BrowserOf[t] = b /\ BrowserOf[u] = b
Undisturbed == {b \in Browser \ left : ~Several(b)}

Asks(c, b)      == call[c].tab # NULL /\ Own(c) = b
Refreshes(c, b) == Asks(c, b) /\ call[c].kind = "refresh"

(* Every call has a tab that waits for it, and a tab has one refresh.      *)
Calm ==
  /\ active
  /\ \A c \in Call : call[c] = NoCall \/ (call[c].pc # "free" /\ call[c].tab # NULL)
  /\ \A c, d \in Call :
       /\ call[c].tab # NULL /\ call[c].tab = call[d].tab
       /\ call[c].kind = "refresh" /\ call[d].kind = "refresh"
       => c = d

(* A token that is about to be answered is known to nobody else.           *)
Unknown ==
  /\ \A c \in Call : call[c].new # NULL =>
       /\ call[c].new \in table \ bye
       /\ \A b \in Browser : store[b] # call[c].new
       /\ \A d \in Call : call[d].token # call[c].new
  /\ \A c, d \in Call : call[c].new # NULL /\ call[c].new = call[d].new => c = d

(* No two browsers hold or present one token.                              *)
OneHolder ==
  /\ \A a, b \in Browser : store[a] # NULL /\ store[a] = store[b] => a = b
  /\ \A c \in Call : call[c].token # NULL =>
       /\ \A b \in Browser : store[b] = call[c].token => Own(c) = b
       /\ \A d \in Call : call[d].token = call[c].token => Own(c) = Own(d)

(* Only who has logged out has a revocation under way.                     *)
RevokedLeft ==
  /\ \A b \in Browser : store[b] \in bye => b \in left
  /\ \A c \in Call : call[c].token \in bye => Own(c) \in left

Works(b) ==
  /\ \/ store[b] \in table \cup {NULL}
     \/ \E c \in Call : Refreshes(c, b) /\ call[c].pc \in {"issue", "ok"}
  /\ \A c \in Call : Refreshes(c, b) =>
       /\ call[c].pc # "refused"
       /\ call[c].pc \in {"check", "rotate"} => call[c].token \in table

Stays   == Calm /\ Unknown /\ OneHolder /\ RevokedLeft /\ \A b \in Undisturbed : Works(b)
StayInv == trouble = 0 => Stays

LEMMA StayInit == Init => StayInv
<1> SUFFICES ASSUME Init PROVE StayInv
  OBVIOUS
<1>1. /\ \A c \in Call : call[c] = NoCall
      /\ \A b \in Browser : store[b] = NULL
      /\ bye = {} /\ active = TRUE
  BY DEF Init
<1>2. NoCall.tab = NULL /\ NoCall.token = NULL /\ NoCall.new = NULL /\ NoCall.kind = "login"
  BY DEF NoCall
<1>3. Calm /\ Unknown /\ OneHolder
  BY <1>1, <1>2 DEF Calm, Unknown, OneHolder
<1>4. RevokedLeft /\ \A b \in Undisturbed : Works(b)
  BY <1>1, <1>2 DEF RevokedLeft, Undisturbed, Works, Refreshes, Asks
<1> QED BY <1>3, <1>4 DEF StayInv, Stays

(* A call somebody waits for moves on with its tab, its kind and its token. *)
LEMMA WaitedMoves ==
  ASSUME TypeOK, NEW c \in Call, NEW pc, call' = [call EXCEPT ![c].pc = pc]
  PROVE  /\ \A d \in Call : d # c => call'[d] = call[d]
         /\ call'[c].pc = pc /\ call'[c].new = call[c].new /\ call'[c].tab = call[c].tab
         /\ call'[c].kind = call[c].kind /\ call'[c].token = call[c].token
<1> DEFINE r == [call[c] EXCEPT !.pc = pc]
<1>1. /\ r.pc = pc /\ r.new = call[c].new /\ r.tab = call[c].tab
      /\ r.kind = call[c].kind /\ r.token = call[c].token
  BY DEF TypeOK, CallRecord
<1>2. call' = [call EXCEPT ![c] = r]
  BY DEF TypeOK
<1> HIDE DEF r
<1> QED BY <1>1, <1>2 DEF TypeOK

LEMMA WaitedReplies ==
  ASSUME TypeOK, NEW c \in Call, call[c].tab # NULL, NEW pc, NEW k, Reply(c, pc, k)
  PROVE  /\ \A d \in Call : d # c => call'[d] = call[d]
         /\ call'[c].pc = pc /\ call'[c].new = k /\ call'[c].tab = call[c].tab
         /\ call'[c].kind = call[c].kind /\ call'[c].token = call[c].token
<1> DEFINE r == [[call[c] EXCEPT !.pc = pc] EXCEPT !.new = k]
<1>1. /\ r.pc = pc /\ r.new = k /\ r.tab = call[c].tab
      /\ r.kind = call[c].kind /\ r.token = call[c].token
  BY DEF TypeOK, CallRecord
<1>2. call' = [call EXCEPT ![c] = r]
  BY DEF Reply, TypeOK
<1> HIDE DEF r
<1> QED BY <1>1, <1>2 DEF TypeOK

(* What is enough for a step that sends nothing to keep Calm.               *)
LEMMA CalmKept ==
  ASSUME Calm, active' = active,
         \A d \in Call : \/ call'[d] = call[d] \/ call'[d] = NoCall
                         \/ /\ call'[d].pc # "free" /\ call[d].tab # NULL
                            /\ call'[d].tab = call[d].tab /\ call'[d].kind = call[d].kind
  PROVE  Calm'
<1>1. NoCall.tab = NULL
  BY DEF NoCall
<1> QED BY <1>1 DEF Calm

(* For a step after which nobody knows a token he did not know before.     *)
LEMMA HoldersKept ==
  ASSUME TypeOK, OneHolder, RevokedLeft, left \subseteq left', bye' \subseteq bye,
         \A b \in Browser : store'[b] \in {NULL, store[b]},
         \A d \in Call : \/ call'[d].token = NULL
                         \/ call'[d].token = call[d].token /\ call'[d].tab = call[d].tab
  PROVE  OneHolder' /\ RevokedLeft'
  BY SessionsAssumption DEF TypeOK, OneHolder, RevokedLeft, Own, SessionsAssumption

(* What is enough for a step that leaves the table, the stores and who has *)
(* left alone.                                                             *)
LEMMA SendStays ==
  ASSUME IInv, Stays, NEW c \in Call, NEW t \in Tab, SendLogin(c, t) \/ SendRefresh(c, t)
  PROVE  Stays'
<1> DEFINE b0 == BrowserOf[t]
<1>0. /\ TypeOK /\ KnownTokens /\ Calm /\ Unknown /\ OneHolder /\ RevokedLeft
      /\ \A b \in Undisturbed : Works(b)
      /\ b0 \in Browser /\ t # NULL
  BY SessionsAssumption DEF IInv, Stays, SessionsAssumption
<1>1. PICK kind \in {"login", "refresh"}, k \in Token \cup {NULL} :
        /\ Send(c, t, kind, k)
        /\ kind = "login" => k = NULL
        /\ kind = "refresh" => k = store[b0] /\ k # NULL /\ ~InFlight(t, "refresh")
  BY <1>0 DEF SendLogin, SendRefresh, TypeOK
<1>2. /\ \A d \in Call : d # c => call'[d] = call[d]
      /\ call'[c].pc = "check" /\ call'[c].kind = kind /\ call'[c].token = k
      /\ call'[c].tab = t /\ call'[c].new = NULL /\ call[c].pc = "free"
      /\ UNCHANGED <<active, table, family, store, bye, left, trouble>>
  BY <1>0, <1>1, SendEffect
<1> HIDE DEF b0
<1>3. Own(c)' = b0 /\ \A d \in Call : d # c => Own(d)' = Own(d)
  BY <1>2 DEF Own, b0
<1>4. \A d \in Call : call[d].tab = t /\ call[d].kind = "refresh" => kind = "login"
  BY <1>0, <1>1 DEF Calm, NoCall, InFlight
<1>5. Calm'
  BY <1>0, <1>1, <1>2, <1>4 DEF Calm
<1>6. Unknown'
  BY <1>0, <1>1, <1>2 DEF Unknown
<1>7. OneHolder'
  BY <1>0, <1>1, <1>2, <1>3 DEF OneHolder
<1>8. RevokedLeft'
  BY <1>0, <1>1, <1>2, <1>3, SessionsAssumption DEF RevokedLeft, TypeOK, SessionsAssumption
<1>9. ASSUME NEW b \in Undisturbed' PROVE Works(b)'
  <2>1. b \in Undisturbed /\ Works(b)
    BY <1>0, <1>2, <1>9 DEF Undisturbed, Several
  <2>2. \A d \in Call : d # c => (Refreshes(d, b)' <=> Refreshes(d, b))
    BY <1>2, <1>3 DEF Refreshes, Asks
  <2>3. store[b] \in table \cup {NULL} \/ ~Refreshes(c, b)'
    <3>1. SUFFICES ASSUME Refreshes(c, b)' PROVE store[b] \in table \cup {NULL}
      OBVIOUS
    <3>2. kind = "refresh" /\ b = b0
      BY <1>2, <1>3, <3>1 DEF Refreshes, Asks
    <3>3. \A d \in Call : ~Refreshes(d, b)
      <4>1. SUFFICES ASSUME NEW d \in Call, Refreshes(d, b) PROVE FALSE
        OBVIOUS
      <4>2. call[d].tab \in Tab /\ BrowserOf[call[d].tab] = BrowserOf[t]
        BY <1>0, <3>2, <4>1 DEF Refreshes, Asks, Own, TypeOK, CallRecord, b0
      <4>3. call[d].tab = t
        BY <2>1, <3>2, <4>2 DEF Undisturbed, Several, b0
      <4> QED BY <1>4, <3>2, <4>1, <4>3 DEF Refreshes
    <3> QED BY <2>1, <3>3 DEF Works
  <2>4. Refreshes(c, b)' => call'[c].token = store[b] /\ call'[c].token # NULL
    BY <1>1, <1>2, <1>3 DEF Refreshes, Asks
  <2>5. ~(Refreshes(c, b) /\ call[c].pc \in {"issue", "ok"})
    BY <1>2
  <2> QED BY <1>2, <2>1, <2>2, <2>3, <2>4, <2>5 DEF Works
<1> QED BY <1>5, <1>6, <1>7, <1>8, <1>9 DEF Stays

(* An answer brings its browser a token that nobody else knows.            *)
LEMMA AnswerStays ==
  ASSUME IInv, Stays, NEW c \in Call, TakeAnswer(c)
  PROVE  Stays'
<1>0. /\ TypeOK /\ Calm /\ Unknown /\ OneHolder /\ RevokedLeft
      /\ \A b \in Undisturbed : Works(b)
  BY DEF IInv, Stays
<1> DEFINE b0 == Own(c)
           k == call[c].new
<1>1. /\ call[c].pc = "ok" /\ k # NULL /\ call[c].tab # NULL /\ b0 \in Browser
  BY <1>0, SessionsAssumption
     DEF TakeAnswer, TypeOK, Answered, CallRecord, Own, SessionsAssumption
<1>2. /\ \A d \in Call : d # c => call'[d] = call[d]
      /\ call'[c] = NoCall
      /\ store'[b0] = k /\ \A b \in Browser : b # b0 => store'[b] = store[b]
      /\ UNCHANGED <<active, table, family, bye, left, trouble>>
  BY <1>0, <1>1 DEF TakeAnswer, TypeOK
<1>3. \A d \in Call : d # c => Own(d)' = Own(d)
  BY <1>2 DEF Own
<1>4. NoCall.tab = NULL /\ NoCall.token = NULL /\ NoCall.new = NULL /\ NoCall.kind = "login"
  BY DEF NoCall
<1>5. k \in table \ bye /\ \A d \in Call : call[d].token # k /\ (d # c => call[d].new # k)
  BY <1>0, <1>1 DEF Unknown
<1>6. \A b \in Browser : store[b] # k
  BY <1>0, <1>1 DEF Unknown
<1> HIDE DEF b0, k
<1>7. Calm'
  BY <1>0, <1>2, CalmKept
<1>8. Unknown'
  <2>1. ASSUME NEW d \in Call, call'[d].new # NULL
        PROVE  /\ d # c /\ call'[d].new = call[d].new /\ call[d].new # k
               /\ call[d].new \in table \ bye
               /\ \A b \in Browser : store'[b] # call[d].new
               /\ \A e \in Call : call'[e].token # call[d].new
    <3>1. d # c /\ call'[d] = call[d] /\ call[d].new # NULL /\ call[d].new # k
      BY <1>2, <1>4, <1>5, <2>1
    <3>2. /\ call[d].new \in table \ bye
          /\ \A b \in Browser : store[b] # call[d].new
          /\ \A e \in Call : call[e].token # call[d].new
      BY <1>0, <3>1 DEF Unknown
    <3> QED BY <1>2, <1>4, <3>1, <3>2
  <2>2. ASSUME NEW d \in Call, NEW e \in Call, call'[d].new # NULL, call'[d].new = call'[e].new
        PROVE  d = e
    BY <1>0, <2>1, <2>2 DEF Unknown
  <2> QED BY <1>2, <2>1, <2>2 DEF Unknown
<1>9. OneHolder' /\ RevokedLeft'
  BY <1>0, <1>1, <1>2, <1>3, <1>4, <1>5, <1>6, SessionsAssumption
     DEF OneHolder, RevokedLeft, TypeOK, SessionsAssumption
<1>10. ASSUME NEW b \in Undisturbed' PROVE Works(b)'
  <2>1. b \in Undisturbed /\ Works(b) /\ b \in Browser
    BY <1>0, <1>2, <1>10 DEF Undisturbed, Several
  <2>2. /\ \A d \in Call : d # c => (Refreshes(d, b)' <=> Refreshes(d, b))
        /\ ~Refreshes(c, b)' /\ (b # b0 => ~Refreshes(c, b))
    BY <1>2, <1>3, <1>4 DEF Refreshes, Asks, b0
  <2>3. b = b0 => store'[b] \in table'
    BY <1>2, <1>5
  <2> QED BY <1>2, <2>1, <2>2, <2>3 DEF Works
<1> QED BY <1>7, <1>8, <1>9, <1>10 DEF Stays

(* A refusal clears the store of a browser that is disturbed already.      *)
LEMMA RefusalStays ==
  ASSUME IInv, Stays, NEW c \in Call, TakeRefusal(c)
  PROVE  Stays'
<1>0. /\ TypeOK /\ Calm /\ Unknown /\ OneHolder /\ RevokedLeft
      /\ \A b \in Undisturbed : Works(b)
  BY DEF IInv, Stays
<1>1. /\ \A d \in Call : d # c => call'[d] = call[d]
      /\ call'[c] = NoCall /\ call[c].pc = "refused" /\ call[c].tab # NULL
      /\ \A b \in Browser : store'[b] \in {NULL, store[b]}
      /\ \A b \in Browser : store'[b] = store[b] \/ Refreshes(c, b)
      /\ UNCHANGED <<active, table, family, bye, left, trouble>>
  BY <1>0 DEF TakeRefusal, Rejected, TypeOK, Answered, Refreshes, Asks
<1>2. NoCall.tab = NULL /\ NoCall.token = NULL /\ NoCall.new = NULL /\ NoCall.kind = "login"
  BY DEF NoCall
<1>3. Calm'
  BY <1>0, <1>1, CalmKept
<1>4. Unknown'
  BY <1>0, <1>1, <1>2 DEF Unknown
<1>5. OneHolder' /\ RevokedLeft'
  BY <1>0, <1>1, <1>2, HoldersKept
<1>6. ASSUME NEW b \in Undisturbed' PROVE Works(b)'
  <2>1. b \in Undisturbed /\ Works(b) /\ b \in Browser
    BY <1>0, <1>1, <1>6 DEF Undisturbed, Several
  <2>2. \A d \in Call : d # c => (Refreshes(d, b)' <=> Refreshes(d, b))
    BY <1>1 DEF Refreshes, Asks, Own
  <2>3. ~Refreshes(c, b) /\ ~Refreshes(c, b)'
    BY <1>1, <1>2, <2>1 DEF Works, Refreshes, Asks
  <2> QED BY <1>1, <2>1, <2>2, <2>3 DEF Works
<1> QED BY <1>3, <1>4, <1>5, <1>6 DEF Stays

(* A call that moves on without a token taken or issued.                   *)
LEMMA MoveStays ==
  ASSUME IInv, Stays, NEW c \in Call,
         \/ CheckUser(c)
         \/ Rotate(c) /\ call[c].token \notin table
  PROVE  Stays'
<1>0. /\ TypeOK /\ Calm /\ Unknown /\ OneHolder /\ RevokedLeft
      /\ \A b \in Undisturbed : Works(b)
  BY DEF IInv, Stays
<1>1. /\ call[c].pc \in {"check", "rotate"} /\ call[c].tab # NULL
      /\ UNCHANGED <<active, table, family, store, bye, left, trouble>>
      /\ call[c].pc = "rotate" => call[c].token \notin table /\ call[c].kind = "refresh"
  <2>1. NoCall.pc = "free"
    BY DEF NoCall
  <2> QED BY <1>0, <2>1 DEF CheckUser, Rotate, Calm, TypeOK
<1>2. \/ \E pc \in {"issue", "rotate"} :
           /\ call' = [call EXCEPT ![c].pc = pc] /\ call[c].pc = "check"
           /\ pc = "issue" => call[c].kind = "login"
      \/ Reply(c, "refused", NULL) /\ call[c].pc = "rotate"
  BY <1>0 DEF CheckUser, Rotate, Calm
<1>3. /\ \A d \in Call : d # c => call'[d] = call[d]
      /\ call'[c].new \in {NULL, call[c].new} /\ call'[c].tab = call[c].tab
      /\ call'[c].kind = call[c].kind /\ call'[c].token = call[c].token
      /\ \/ call[c].pc = "check" /\ call'[c].pc \in {"issue", "rotate"}
         \/ call[c].pc = "rotate" /\ call'[c].pc = "refused"
      /\ call'[c].pc = "issue" => call[c].kind = "login"
  BY <1>0, <1>1, <1>2, WaitedMoves, WaitedReplies
<1>4. Calm'
  BY <1>0, <1>1, <1>3, CalmKept
<1>5. Unknown'
  BY <1>0, <1>1, <1>3 DEF Unknown
<1>6. OneHolder' /\ RevokedLeft'
  BY <1>0, <1>1, <1>3, HoldersKept
<1>7. ASSUME NEW b \in Undisturbed' PROVE Works(b)'
  <2>1. b \in Undisturbed /\ Works(b) /\ b \in Browser
    BY <1>0, <1>1, <1>7 DEF Undisturbed, Several
  <2>2. \A d \in Call : Refreshes(d, b)' <=> Refreshes(d, b)
    BY <1>3 DEF Refreshes, Asks, Own
  <2>3. Refreshes(c, b) => call[c].pc # "rotate"
    BY <1>1, <2>1 DEF Works
  <2> QED BY <1>1, <1>3, <2>1, <2>2, <2>3 DEF Works
<1> QED BY <1>4, <1>5, <1>6, <1>7 DEF Stays

(* A refresh takes a token that only its own browser holds.                *)
LEMMA RotateStays ==
  ASSUME IInv, Stays, NEW c \in Call, Rotate(c), call[c].token \in table
  PROVE  Stays'
<1> DEFINE k == call[c].token
<1>0. /\ TypeOK /\ Calm /\ Unknown /\ OneHolder /\ RevokedLeft
      /\ \A b \in Undisturbed : Works(b)
  BY DEF IInv, Stays
<1>1. /\ call[c].pc = "rotate" /\ call[c].tab # NULL /\ call[c].kind = "refresh" /\ k # NULL
      /\ call' = [call EXCEPT ![c].pc = "issue"] /\ table' = table \ {k}
      /\ UNCHANGED <<active, family, store, bye, left, trouble>>
  <2>1. NoCall.pc = "free"
    BY DEF NoCall
  <2> QED BY <1>0, <2>1 DEF Rotate, Calm, TypeOK
<1>2. /\ \A d \in Call : d # c => call'[d] = call[d]
      /\ call'[c].pc = "issue" /\ call'[c].new = call[c].new /\ call'[c].tab = call[c].tab
      /\ call'[c].kind = call[c].kind /\ call'[c].token = call[c].token
  BY <1>0, <1>1, WaitedMoves
<1>3. Calm'
  BY <1>0, <1>1, <1>2, CalmKept
<1>4. Unknown'
  BY <1>0, <1>1, <1>2 DEF Unknown
<1>5. OneHolder' /\ RevokedLeft'
  BY <1>0, <1>1, <1>2, HoldersKept
<1>6. ASSUME NEW b \in Undisturbed' PROVE Works(b)'
  <2>1. b \in Undisturbed /\ Works(b) /\ b \in Browser
    BY <1>0, <1>1, <1>6 DEF Undisturbed, Several
  <2>2. \A d \in Call : Refreshes(d, b)' <=> Refreshes(d, b)
    BY <1>2 DEF Refreshes, Asks, Own
  <2>3. Refreshes(c, b) <=> b = Own(c)
    BY <1>1 DEF Refreshes, Asks
  <2>4. store[b] = k => b = Own(c)
    BY <1>0, <1>1, <2>1 DEF OneHolder
  <2>5. ASSUME NEW d \in Call, Refreshes(d, b), d # c PROVE call[d].token # k
    <3>1. SUFFICES ASSUME call[d].token = k PROVE FALSE
      OBVIOUS
    <3>2. Own(d) = Own(c) /\ Own(d) = b
      BY <1>0, <1>1, <2>5, <3>1 DEF OneHolder, Refreshes, Asks
    <3>3. call[d].tab \in Tab /\ call[c].tab \in Tab
      BY <1>0, <1>1, <2>5 DEF Refreshes, Asks, TypeOK, CallRecord
    <3>4. call[d].tab = call[c].tab
      BY <2>1, <3>2, <3>3 DEF Undisturbed, Several, Own
    <3> QED BY <1>0, <1>1, <2>5, <3>4 DEF Calm, Refreshes
  <2> QED BY <1>1, <1>2, <2>1, <2>2, <2>3, <2>4, <2>5 DEF Works
<1> QED BY <1>3, <1>4, <1>5, <1>6 DEF Stays

(* A token that is issued was known to nobody.                             *)
LEMMA IssueStays ==
  ASSUME IInv, Stays, NEW c \in Call, NEW k \in Token, Issue(c, k)
  PROVE  Stays'
<1>0. /\ TypeOK /\ KnownTokens /\ Calm /\ Unknown /\ OneHolder /\ RevokedLeft
      /\ \A b \in Undisturbed : Works(b)
  BY DEF IInv, Stays
<1>1. /\ call[c].pc = "issue" /\ call[c].tab # NULL /\ k \notin Issued /\ k # NULL
      /\ Reply(c, "ok", k) /\ table' = table \cup {k}
      /\ UNCHANGED <<active, store, bye, left, trouble>>
  <2>1. NoCall.pc = "free"
    BY DEF NoCall
  <2> QED BY <1>0, <2>1, SessionsAssumption DEF Issue, Calm, SessionsAssumption
<1>2. /\ \A d \in Call : d # c => call'[d] = call[d]
      /\ call'[c].pc = "ok" /\ call'[c].new = k /\ call'[c].tab = call[c].tab
      /\ call'[c].kind = call[c].kind /\ call'[c].token = call[c].token
  BY <1>0, <1>1, WaitedReplies
<1>3. /\ k \notin bye /\ \A b \in Browser : store[b] # k
      /\ \A d \in Call : call[d].token # k /\ call[d].new # k
  BY <1>0, <1>1 DEF KnownTokens
<1>4. Calm'
  BY <1>0, <1>1, <1>2, CalmKept
<1>5. Unknown'
  <2>1. \A d \in Call : call'[d].token = call[d].token
    BY <1>2
  <2>2. \A d \in Call : call'[d].new # NULL =>
          (d = c /\ call'[d].new = k) \/ (call'[d].new = call[d].new /\ d # c)
    BY <1>2
  <2> QED BY <1>0, <1>1, <1>3, <2>1, <2>2 DEF Unknown
<1>6. OneHolder' /\ RevokedLeft'
  BY <1>0, <1>1, <1>2, HoldersKept
<1>7. ASSUME NEW b \in Undisturbed' PROVE Works(b)'
  <2>1. b \in Undisturbed /\ Works(b) /\ b \in Browser
    BY <1>0, <1>1, <1>7 DEF Undisturbed, Several
  <2>2. \A d \in Call : Refreshes(d, b)' <=> Refreshes(d, b)
    BY <1>2 DEF Refreshes, Asks, Own
  <2> QED BY <1>1, <1>2, <2>1, <2>2 DEF Works
<1> QED BY <1>4, <1>5, <1>6, <1>7 DEF Stays

(* A browser somebody logs out of is not among the undisturbed any more,   *)
(* and only its token is revoked.                                          *)
LEMMA LogoutStays ==
  ASSUME IInv, Stays, NEW t \in Tab, NEW revoke \in BOOLEAN, Logout(t, revoke)
  PROVE  Stays'
<1> DEFINE b0 == BrowserOf[t]
<1>0. /\ TypeOK /\ Calm /\ Unknown /\ OneHolder /\ RevokedLeft
      /\ b0 \in Browser /\ \A b \in Undisturbed : Works(b)
  BY SessionsAssumption DEF IInv, Stays, SessionsAssumption
<1>1. /\ bye' \subseteq bye \cup ({store[b0]} \ {NULL}) /\ left' = left \cup {b0}
      /\ store'[b0] = NULL /\ \A b \in Browser : b # b0 => store'[b] = store[b]
      /\ UNCHANGED <<active, table, family, call, trouble>>
  BY <1>0, SessionsAssumption DEF Logout, TypeOK, SessionsAssumption
<1> HIDE DEF b0
<1>2. \A d \in Call, b \in Browser : Own(d)' = Own(d) /\ (Refreshes(d, b)' <=> Refreshes(d, b))
  BY <1>1 DEF Refreshes, Asks, Own
<1>3. Calm'
  BY <1>0, <1>1, CalmKept
<1>4. Unknown'
  BY <1>0, <1>1 DEF Unknown
<1>5. OneHolder'
  BY <1>0, <1>1, <1>2 DEF OneHolder
<1>6. RevokedLeft'
  BY <1>0, <1>1, <1>2, SessionsAssumption DEF RevokedLeft, OneHolder, TypeOK, SessionsAssumption
<1>7. ASSUME NEW b \in Undisturbed' PROVE Works(b)'
  <2>1. b \in Undisturbed /\ Works(b) /\ b \in Browser /\ b # b0
    BY <1>0, <1>1, <1>7 DEF Undisturbed, Several
  <2> QED BY <1>1, <1>2, <2>1 DEF Works
<1> QED BY <1>3, <1>4, <1>5, <1>6, <1>7 DEF Stays

(* A revocation takes the token of a browser that has been left.           *)
LEMMA RevokeStays ==
  ASSUME IInv, Stays, NEW k \in Token, ServeLogout(k)
  PROVE  Stays'
<1>0. /\ TypeOK /\ Calm /\ Unknown /\ OneHolder /\ RevokedLeft
      /\ \A b \in Undisturbed : Works(b)
  BY DEF IInv, Stays
<1>1. /\ k \in bye /\ bye' = bye \ {k} /\ table' = table \ {k}
      /\ UNCHANGED <<active, family, store, call, left, trouble>>
  BY DEF ServeLogout
<1>2. Calm'
  BY <1>0, <1>1, CalmKept
<1>3. Unknown'
  BY <1>0, <1>1 DEF Unknown
<1>4. OneHolder' /\ RevokedLeft'
  BY <1>0, <1>1, HoldersKept
<1>5. ASSUME NEW b \in Undisturbed' PROVE Works(b)'
  <2>1. b \in Undisturbed /\ Works(b) /\ b \in Browser /\ b \notin left
    BY <1>0, <1>1, <1>5 DEF Undisturbed, Several
  <2>2. \A d \in Call : Refreshes(d, b)' <=> Refreshes(d, b)
    BY <1>1 DEF Refreshes, Asks, Own
  <2>3. store[b] # k /\ \A d \in Call : Refreshes(d, b) => call[d].token # k
    BY <1>0, <1>1, <2>1 DEF RevokedLeft, Refreshes, Asks
  <2> QED BY <1>1, <2>1, <2>2, <2>3 DEF Works
<1> QED BY <1>2, <1>3, <1>4, <1>5 DEF Stays

(* Troubles are only counted up, and who has left has left.                *)
LEMMA TroubleStays ==
  ASSUME IInv, [Next]_vars
  PROVE  /\ trouble \in Nat /\ trouble' \in Nat /\ trouble' >= trouble
         /\ trouble' = 0 => ~Trouble
         /\ left \subseteq left'
<1>1. trouble \in Nat
  BY SessionsAssumption DEF IInv, TypeOK, SessionsAssumption
<1>2. trouble' \in {trouble, trouble + 1}
  BY DEF Next, vars, Trouble, GiveUp, Fail, Reload, LogoutLost, ToggleActive, SendLogin,
         SendRefresh, Send, TakeAnswer, TakeRefusal, CheckUser, Rotate, Issue, Logout, ServeLogout
<1>3. left \subseteq left'
  BY DEF Next, vars, Trouble, GiveUp, Fail, Reload, LogoutLost, ToggleActive, SendLogin,
         SendRefresh, Send, TakeAnswer, TakeRefusal, CheckUser, Rotate, Issue, Logout, ServeLogout
<1> QED BY <1>1, <1>2, <1>3 DEF Trouble

LEMMA StayNext == IInv /\ StayInv /\ [Next]_vars => StayInv'
<1> SUFFICES ASSUME IInv, StayInv, [Next]_vars, trouble' = 0 PROVE Stays'
  BY DEF StayInv
<1>1. trouble = 0 /\ ~Trouble
  BY TroubleStays
<1>2. Stays
  BY <1>1 DEF StayInv
<1>3. ASSUME UNCHANGED vars PROVE Stays'
  <2>1. \A c \in Call, b \in Browser : Refreshes(c, b)' <=> Refreshes(c, b)
    BY <1>3 DEF vars, Refreshes, Asks, Own
  <2>2. Undisturbed' = Undisturbed /\ \A b \in Browser : Works(b) => Works(b)'
    BY <1>3, <2>1 DEF vars, Undisturbed, Several, Works
  <2>3. Calm' /\ Unknown' /\ OneHolder' /\ RevokedLeft'
    BY <1>2, <1>3 DEF Stays, vars, Calm, Unknown, OneHolder, RevokedLeft, Own
  <2> QED BY <1>2, <2>2, <2>3 DEF Stays, Undisturbed
<1> QED
  BY <1>1, <1>2, <1>3, SendStays, AnswerStays, RefusalStays, MoveStays, RotateStays,
     IssueStays, LogoutStays, RevokeStays
     DEF Next, GiveUp, Fail, Reload, LogoutLost, ToggleActive

(* A browser with one tab keeps its session as long as nothing failed and  *)
(* nobody logged out of it, whatever its own parallel requests, the other  *)
(* browsers of the account and their logouts do: "otherwise several        *)
(* parallel requests would each present the same token" (lib/api.ts).      *)
THEOREM SingleTabStays == Spec => StaysLoggedIn
<1>1. ASSUME IInv, StayInv, [Next]_vars, NEW b \in Browser, LoggedOut(b),
             b \notin left', ~(trouble' > 0)
      PROVE  Several(b)
  <2>1. trouble' = 0 /\ trouble = 0 /\ ~Trouble /\ b \notin left
    BY <1>1, TroubleStays
  <2>2. TypeOK /\ Stays /\ b \notin left
    BY <1>1, <2>1 DEF IInv, StayInv
  <2>3. SUFFICES ASSUME ~Several(b) PROVE FALSE
    OBVIOUS
  <2>4. b \in Undisturbed /\ Works(b)
    BY <2>2, <2>3 DEF Undisturbed, Stays
  <2>5. ASSUME NEW c \in Call, TakeAnswer(c) PROVE FALSE
    BY <1>1, <2>2, <2>5, SessionsAssumption DEF TakeAnswer, LoggedOut, TypeOK, SessionsAssumption
  <2>6. ASSUME NEW c \in Call, TakeRefusal(c) PROVE FALSE
    <3>1. call[c].tab # NULL /\ call[c].pc = "refused"
      BY <2>2, <2>6 DEF TakeRefusal, TypeOK, Answered
    <3>2. Refreshes(c, b)
      BY <1>1, <2>2, <2>6, <3>1 DEF TakeRefusal, Rejected, LoggedOut, TypeOK, Refreshes, Asks
    <3> QED BY <2>4, <3>1, <3>2 DEF Works
  <2>7. ASSUME NEW t \in Tab, NEW revoke \in BOOLEAN, Logout(t, revoke) PROVE FALSE
    BY <1>1, <2>2, <2>7 DEF Logout, LoggedOut, TypeOK
  <2>8. UNCHANGED store => FALSE
    BY <1>1 DEF LoggedOut
  <2> QED
    BY <1>1, <2>1, <2>5, <2>6, <2>7, <2>8
       DEF Next, vars, GiveUp, Fail, Reload, LogoutLost, ToggleActive, SendLogin, SendRefresh,
           Send, CheckUser, Rotate, Issue, ServeLogout
<1>2. IInv /\ StayInv /\ [Next]_vars =>
        [\A b \in Browser :
           LoggedOut(b) =>
             \/ b \in left' \/ trouble' > 0
             \/ \E t1, t2 \in Tab : t1 # t2 /\ BrowserOf[t1] = b /\ BrowserOf[t2] = b]_vars
  BY <1>1 DEF Several
<1> QED BY StayInit, StayNext, SessionsSafe, <1>2, PTL DEF Spec, StaysLoggedIn
=============================================================================
