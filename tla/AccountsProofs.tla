---------------------------- MODULE AccountsProofs ----------------------------
(* Theorems about Sessions and Merchants, for any number of accounts and   *)
(* overlapping requests.                                                   *)
EXTENDS Sessions, Merchants, TLAPS

-----------------------------------------------------------------------------
(* What the properties of Sessions rest on.                                            *)

(* A sign-in under way has a session of its own, which is not there yet.   *)
LoginsApart ==
  \A c \in Calls : call[c].op = "login" =>
    /\ session[call[c].on] = "NONE"
    /\ \A d \in Calls : call[d].op = "login" /\ call[d].on = call[c].on => d = c

(* A refresh under way has a token with one after it.                      *)
RefreshesBounded == \A c \in Calls : call[c].op = "refresh" => call[c].token < MaxTokens

(* Only tokens before the current one were exchanged, each once.           *)
ExchangedBefore ==
  \A s \in Logins, k \in Tokens :
    heirs[s][k] <= 1 /\ (k >= current[s] => heirs[s][k] = 0)

(* A reset token changed the password at most once, and is used if it did. *)
ChangedOnce == \A r \in Resets : changes[r] <= 1 /\ (reset[r] # "USED" => changes[r] = 0)

(* A user has one reset token that is still open.                          *)
OneOpen ==
  \A q, r \in Resets :
    ResetOf[q] = ResetOf[r] /\ reset[q] = "OPEN" /\ reset[r] = "OPEN" => q = r

(* The inductive invariant of Sessions.                                    *)
Inv ==
  /\ TypeOK
  /\ LoginsApart
  /\ RefreshesBounded
  /\ ExchangedBefore
  /\ ChangedOnce
  /\ OneOpen

-----------------------------------------------------------------------------

(* What a request has read, by its operation.                              *)
LEMMA CallTypes ==
  ASSUME TypeOK, NEW c \in Calls
  PROVE  /\ call[c].op = "login"   => call[c].on \in Logins
         /\ call[c].op = "reset"   => call[c].on \in Resets
         /\ call[c].op = "refresh" => call[c].on \in Logins /\ call[c].token \in Tokens
  BY DEF TypeOK, SessionCalls, Idle

(* Nobody has logged in.                                                   *)
LEMMA InitInv == Init => Inv
  BY SessionsAssumption
     DEF Init, Inv, TypeOK, LoginsApart, RefreshesBounded, ExchangedBefore, ChangedOnce,
         OneOpen, Idle, Tokens

(* A request that has read something finds the bookkeeping of the others   *)
(* as it was.                                                              *)
LEMMA BeginKeeps ==
  ASSUME Inv, NEW c \in Calls, NEW what \in SessionCalls, Begin(c, what),
         UNCHANGED <<session, expired, current, heirs, reset, lapsed, changes>>,
         what.op = "login" =>
           /\ session[what.on] = "NONE"
           /\ \A d \in Calls : ~(call[d].op = "login" /\ call[d].on = what.on),
         what.op = "refresh" => what.token < MaxTokens
  PROVE  Inv'
<1>1. TypeOK'
  BY DEF Inv, TypeOK, Begin
<1>2. \A d \in Calls : call'[d] = IF d = c THEN what ELSE call[d]
  BY DEF Inv, TypeOK, Begin
<1>3. LoginsApart' /\ RefreshesBounded'
  BY <1>2 DEF Inv, LoginsApart, RefreshesBounded
<1>4. ExchangedBefore' /\ ChangedOnce' /\ OneOpen'
  BY DEF Inv, ExchangedBefore, ChangedOnce, OneOpen
<1>5. QED
  BY <1>1, <1>3, <1>4 DEF Inv

(* A request that has finished is in nobody's way.                         *)
LEMMA FinishKeeps ==
  ASSUME TypeOK, LoginsApart, RefreshesBounded, NEW c \in Calls, Finish(c)
  PROVE  /\ call' \in [Calls -> SessionCalls \cup {Idle}]
         /\ \A d \in Calls : d # c => call'[d] = call[d]
         /\ call'[c].op = "none"
         /\ RefreshesBounded'
         /\ (\A s \in Logins : session[s] = "NONE" => session'[s] = "NONE") => LoginsApart'
<1>1. \A d \in Calls : call'[d] = IF d = c THEN Idle ELSE call[d]
  BY DEF TypeOK, Finish
<1>2. call' \in [Calls -> SessionCalls \cup {Idle}]
  BY DEF TypeOK, Finish
<1>3. RefreshesBounded'
  BY <1>1 DEF RefreshesBounded, Idle
<1>4. ASSUME \A s \in Logins : session[s] = "NONE" => session'[s] = "NONE"
      PROVE  LoginsApart'
  BY <1>1, <1>4, CallTypes DEF LoginsApart, Idle
<1>5. QED
  BY <1>1, <1>2, <1>3, <1>4 DEF Idle

(* Every step keeps the invariant.                                         *)
LEMMA StepInv == Inv /\ [Next]_vars => Inv'
<1> SUFFICES ASSUME Inv, [Next]_vars PROVE Inv'
  OBVIOUS
<1> USE SessionsAssumption
<1>1. ASSUME NEW c \in Calls, NEW s \in Logins, LoginRead(c, s) PROVE Inv'
  <2>1. [op |-> "login", on |-> s] \in SessionCalls
    BY DEF SessionCalls
  <2>2. \A d \in Calls : ~(call[d].op = "login" /\ call[d].on = s)
    BY <1>1 DEF LoginRead, Inv, TypeOK, SessionCalls, Idle
  <2>3. QED
    BY <1>1, <2>1, <2>2, BeginKeeps DEF LoginRead
<1>2. ASSUME NEW c \in Calls, LoginWrite(c) PROVE Inv'
  <2>1. /\ call' \in [Calls -> SessionCalls \cup {Idle}]
        /\ \A d \in Calls : d # c => call'[d] = call[d]
        /\ call'[c].op = "none"
        /\ RefreshesBounded'
    BY <1>2, FinishKeeps DEF LoginWrite, Inv
  <2>2. call[c].op = "login" /\ call[c].on \in Logins
    BY <1>2, CallTypes DEF LoginWrite, Inv
  <2>3. TypeOK'
    BY <1>2, <2>1, <2>2 DEF LoginWrite, Inv, TypeOK
  <2>4. LoginsApart'
    <3> SUFFICES ASSUME NEW b \in Calls, call'[b].op = "login"
                 PROVE  /\ session'[call'[b].on] = "NONE"
                        /\ \A d \in Calls : call'[d].op = "login" /\ call'[d].on = call'[b].on
                                             => d = b
      BY DEF LoginsApart
    <3>1. b # c /\ call'[b] = call[b]
      BY <2>1
    <3>2. /\ session[call[b].on] = "NONE" /\ call[b].on \in Logins
          /\ \A d \in Calls : call[d].op = "login" /\ call[d].on = call[b].on => d = b
      BY <3>1, CallTypes DEF Inv, LoginsApart
    <3>3. call[b].on # call[c].on
      BY <2>2, <3>1, <3>2
    <3>4. session'[call[b].on] = session[call[b].on]
      BY <1>2, <2>2, <3>2, <3>3 DEF LoginWrite, Inv, TypeOK
    <3>5. ASSUME NEW d \in Calls, call'[d].op = "login", call'[d].on = call'[b].on
          PROVE  d = b
      BY <2>1, <3>1, <3>2, <3>5
    <3>6. QED
      BY <3>1, <3>2, <3>4, <3>5
  <2>5. ExchangedBefore' /\ ChangedOnce' /\ OneOpen'
    BY <1>2 DEF LoginWrite, Inv, ExchangedBefore, ChangedOnce, OneOpen
  <2>6. QED
    BY <2>1, <2>3, <2>4, <2>5 DEF Inv
<1>3. ASSUME NEW c \in Calls, NEW s \in Logins, NEW k \in Tokens, RefreshRead(c, s, k)
      PROVE  Inv'
  <2>1. [op |-> "refresh", on |-> s, token |-> k] \in SessionCalls
    BY DEF SessionCalls
  <2>2. QED
    BY <1>3, <2>1, BeginKeeps DEF RefreshRead
<1>4. ASSUME NEW c \in Calls, RefreshWrite(c) PROVE Inv'
  <2> DEFINE s == call[c].on
             k == call[c].token
  <2>1. s \in Logins /\ k \in Tokens /\ k < MaxTokens
    BY <1>4, CallTypes DEF RefreshWrite, Inv, RefreshesBounded
  <2>2. /\ call' \in [Calls -> SessionCalls \cup {Idle}]
        /\ RefreshesBounded' /\ LoginsApart'
    BY <1>4, FinishKeeps DEF RefreshWrite, Inv
  <2>3. ChangedOnce' /\ OneOpen'
    BY <1>4 DEF RefreshWrite, Inv, ChangedOnce, OneOpen
  <2>4. CASE Rotatable(s, k)
    <3>1. /\ current' = [current EXCEPT ![s] = @ + 1]
          /\ heirs' = [heirs EXCEPT ![s][k] = @ + 1]
          /\ expired' = expired \ {s}
          /\ current[s] = k
          /\ UNCHANGED <<session, reset, lapsed, changes>>
      BY <1>4, <2>4 DEF RefreshWrite, Rotatable
    <3>2. TypeOK'
      <4>1. current' \in [Logins -> Tokens]
        BY <2>1, <3>1 DEF Inv, TypeOK, Tokens
      <4>2. /\ heirs \in [Logins -> [Tokens -> Nat]]
            /\ heirs[s] \in [Tokens -> Nat] /\ heirs[s][k] + 1 \in Nat
        BY <2>1 DEF Inv, TypeOK
      <4>3. [heirs[s] EXCEPT ![k] = @ + 1] \in [Tokens -> Nat]
        BY <2>1, <4>2
      <4>4. heirs' \in [Logins -> [Tokens -> Nat]]
        BY <2>1, <3>1, <4>2, <4>3
      <4>5. QED
        BY <2>2, <3>1, <4>1, <4>4 DEF Inv, TypeOK
    <3>3. ExchangedBefore'
      <4> SUFFICES ASSUME NEW t \in Logins, NEW n \in Tokens
                   PROVE  heirs'[t][n] <= 1 /\ (n >= current'[t] => heirs'[t][n] = 0)
        BY DEF ExchangedBefore
      <4>1. heirs[t][n] \in Nat /\ heirs[t][n] <= 1 /\ (n >= current[t] => heirs[t][n] = 0)
        BY DEF Inv, TypeOK, ExchangedBefore
      <4>2. heirs'[t][n] = IF t = s /\ n = k THEN heirs[t][n] + 1 ELSE heirs[t][n]
        BY <2>1, <3>1 DEF Inv, TypeOK
      <4>3. current'[t] = IF t = s THEN k + 1 ELSE current[t]
        BY <2>1, <3>1 DEF Inv, TypeOK
      <4>4. current[t] \in Nat /\ n \in Nat /\ k \in Nat
        BY <2>1 DEF Inv, TypeOK, Tokens
      <4>5. CASE t = s
        BY <3>1, <4>1, <4>2, <4>3, <4>4, <4>5
      <4>6. CASE t # s
        BY <4>1, <4>2, <4>3, <4>6
      <4>7. QED
        BY <4>5, <4>6
    <3>4. QED
      BY <2>2, <2>3, <3>2, <3>3 DEF Inv
  <2>5. CASE ~Rotatable(s, k)
    BY <1>4, <2>2, <2>3, <2>5 DEF RefreshWrite, Inv, TypeOK, ExchangedBefore
  <2>6. QED
    BY <2>4, <2>5
<1>5. ASSUME NEW c \in Calls, NEW r \in Resets, ResetRead(c, r) PROVE Inv'
  <2>1. [op |-> "reset", on |-> r] \in SessionCalls
    BY DEF SessionCalls
  <2>2. QED
    BY <1>5, <2>1, BeginKeeps DEF ResetRead
<1>6. ASSUME NEW c \in Calls, ResetWrite(c) PROVE Inv'
  <2> DEFINE r == call[c].on
  <2>1. r \in Resets
    BY <1>6, CallTypes DEF ResetWrite, Inv
  <2>2. \A s \in Logins : session[s] = "NONE" => session'[s] = "NONE"
    BY <1>6 DEF ResetWrite, Inv, TypeOK, SignedOutBy
  <2>3. /\ call' \in [Calls -> SessionCalls \cup {Idle}]
        /\ RefreshesBounded' /\ LoginsApart'
    BY <1>6, <2>2, FinishKeeps DEF ResetWrite, Inv
  <2>4. ExchangedBefore'
    BY <1>6 DEF ResetWrite, Inv, ExchangedBefore
  <2>5. CASE Consumable(r)
    <3>1. /\ reset' = [reset EXCEPT ![r] = "USED"]
          /\ changes' = [changes EXCEPT ![r] = @ + 1]
          /\ session' = [s \in Logins |-> IF s \in SignedOutBy(r) THEN "REVOKED"
                                          ELSE session[s]]
          /\ reset[r] = "OPEN"
          /\ UNCHANGED <<expired, current, heirs, lapsed>>
      BY <1>6, <2>5 DEF ResetWrite, Consumable, Unused
    <3>2. TypeOK'
      BY <2>1, <2>3, <3>1 DEF Inv, TypeOK
    <3>3. ChangedOnce'
      BY <2>1, <3>1 DEF Inv, TypeOK, ChangedOnce
    <3>4. OneOpen'
      BY <2>1, <3>1 DEF Inv, TypeOK, OneOpen
    <3>5. QED
      BY <2>3, <2>4, <3>2, <3>3, <3>4 DEF Inv
  <2>6. CASE ~Consumable(r)
    BY <1>6, <2>3, <2>4, <2>6 DEF ResetWrite, Inv, TypeOK, ChangedOnce, OneOpen
  <2>7. QED
    BY <2>5, <2>6
<1>7. ASSUME NEW s \in Logins, Logout(s) \/ ExpireSession(s) \/ PurgeSession(s)
      PROVE  Inv'
  <2>1. /\ session' \in [Logins -> {"NONE", "LIVE", "REVOKED", "PURGED"}]
        /\ \A t \in Logins : session[t] = "NONE" => session'[t] = "NONE"
    BY <1>7 DEF Logout, ExpireSession, PurgeSession, Authentic, Inv, TypeOK
  <2>2. expired' \subseteq Logins
    BY <1>7 DEF Logout, ExpireSession, PurgeSession, Inv, TypeOK
  <2>3. UNCHANGED <<current, heirs, reset, lapsed, changes, call>>
    BY <1>7 DEF Logout, ExpireSession, PurgeSession
  <2>4. TypeOK'
    BY <2>1, <2>2, <2>3 DEF Inv, TypeOK
  <2>5. LoginsApart'
    BY <2>1, <2>3, CallTypes DEF Inv, LoginsApart
  <2>6. RefreshesBounded' /\ ExchangedBefore' /\ ChangedOnce' /\ OneOpen'
    BY <2>3 DEF Inv, RefreshesBounded, ExchangedBefore, ChangedOnce, OneOpen
  <2>7. QED
    BY <2>4, <2>5, <2>6 DEF Inv
<1>8. ASSUME NEW r \in Resets, RequestPasswordReset(r) PROVE Inv'
  <2>1. /\ reset[r] = "NONE"
        /\ \A q \in Resets : reset'[q] = IF q = r THEN "OPEN"
                                         ELSE IF q \in WithdrawnBy(r) THEN "USED" ELSE reset[q]
        /\ reset' \in [Resets -> {"NONE", "OPEN", "USED"}]
        /\ UNCHANGED <<session, expired, current, heirs, lapsed, changes, call>>
    BY <1>8 DEF RequestPasswordReset, Inv, TypeOK
  <2>2. TypeOK'
    BY <2>1 DEF Inv, TypeOK
  <2>3. ChangedOnce'
    BY <2>1 DEF Inv, ChangedOnce, WithdrawnBy
  <2>4. OneOpen'
    BY <2>1 DEF Inv, OneOpen, WithdrawnBy
  <2>5. LoginsApart' /\ RefreshesBounded' /\ ExchangedBefore'
    BY <2>1 DEF Inv, LoginsApart, RefreshesBounded, ExchangedBefore
  <2>6. QED
    BY <2>2, <2>3, <2>4, <2>5 DEF Inv
<1>9. ASSUME NEW r \in Resets, Lapse(r) PROVE Inv'
  BY <1>9 DEF Lapse, Inv, TypeOK, LoginsApart, RefreshesBounded, ExchangedBefore,
              ChangedOnce, OneOpen
<1>10. CASE UNCHANGED vars
  BY <1>10 DEF vars, Inv, TypeOK, LoginsApart, RefreshesBounded, ExchangedBefore,
               ChangedOnce, OneOpen
<1>11. QED
  BY <1>1, <1>2, <1>3, <1>4, <1>5, <1>6, <1>7, <1>8, <1>9, <1>10 DEF Next

(* The invariant of Sessions, of which the theorems below are parts.       *)
LEMMA InvAlways == Spec => []Inv
  BY InitInv, StepInv, PTL DEF Spec

-----------------------------------------------------------------------------
(* Theorems *)

(* Every reachable state of Sessions is well typed: authService.js keeps   *)
(* its rows among the statuses it knows.                                   *)
THEOREM TypeCorrect == Spec => []TypeOK
<1>1. Inv => TypeOK
  BY DEF Inv
<1>2. QED
  BY <1>1, InvAlways, PTL

(* refresh hands out one heir for each token, however many requests show   *)
(* it at once.                                                             *)
THEOREM ExchangedOnceAlways == Spec => []ExchangedOnce
<1>1. Inv => ExchangedOnce
  BY DEF Inv, ExchangedBefore, ExchangedOnce
<1>2. QED
  BY <1>1, InvAlways, PTL

(* A reset token changes a password once, and a user has one open token.   *)
THEOREM ResetOnceAlways == Spec => []ResetOnce
<1>1. Inv => ResetOnce
  BY DEF Inv, ChangedOnce, OneOpen, ResetOnce
<1>2. QED
  BY <1>1, InvAlways, PTL

(* A revoked or purged session never comes back and is never rotated, also *)
(* by a refresh or a sign-in that began before.                            *)
THEOREM RevokedStays == Spec => RevokedIsFinal
<1> DEFINE Final(s) == session[s] \in {"REVOKED", "PURGED"} =>
                         /\ session'[s] \in {"REVOKED", "PURGED"}
                         /\ current'[s] = current[s]
<1>1. ASSUME Inv, [Next]_vars, NEW s \in Logins PROVE Final(s)
  <2> USE <1>1 DEF Inv
  <2>1. ASSUME NEW c \in Calls, LoginWrite(c) PROVE Final(s)
    BY <2>1, CallTypes DEF LoginWrite, LoginsApart, TypeOK
  <2>2. ASSUME NEW c \in Calls, RefreshWrite(c) PROVE Final(s)
    BY <2>2, CallTypes DEF RefreshWrite, Rotatable, TypeOK
  <2>3. ASSUME NEW c \in Calls, ResetWrite(c) PROVE Final(s)
    BY <2>3 DEF ResetWrite, SignedOutBy, TypeOK
  <2>4. ASSUME NEW t \in Logins, Logout(t) \/ ExpireSession(t) \/ PurgeSession(t)
        PROVE  Final(s)
    BY <2>4 DEF Logout, ExpireSession, PurgeSession, TypeOK
  <2>5. CASE UNCHANGED <<session, current>>
    BY <2>5
  <2>6. QED
    BY <2>1, <2>2, <2>3, <2>4, <2>5
       DEF Next, vars, LoginRead, RefreshRead, ResetRead, RequestPasswordReset, Lapse
<1>2. Inv /\ [Next]_vars => [\A s \in Logins : Final(s)]_vars
  BY <1>1
<1>3. QED
  BY <1>2, InvAlways, PTL DEF Spec, RevokedIsFinal

(* The transaction that changes a password ends every live session of the  *)
(* user, also one that was rotated or opened while the password was hashed, *)
(* and nobody else's.                                                       *)
THEOREM ResetEndsSessions == Spec => ResetSignsOut
<1> DEFINE SignsOut(r) == changes'[r] # changes[r] =>
             \A s \in Logins : IF LoginOf[s] = ResetOf[r] THEN session'[s] # "LIVE"
                               ELSE session'[s] = session[s]
<1>1. ASSUME Inv, [Next]_vars, NEW r \in Resets PROVE SignsOut(r)
  <2>1. ASSUME NEW c \in Calls, ResetWrite(c) PROVE SignsOut(r)
    BY <1>1, <2>1, CallTypes DEF ResetWrite, SignedOutBy, Inv, TypeOK
  <2>2. CASE UNCHANGED changes
    BY <2>2
  <2>3. QED
    BY <1>1, <2>1, <2>2
       DEF Next, vars, LoginRead, LoginWrite, RefreshRead, RefreshWrite, ResetRead,
           RequestPasswordReset, Lapse, Logout, ExpireSession, PurgeSession
<1>2. Inv /\ [Next]_vars => [\A r \in Resets : SignsOut(r)]_vars
  BY <1>1
<1>3. QED
  BY <1>2, InvAlways, PTL DEF Spec, ResetSignsOut

-----------------------------------------------------------------------------
(* What the properties of Merchants rest on.                                            *)

(* A merchant that exists has an owner and an active one, its applicant,   *)
(* and one that does not has no members.                                   *)
OwnerIsApplicant ==
  \A m \in Merchant, u \in Users :
    role[m][u] = "OWNER" <=> (application[m] = "APPROVED" /\ u = Applicant[m])

(* The applicant of a merchant that exists is an active member.            *)
OwnersActive == \A m \in Founded : <<m, Applicant[m]>> \in active

(* Members are those of merchants that exist.                              *)
MembersOfFounded ==
  \A m \in Merchant, u \in Users : role[m][u] # "NONE" => m \in Founded /\ u \in merchantRole

(* What a request under way is about stays true until it writes.           *)
AddsToFounded == \A q \in Requests : request[q].op = "add" => request[q].on \in Founded

(* A member to be changed is one, and not an owner.                        *)
UpdatesMembers ==
  \A q \in Requests : request[q].op = "update" =>
    role[request[q].on][request[q].user] \in Assignable

(* The inductive invariant of Merchants.                                   *)
MerchantInv ==
  /\ MerchantTypeOK
  /\ OwnerIsApplicant
  /\ OwnersActive
  /\ MembersOfFounded
  /\ AddsToFounded
  /\ UpdatesMembers
  /\ CodesDistinct

-----------------------------------------------------------------------------

(* What a request has checked, by its operation.                           *)
LEMMA RequestTypes ==
  ASSUME MerchantTypeOK, NEW q \in Requests
  PROVE  /\ request[q].op \in {"approve", "reject"} => request[q].on \in Applications
         /\ request[q].op = "add" =>
              /\ request[q].on \in Merchant /\ request[q].user \in Users
              /\ request[q].role \in Assignable
         /\ request[q].op = "update" =>
              /\ request[q].on \in Merchant /\ request[q].user \in Users
              /\ request[q].change \in Changes
  BY DEF MerchantTypeOK, MerchantRequests, Waiting

(* There are no merchants.                                                 *)
LEMMA MerchantInitInv == MerchantInit => MerchantInv
  BY MerchantsAssumption
     DEF MerchantInit, MerchantInv, MerchantTypeOK, OwnerIsApplicant, OwnersActive,
         MembersOfFounded,
         AddsToFounded, UpdatesMembers, CodesDistinct, Founded, Merchant, Waiting, Roles

(* A request that checks something leaves the tables as they are.          *)
LEMMA CheckKeeps ==
  ASSUME MerchantInv, NEW q \in Requests, NEW what \in MerchantRequests, Check(q, what),
         UNCHANGED <<application, role, active, merchantRole>>,
         what.op = "add" => what.on \in Founded,
         what.op = "update" => role[what.on][what.user] \in Assignable
  PROVE  MerchantInv'
<1>1. MerchantTypeOK'
  BY DEF MerchantInv, MerchantTypeOK, Check
<1>2. \A p \in Requests : request'[p] = IF p = q THEN what ELSE request[p]
  BY DEF MerchantInv, MerchantTypeOK, Check
<1>3. AddsToFounded' /\ UpdatesMembers'
  BY <1>2 DEF MerchantInv, AddsToFounded, UpdatesMembers, Founded
<1>4. OwnerIsApplicant' /\ OwnersActive' /\ MembersOfFounded' /\ CodesDistinct'
  BY DEF MerchantInv, OwnerIsApplicant, OwnersActive, MembersOfFounded, CodesDistinct, Founded
<1>5. QED
  BY <1>1, <1>3, <1>4 DEF MerchantInv

(* The answer to a request leaves what the others have checked true, when  *)
(* merchants only come to be and members only become others.               *)
LEMMA AnswerKeeps ==
  ASSUME MerchantTypeOK, AddsToFounded, UpdatesMembers, NEW q \in Requests, Answer(q),
         \A m \in Merchant : m \in Founded => m \in Founded',
         \A m \in Merchant, u \in Users :
           role[m][u] \in Assignable => role'[m][u] \in Assignable
  PROVE  /\ request' \in [Requests -> MerchantRequests \cup {Waiting}]
         /\ AddsToFounded' /\ UpdatesMembers'
<1>1. \A p \in Requests : request'[p] = IF p = q THEN Waiting ELSE request[p]
  BY DEF MerchantTypeOK, Answer
<1>2. request' \in [Requests -> MerchantRequests \cup {Waiting}]
  BY DEF MerchantTypeOK, Answer
<1>3. AddsToFounded'
  BY <1>1, RequestTypes DEF AddsToFounded, Waiting
<1>4. UpdatesMembers'
  BY <1>1, RequestTypes DEF UpdatesMembers, Waiting
<1>5. QED
  BY <1>2, <1>3, <1>4

(* Founding merchant a for its applicant.                                  *)
LEMMA FoundKeeps ==
  ASSUME MerchantInv, NEW a \in Applications, application[a] = "PENDING", CodeFree(a),
         application' = [application EXCEPT ![a] = "APPROVED"],
         role' = [role EXCEPT ![a][Applicant[a]] = "OWNER"],
         active' = active \cup {<<a, Applicant[a]>>},
         merchantRole' = merchantRole \cup {Applicant[a]},
         request' \in [Requests -> MerchantRequests \cup {Waiting}],
         AddsToFounded', UpdatesMembers'
  PROVE  MerchantInv'
<1> USE MerchantsAssumption DEF Merchant
<1>1. Applicant[a] \in Users
  OBVIOUS
<1>2. \A m \in Merchant, u \in Users :
        role'[m][u] = IF m = a /\ u = Applicant[a] THEN "OWNER" ELSE role[m][u]
  BY DEF MerchantInv, MerchantTypeOK
<1>3. \A m \in Merchant : application'[m] = IF m = a THEN "APPROVED" ELSE application[m]
  BY DEF MerchantInv, MerchantTypeOK
<1>4. Founded' = Founded \cup {a} /\ a \notin Founded
  BY <1>3 DEF Founded
<1>5. role' \in [Merchant -> [Users -> Roles \cup {"NONE"}]]
  <2>1. [role[a] EXCEPT ![Applicant[a]] = "OWNER"] \in [Users -> Roles \cup {"NONE"}]
    BY <1>1 DEF MerchantInv, MerchantTypeOK, Roles
  <2>2. QED
    BY <2>1 DEF MerchantInv, MerchantTypeOK
<1>6. MerchantTypeOK'
  BY <1>1, <1>2, <1>5 DEF MerchantInv, MerchantTypeOK
<1>7. OwnerIsApplicant'
  BY <1>2, <1>3 DEF MerchantInv, OwnerIsApplicant
<1>8. OwnersActive'
  BY <1>4 DEF MerchantInv, OwnersActive
<1>9. MembersOfFounded'
  BY <1>1, <1>2, <1>4 DEF MerchantInv, MembersOfFounded
<1>10. CodesDistinct'
  BY <1>4 DEF MerchantInv, CodesDistinct, CodeFree
<1>11. QED
  BY <1>6, <1>7, <1>8, <1>9, <1>10 DEF MerchantInv

(* Another role, or another status, for t, who does not own m.             *)
LEMMA ChangeKeeps ==
  ASSUME MerchantInv, NEW m \in Merchant, NEW t \in Users, NEW r \in Assignable \cup {role[m][t]},
         m \in Founded, role[m][t] # "OWNER", r # "NONE", UNCHANGED application,
         role' = [role EXCEPT ![m][t] = r],
         active' \in {active, active \cup {<<m, t>>}, active \ {<<m, t>>}},
         merchantRole' \in {merchantRole, merchantRole \cup {t}}, t \in merchantRole',
         request' \in [Requests -> MerchantRequests \cup {Waiting}],
         AddsToFounded', UpdatesMembers'
  PROVE  MerchantInv'
<1> USE MerchantsAssumption DEF Merchant
<1>1. \A n \in Merchant, u \in Users :
        role'[n][u] = IF n = m /\ u = t THEN r ELSE role[n][u]
  BY DEF MerchantInv, MerchantTypeOK
<1>2. role[m][t] \in Roles \cup {"NONE"} /\ r \in Roles /\ r # "OWNER"
  BY DEF MerchantInv, MerchantTypeOK, Roles, Assignable
<1>3. Founded' = Founded
  BY DEF Founded
<1>4. role' \in [Merchant -> [Users -> Roles \cup {"NONE"}]]
  <2>1. [role[m] EXCEPT ![t] = r] \in [Users -> Roles \cup {"NONE"}]
    BY <1>2 DEF MerchantInv, MerchantTypeOK
  <2>2. QED
    BY <2>1 DEF MerchantInv, MerchantTypeOK
<1>5. active' \subseteq {x \in Merchant \X Users : role'[x[1]][x[2]] # "NONE"}
  <2> SUFFICES ASSUME NEW x \in active'
               PROVE  x \in Merchant \X Users /\ role'[x[1]][x[2]] # "NONE"
    OBVIOUS
  <2>1. x \in active \/ x = <<m, t>>
    OBVIOUS
  <2>2. QED
    BY <1>1, <1>2, <2>1 DEF MerchantInv, MerchantTypeOK, Roles, Assignable
<1>6. {x[2] : x \in active'} \subseteq merchantRole' /\ merchantRole' \subseteq Users
  BY DEF MerchantInv, MerchantTypeOK
<1>7. MerchantTypeOK'
  BY <1>4, <1>5, <1>6 DEF MerchantInv, MerchantTypeOK
<1>8. OwnerIsApplicant'
  BY <1>1, <1>2 DEF MerchantInv, OwnerIsApplicant
<1>9. t # Applicant[m]
  BY DEF MerchantInv, OwnerIsApplicant, Founded
<1>10. OwnersActive'
  BY <1>3, <1>9 DEF MerchantInv, OwnersActive
<1>11. MembersOfFounded'
  BY <1>1, <1>3 DEF MerchantInv, MembersOfFounded
<1>12. CodesDistinct'
  BY <1>3 DEF MerchantInv, CodesDistinct
<1>13. QED
  BY <1>7, <1>8, <1>10, <1>11, <1>12 DEF MerchantInv

(* A step that changes nothing but an application that is not approved.    *)
LEMMA DecideKeeps ==
  ASSUME MerchantInv, NEW a \in Applications, NEW to \in {"PENDING", "REJECTED"},
         a \notin Founded,
         application' \in {application, [application EXCEPT ![a] = to]},
         UNCHANGED <<role, active, merchantRole>>,
         request' \in [Requests -> MerchantRequests \cup {Waiting}],
         AddsToFounded', UpdatesMembers'
  PROVE  MerchantInv'
<1> USE MerchantsAssumption DEF Merchant
<1>1. application' \in [Applications -> {"NONE", "PENDING", "APPROVED", "REJECTED"}]
  BY DEF MerchantInv, MerchantTypeOK
<1>2. \A m \in Merchant : application'[m] = "APPROVED" <=> application[m] = "APPROVED"
  BY DEF MerchantInv, MerchantTypeOK, Founded
<1>3. Founded' = Founded
  BY <1>2 DEF Founded
<1>4. MerchantTypeOK'
  BY <1>1 DEF MerchantInv, MerchantTypeOK
<1>5. OwnerIsApplicant'
  BY <1>2 DEF MerchantInv, OwnerIsApplicant
<1>6. OwnersActive' /\ MembersOfFounded' /\ CodesDistinct'
  BY <1>3 DEF MerchantInv, OwnersActive, MembersOfFounded, CodesDistinct
<1>7. QED
  BY <1>4, <1>5, <1>6 DEF MerchantInv

(* Every step keeps the invariant.                                         *)
LEMMA MerchantStepInv == MerchantInv /\ [MerchantNext]_merchantVars => MerchantInv'
<1> SUFFICES ASSUME MerchantInv, [MerchantNext]_merchantVars PROVE MerchantInv'
  OBVIOUS
<1> USE MerchantsAssumption DEF Merchant
<1>1. ASSUME NEW a \in Applications, CreateApplication(a) PROVE MerchantInv'
  <2>1. /\ a \notin Founded
        /\ application' = [application EXCEPT ![a] = "PENDING"]
        /\ UNCHANGED <<role, active, merchantRole, request>>
    BY <1>1 DEF CreateApplication, Founded
  <2>2. \A m \in Merchant : m \in Founded => m \in Founded'
    BY <2>1 DEF MerchantInv, MerchantTypeOK, Founded
  <2>3. AddsToFounded' /\ UpdatesMembers'
    BY <2>1, <2>2 DEF MerchantInv, AddsToFounded, UpdatesMembers, Founded
  <2>4. request' \in [Requests -> MerchantRequests \cup {Waiting}]
    BY <2>1 DEF MerchantInv, MerchantTypeOK
  <2>5. QED
    BY <2>1, <2>3, <2>4, DecideKeeps
<1>2. ASSUME NEW q \in Requests, NEW a \in Applications, ReviewRead(q, a) PROVE MerchantInv'
  <2>1. PICK what \in {[op |-> "reject", on |-> a], [op |-> "approve", on |-> a]} :
          Check(q, what)
    BY <1>2 DEF ReviewRead
  <2>2. what \in MerchantRequests /\ what.op \notin {"add", "update"}
    BY <2>1 DEF MerchantRequests
  <2>3. QED
    BY <1>2, <2>1, <2>2, CheckKeeps DEF ReviewRead
<1>3. ASSUME NEW q \in Requests, Reject(q) PROVE MerchantInv'
  <2> DEFINE a == request[q].on
  <2>1. a \in Applications
    BY <1>3, RequestTypes DEF Reject, MerchantInv
  <2>2. /\ application' = IF Undecided(a) THEN [application EXCEPT ![a] = "REJECTED"]
                          ELSE application
        /\ Answer(q)
        /\ UNCHANGED <<role, active, merchantRole>>
    BY <1>3 DEF Reject
  <2>3. \A m \in Merchant : m \in Founded => m \in Founded'
    BY <2>1, <2>2 DEF MerchantInv, MerchantTypeOK, Founded, Undecided
  <2>4. /\ request' \in [Requests -> MerchantRequests \cup {Waiting}]
        /\ AddsToFounded' /\ UpdatesMembers'
    BY <2>2, <2>3, AnswerKeeps DEF MerchantInv
  <2>5. CASE Undecided(a)
    BY <2>1, <2>2, <2>4, <2>5, DecideKeeps DEF Undecided, Founded
  <2>6. CASE ~Undecided(a)
    BY <2>2, <2>4, <2>6 DEF MerchantInv, MerchantTypeOK, OwnerIsApplicant, OwnersActive,
           MembersOfFounded,
                            CodesDistinct, Founded
  <2>7. QED
    BY <2>5, <2>6
<1>4. ASSUME NEW q \in Requests, Approve(q) PROVE MerchantInv'
  <2> DEFINE a == request[q].on
  <2>1. a \in Applications
    BY <1>4, RequestTypes DEF Approve, MerchantInv
  <2>2. CASE Undecided(a) /\ CodeFree(a)
    <3>1. /\ application' = [application EXCEPT ![a] = "APPROVED"]
          /\ role' = [role EXCEPT ![a][Applicant[a]] = "OWNER"]
          /\ active' = active \cup {<<a, Applicant[a]>>}
          /\ merchantRole' = merchantRole \cup {Applicant[a]}
          /\ Answer(q)
      BY <1>4, <2>2 DEF Approve
    <3>2. application[a] = "PENDING"
      BY <2>2 DEF Undecided
    <3>3. \A m \in Merchant : m \in Founded => m \in Founded'
      BY <2>1, <3>1 DEF MerchantInv, MerchantTypeOK, Founded
    <3>4. \A m \in Merchant, u \in Users :
            role[m][u] \in Assignable => role'[m][u] \in Assignable
      <4>1. \A u \in Users : role[a][u] \notin Assignable
        BY <2>1, <3>2 DEF MerchantInv, MembersOfFounded, Founded, Assignable
      <4>2. QED
        BY <2>1, <3>1, <4>1 DEF MerchantInv, MerchantTypeOK
    <3>5. /\ request' \in [Requests -> MerchantRequests \cup {Waiting}]
          /\ AddsToFounded' /\ UpdatesMembers'
      BY <3>1, <3>3, <3>4, AnswerKeeps DEF MerchantInv
    <3>6. QED
      BY <2>1, <2>2, <3>1, <3>2, <3>5, FoundKeeps
  <2>3. CASE ~(Undecided(a) /\ CodeFree(a))
    <3>1. UNCHANGED <<application, role, active, merchantRole>> /\ Answer(q)
      BY <1>4, <2>3 DEF Approve
    <3>2. Founded' = Founded
      BY <3>1 DEF Founded
    <3>3. /\ request' \in [Requests -> MerchantRequests \cup {Waiting}]
          /\ AddsToFounded' /\ UpdatesMembers'
      BY <3>1, <3>2, AnswerKeeps DEF MerchantInv
    <3>4. QED
      BY <3>1, <3>2, <3>3 DEF MerchantInv, MerchantTypeOK, OwnerIsApplicant, OwnersActive,
                              MembersOfFounded, CodesDistinct
  <2>4. QED
    BY <2>2, <2>3
<1>5. ASSUME NEW q \in Requests, NEW u \in Users, NEW m \in Merchant, NEW t \in Users,
             NEW r \in Assignable, AddMemberRead(q, u, m, t, r)
      PROVE  MerchantInv'
  <2> DEFINE what == [op |-> "add", on |-> m, user |-> t, role |-> r]
  <2>1. what \in MerchantRequests
    BY DEF MerchantRequests
  <2>2. m \in Founded
    BY <1>5 DEF AddMemberRead, Manages, MerchantInv, MembersOfFounded
  <2>3. QED
    BY <1>5, <2>1, <2>2, CheckKeeps DEF AddMemberRead
<1>6. ASSUME NEW q \in Requests, NEW u \in Users, NEW m \in Merchant, NEW t \in Users,
             NEW change \in Changes, UpdateMemberRead(q, u, m, t, change)
      PROVE  MerchantInv'
  <2> DEFINE what == [op |-> "update", on |-> m, user |-> t, change |-> change]
  <2>1. what \in MerchantRequests
    BY DEF MerchantRequests
  <2>2. role[m][t] \in Assignable
    BY <1>6 DEF UpdateMemberRead, Changeable
  <2>3. QED
    BY <1>6, <2>1, <2>2, CheckKeeps DEF UpdateMemberRead
<1>7. ASSUME NEW q \in Requests, AddMemberWrite(q) PROVE MerchantInv'
  <2> DEFINE m == request[q].on
             t == request[q].user
             r == request[q].role
  <2>1. m \in Founded /\ m \in Merchant /\ t \in Users /\ r \in Assignable
    BY <1>7, RequestTypes DEF AddMemberWrite, MerchantInv, AddsToFounded
  <2>2. Answer(q) /\ UNCHANGED application /\ Founded' = Founded
    BY <1>7 DEF AddMemberWrite, Founded
  <2>3. CASE Addable(t, m)
    <3>1. /\ role' = [role EXCEPT ![m][t] = r]
          /\ active' = active \cup {<<m, t>>}
          /\ merchantRole' = merchantRole \cup {t}
          /\ role[m][t] # "OWNER"
      BY <1>7, <2>3 DEF AddMemberWrite, Addable
    <3>2. \A n \in Merchant, u \in Users :
            role[n][u] \in Assignable => role'[n][u] \in Assignable
      BY <2>1, <3>1 DEF MerchantInv, MerchantTypeOK
    <3>3. /\ request' \in [Requests -> MerchantRequests \cup {Waiting}]
          /\ AddsToFounded' /\ UpdatesMembers'
      BY <2>2, <3>2, AnswerKeeps DEF MerchantInv
    <3>4. r # "NONE"
      BY <2>1 DEF Assignable
    <3>5. QED
      BY <2>1, <2>2, <3>1, <3>3, <3>4, ChangeKeeps
  <2>4. CASE ~Addable(t, m)
    <3>1. UNCHANGED <<role, active, merchantRole>>
      BY <1>7, <2>4 DEF AddMemberWrite
    <3>2. /\ request' \in [Requests -> MerchantRequests \cup {Waiting}]
          /\ AddsToFounded' /\ UpdatesMembers'
      BY <2>2, <3>1, AnswerKeeps DEF MerchantInv
    <3>3. QED
      BY <2>2, <3>1, <3>2 DEF MerchantInv, MerchantTypeOK, OwnerIsApplicant, OwnersActive,
                              MembersOfFounded, CodesDistinct
  <2>5. QED
    BY <2>3, <2>4
<1>8. ASSUME NEW q \in Requests, UpdateMemberWrite(q) PROVE MerchantInv'
  <2> DEFINE m == request[q].on
             t == request[q].user
             change == request[q].change
             r == IF change.role = "SAME" THEN role[m][t] ELSE change.role
  <2>1. /\ m \in Merchant /\ t \in Users /\ change \in Changes
        /\ role[m][t] \in Assignable
    BY <1>8, RequestTypes DEF UpdateMemberWrite, MerchantInv, UpdatesMembers
  <2>2. change.role \in Assignable \cup {"SAME"}
        /\ change.status \in {"ACTIVE", "DISABLED", "SAME"}
    BY <2>1 DEF Changes
  <2>3. m \in Founded /\ t \in merchantRole
    BY <2>1 DEF MerchantInv, MembersOfFounded, Assignable
  <2>4. r \in Assignable /\ role[m][t] # "OWNER" /\ r # "NONE"
    BY <2>1, <2>2 DEF Assignable
  <2>5. Answer(q) /\ UNCHANGED <<application, merchantRole>> /\ Founded' = Founded
    BY <1>8 DEF UpdateMemberWrite, Founded
  <2>6. role' = [role EXCEPT ![m][t] = r]
    <3>1. CASE change.role = "SAME"
      BY <1>8, <2>1, <3>1 DEF UpdateMemberWrite, MerchantInv, MerchantTypeOK
    <3>2. CASE change.role # "SAME"
      BY <1>8, <3>2 DEF UpdateMemberWrite
    <3>3. QED
      BY <3>1, <3>2
  <2>7. active' \in {active, active \cup {<<m, t>>}, active \ {<<m, t>>}}
    BY <1>8, <2>2 DEF UpdateMemberWrite
  <2>8. \A n \in Merchant, u \in Users :
          role[n][u] \in Assignable => role'[n][u] \in Assignable
    BY <2>1, <2>4, <2>6 DEF MerchantInv, MerchantTypeOK
  <2>9. /\ request' \in [Requests -> MerchantRequests \cup {Waiting}]
        /\ AddsToFounded' /\ UpdatesMembers'
    BY <2>5, <2>8, AnswerKeeps DEF MerchantInv
  <2>10. QED
    BY <2>1, <2>3, <2>4, <2>5, <2>6, <2>7, <2>9, ChangeKeeps
<1>9. CASE UNCHANGED merchantVars
  BY <1>9 DEF merchantVars, MerchantInv, MerchantTypeOK, OwnerIsApplicant, OwnersActive,
         MembersOfFounded,
              AddsToFounded, UpdatesMembers, CodesDistinct, Founded
<1>10. QED
  BY <1>1, <1>2, <1>3, <1>4, <1>5, <1>6, <1>7, <1>8, <1>9 DEF MerchantNext

(* The invariant of Merchants.                                             *)
LEMMA MerchantInvAlways == MerchantSpec => []MerchantInv
  BY MerchantInitInv, MerchantStepInv, PTL DEF MerchantSpec

-----------------------------------------------------------------------------
(* Theorems *)

(* Every reachable state of Merchants is well typed; in it, active members *)
(* have a role in the merchant and the MERCHANT role as users.             *)
THEOREM MerchantTypeCorrect == MerchantSpec => []MerchantTypeOK
<1>1. MerchantInv => MerchantTypeOK
  BY DEF MerchantInv
<1>2. QED
  BY <1>1, MerchantInvAlways, PTL

(* Whatever reviews and changes of members overlap, a merchant exists when *)
(* its application was approved and is owned by the applicant alone.       *)
THEOREM OwnedByApplicantAlways == MerchantSpec => []OwnedByApplicant
<1>1. MerchantInv => OwnedByApplicant
  BY MerchantsAssumption
     DEF MerchantInv, OwnerIsApplicant, OwnersActive, OwnedByApplicant, Founded
<1>2. QED
  BY <1>1, MerchantInvAlways, PTL

(* No two merchants have one code.                                         *)
THEOREM CodesStayDistinct == MerchantSpec => []CodesDistinct
<1>1. MerchantInv => CodesDistinct
  BY DEF MerchantInv
<1>2. QED
  BY <1>1, MerchantInvAlways, PTL
=============================================================================
