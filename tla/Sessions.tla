------------------------------- MODULE Sessions -------------------------------
(***************************************************************************)
(* Signing in and out: src/services/authService.js.                        *)
(*                                                                         *)
(* A session row holds the hash of the one refresh token that may be       *)
(* exchanged for the next.  Every operation here reads first (compares a   *)
(* password or looks a token up), awaits, and writes later under a         *)
(* condition; requests overlap freely between the two.                     *)
(***************************************************************************)
EXTENDS Integers, FiniteSets

CONSTANTS
  Logins, LoginOf,     \* sessions that may be opened, and whose they are
  Resets, ResetOf,     \* password reset tokens, and whose they are
  Calls,               \* requests under way at a time
  MaxTokens            \* bound: refresh tokens of one session

ASSUME SessionsAssumption ==
  /\ DOMAIN LoginOf = Logins /\ DOMAIN ResetOf = Resets
  /\ MaxTokens \in Nat \ {0}

Tokens == 1 .. MaxTokens

VARIABLES
  session,     \* NONE, LIVE (revokedAt is null), REVOKED, PURGED
  expired,     \* sessions past expiresAt
  current,     \* the token whose hash the row holds
  heirs,       \* history: tokens handed out in exchange for each token
  reset,       \* NONE, OPEN (usedAt is null), USED
  lapsed,      \* reset tokens past expiresAt
  changes,     \* history: password changes made with each reset token
  call         \* what each request has read

Idle == [op |-> "none"]
SessionCalls == [op : {"login"}, on : Logins] \cup [op : {"reset"}, on : Resets]
                  \cup [op : {"refresh"}, on : Logins, token : Tokens]

vars == <<session, expired, current, heirs, reset, lapsed, changes, call>>

TypeOK ==
  /\ session \in [Logins -> {"NONE", "LIVE", "REVOKED", "PURGED"}]
  /\ expired \subseteq Logins
  /\ current \in [Logins -> Tokens] /\ heirs \in [Logins -> [Tokens -> Nat]]
  /\ reset \in [Resets -> {"NONE", "OPEN", "USED"}] /\ lapsed \subseteq Resets
  /\ changes \in [Resets -> Nat]
  /\ call \in [Calls -> SessionCalls \cup {Idle}]

Init ==
  /\ session = [s \in Logins |-> "NONE"] /\ expired = {}
  /\ current = [s \in Logins |-> 1]
  /\ heirs = [s \in Logins |-> [k \in Tokens |-> 0]]
  /\ reset = [r \in Resets |-> "NONE"] /\ lapsed = {}
  /\ changes = [r \in Resets |-> 0]
  /\ call = [c \in Calls |-> Idle]

Begin(c, what) == call[c] = Idle /\ call' = [call EXCEPT ![c] = what]
Finish(c)      == call' = [call EXCEPT ![c] = Idle]

-----------------------------------------------------------------------------
(* Sessions. *)

(* login compares the password, then opens the session. *)
LoginRead(c, s) ==
  /\ session[s] = "NONE"
  /\ \A d \in Calls : call[d] # [op |-> "login", on |-> s]
  /\ Begin(c, [op |-> "login", on |-> s])
  /\ UNCHANGED <<session, expired, current, heirs, reset, lapsed, changes>>

LoginWrite(c) ==
  /\ call[c].op = "login"
  /\ session' = [session EXCEPT ![call[c].on] = "LIVE"]
  /\ Finish(c)
  /\ UNCHANGED <<expired, current, heirs, reset, lapsed, changes>>

(* authenticate: a request that shows an access token of the session passes. *)
Authentic(s) == session[s] = "LIVE" /\ s \notin expired

RotatableRow(s, k)   == session[s] = "LIVE"  \* mutant: the token's hash left out
RotatableToken(s, k) == current[s] = k       \* mutant: revokedAt left out
Rotatable(s, k) == session[s] = "LIVE" /\ current[s] = k

(* refresh finds the session by the token's hash, awaits, and rotates the  *)
(* hash if it is still the one it found; the new token lasts anew.         *)
RefreshRead(c, s, k) ==
  /\ Authentic(s) /\ current[s] = k /\ k < MaxTokens
  /\ Begin(c, [op |-> "refresh", on |-> s, token |-> k])
  /\ UNCHANGED <<session, expired, current, heirs, reset, lapsed, changes>>

RefreshWrite(c) ==
  /\ call[c].op = "refresh"
  /\ LET s == call[c].on
         k == call[c].token
     IN  IF Rotatable(s, k)
         THEN /\ current' = [current EXCEPT ![s] = @ + 1]
              /\ heirs' = [heirs EXCEPT ![s][k] = @ + 1]
              /\ expired' = expired \ {s}
         ELSE UNCHANGED <<current, heirs, expired>>
  /\ Finish(c)
  /\ UNCHANGED <<session, reset, lapsed, changes>>

Logout(s) ==
  /\ Authentic(s)
  /\ session' = [session EXCEPT ![s] = "REVOKED"]
  /\ UNCHANGED <<expired, current, heirs, reset, lapsed, changes, call>>

ExpireSession(s) ==
  /\ session[s] = "LIVE" /\ s \notin expired
  /\ expired' = expired \cup {s}
  /\ UNCHANGED <<session, current, heirs, reset, lapsed, changes, call>>

(* The retention job. *)
PurgeSession(s) ==
  /\ session[s] = "REVOKED" \/ (session[s] = "LIVE" /\ s \in expired)
  /\ session' = [session EXCEPT ![s] = "PURGED"]
  /\ UNCHANGED <<expired, current, heirs, reset, lapsed, changes, call>>

-----------------------------------------------------------------------------
(* Resetting a password. *)

WithdrawnBy(r) == {q \in Resets : ResetOf[q] = ResetOf[r] /\ reset[q] = "OPEN"}

RequestPasswordReset(r) ==
  /\ reset[r] = "NONE"
  /\ reset' = [q \in Resets |-> CASE q = r -> "OPEN"
                                  [] q # r /\ q \in WithdrawnBy(r) -> "USED"
                                  [] OTHER -> reset[q]]
  /\ UNCHANGED <<session, expired, current, heirs, lapsed, changes, call>>

Lapse(r) ==
  /\ reset[r] = "OPEN" /\ r \notin lapsed
  /\ lapsed' = lapsed \cup {r}
  /\ UNCHANGED <<session, expired, current, heirs, reset, changes, call>>

Unused(r) == reset[r] = "OPEN" /\ r \notin lapsed

(* resetPassword looks the token up, hashes the password, and consumes the *)
(* token if nobody has; every session of the user ends with the old one.   *)
ResetRead(c, r) ==
  /\ Unused(r)
  /\ Begin(c, [op |-> "reset", on |-> r])
  /\ UNCHANGED <<session, expired, current, heirs, reset, lapsed, changes>>

ConsumableAsRead(r) == TRUE  \* mutant: what was read still holds
Consumable(r)       == Unused(r)

(* Mutant: an expired session is taken for an ended one. *)
SignedOutFresh(r) == {s \in Logins : LoginOf[s] = ResetOf[r] /\ Authentic(s)}
SignedOutBy(r)    == {s \in Logins : LoginOf[s] = ResetOf[r] /\ session[s] = "LIVE"}

ResetWrite(c) ==
  /\ call[c].op = "reset"
  /\ LET r == call[c].on
     IN  IF Consumable(r)
         THEN /\ reset' = [reset EXCEPT ![r] = "USED"]
              /\ changes' = [changes EXCEPT ![r] = @ + 1]
              /\ session' = [s \in Logins |-> IF s \in SignedOutBy(r) THEN "REVOKED"
                                              ELSE session[s]]
         ELSE UNCHANGED <<reset, changes, session>>
  /\ Finish(c)
  /\ UNCHANGED <<expired, current, heirs, lapsed>>

Next ==
  \/ \E c \in Calls : \/ \E s \in Logins : LoginRead(c, s)
                      \/ LoginWrite(c)
                      \/ \E s \in Logins, k \in Tokens : RefreshRead(c, s, k)
                      \/ RefreshWrite(c)
                      \/ \E r \in Resets : ResetRead(c, r)
                      \/ ResetWrite(c)
  \/ \E s \in Logins : Logout(s) \/ ExpireSession(s) \/ PurgeSession(s)
  \/ \E r \in Resets : RequestPasswordReset(r) \/ Lapse(r)

Spec == Init /\ [][Next]_vars

-----------------------------------------------------------------------------
(* Properties. *)

(* A refresh token is exchanged once: of two requests that show the same   *)
(* token, also when both have looked it up, one gets the next one.         *)
ExchangedOnce == \A s \in Logins, k \in Tokens : heirs[s][k] <= 1

(* A session that was revoked stays so and hands out nothing more, whatever *)
(* refresh was under way.                                                   *)
RevokedIsFinal ==
  [][\A s \in Logins : session[s] \in {"REVOKED", "PURGED"} =>
       /\ session'[s] \in {"REVOKED", "PURGED"}
       /\ current'[s] = current[s]]_vars

(* A reset token changes the password once, and is no use when a newer one *)
(* was asked for.                                                          *)
ResetOnce ==
  /\ \A r \in Resets : changes[r] <= 1
  /\ \A q, r \in Resets : ResetOf[q] = ResetOf[r] /\ reset[q] = "OPEN" /\ reset[r] = "OPEN" => q = r

(* The step that changes a password leaves none of the user's sessions     *)
(* live, and those of the others as they were.                             *)
ResetSignsOut ==
  [][\A r \in Resets : changes'[r] # changes[r] =>
       \A s \in Logins : IF LoginOf[s] = ResetOf[r] THEN session'[s] # "LIVE"
                         ELSE session'[s] = session[s]]_vars
=============================================================================
