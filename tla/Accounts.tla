------------------------------ MODULE Accounts ------------------------------
(***************************************************************************)
(* One account's password, reset links and refresh tokens                  *)
(* (backend/apps/users).  A refresh is two steps: the presented token is   *)
(* verified and blacklisted, then a new pair is issued.                    *)
(***************************************************************************)
EXTENDS Naturals, FiniteSets

CONSTANTS
    Tokens,             \* bound: refresh tokens that can be issued
    Resets,             \* bound: reset links
    Requests,           \* bound: requests in flight
    MaxPasswords        \* bound: changes of the password

VARIABLES acUser, acToken, acReset, acReq

acVars == <<acUser, acToken, acReset, acReq>>

-----------------------------------------------------------------------------
\* blocked: an operational control of an organization disables new logins
UserRow == [made: BOOLEAN, active: BOOLEAN, password: 0 .. MaxPasswords, mustChange: BOOLEAN, blocked: BOOLEAN]
ResetRow == [made: BOOLEAN, used: 0 .. 2, expired: BOOLEAN]
Idle == [at |-> "idle"]

(* rest_framework_simplejwt: a token issued, its OutstandingToken row and  *)
(* the BlacklistedToken row that goes with it.                             *)
TokenRow == [issued: BOOLEAN, outstanding: BOOLEAN, black: BOOLEAN]

AccountsTypeOK ==
    /\ acUser \in UserRow
    /\ acToken \in [Tokens -> TokenRow]
    /\ acReset \in [Resets -> ResetRow]
    /\ \A r \in Requests : acReq[r] = Idle \/ acReq[r] \in [at: {"login", "refresh", "change"}]

AccountsInit ==
    /\ acUser = [made |-> FALSE, active |-> TRUE, password |-> 0, mustChange |-> FALSE, blocked |-> FALSE]
    /\ acToken = [t \in Tokens |-> [issued |-> FALSE, outstanding |-> FALSE, black |-> FALSE]]
    /\ acReset = [l \in Resets |-> [made |-> FALSE, used |-> 0, expired |-> FALSE]]
    /\ acReq = [r \in Requests |-> Idle]

\* check_blacklist looks for the blacklisted row only
Accepted(t) == acToken[t].issued /\ ~acToken[t].black
Issued(tokens, t) == [tokens EXCEPT ![t] = [issued |-> TRUE, outstanding |-> TRUE, black |-> FALSE]]
Blacklisted(tokens, t) == [tokens EXCEPT ![t].outstanding = TRUE, ![t].black = TRUE]
\* the blacklisted rows go with the outstanding ones
Forgotten(tokens) == [t \in Tokens |-> [tokens[t] EXCEPT !.outstanding = FALSE, !.black = FALSE]]

Begin(r, place) == acReq[r] = Idle /\ acReq' = [acReq EXCEPT ![r] = [at |-> place]]
End(r, place) == acReq[r].at = place /\ acReq' = [acReq EXCEPT ![r] = Idle]
NewPassword == [acUser EXCEPT !.password = @ + 1]

-----------------------------------------------------------------------------
(* RegistrationView, or a manager who adds the member with a password of   *)
(* his choice; both in one transaction.                                    *)
Register(t) ==
    /\ ~acUser.made
    /\ acUser' = [acUser EXCEPT !.made = TRUE]
    /\ acToken' = Issued(acToken, t)
    /\ UNCHANGED <<acReset, acReq>>

CreatedByManager ==
    /\ ~acUser.made
    /\ acUser' = [acUser EXCEPT !.made = TRUE, !.mustChange = TRUE]
    /\ UNCHANGED <<acToken, acReset, acReq>>

(* LoginView: the password, is_active and the controls, then a new pair.   *)
LoginBegin(r) ==
    /\ acUser.made /\ acUser.active /\ ~acUser.blocked
    /\ Begin(r, "login")
    /\ UNCHANGED <<acUser, acToken, acReset>>

LoginEnd(r, t) ==
    /\ ~acToken[t].issued
    /\ End(r, "login")
    /\ acToken' = Issued(acToken, t)
    /\ UNCHANGED <<acUser, acReset>>

(* RefreshView does not ask whether the account is active.                 *)
RefreshBegin(r, t) ==
    /\ Accepted(t)
    /\ Begin(r, "refresh")
    /\ acToken' = Blacklisted(acToken, t)
    /\ UNCHANGED <<acUser, acReset>>

RefreshEnd(r, t) ==
    /\ ~acToken[t].issued
    /\ End(r, "refresh")
    /\ acToken' = Issued(acToken, t)
    /\ UNCHANGED <<acUser, acReset>>

Logout(t, all) ==
    /\ acToken[t].issued
    /\ acToken' = LET left == IF Accepted(t) THEN Blacklisted(acToken, t) ELSE acToken
                  IN  IF all THEN Forgotten(left) ELSE left
    /\ UNCHANGED <<acUser, acReset, acReq>>

-----------------------------------------------------------------------------
(* ChangePasswordView checks the password of the user it read.             *)
ChangeBegin(r) ==
    /\ acUser.made /\ acUser.active
    /\ Begin(r, "change")
    /\ UNCHANGED <<acUser, acToken, acReset>>

ChangeEnd(r) ==
    /\ acUser.password < MaxPasswords
    /\ End(r, "change")
    /\ acUser' = [NewPassword EXCEPT !.mustChange = FALSE]
    /\ UNCHANGED <<acToken, acReset>>

RequestReset(l) ==
    /\ acUser.made
    /\ ~acReset[l].made
    /\ acReset' = [acReset EXCEPT ![l].made = TRUE]
    /\ UNCHANGED <<acUser, acToken, acReq>>

ResetExpires(l) ==
    /\ acReset[l].made
    /\ acReset' = [acReset EXCEPT ![l].expired = TRUE]
    /\ UNCHANGED <<acUser, acToken, acReq>>

Usable(l) == acReset[l].made /\ acReset[l].used = 0 /\ ~acReset[l].expired

(* PasswordResetConfirmView, the link's row locked: the password, the link *)
(* and the outstanding tokens.                                             *)
ConfirmReset(l) ==
    /\ Usable(l)
    /\ acUser.password < MaxPasswords
    /\ acUser' = NewPassword
    /\ acReset' = [acReset EXCEPT ![l].used = @ + 1]
    /\ acToken' = Forgotten(acToken)
    /\ UNCHANGED acReq

-----------------------------------------------------------------------------
\* the operators of the control plane and of the admin site
SetActive == acUser.made /\ acUser' = [acUser EXCEPT !.active = ~@] /\ UNCHANGED <<acToken, acReset, acReq>>
SetBlocked == acUser' = [acUser EXCEPT !.blocked = ~@] /\ UNCHANGED <<acToken, acReset, acReq>>

AccountsNext ==
    \/ \E t \in Tokens : Register(t)
    \/ CreatedByManager
    \/ \E r \in Requests : LoginBegin(r) \/ ChangeBegin(r) \/ ChangeEnd(r)
    \/ \E r \in Requests, t \in Tokens : LoginEnd(r, t) \/ RefreshBegin(r, t) \/ RefreshEnd(r, t)
    \/ \E t \in Tokens, all \in BOOLEAN : Logout(t, all)
    \/ \E l \in Resets : RequestReset(l) \/ ResetExpires(l) \/ ConfirmReset(l)
    \/ SetActive
    \/ SetBlocked

AccountsSpec == AccountsInit /\ [][AccountsNext]_acVars

-----------------------------------------------------------------------------
(* users/models.py:131: a reset link is a single-use grant, whatever       *)
(* logins, refreshes and other links do meanwhile.                         *)
ResetOnce == \A l \in Resets : acReset[l].used <= 1
=============================================================================
