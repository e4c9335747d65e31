--------------------------- MODULE PlatformAccess ---------------------------
(***************************************************************************)
(* The internal staff of the platform, their sessions and one member's     *)
(* authenticator (backend/apps/control_plane: models, authentication, mfa  *)
(* and the staff views).  A request keeps the role it was authenticated    *)
(* with.  An authenticator code is abstracted to the secret it is computed *)
(* from and its time step, or Recovery.                                    *)
(***************************************************************************)
EXTENDS Integers, FiniteSets

CONSTANTS
    Staff,              \* the members of staff
    Founders,           \* those the seed command makes owners
    Holder,             \* the member whose authenticator is modelled
    Sessions,           \* bound: sessions at a time
    Requests,           \* bound: requests in flight
    MaxSecret,          \* bound: secrets set up
    MaxTime             \* bound: time steps of 30 s

VARIABLES paStaff, paSession, paDevice, paNow, paUsed, paReq

paVars == <<paStaff, paSession, paDevice, paNow, paUsed, paReq>>

-----------------------------------------------------------------------------
PlatformRole == {"owner", "support"}
\* inactive: invited, suspended or revoked
PlatformAccessStatus == {"none", "inactive", "active"}
StaffRow == [role: PlatformRole, status: PlatformAccessStatus]
SessionRow == [of: Staff, live: BOOLEAN, fresh: BOOLEAN]
Recovery == -1
Codes == [secret: 1 .. MaxSecret, step: 0 .. MaxTime + 1] \cup [secret: 1 .. MaxSecret, step: {Recovery}]
\* recovery: the unused recovery code of the current secret
DeviceRow == [secret: 0 .. MaxSecret, last: -1 .. MaxTime + 1, recovery: BOOLEAN, enabled: BOOLEAN]
\* not opened yet, expired, idle or revoked: none of them is accepted again
Ended == [of |-> Holder, live |-> FALSE, fresh |-> FALSE]
Idle == [at |-> "idle"]

PlatformTypeOK ==
    /\ paStaff \in [Staff -> StaffRow]
    /\ paSession \in [Sessions -> SessionRow]
    /\ paDevice \in DeviceRow
    /\ paNow \in 0 .. MaxTime
    /\ paUsed \in [Codes -> 0 .. 2]
    /\ \A r \in Requests : paReq[r] = Idle \/ paReq[r].at \in {"login", "api", "update", "setup", "verify", "verified"}

PlatformInit ==
    /\ paStaff = [s \in Staff |-> [role |-> "owner", status |-> IF s \in Founders THEN "active" ELSE "none"]]
    /\ paSession = [x \in Sessions |-> Ended]
    /\ paDevice = [secret |-> 0, last |-> -1, recovery |-> FALSE, enabled |-> FALSE]
    /\ paNow = 0
    /\ paUsed = [c \in Codes |-> 0]
    /\ paReq = [r \in Requests |-> Idle]

At(r, place) == paReq[r].at = place
Goto(r, row) == paReq' = [paReq EXCEPT ![r] = row]
Active(s) == paStaff[s].status = "active"
Live(x) == paSession[x].live
Held(x) == \E r \in Requests : paReq[r].at \in {"api", "verify", "verified"} /\ paReq[r].session = x
ActiveOwners(rows) == {s \in Staff : rows[s] = [role |-> "owner", status |-> "active"]}
EndedOf(s) == [x \in Sessions |-> IF paSession[x].of = s
                                  THEN Ended ELSE paSession[x]]
UnchangedDevice == UNCHANGED <<paDevice, paNow, paUsed>>

-----------------------------------------------------------------------------
(* InternalLoginView: the access is read, then the session created.        *)
LoginBegin(r, s) ==
    /\ At(r, "idle") /\ Active(s)
    /\ Goto(r, [at |-> "login", who |-> s])
    /\ UNCHANGED <<paStaff, paSession>> /\ UnchangedDevice

LoginEnd(r, x) ==
    /\ At(r, "login") /\ ~Live(x) /\ ~Held(x)
    /\ paSession' = [paSession EXCEPT ![x].of = paReq[r].who, ![x].live = TRUE]
    /\ Goto(r, Idle)
    /\ UNCHANGED paStaff /\ UnchangedDevice

(* PlatformSessionAuthentication: a session of a member who is no longer   *)
(* active ends at its next use.                                            *)
Authenticate(r, x) ==
    /\ At(r, "idle") /\ Live(x) /\ Active(paSession[x].of)
    /\ Goto(r, [at |-> "api", session |-> x, who |-> paSession[x].of,
                role |-> paStaff[paSession[x].of].role, fresh |-> paSession[x].fresh])
    /\ UNCHANGED <<paStaff, paSession>> /\ UnchangedDevice

AuthenticationEnds(x) ==
    /\ Live(x) /\ ~Active(paSession[x].of)
    /\ paSession' = [paSession EXCEPT ![x] = Ended]
    /\ UNCHANGED <<paStaff, paReq>> /\ UnchangedDevice

(* The session expires or stays idle too long, or InternalLogoutView.      *)
SessionEnds(x) ==
    /\ Live(x)
    /\ paSession' = [paSession EXCEPT ![x] = Ended]
    /\ UNCHANGED <<paStaff, paReq>> /\ UnchangedDevice

(* SessionListView.post: a member ends one of his own sessions.            *)
SessionRevoke(r, x) ==
    /\ At(r, "api") /\ Live(x) /\ paSession[x].of = paReq[r].who
    /\ paSession' = [paSession EXCEPT ![x] = Ended]
    /\ Goto(r, Idle)
    /\ UNCHANGED paStaff /\ UnchangedDevice

MfaStale(x) ==
    /\ paSession[x].fresh
    /\ paSession' = [paSession EXCEPT ![x].fresh = FALSE]
    /\ UNCHANGED <<paStaff, paReq>> /\ UnchangedDevice

-----------------------------------------------------------------------------
Privileged(r) == At(r, "api") /\ paReq[r].role = "owner" /\ paReq[r].fresh

(* StaffListView.post.                                                     *)
StaffCreate(r, s, role) ==
    /\ Privileged(r)
    /\ paStaff[s].status = "none"
    /\ paStaff' = [paStaff EXCEPT ![s] = [role |-> role, status |-> "inactive"]]
    /\ Goto(r, Idle)
    /\ UNCHANGED paSession /\ UnchangedDevice

\* clean: another active owner must be left when this one stops being it
MayBecome(rows, s, row) ==
    rows[s].role = "owner" /\ (row.role # "owner" \/ row.status # "active") => ActiveOwners(rows) \ {s} # {}
Locked(s) == \E r \in Requests : At(r, "update") /\ paReq[r].target = s

(* update_staff_access locks the target's row; clean looks for another     *)
(* owner among the committed rows, and the save commits later.             *)
UpdateBegin(r, s, row) ==
    /\ Privileged(r)
    /\ paStaff[s].status # "none" /\ row.status # "none"
    /\ ~Locked(s)
    /\ MayBecome(paStaff, s, row)
    /\ Goto(r, [at |-> "update", target |-> s, row |-> row])
    /\ UNCHANGED <<paStaff, paSession>> /\ UnchangedDevice

UpdateCommit(r) ==
    /\ At(r, "update")
    /\ paStaff' = [paStaff EXCEPT ![paReq[r].target] = paReq[r].row]
    /\ paSession' = EndedOf(paReq[r].target)
    /\ Goto(r, Idle)
    /\ UnchangedDevice

-----------------------------------------------------------------------------
(* MFASetupView: no enabled device, then generate_setup replaces the       *)
(* secret and the recovery codes.                                          *)
SetupBegin(r) ==
    /\ At(r, "api") /\ paReq[r].who = Holder /\ ~paDevice.enabled
    /\ Goto(r, [at |-> "setup"])
    /\ UNCHANGED <<paStaff, paSession>> /\ UnchangedDevice

SetupEnd(r) ==
    /\ At(r, "setup") /\ paDevice.secret < MaxSecret
    /\ paDevice' = [secret |-> paDevice.secret + 1, last |-> -1, recovery |-> TRUE, enabled |-> FALSE]
    /\ Goto(r, Idle)
    /\ UNCHANGED <<paStaff, paSession, paNow, paUsed>>

(* MFAVerifyView reads the device, verify_mfa reads it again under a lock. *)
VerifyBegin(r, code) ==
    /\ At(r, "api") /\ paReq[r].who = Holder /\ paDevice.secret # 0
    /\ Goto(r, [at |-> "verify", session |-> paReq[r].session, code |-> code, enabled |-> paDevice.enabled])
    /\ UNCHANGED <<paStaff, paSession>> /\ UnchangedDevice

Matches(device, code) ==
    /\ code.secret = device.secret
    /\ IF code.step = Recovery THEN device.recovery
       ELSE code.step > device.last /\ code.step \in paNow - 1 .. paNow + 1
Consumed(device, code) ==
    IF code.step = Recovery THEN [device EXCEPT !.recovery = FALSE] ELSE [device EXCEPT !.last = code.step]

VerifyCode(r) ==
    /\ At(r, "verify")
    /\ LET code == paReq[r].code IN
       IF Matches(paDevice, code)
       THEN /\ paDevice' = Consumed(paDevice, code)
            /\ paUsed' = [paUsed EXCEPT ![code] = @ + 1]
            /\ Goto(r, [at |-> "verified", session |-> paReq[r].session, enabled |-> paReq[r].enabled])
       ELSE Goto(r, Idle) /\ UNCHANGED <<paDevice, paUsed>>
    /\ UNCHANGED <<paStaff, paSession, paNow>>

\* the device read before decides whether enabled is written
VerifyEnd(r) ==
    /\ At(r, "verified")
    /\ paDevice' = [paDevice EXCEPT !.enabled = @ \/ ~paReq[r].enabled]
    /\ paSession' = [paSession EXCEPT ![paReq[r].session].fresh = Live(paReq[r].session)]
    /\ Goto(r, Idle)
    /\ UNCHANGED <<paStaff, paNow, paUsed>>

Done(r) ==
    /\ At(r, "api")
    /\ Goto(r, Idle)
    /\ UNCHANGED <<paStaff, paSession>> /\ UnchangedDevice

Tick == paNow < MaxTime /\ paNow' = paNow + 1 /\ UNCHANGED <<paStaff, paSession, paDevice, paUsed, paReq>>

PlatformNext ==
    \/ \E r \in Requests, s \in Staff : LoginBegin(r, s)
    \/ \E r \in Requests, x \in Sessions : LoginEnd(r, x) \/ Authenticate(r, x) \/ SessionRevoke(r, x)
    \/ \E x \in Sessions : AuthenticationEnds(x) \/ SessionEnds(x) \/ MfaStale(x)
    \/ \E r \in Requests, s \in Staff, role \in PlatformRole : StaffCreate(r, s, role)
    \/ \E r \in Requests, s \in Staff, row \in StaffRow : UpdateBegin(r, s, row)
    \/ \E r \in Requests, code \in Codes : VerifyBegin(r, code)
    \/ \E r \in Requests : UpdateCommit(r) \/ SetupBegin(r) \/ SetupEnd(r) \/ VerifyCode(r) \/ VerifyEnd(r) \/ Done(r)
    \/ Tick

PlatformSpec == PlatformInit /\ [][PlatformNext]_paVars

-----------------------------------------------------------------------------
(* control_plane/mfa.py verify_mfa: a code, or a recovery code, is         *)
(* accepted once, whatever the requests and the set-ups do at the time.    *)
CodeOnce == \A c \in Codes : paUsed[c] <= 1

(* docs/architecture/internal-control-plane.md:20-21: "The final active    *)
(* owner cannot be revoked or demoted."                                    *)
PlatformOwnerRemains == ActiveOwners(paStaff) # {}
=============================================================================
