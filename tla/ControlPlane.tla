---------------------------- MODULE ControlPlane ----------------------------
(***************************************************************************)
(* Operational controls, an organization's lifecycle and operational jobs  *)
(* (backend/apps/control_plane/services, policies).  One organization with *)
(* one channel connection.                                                 *)
(***************************************************************************)
EXTENDS Naturals, FiniteSets

CONSTANTS
    Kinds,              \* the kinds of control in use, among ControlKind
    Controls,           \* bound: rows of controls
    Requests            \* bound: operators at work at the same time

VARIABLES cpOrg, cpControl, cpRun, cpJob, cpReq

cpVars == <<cpOrg, cpControl, cpRun, cpJob, cpReq>>

-----------------------------------------------------------------------------
AIKinds == {"global_ai", "organization_ai", "external_autopilot"}
ToolKinds == {"global_ai_tool", "organization_ai_tool"}
ProviderKinds == {"global_provider", "organization_provider", "channel_connection", "voice_global"}
ControlKind == AIKinds \cup ToolKinds \cup ProviderKinds

\* was: the status the organization had when the operators came in; had: what
\* was disabled when it was last suspended.  The code keeps neither.
Flags == {"sends", "ai"}
OrgRow == [was: {"trial", "active"}, had: SUBSET Flags,
           status: {"trial", "active", "suspended"}, previous: {"", "trial", "active"},
           disabled: SUBSET Flags]
NoControl == [kind |-> "", active |-> FALSE, expired |-> FALSE]
ControlRow == [kind: ControlKind, active: BOOLEAN, expired: BOOLEAN] \cup {NoControl}
JobStatus == {"queued", "retrying", "completed", "failed", "dead_letter", "cancelled", "acknowledged"}
Idle == [at |-> "idle"]

ControlTypeOK ==
    /\ cpOrg \in OrgRow
    /\ cpControl \in [Controls -> ControlRow]
    /\ cpRun \in {"none", "queued", "running", "waiting", "done", "superseded"}
    /\ cpJob \in JobStatus
    /\ \A r \in Requests : cpReq[r] = Idle \/ cpReq[r].at \in {"activate", "queue"}

ControlInit ==
    /\ \E status \in {"trial", "active"} :
           cpOrg = [was |-> status, had |-> {}, status |-> status, previous |-> "", disabled |-> {}]
    /\ cpControl = [c \in Controls |-> NoControl]
    /\ cpRun = "none"
    /\ cpJob = "queued"
    /\ cpReq = [r \in Requests |-> Idle]

Begin(r, row) == cpReq[r] = Idle /\ cpReq' = [cpReq EXCEPT ![r] = row]
End(r, place) == cpReq[r].at = place /\ cpReq' = [cpReq EXCEPT ![r] = Idle]

-----------------------------------------------------------------------------
(* set_organization_lifecycle, both rows locked.                           *)
Recorded(org) == IF org.status = "suspended" THEN org.previous ELSE org.status

Had(org) == IF org.status = "suspended" THEN org.had ELSE org.disabled

Suspend ==
    /\ cpOrg' = [cpOrg EXCEPT !.status = "suspended", !.previous = Recorded(cpOrg),
                              !.had = Had(cpOrg), !.disabled = Flags]
    /\ UNCHANGED <<cpControl, cpRun, cpJob, cpReq>>

\* Mutant: the recorded status is not consulted.
RestoredActive(org) == IF org.status # "suspended" THEN org.status ELSE "active"

Restored(org) == IF org.status # "suspended" THEN org.status ELSE IF org.previous = "" THEN "active" ELSE org.previous
Reactivate ==
    /\ cpOrg' = [cpOrg EXCEPT !.status = Restored(cpOrg), !.disabled = {}]
    /\ UNCHANGED <<cpControl, cpRun, cpJob, cpReq>>

Disable(flag) ==
    /\ cpOrg' = [cpOrg EXCEPT !.disabled = @ \cup {flag}]
    /\ UNCHANGED <<cpControl, cpRun, cpJob, cpReq>>

(* policies.blocking_control for an AI run of the organization.            *)
InForce(kinds) == \E c \in Controls : cpControl[c].kind \in kinds /\ cpControl[c].active /\ ~cpControl[c].expired
AIBlocked == "ai" \in cpOrg.disabled \/ InForce(AIKinds)

-----------------------------------------------------------------------------
(* activate_control locks the active rows of the kind it finds: when there *)
(* is none, nothing is locked until the row is created.                    *)
ActiveOf(kind) == {c \in Controls : cpControl[c].kind = kind /\ cpControl[c].active}
Stopped(status) == IF status \in {"queued", "waiting"} THEN "superseded" ELSE status
Cancelled(status) == IF status \in {"queued", "retrying"} THEN "cancelled" ELSE status

ActivateBegin(r, kind) ==
    /\ ActiveOf(kind) = {}
    /\ Begin(r, [at |-> "activate", kind |-> kind])
    /\ UNCHANGED <<cpOrg, cpControl, cpRun, cpJob>>

ActivateEnd(r, c) ==
    /\ End(r, "activate")
    /\ cpControl[c] = NoControl
    /\ LET kind == cpReq[r].kind IN
       /\ cpControl' = [cpControl EXCEPT ![c] = [kind |-> kind, active |-> TRUE, expired |-> FALSE]]
       /\ cpRun' = IF kind \in AIKinds THEN Stopped(cpRun) ELSE cpRun
       /\ cpJob' = IF kind \in ProviderKinds THEN Cancelled(cpJob) ELSE cpJob
    /\ UNCHANGED <<cpOrg>>

ControlExpires(c) ==
    /\ cpControl[c].active /\ ~cpControl[c].expired
    /\ cpControl' = [cpControl EXCEPT ![c].expired = TRUE]
    /\ UNCHANGED <<cpOrg, cpRun, cpJob, cpReq>>

(* restore_control, for the row named or the first the resume button       *)
(* finds.  A restored row is forgotten here: nothing reads it again.       *)
RestoreControl(c) ==
    /\ cpControl[c].active
    /\ cpControl' = [cpControl EXCEPT ![c] = NoControl]
    /\ UNCHANGED <<cpOrg, cpRun, cpJob, cpReq>>

(* A run of the AI runtime: the policy is asked before queueing and again  *)
(* before execution.                                                       *)
QueueBegin(r) ==
    /\ ~AIBlocked
    /\ cpRun = "none"
    /\ Begin(r, [at |-> "queue"])
    /\ UNCHANGED <<cpOrg, cpControl, cpRun, cpJob>>

QueueEnd(r) ==
    /\ End(r, "queue")
    /\ cpRun = "none"
    /\ cpRun' = "queued"
    /\ UNCHANGED <<cpOrg, cpControl, cpJob>>

Execute ==
    /\ cpRun = "queued"
    /\ cpRun' = IF AIBlocked THEN "superseded" ELSE "running"
    /\ UNCHANGED <<cpOrg, cpControl, cpJob, cpReq>>

Finish(status) ==
    /\ cpRun = "running"
    /\ cpRun' = status
    /\ UNCHANGED <<cpOrg, cpControl, cpJob, cpReq>>

-----------------------------------------------------------------------------
(* retry_job and transition_job, the row locked.  An idempotent job.       *)
JobMoves(from, to) ==
    /\ cpJob \in from
    /\ cpJob' = to
    /\ UNCHANGED <<cpOrg, cpControl, cpRun, cpReq>>

RetryJob == JobMoves({"failed", "dead_letter"}, "retrying")
CancelJob == JobMoves({"queued", "retrying"}, "cancelled")
AcknowledgeJob == JobMoves({"dead_letter"}, "acknowledged")
\* a worker of the deployment, which the repository does not hold
JobFails(status) == JobMoves({"queued", "retrying"}, status)

ControlNext ==
    \/ Suspend \/ Reactivate
    \/ \E flag \in Flags : Disable(flag)
    \/ \E r \in Requests, kind \in Kinds : ActivateBegin(r, kind)
    \/ \E r \in Requests, c \in Controls : ActivateEnd(r, c)
    \/ \E c \in Controls : ControlExpires(c) \/ RestoreControl(c)
    \/ \E r \in Requests : QueueBegin(r) \/ QueueEnd(r)
    \/ Execute
    \/ \E status \in {"waiting", "done"} : Finish(status)
    \/ RetryJob \/ CancelJob \/ AcknowledgeJob
    \/ \E status \in {"failed", "dead_letter"} : JobFails(status)

ControlSpec == ControlInit /\ [][ControlNext]_cpVars

-----------------------------------------------------------------------------
(* However often an organization is suspended and reactivated, by requests *)
(* that are repeated or come out of order, reactivation leaves the status  *)
(* it had: a trial never becomes active that way.                          *)
ReactivationRestores == cpOrg.status \in {cpOrg.was, "suspended"}

(* docs/operations/control-plane-runbook.md:22: "Reactivation restores     *)
(* only the recorded prior eligibility".  It also enables what was         *)
(* disabled by hand before the suspension, which nothing records.          *)
ReactivationRestoresOnly ==
    [][cpOrg.status = "suspended" /\ cpOrg'.status # "suspended"
          => cpOrg.had \subseteq cpOrg'.disabled]_cpVars
=============================================================================
