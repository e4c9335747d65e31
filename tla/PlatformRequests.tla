-------------------------- MODULE PlatformRequests --------------------------
(***************************************************************************)
(* Privacy requests and incidents of the internal operators                *)
(* (backend/apps/control_plane/services and views).  What operators do to  *)
(* the job of an approved request is ControlPlane's.                       *)
(***************************************************************************)
EXTENDS Naturals, FiniteSets

CONSTANTS
    Staff, Owners,      \* the staff that may approve, and the owners of them
    Requests            \* bound: operators at work at the same time

VARIABLES rqPrivacy, rqJob, rqIncident, rqReq

rqVars == <<rqPrivacy, rqJob, rqIncident, rqReq>>

-----------------------------------------------------------------------------
DataRequestType == {"export", "anonymize", "delete"}
Destructive == {"anonymize", "delete"}
DataRequestStatus == {"none", "identity_verification", "approved", "running", "completed", "rejected"}
\* link: the download link of an export works
PrivacyRow == [type: DataRequestType, status: DataRequestStatus, verified: BOOLEAN, approvedBy: SUBSET Staff,
               link: BOOLEAN]
\* by: who resolved it
IncidentRow == [severity: {"low", "critical"}, status: {"none", "open", "resolved"}, by: {"", "operations", "admin"}]
Idle == [at |-> "idle"]

RequestsTypeOK ==
    /\ rqPrivacy \in PrivacyRow
    /\ rqJob \in {"none", "queued", "completed"}
    /\ rqIncident \in IncidentRow
    /\ \A r \in Requests : rqReq[r] = Idle \/ rqReq[r].at \in {"create", "incident"}

RequestsInit ==
    /\ rqPrivacy = [type |-> "export", status |-> "none", verified |-> FALSE, approvedBy |-> {}, link |-> FALSE]
    /\ rqJob = "none"
    /\ rqIncident = [severity |-> "low", status |-> "none", by |-> ""]
    /\ rqReq = [r \in Requests |-> Idle]

Begin(r, row) == rqReq[r] = Idle /\ rqReq' = [rqReq EXCEPT ![r] = row]
End(r, place) == rqReq[r].at = place /\ rqReq' = [rqReq EXCEPT ![r] = Idle]

-----------------------------------------------------------------------------
Required(type) == IF type \in Destructive THEN 2 ELSE 1
PrivacyStep(row) == rqPrivacy' = row /\ UNCHANGED rqIncident

(* create_data_request looks for the key and creates the row, whose unique *)
(* key refuses a second one.                                               *)
CreateBegin(r, type) ==
    /\ rqPrivacy.status = "none"
    /\ Begin(r, [at |-> "create", type |-> type])
    /\ PrivacyStep(rqPrivacy) /\ UNCHANGED rqJob

CreateEnd(r) ==
    /\ End(r, "create")
    /\ PrivacyStep(IF rqPrivacy.status = "none"
                   THEN [rqPrivacy EXCEPT !.type = rqReq[r].type, !.status = "identity_verification"]
                   ELSE rqPrivacy)
    /\ UNCHANGED rqJob

VerifyIdentity ==
    /\ rqPrivacy.status = "identity_verification"
    /\ PrivacyStep([rqPrivacy EXCEPT !.verified = TRUE])
    /\ UNCHANGED <<rqJob, rqReq>>

MayApprove(row, s) ==
    /\ row.status = "identity_verification" /\ row.verified
    /\ s \notin row.approvedBy
    /\ row.type \in Destructive => s \in Owners
Enough(row, s) == Cardinality(row.approvedBy \cup {s}) >= Required(row.type)

Approve(s) ==
    /\ MayApprove(rqPrivacy, s)
    /\ LET enough == Enough(rqPrivacy, s) IN
       /\ PrivacyStep([rqPrivacy EXCEPT !.approvedBy = @ \cup {s}, !.status = IF enough THEN "approved" ELSE @])
       /\ rqJob' = IF enough THEN "queued" ELSE rqJob
    /\ UNCHANGED rqReq

Reject ==
    /\ rqPrivacy.status \notin {"none", "completed"}
    /\ PrivacyStep([rqPrivacy EXCEPT !.status = "rejected"])
    /\ UNCHANGED <<rqJob, rqReq>>

RunApproved ==
    /\ rqPrivacy.status = "approved"
    /\ IF rqPrivacy.type = "export"
       THEN /\ PrivacyStep([rqPrivacy EXCEPT !.status = "completed", !.link = TRUE])
            /\ rqJob' = "completed"
       ELSE PrivacyStep([rqPrivacy EXCEPT !.status = "running"]) /\ UNCHANGED rqJob
    /\ UNCHANGED rqReq

\* export_manifest refuses the link ten minutes after
LinkExpires ==
    /\ rqPrivacy.link
    /\ PrivacyStep([rqPrivacy EXCEPT !.link = FALSE])
    /\ UNCHANGED <<rqJob, rqReq>>

-----------------------------------------------------------------------------
IncidentStep(row) == rqIncident' = row /\ UNCHANGED <<rqJob, rqPrivacy>>

IncidentCreate(severity) ==
    /\ rqIncident.status = "none"
    /\ IncidentStep([severity |-> severity, status |-> "open", by |-> ""])
    /\ UNCHANGED rqReq

(* IncidentDetailView.patch reads the incident without a lock, checks the  *)
(* severity it had, and saves the whole row.                               *)
MayUpdate(row, role, status) == status = "resolved" /\ row.severity = "critical" => role = "admin"
IncidentBegin(r, role, severity, status) ==
    /\ rqIncident.status # "none"
    /\ MayUpdate(rqIncident, role, status)
    /\ Begin(r, [at |-> "incident", row |-> [severity |-> severity, status |-> status,
                                            by |-> IF status = "resolved" THEN role ELSE ""]])
    /\ IncidentStep(rqIncident)

IncidentEnd(r) ==
    /\ End(r, "incident")
    /\ IncidentStep(rqReq[r].row)

RequestsNext ==
    \/ \E r \in Requests, type \in DataRequestType : CreateBegin(r, type)
    \/ \E r \in Requests : CreateEnd(r)
    \/ VerifyIdentity \/ Reject \/ RunApproved \/ LinkExpires
    \/ \E s \in Staff : Approve(s)
    \/ \E severity \in {"low", "critical"} : IncidentCreate(severity)
    \/ \E r \in Requests, role \in {"operations", "admin"}, severity \in {"low", "critical"},
          status \in {"open", "resolved"} : IncidentBegin(r, role, severity, status)
    \/ \E r \in Requests : IncidentEnd(r)

RequestsSpec == RequestsInit /\ [][RequestsNext]_rqVars

-----------------------------------------------------------------------------
(* docs/operations/control-plane-runbook.md:51-53: privacy work needs the  *)
(* identity first, and anonymize or delete two distinct owners.            *)
DestructiveNeedsTwo ==
    rqPrivacy.status \in {"approved", "running"} /\ rqPrivacy.type \in Destructive =>
        rqPrivacy.verified /\ Cardinality(rqPrivacy.approvedBy \cap Owners) >= 2

(* control-plane-runbook.md:50: "Critical resolution requires an admin or  *)
(* owner."                                                                 *)
CriticalNeedsAdmin ==
    rqIncident.severity = "critical" /\ rqIncident.status = "resolved" => rqIncident.by = "admin"
=============================================================================
