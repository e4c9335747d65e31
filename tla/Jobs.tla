-------------------------------- MODULE Jobs --------------------------------
(***************************************************************************)
(* Job records of the dispatch board (backend/apps/jobs and JobRecord in   *)
(* backend/apps/intake/models.py).  Every endpoint reads the job without a *)
(* lock and saves named columns of that copy: a request is a read and a    *)
(* commit.  Free-text columns, filters and the history rows are left out.  *)
(***************************************************************************)
EXTENDS Naturals, FiniteSets

CONSTANTS
    Jobs,               \* bound: rows of jobs
    Statuses,           \* the statuses staff set by hand, among JobStatus
    Requests,           \* bound: staff requests at the same time
    MaxEdits            \* bound: edits begun

VARIABLES jbJob, jbCounter, jbLead, jbReq, jbEdits

jbVars == <<jbJob, jbCounter, jbLead, jbReq, jbEdits>>

-----------------------------------------------------------------------------
JobStatus == {"new", "pending_review", "prioritized", "scheduled", "in_progress", "completed",
              "reopened", "blocked", "pending_follow_up", "cancelled"}
PoRecStatus == {"not_required", "pending", "received", "missing"}
LeadNames == {"lead", "renamed"}

\* builder: one of the builders a purchase order is required of;
\* note: the note holds a purchase order number
JobRow == [number: Nat, status: JobStatus, urgent: BOOLEAN, seen: BOOLEAN,
           date: BOOLEAN, time: BOOLEAN, crew: LeadNames \cup {""}, user: BOOLEAN,
           reopened: Nat, builder: BOOLEAN, note: BOOLEAN, required: BOOLEAN, po: PoRecStatus]
NoJob == [number |-> 0]
Idle == [at |-> "idle"]

\* the counter row: its value and the request that holds its lock
JobsTypeOK ==
    /\ \A j \in Jobs : jbJob[j] = NoJob \/ jbJob[j] \in JobRow
    /\ jbCounter.last \in Nat /\ jbCounter.lock \in Requests \cup {""}
    /\ jbLead \in LeadNames
    /\ \A r \in Requests : jbReq[r] = Idle \/ jbReq[r].at \in {"create", "edit"}
    /\ jbEdits \in 0..MaxEdits

JobsInit ==
    /\ jbJob = [j \in Jobs |-> NoJob]
    /\ jbCounter = [last |-> 0, lock |-> ""]
    /\ jbLead = "lead"
    /\ jbReq = [r \in Requests |-> Idle]
    /\ jbEdits = 0

Stored == {j \in Jobs : jbJob[j] # NoJob}

-----------------------------------------------------------------------------
(* JobRecord.save.                                                         *)
ApplyPoPolicy(row) ==
    IF ~row.builder THEN row
    ELSE [row EXCEPT !.required = TRUE,
                     !.po = IF @ \notin {"not_required", "missing"} THEN @
                            ELSE IF row.note THEN "received" ELSE "missing"]

Save(row, edited, fields) ==
    LET kept == ApplyPoPolicy(edited)
        saved == IF kept = edited THEN fields ELSE fields \cup {"required", "po"}
    IN [f \in DOMAIN row |-> IF f \in saved THEN kept[f] ELSE row[f]]

(* allocate_job_number: the counter row is locked until the transaction of *)
(* the new job ends.                                                       *)
CreateBegin(r) ==
    /\ jbReq[r] = Idle
    /\ jbCounter.lock = ""
    /\ jbCounter' = [jbCounter EXCEPT !.lock = r]
    /\ jbReq' = [jbReq EXCEPT ![r] = [at |-> "create", number |-> jbCounter.last + 1]]
    /\ UNCHANGED <<jbJob, jbLead, jbEdits>>

Created(number, builder, note, required) ==
    ApplyPoPolicy([number |-> number, status |-> "new", urgent |-> FALSE, seen |-> FALSE,
                   date |-> FALSE, time |-> FALSE, crew |-> "", user |-> FALSE, reopened |-> 0,
                   builder |-> builder, note |-> note, required |-> required, po |-> "not_required"])

CreateEnd(r, j, builder, note, required) ==
    /\ jbReq[r].at = "create"
    /\ j \notin Stored
    /\ jbJob' = [jbJob EXCEPT ![j] = Created(jbReq[r].number, builder, note, required)]
    /\ jbCounter' = [last |-> jbReq[r].number, lock |-> ""]
    /\ jbReq' = [jbReq EXCEPT ![r] = Idle]
    /\ UNCHANGED <<jbLead, jbEdits>>

\* the transaction fails: the counter keeps its old value
CreateFails(r) ==
    /\ jbReq[r].at = "create"
    /\ jbCounter' = [jbCounter EXCEPT !.lock = ""]
    /\ jbReq' = [jbReq EXCEPT ![r] = Idle]
    /\ UNCHANGED <<jbJob, jbLead, jbEdits>>

-----------------------------------------------------------------------------
(* get_object_or_404, and the service's save of the copy it was given.     *)
EditBegin(r, j) ==
    /\ jbReq[r] = Idle
    /\ j \in Stored
    /\ jbEdits < MaxEdits
    /\ jbReq' = [jbReq EXCEPT ![r] = [at |-> "edit", job |-> j, copy |-> jbJob[j]]]
    /\ jbEdits' = jbEdits + 1
    /\ UNCHANGED <<jbJob, jbCounter, jbLead>>

EditEnd(r, edited, fields) ==
    /\ LET j == jbReq[r].job IN jbJob' = [jbJob EXCEPT ![j] = Save(@, edited, fields)]
    /\ jbReq' = [jbReq EXCEPT ![r] = Idle]
    /\ UNCHANGED <<jbCounter, jbLead, jbEdits>>

Editing(r) == jbReq[r].at = "edit"

UpdateStatus(r, status) ==
    /\ Editing(r)
    /\ jbReq[r].copy.status # status
    /\ EditEnd(r, [jbReq[r].copy EXCEPT !.status = status], {"status"})

UpdatePriority(r) ==
    /\ Editing(r)
    /\ EditEnd(r, [jbReq[r].copy EXCEPT !.urgent = ~@], {"urgent"})

Scheduled(status) == IF status \in {"in_progress", "completed", "cancelled"} THEN status ELSE "scheduled"
ScheduleJob(r, time, crew) ==
    /\ Editing(r)
    /\ EditEnd(r, [jbReq[r].copy EXCEPT !.date = TRUE, !.time = time, !.status = Scheduled(@),
                                        !.crew = IF crew = "" THEN @ ELSE crew],
               {"date", "time", "crew", "status"})

UnscheduleJob(r) ==
    /\ Editing(r)
    /\ jbReq[r].copy.date
    /\ EditEnd(r, [jbReq[r].copy EXCEPT !.date = FALSE, !.time = FALSE,
                                        !.status = IF @ = "scheduled" THEN "pending_review" ELSE @],
               {"date", "time", "status"})

MarkReadyToSchedule(r) ==
    /\ Editing(r)
    /\ EditEnd(r, [jbReq[r].copy EXCEPT !.status = "prioritized", !.date = FALSE, !.time = FALSE,
                                        !.user = FALSE, !.crew = ""],
               {"status", "date", "time", "user", "crew"})

ReopenJob(r) ==
    /\ Editing(r)
    /\ EditEnd(r, [jbReq[r].copy EXCEPT !.status = "reopened", !.reopened = @ + 1], {"status", "reopened"})

UpdatePoRec(r, required, po) ==
    /\ Editing(r)
    /\ LET copy == jbReq[r].copy
           changed == {f \in {"required", "po"} : copy[f] # [required |-> required, po |-> po][f]} IN
       /\ changed # {}
       /\ EditEnd(r, [copy EXCEPT !.required = required, !.po = po], changed)

UpdateFields(r, builder, note) ==
    /\ Editing(r)
    /\ LET copy == jbReq[r].copy
           changed == {f \in {"builder", "note"} : copy[f] # [builder |-> builder, note |-> note][f]} IN
       /\ changed # {}
       /\ EditEnd(r, [copy EXCEPT !.builder = builder, !.note = note], changed)

SetSeen(r) ==
    /\ Editing(r)
    /\ EditEnd(r, [jbReq[r].copy EXCEPT !.seen = ~@], {"seen"})

Assign(r, user) ==
    /\ Editing(r)
    /\ EditEnd(r, [jbReq[r].copy EXCEPT !.user = user], {"user"})

\* refused by validation, nothing to change, a note added, or the process dies
EditDropped(r) ==
    /\ Editing(r)
    /\ jbReq' = [jbReq EXCEPT ![r] = Idle]
    /\ UNCHANGED <<jbJob, jbCounter, jbLead, jbEdits>>

(* TeamLeadDetailView.patch: jobs follow the lead by name.                 *)
RenameLead ==
    /\ jbLead = "lead"
    /\ jbLead' = "renamed"
    /\ jbJob' = [j \in Jobs |-> IF j \in Stored /\ jbJob[j].crew = "lead"
                                THEN [jbJob[j] EXCEPT !.crew = "renamed"] ELSE jbJob[j]]
    /\ UNCHANGED <<jbCounter, jbReq, jbEdits>>

JobsNext ==
    \/ \E r \in Requests : CreateBegin(r) \/ CreateFails(r)
    \/ \E r \in Requests, j \in Jobs, builder, note, required \in BOOLEAN :
           CreateEnd(r, j, builder, note, required)
    \/ \E r \in Requests, j \in Jobs : EditBegin(r, j)
    \/ \E r \in Requests, status \in Statuses : UpdateStatus(r, status)
    \/ \E r \in Requests : UpdatePriority(r) \/ SetSeen(r)
    \/ \E r \in Requests, time \in BOOLEAN, crew \in {"", jbLead} : ScheduleJob(r, time, crew)
    \/ \E r \in Requests : UnscheduleJob(r) \/ MarkReadyToSchedule(r) \/ ReopenJob(r)
    \/ \E r \in Requests, required \in BOOLEAN, po \in PoRecStatus : UpdatePoRec(r, required, po)
    \/ \E r \in Requests, builder, note \in BOOLEAN : UpdateFields(r, builder, note)
    \/ \E r \in Requests, user \in BOOLEAN : Assign(r, user)
    \/ \E r \in Requests : EditDropped(r)
    \/ RenameLead

JobsSpec == JobsInit /\ [][JobsNext]_jbVars

-----------------------------------------------------------------------------
(* backend/apps/intake/models.py:151-152: "two simultaneous job creations  *)
(* can never receive the same number"; and whatever two editors save over  *)
(* each other, a job keeps no time of day without its date.                *)
NumbersDistinct == \A i, j \in Stored : i # j => jbJob[i].number # jbJob[j].number
TimeNeedsDate == \A j \in Stored : jbJob[j].time => jbJob[j].date
JobRowsAgree == NumbersDistinct /\ TimeNeedsDate

(* backend/apps/intake/models.py:343-345: "Enforce the builder-based PO    *)
(* rule uniformly, regardless of which intake path created/edited the      *)
(* job": a job of a builder that requires a purchase order says so.        *)
PoPolicyHolds == \A j \in Stored : jbJob[j].builder => jbJob[j].required /\ jbJob[j].po # "not_required"
=============================================================================
