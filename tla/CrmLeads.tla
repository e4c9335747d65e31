------------------------------ MODULE CrmLeads ------------------------------
(***************************************************************************)
(* Pipelines, leads and follow-up tasks (backend/apps/crm): concurrent     *)
(* requests of employees.  No request locks a lead: ldRead holds the row   *)
(* each one read, and what it saves is that row with its own changes.      *)
(***************************************************************************)
EXTENDS Naturals, FiniteSets

CONSTANTS
    Stages,             \* bound: stages of the default pipeline
    Leads,              \* bound: leads of one contact
    Requests            \* bound: requests in flight

VARIABLES ldPipelines, ldType, ldLead, ldTask, ldRead

ldVars == <<ldPipelines, ldType, ldLead, ldTask, ldRead>>

-----------------------------------------------------------------------------
StageTypes == {"open", "won", "lost"}
NoStage == "no stage"
\* won, lost: the dates; reason: lost_reason
LeadRow == [status: {"none"} \cup StageTypes, stage: Stages \cup {NoStage}, won: BOOLEAN, lost: BOOLEAN,
            reason: BOOLEAN]
NoLead == [status |-> "none", stage |-> NoStage, won |-> FALSE, lost |-> FALSE, reason |-> FALSE]
TaskRow == [status: {"none", "open", "completed", "cancelled"}, completed: BOOLEAN]
Idle == [at |-> "idle"]

LeadsTypeOK ==
    /\ ldPipelines \in 0 .. 2
    /\ ldType \in [Stages -> StageTypes]
    /\ ldLead \in [Leads -> LeadRow]
    /\ ldTask \in TaskRow
    /\ \A r \in Requests : \/ ldRead[r] = Idle
                           \/ ldRead[r] \in [at: {"default", "create"}]
                           \/ ldRead[r] \in [at: {"lead", "lose"}, lead: Leads, row: LeadRow]
                           \/ ldRead[r] \in [at: {"task"}, row: TaskRow]

LeadsInit ==
    /\ ldPipelines = 0
    /\ ldType \in {f \in [Stages -> StageTypes] : \E s \in Stages : f[s] = "open"}
    /\ ldLead = [l \in Leads |-> NoLead]
    /\ ldTask = [status |-> "none", completed |-> FALSE]
    /\ ldRead = [r \in Requests |-> Idle]

Reads(r, what) == ldRead[r] = Idle /\ ldRead' = [ldRead EXCEPT ![r] = what]
Done(r) == ldRead' = [ldRead EXCEPT ![r] = Idle]

-----------------------------------------------------------------------------
(* ensure_default_pipeline: looked for, then created.                      *)
DefaultPipelineBegin(r) ==
    /\ ldPipelines = 0
    /\ Reads(r, [at |-> "default"])
    /\ UNCHANGED <<ldPipelines, ldType, ldLead, ldTask>>

(* one_default_pipeline_per_org refuses the second.                        *)
DefaultFree == ldPipelines = 0

DefaultPipelineCreate(r) ==
    /\ ldRead[r].at = "default"
    /\ ldPipelines' = IF DefaultFree THEN ldPipelines + 1 ELSE ldPipelines
    /\ Done(r)
    /\ UNCHANGED <<ldType, ldLead, ldTask>>

(* PipelineStageDetailView.patch does not look at the stage's leads.       *)
ChangeStageType(s, type) ==
    /\ ldPipelines > 0
    /\ ldType[s] # type
    /\ ldType' = [ldType EXCEPT ![s] = type]
    /\ UNCHANGED <<ldPipelines, ldLead, ldTask, ldRead>>

-----------------------------------------------------------------------------
(* LeadListCreateView.post: an open lead of the contact asks for a         *)
(* confirmation; the lead is stored later, without a lock.                 *)
CreateBegin(r, confirmed) ==
    /\ ldPipelines > 0
    /\ confirmed \/ \A l \in Leads : ldLead[l].status # "open"
    /\ Reads(r, [at |-> "create"])
    /\ UNCHANGED <<ldPipelines, ldType, ldLead, ldTask>>

\* the stage is any of the pipeline's: its type is not looked at
CreateSave(r, l, stage) ==
    /\ ldRead[r].at = "create"
    /\ ldLead[l].status = "none"
    /\ ldLead' = [ldLead EXCEPT ![l] = [NoLead EXCEPT !.status = "open", !.stage = stage]]
    /\ Done(r)
    /\ UNCHANGED <<ldPipelines, ldType, ldTask>>

(* Every other request of a lead begins with get_object_or_404.            *)
ReadLead(r, l) ==
    /\ ldLead[l].status # "none"
    /\ Reads(r, [at |-> "lead", lead |-> l, row |-> ldLead[l]])
    /\ UNCHANGED <<ldPipelines, ldType, ldLead, ldTask>>

(* LeadDetailView.patch: any stage of the pipeline; status is read-only.   *)
SaveForm(r, stage, reason) ==
    /\ ldRead[r].at = "lead"
    /\ ldLead' = [ldLead EXCEPT ![ldRead[r].lead] = [ldRead[r].row EXCEPT !.stage = stage, !.reason = reason]]
    /\ Done(r)
    /\ UNCHANGED <<ldPipelines, ldType, ldTask>>

\* Mutant: a lead keeps the dates of the stage it leaves.
MovedWithDates(lead, stage, type) ==
    [lead EXCEPT !.status = type, !.stage = stage, !.won = @ \/ type = "won", !.lost = @ \/ type = "lost"]

(* move_lead on the row that was read, saved whole.                        *)
MovedTo(lead, stage, type) ==
    [status |-> type, stage |-> stage, won |-> type = "won", lost |-> type = "lost",
     reason |-> lead.reason /\ type = "lost"]

Move(r, stage) ==
    /\ ldRead[r].at = "lead"
    /\ ldLead' = [ldLead EXCEPT ![ldRead[r].lead] = MovedTo(ldRead[r].row, stage, ldType[stage])]
    /\ Done(r)
    /\ UNCHANGED <<ldPipelines, ldType, ldTask>>

(* LeadTerminalView: exactly one stage must have the type.                 *)
OnlyStage(type, stage) == {s \in Stages : ldType[s] = type} = {stage}

Win(r, stage) ==
    /\ OnlyStage("won", stage)
    /\ Move(r, stage)

(* The reason is saved by itself, before move_lead.                        *)
LoseReason(r) ==
    /\ ldRead[r].at = "lead"
    /\ \E s \in Stages : OnlyStage("lost", s)
    /\ ldLead' = [ldLead EXCEPT ![ldRead[r].lead].reason = TRUE]
    /\ ldRead' = [ldRead EXCEPT ![r].at = "lose", ![r].row.reason = TRUE]
    /\ UNCHANGED <<ldPipelines, ldType, ldTask>>

LoseMove(r, stage) ==
    /\ ldRead[r].at = "lose"
    /\ ldLead' = [ldLead EXCEPT ![ldRead[r].lead] = MovedTo(ldRead[r].row, stage, ldType[stage])]
    /\ Done(r)
    /\ UNCHANGED <<ldPipelines, ldType, ldTask>>

-----------------------------------------------------------------------------
(* Follow-up tasks.                                                        *)

CreateTask ==
    /\ ldTask.status = "none"
    /\ ldTask' = [ldTask EXCEPT !.status = "open"]
    /\ UNCHANGED <<ldPipelines, ldType, ldLead, ldRead>>

ReadTask(r) ==
    /\ ldTask.status # "none"
    /\ Reads(r, [at |-> "task", row |-> ldTask])
    /\ UNCHANGED <<ldPipelines, ldType, ldLead, ldTask>>

SaveTask(r, status) ==
    LET old == ldRead[r].row IN
    /\ ldRead[r].at = "task"
    /\ ldTask' = [status |-> status,
                  completed |-> status = "completed" \/ (old.completed /\ old.status # "completed")]
    /\ Done(r)
    /\ UNCHANGED <<ldPipelines, ldType, ldLead>>

LeadsNext ==
    \/ \E r \in Requests : DefaultPipelineBegin(r) \/ DefaultPipelineCreate(r)
    \/ \E s \in Stages, type \in StageTypes : ChangeStageType(s, type)
    \/ \E r \in Requests, confirmed \in BOOLEAN : CreateBegin(r, confirmed)
    \/ \E r \in Requests, l \in Leads, s \in Stages : CreateSave(r, l, s)
    \/ \E r \in Requests, s \in Stages : Move(r, s) \/ Win(r, s) \/ LoseMove(r, s)
    \/ \E r \in Requests, l \in Leads : ReadLead(r, l)
    \/ \E r \in Requests, s \in Stages, reason \in BOOLEAN : SaveForm(r, s, reason)
    \/ \E r \in Requests : LoseReason(r)
    \/ CreateTask
    \/ \E r \in Requests : ReadTask(r)
    \/ \E r \in Requests, status \in {"open", "completed", "cancelled"} : SaveTask(r, status)

LeadsSpec == LeadsInit /\ [][LeadsNext]_ldVars

-----------------------------------------------------------------------------
(* Requests that overwrite each other's rows leave a lead whose dates are  *)
(* those of its status, a task whose completion date is that of its        *)
(* status, and at most one default pipeline (crm/services.py:627-645,      *)
(* crm/views.py:809-813).                                                  *)
DatesFitStatus ==
    /\ \A l \in Leads : /\ ldLead[l].won <=> ldLead[l].status = "won"
                        /\ ldLead[l].lost <=> ldLead[l].status = "lost"
    /\ ldTask.completed <=> ldTask.status = "completed"
    /\ ldPipelines <= 1

(* docs/architecture/crm-core.md: moving a terminal lead back to an active *)
(* stage clears its terminal state.  The form moves it and does not        *)
(* (crm/views.py:707-719).                                                 *)
ActiveStageIsOpen ==
    [][\A l \in Leads : /\ ldLead[l].status \in {"won", "lost"}
                        /\ ldLead'[l].stage # ldLead[l].stage
                        /\ ldType[ldLead'[l].stage] = "open" => ldLead'[l].status = "open"]_ldVars
=============================================================================
