------------------------------ MODULE Workspace -----------------------------
(***************************************************************************)
(* The rest of the workspace: the CRM and its leads, members and accounts, *)
(* the assistant's profile and its tools, the platform staff, the legacy   *)
(* intake and jobs, metering and payments.  They share no row: the part    *)
(* that runs is chosen at the start, and a behaviour is one of that part.  *)
(***************************************************************************)
EXTENDS Naturals, FiniteSets, Sequences

CONSTANTS
    Parts,              \* the parts to explore
    Actors,             \* the requests, handlers or workers at work
    Contacts, Deliveries, Editors, ClientKeys, Verdicts,    \* CRM
    Stages, LeadRows,                                       \* leads
    Users, Creator, Invitations, MaxMembers,                \* members
    Tokens, Resets, MaxPasswords,                           \* accounts
    Texts, Empty, MaxVersion, Steps,                        \* the assistant's profile
    Staff, Founders, Holder, Sessions, MaxSecret, MaxTime,  \* platform access
    Kinds, ControlRows,                                     \* controls
    Approvers, OwnerStaff,                                  \* requests to the platform
    JobRows, Statuses, MaxEdits,                            \* legacy jobs
    RowLocks, Sids, MaxThreads, MAX_TOOL_ITERATIONS,        \* legacy intake: chat
    CallSids, MaxCallbacks,                                 \* calls
    Mails, Unnamed, Places, MaxRows,                        \* mail
    Messages, Meters, Included, MaxPeriod, MaxInvoices,     \* usage
    Events, MaxAttempts,                                    \* payments
    ToolNames, MaxRounds, MaxProposed, MaxCalls             \* tools

ASSUME CrmAssumption == IsFiniteSet(Deliveries) /\ "sent" \in Verdicts

ASSUME MembersAssumption == Creator \in Users

ASSUME AccountsAssumption == MaxPasswords \in Nat

\* "none" stands for no revision, which is not a text
ASSUME ContextAssumption == MaxVersion \in Nat /\ Empty \in Texts /\ "none" \notin Texts

ASSUME AccessAssumption == MaxSecret \in Nat /\ MaxTime \in Nat /\ Holder \in Staff

VARIABLES
    focus,              \* the part that runs
    row1, row2, row3, row4, row5, row6, row7, row8     \* its variables

Crm == INSTANCE Crm WITH
    Keys <- ClientKeys, Workers <- Actors,
    crContact <- row1, crOwner <- row2, crConv <- row3, crSeen <- row4,
    crWork <- row5, crEdit <- row6, crOut <- row7

Leads == INSTANCE CrmLeads WITH
    Leads <- LeadRows, Requests <- Actors,
    ldPipelines <- row1, ldType <- row2, ldLead <- row3, ldTask <- row4,
    ldRead <- row5

Members == INSTANCE Organizations WITH
    Requests <- Actors,
    orMember <- row1, orInvite <- row2, orReq <- row3

Accounts == INSTANCE Accounts WITH
    Requests <- Actors,
    acUser <- row1, acToken <- row2, acReset <- row3, acReq <- row4

Context == INSTANCE AssistantContext WITH
    Requests <- Actors,
    asProfile <- row1, asRevision <- row2, asSteps <- row3, asBranch <- row4,
    asRead <- row5

Access == INSTANCE PlatformAccess WITH
    Requests <- Actors,
    paStaff <- row1, paSession <- row2, paDevice <- row3, paNow <- row4,
    paUsed <- row5, paReq <- row6

Controls == INSTANCE ControlPlane WITH
    Controls <- ControlRows, Requests <- Actors,
    cpOrg <- row1, cpControl <- row2, cpRun <- row3, cpJob <- row4,
    cpReq <- row5

ASSUME ControlsAssumption == Kinds \subseteq Controls!ControlKind

DataRequests == INSTANCE PlatformRequests WITH
    Staff <- Approvers, Owners <- OwnerStaff, Requests <- Actors,
    rqPrivacy <- row1, rqJob <- row2, rqIncident <- row3, rqReq <- row4

Jobs == INSTANCE Jobs WITH
    Jobs <- JobRows, Requests <- Actors,
    jbJob <- row1, jbCounter <- row2, jbLead <- row3, jbReq <- row4,
    jbEdits <- row5

ASSUME JobsAssumption == Statuses \subseteq Jobs!JobStatus /\ MaxEdits \in Nat

\* the lock of the counter is free when "" holds it
ASSUME LockAssumption == "" \notin Actors

Chat == INSTANCE IntakeChat WITH
    Handlers <- Actors,
    ihContacts <- row1, ihThread <- row2, ihRow <- row3, ihRuns <- row4,
    ihSent <- row5, ihJobs <- row6, ihEscalated <- row7, ihReq <- row8

ASSUME ChatAssumption == MAX_TOOL_ITERATIONS \in Nat

Calls == INSTANCE IntakeCalls WITH
    Calls <- CallSids, Handlers <- Actors,
    icRow <- row1, icJobs <- row2, icEscalation <- row3, icReq <- row4,
    icCallbacks <- row5

ASSUME CallsAssumption == MaxCallbacks \in Nat

Mail == INSTANCE IntakeMail WITH
    Handlers <- Actors,
    imContact <- row1, imRow <- row2, imReq <- row3

ASSUME MailAssumption == MaxRows \in Nat

Usage == INSTANCE Usage WITH
    Requests <- Actors,
    usEvent <- row1, usTotal <- row2, usPeriod <- row3, usInvoice <- row4,
    usReq <- row5

ASSUME UsageAssumption ==
    /\ IsFiniteSet(Messages) /\ Meters \in Seq(STRING) /\ Meters # <<>>
    /\ Included \in Nat /\ MaxPeriod \in Nat /\ MaxInvoices \in Nat

Payments == INSTANCE Payments WITH
    Handlers <- Actors,
    pvInvoice <- row1, pvAttempt <- row2, pvEvent <- row3, pvSub <- row4,
    pvReq <- row5

ASSUME PaymentsAssumption == MaxAttempts \in Nat

Tools == INSTANCE AITools WITH
    Workers <- Actors, Tools <- ToolNames,
    tlRun <- row1, tlCall <- row2, tlEffect <- row3, tlPolicy <- row4,
    tlTalk <- row5, tlWork <- row6

ASSUME ToolsAssumption == MaxRounds \in Nat /\ MaxProposed \in Nat /\ MaxCalls \in Nat

-----------------------------------------------------------------------------
vars == <<focus, row1, row2, row3, row4, row5, row6, row7, row8>>

\* the variables a part with n of its own leaves empty
Empty3 == row4 = <<>> /\ row5 = <<>> /\ row6 = <<>> /\ row7 = <<>> /\ row8 = <<>>
Empty4 == row5 = <<>> /\ row6 = <<>> /\ row7 = <<>> /\ row8 = <<>>
Empty5 == row6 = <<>> /\ row7 = <<>> /\ row8 = <<>>
Empty6 == row7 = <<>> /\ row8 = <<>>
Empty7 == row8 = <<>>

Keep3 == UNCHANGED <<focus, row4, row5, row6, row7, row8>>
Keep4 == UNCHANGED <<focus, row5, row6, row7, row8>>
Keep5 == UNCHANGED <<focus, row6, row7, row8>>
Keep6 == UNCHANGED <<focus, row7, row8>>
Keep7 == UNCHANGED <<focus, row8>>
Keep8 == UNCHANGED <<focus>>

WorkspaceInit ==
    \/ focus = "crm" /\ focus \in Parts /\ Crm!CrmInit /\ Empty7
    \/ focus = "leads" /\ focus \in Parts /\ Leads!LeadsInit /\ Empty5
    \/ focus = "members" /\ focus \in Parts /\ Members!MembersInit /\ Empty3
    \/ focus = "accounts" /\ focus \in Parts /\ Accounts!AccountsInit /\ Empty4
    \/ focus = "context" /\ focus \in Parts /\ Context!ContextInit /\ Empty5
    \/ focus = "access" /\ focus \in Parts /\ Access!PlatformInit /\ Empty6
    \/ focus = "controls" /\ focus \in Parts /\ Controls!ControlInit /\ Empty5
    \/ focus = "data_requests" /\ focus \in Parts /\ DataRequests!RequestsInit /\ Empty4
    \/ focus = "jobs" /\ focus \in Parts /\ Jobs!JobsInit /\ Empty5
    \/ focus = "chat" /\ focus \in Parts /\ Chat!ChatInit
    \/ focus = "calls" /\ focus \in Parts /\ Calls!CallsInit /\ Empty5
    \/ focus = "mail" /\ focus \in Parts /\ Mail!MailInit /\ Empty3
    \/ focus = "usage" /\ focus \in Parts /\ Usage!UsageInit /\ Empty5
    \/ focus = "payments" /\ focus \in Parts /\ Payments!PaymentsInit /\ Empty5
    \/ focus = "tools" /\ focus \in Parts /\ Tools!AIToolsInit /\ Empty6

CrmSteps ==
    \/ \E w \in Actors, d \in Deliveries : focus = "crm" /\ Crm!IngestBegin(w, d) /\ Keep7
    \/ \E w \in Actors : focus = "crm" /\ Crm!IngestRefused(w) /\ Keep7
    \/ \E w \in Actors, c \in Contacts : focus = "crm" /\ Crm!IngestCommit(w, c) /\ Keep7
    \/ \E c \in Contacts : focus = "crm" /\ Crm!CreateContact(c) /\ Keep7
    \/ \E c \in Contacts : focus = "crm" /\ Crm!AddIdentity(c) /\ Keep7
    \/ \E e \in Editors, c \in Contacts : focus = "crm" /\ Crm!EditContactBegin(e, c) /\ Keep7
    \/ \E c, t \in Contacts : focus = "crm" /\ Crm!Merge(c, t) /\ Keep7
    \/ \E e \in Editors, status \in {"active", "archived"} :
           focus = "crm" /\ Crm!EditContactSave(e, status) /\ Keep7
    \/ focus = "crm" /\ Crm!RemoveIdentity /\ Keep7
    \/ \E e \in Editors : focus = "crm" /\ Crm!EditSettingsBegin(e) /\ Keep7
    \/ \E e \in Editors : focus = "crm" /\ Crm!EditSettingsSave(e) /\ Keep7
    \/ focus = "crm" /\ Crm!MarkRead /\ Keep7
    \/ focus = "crm" /\ Crm!ResumeAI /\ Keep7
    \/ \E k \in ClientKeys : focus = "crm" /\ Crm!Send(k) /\ Keep7
    \/ \E status \in {"open", "resolved"} : focus = "crm" /\ Crm!SetStatus(status) /\ Keep7
    \/ \E k \in ClientKeys, status \in Verdicts :
           focus = "crm" /\ Crm!DeliveryUpdate(k, status) /\ Keep7

LeadsSteps ==
    \/ \E r \in Actors : focus = "leads" /\ Leads!DefaultPipelineBegin(r) /\ Keep5
    \/ \E r \in Actors : focus = "leads" /\ Leads!DefaultPipelineCreate(r) /\ Keep5
    \/ \E r \in Actors, l \in LeadRows : focus = "leads" /\ Leads!ReadLead(r, l) /\ Keep5
    \/ \E r \in Actors : focus = "leads" /\ Leads!LoseReason(r) /\ Keep5
    \/ \E r \in Actors : focus = "leads" /\ Leads!ReadTask(r) /\ Keep5
    \/ \E s \in Stages, type \in Leads!StageTypes :
           focus = "leads" /\ Leads!ChangeStageType(s, type) /\ Keep5
    \/ \E r \in Actors, b \in BOOLEAN : focus = "leads" /\ Leads!CreateBegin(r, b) /\ Keep5
    \/ \E r \in Actors, l \in LeadRows, s \in Stages :
           focus = "leads" /\ Leads!CreateSave(r, l, s) /\ Keep5
    \/ \E r \in Actors, s \in Stages : focus = "leads" /\ Leads!Move(r, s) /\ Keep5
    \/ \E r \in Actors, s \in Stages : focus = "leads" /\ Leads!Win(r, s) /\ Keep5
    \/ \E r \in Actors, s \in Stages : focus = "leads" /\ Leads!LoseMove(r, s) /\ Keep5
    \/ \E r \in Actors, s \in Stages, b \in BOOLEAN :
           focus = "leads" /\ Leads!SaveForm(r, s, b) /\ Keep5
    \/ focus = "leads" /\ Leads!CreateTask /\ Keep5
    \/ \E r \in Actors, status \in {"open", "completed", "cancelled"} :
           focus = "leads" /\ Leads!SaveTask(r, status) /\ Keep5

MembersSteps ==
    \/ \E r \in Actors, a, u \in Users, role \in Members!Roles :
           focus = "members" /\ Members!AskChange(r, a, u, role, Members!Same) /\ Keep3
    \/ \E r \in Actors, a, u \in Users, status \in {"active", "suspended"} :
           focus = "members" /\ Members!AskChange(r, a, u, Members!Same, status) /\ Keep3
    \/ \E r \in Actors, a, u \in Users :
           focus = "members" /\ Members!AskSuspend(r, a, u) /\ Keep3
    \/ \E r \in Actors : focus = "members" /\ Members!CountOwners(r) /\ Keep3
    \/ \E r \in Actors : focus = "members" /\ Members!SaveMember(r) /\ Keep3
    \/ \E r \in Actors, i \in Invitations : focus = "members" /\ Members!InviteSave(r, i) /\ Keep3
    \/ \E r \in Actors : focus = "members" /\ Members!RevokeSave(r) /\ Keep3
    \/ \E a, u \in Users, role \in Members!Roles :
           focus = "members" /\ Members!CreateMember(a, u, role) /\ Keep3
    \/ \E r \in Actors, a, u \in Users, role \in Members!Invitable :
           focus = "members" /\ Members!InviteBegin(r, a, u, role) /\ Keep3
    \/ \E r \in Actors, a \in Users, i \in Invitations :
           focus = "members" /\ Members!RevokeBegin(r, a, i) /\ Keep3
    \/ \E i \in Invitations : focus = "members" /\ Members!Accept(i) /\ Keep3
    \/ \E i \in Invitations : focus = "members" /\ Members!Expire(i) /\ Keep3

AccountsSteps ==
    \/ \E t \in Tokens : focus = "accounts" /\ Accounts!Register(t) /\ Keep4
    \/ focus = "accounts" /\ Accounts!CreatedByManager /\ Keep4
    \/ focus = "accounts" /\ Accounts!SetActive /\ Keep4
    \/ focus = "accounts" /\ Accounts!SetBlocked /\ Keep4
    \/ \E r \in Actors : focus = "accounts" /\ Accounts!LoginBegin(r) /\ Keep4
    \/ \E r \in Actors : focus = "accounts" /\ Accounts!ChangeBegin(r) /\ Keep4
    \/ \E r \in Actors : focus = "accounts" /\ Accounts!ChangeEnd(r) /\ Keep4
    \/ \E r \in Actors, t \in Tokens :
           focus = "accounts" /\ Accounts!LoginEnd(r, t) /\ Keep4
    \/ \E r \in Actors, t \in Tokens :
           focus = "accounts" /\ Accounts!RefreshBegin(r, t) /\ Keep4
    \/ \E r \in Actors, t \in Tokens :
           focus = "accounts" /\ Accounts!RefreshEnd(r, t) /\ Keep4
    \/ \E t \in Tokens, b \in BOOLEAN :
           focus = "accounts" /\ Accounts!Logout(t, b) /\ Keep4
    \/ \E l \in Resets : focus = "accounts" /\ Accounts!RequestReset(l) /\ Keep4
    \/ \E l \in Resets : focus = "accounts" /\ Accounts!ResetExpires(l) /\ Keep4
    \/ \E l \in Resets : focus = "accounts" /\ Accounts!ConfirmReset(l) /\ Keep4

ContextSteps ==
    \/ focus = "context" /\ Context!Publish /\ Keep5
    \/ \E r \in Actors : focus = "context" /\ Context!EditBegin(r) /\ Keep5
    \/ \E r \in Actors : focus = "context" /\ Context!OnboardingBegin(r) /\ Keep5
    \/ \E r \in Actors, t \in Texts :
           focus = "context" /\ Context!EditSave(r, t) /\ Keep5
    \/ \E r \in Actors, t \in Texts, s \in Steps, b \in BOOLEAN :
           focus = "context" /\ Context!OnboardingSave(r, t, s, b) /\ Keep5
    \/ \E r \in Actors, t \in Texts, b \in BOOLEAN :
           focus = "context" /\ Context!OnboardingComplete(r, t, b) /\ Keep5

AccessSteps ==
    \/ \E r \in Actors, s \in Staff :
           focus = "access" /\ Access!LoginBegin(r, s) /\ Keep6
    \/ \E r \in Actors, x \in Sessions : focus = "access" /\ Access!LoginEnd(r, x) /\ Keep6
    \/ \E r \in Actors, x \in Sessions : focus = "access" /\ Access!Authenticate(r, x) /\ Keep6
    \/ \E r \in Actors, x \in Sessions : focus = "access" /\ Access!SessionRevoke(r, x) /\ Keep6
    \/ \E r \in Actors : focus = "access" /\ Access!UpdateCommit(r) /\ Keep6
    \/ \E r \in Actors : focus = "access" /\ Access!SetupBegin(r) /\ Keep6
    \/ \E r \in Actors : focus = "access" /\ Access!SetupEnd(r) /\ Keep6
    \/ \E r \in Actors : focus = "access" /\ Access!VerifyCode(r) /\ Keep6
    \/ \E r \in Actors : focus = "access" /\ Access!VerifyEnd(r) /\ Keep6
    \/ \E r \in Actors : focus = "access" /\ Access!Done(r) /\ Keep6
    \/ \E x \in Sessions : focus = "access" /\ Access!AuthenticationEnds(x) /\ Keep6
    \/ \E x \in Sessions : focus = "access" /\ Access!SessionEnds(x) /\ Keep6
    \/ \E x \in Sessions : focus = "access" /\ Access!MfaStale(x) /\ Keep6
    \/ focus = "access" /\ Access!Tick /\ Keep6
    \/ \E r \in Actors, s \in Staff, role \in Access!PlatformRole :
           focus = "access" /\ Access!StaffCreate(r, s, role) /\ Keep6
    \/ \E r \in Actors, s \in Staff, row \in Access!StaffRow :
           focus = "access" /\ Access!UpdateBegin(r, s, row) /\ Keep6
    \/ \E r \in Actors, code \in Access!Codes :
           focus = "access" /\ Access!VerifyBegin(r, code) /\ Keep6

ControlsSteps ==
    \/ focus = "controls" /\ Controls!Suspend /\ Keep5
    \/ focus = "controls" /\ Controls!Reactivate /\ Keep5
    \/ focus = "controls" /\ Controls!Execute /\ Keep5
    \/ focus = "controls" /\ Controls!RetryJob /\ Keep5
    \/ focus = "controls" /\ Controls!CancelJob /\ Keep5
    \/ focus = "controls" /\ Controls!AcknowledgeJob /\ Keep5
    \/ \E flag \in Controls!Flags :
           focus = "controls" /\ Controls!Disable(flag) /\ Keep5
    \/ \E r \in Actors, kind \in Kinds :
           focus = "controls" /\ Controls!ActivateBegin(r, kind) /\ Keep5
    \/ \E r \in Actors, c \in ControlRows :
           focus = "controls" /\ Controls!ActivateEnd(r, c) /\ Keep5
    \/ \E c \in ControlRows : focus = "controls" /\ Controls!ControlExpires(c) /\ Keep5
    \/ \E c \in ControlRows : focus = "controls" /\ Controls!RestoreControl(c) /\ Keep5
    \/ \E r \in Actors : focus = "controls" /\ Controls!QueueBegin(r) /\ Keep5
    \/ \E r \in Actors : focus = "controls" /\ Controls!QueueEnd(r) /\ Keep5
    \/ \E status \in {"waiting", "done"} :
           focus = "controls" /\ Controls!Finish(status) /\ Keep5
    \/ \E status \in {"failed", "dead_letter"} :
           focus = "controls" /\ Controls!JobFails(status) /\ Keep5

DataRequestsSteps ==
    \/ \E r \in Actors, type \in DataRequests!DataRequestType :
           focus = "data_requests" /\ DataRequests!CreateBegin(r, type) /\ Keep4
    \/ \E r \in Actors : focus = "data_requests" /\ DataRequests!CreateEnd(r) /\ Keep4
    \/ \E r \in Actors : focus = "data_requests" /\ DataRequests!IncidentEnd(r) /\ Keep4
    \/ focus = "data_requests" /\ DataRequests!VerifyIdentity /\ Keep4
    \/ focus = "data_requests" /\ DataRequests!Reject /\ Keep4
    \/ focus = "data_requests" /\ DataRequests!RunApproved /\ Keep4
    \/ focus = "data_requests" /\ DataRequests!LinkExpires /\ Keep4
    \/ \E s \in Approvers :
           focus = "data_requests" /\ DataRequests!Approve(s) /\ Keep4
    \/ \E severity \in {"low", "critical"} :
           focus = "data_requests" /\ DataRequests!IncidentCreate(severity) /\ Keep4
    \/ \E r \in Actors, role \in {"operations", "admin"}, sev \in {"low", "critical"}, t \in {"open", "resolved"} :
           focus = "data_requests" /\ DataRequests!IncidentBegin(r, role, sev, t) /\ Keep4

JobsSteps ==
    \/ \E r \in Actors : focus = "jobs" /\ Jobs!CreateBegin(r) /\ Keep5
    \/ \E r \in Actors : focus = "jobs" /\ Jobs!CreateFails(r) /\ Keep5
    \/ \E r \in Actors : focus = "jobs" /\ Jobs!UpdatePriority(r) /\ Keep5
    \/ \E r \in Actors : focus = "jobs" /\ Jobs!SetSeen(r) /\ Keep5
    \/ \E r \in Actors : focus = "jobs" /\ Jobs!UnscheduleJob(r) /\ Keep5
    \/ \E r \in Actors : focus = "jobs" /\ Jobs!MarkReadyToSchedule(r) /\ Keep5
    \/ \E r \in Actors : focus = "jobs" /\ Jobs!ReopenJob(r) /\ Keep5
    \/ \E r \in Actors : focus = "jobs" /\ Jobs!EditDropped(r) /\ Keep5
    \/ \E r \in Actors, j \in JobRows, b, n, q \in BOOLEAN :
           focus = "jobs" /\ Jobs!CreateEnd(r, j, b, n, q) /\ Keep5
    \/ \E r \in Actors, j \in JobRows : focus = "jobs" /\ Jobs!EditBegin(r, j) /\ Keep5
    \/ \E r \in Actors, status \in Statuses :
           focus = "jobs" /\ Jobs!UpdateStatus(r, status) /\ Keep5
    \/ \E r \in Actors, b \in BOOLEAN : focus = "jobs" /\ Jobs!ScheduleJob(r, b, "") /\ Keep5
    \/ \E r \in Actors, b \in BOOLEAN :
           focus = "jobs" /\ Jobs!ScheduleJob(r, b, row3) /\ Keep5
    \/ \E r \in Actors, b \in BOOLEAN, po \in Jobs!PoRecStatus :
           focus = "jobs" /\ Jobs!UpdatePoRec(r, b, po) /\ Keep5
    \/ \E r \in Actors, b, n \in BOOLEAN :
           focus = "jobs" /\ Jobs!UpdateFields(r, b, n) /\ Keep5
    \/ \E r \in Actors, b \in BOOLEAN : focus = "jobs" /\ Jobs!Assign(r, b) /\ Keep5
    \/ focus = "jobs" /\ Jobs!RenameLead /\ Keep5

ChatSteps ==
    \/ \E h \in Actors, s \in Sids : focus = "chat" /\ Chat!Receive(h, s) /\ Keep8
    \/ \E h \in Actors : focus = "chat" /\ Chat!HandlerFails(h) /\ Keep8
    \/ \E h \in Actors : focus = "chat" /\ Chat!FindContact(h) /\ Keep8
    \/ \E h \in Actors : focus = "chat" /\ Chat!CreateContact(h) /\ Keep8
    \/ \E h \in Actors : focus = "chat" /\ Chat!FindThread(h) /\ Keep8
    \/ \E h \in Actors : focus = "chat" /\ Chat!OpenThread(h) /\ Keep8
    \/ \E h \in Actors : focus = "chat" /\ Chat!StoreInteraction(h) /\ Keep8
    \/ \E n \in 1 .. MaxThreads : focus = "chat" /\ Chat!ThreadAges(n) /\ Keep8
    \/ \E h \in Actors : focus = "chat" /\ Chat!SendSms(h) /\ Keep8
    \/ \E h \in Actors : focus = "chat" /\ Chat!FinishAndSubmit(h) /\ Keep8
    \/ \E h \in Actors : focus = "chat" /\ Chat!ToolContinues(h) /\ Keep8
    \/ \E h \in Actors : focus = "chat" /\ Chat!EscalateChat(h) /\ Keep8
    \/ \E h \in Actors : focus = "chat" /\ Chat!AgentStops(h) /\ Keep8
    \/ \E h \in Actors, b \in BOOLEAN : focus = "chat" /\ Chat!CloseChat(h, b) /\ Keep8

CallsSteps ==
    \/ \E h \in Actors, c \in CallSids, p \in Calls!Payloads :
           focus = "calls" /\ Calls!Receive(h, c, p) /\ Keep5
    \/ \E h \in Actors, class \in Calls!InteractionCategory :
           focus = "calls" /\ Calls!ClassifyNew(h, class) /\ Keep5
    \/ \E h \in Actors, class \in Calls!InteractionCategory :
           focus = "calls" /\ Calls!Reclassify(h, class) /\ Keep5
    \/ \E h \in Actors : focus = "calls" /\ Calls!HandlerFails(h) /\ Keep5
    \/ \E h \in Actors : focus = "calls" /\ Calls!StoreNew(h) /\ Keep5
    \/ \E h \in Actors : focus = "calls" /\ Calls!UpdateOnly(h) /\ Keep5
    \/ \E h \in Actors : focus = "calls" /\ Calls!CreateJob(h) /\ Keep5
    \/ \E h \in Actors : focus = "calls" /\ Calls!SaveRow(h) /\ Keep5
    \/ \E c \in CallSids : focus = "calls" /\ Calls!CreateEscalation(c) /\ Keep5
    \/ \E c \in CallSids : focus = "calls" /\ Calls!Acknowledge(c) /\ Keep5
    \/ \E c \in CallSids : focus = "calls" /\ Calls!AcknowledgeCall(c) /\ Keep5

MailSteps ==
    \/ \E h \in Actors, m \in Mails, a \in Mail!Askers, b \in BOOLEAN :
           focus = "mail" /\ Mail!Receive(h, m, a, b) /\ Keep3
    \/ \E h \in Actors : focus = "mail" /\ Mail!FindContact(h) /\ Keep3
    \/ \E h \in Actors : focus = "mail" /\ Mail!CreateContact(h) /\ Keep3
    \/ \E h \in Actors : focus = "mail" /\ Mail!HandlerFails(h) /\ Keep3
    \/ \E h \in Actors, a \in Mail!Askers : \E row \in Mail!Outcomes[a] :
           focus = "mail" /\ Mail!Store(h, a, row) /\ Keep3

UsageSteps ==
    \/ \E r \in Actors, m \in Messages :
           focus = "usage" /\ Usage!RecordBegin(r, m) /\ Keep5
    \/ \E r \in Actors : focus = "usage" /\ Usage!RecordInsert(r) /\ Keep5
    \/ \E r \in Actors : focus = "usage" /\ Usage!RecordLock(r) /\ Keep5
    \/ \E r \in Actors : focus = "usage" /\ Usage!RecordCommit(r) /\ Keep5
    \/ \E r \in Actors : focus = "usage" /\ Usage!RequestDies(r) /\ Keep5
    \/ \E r \in Actors, n \in DOMAIN Meters : focus = "usage" /\ Usage!ReconcileLock(r, n) /\ Keep5
    \/ \E r \in Actors : focus = "usage" /\ Usage!ReconcileBegin(r) /\ Keep5
    \/ \E r \in Actors : focus = "usage" /\ Usage!ReconcileCommit(r) /\ Keep5
    \/ \E r \in Actors : focus = "usage" /\ Usage!InvoiceBegin(r) /\ Keep5
    \/ \E r \in Actors : focus = "usage" /\ Usage!InvoiceCommit(r) /\ Keep5
    \/ focus = "usage" /\ Usage!Renew /\ Keep5

PaymentsSteps ==
    \/ focus = "payments" /\ Payments!CheckoutAgain /\ Keep5
    \/ focus = "payments" /\ Payments!Checkout /\ Keep5
    \/ focus = "payments" /\ Payments!StaffMarksPaid /\ Keep5
    \/ focus = "payments" /\ Payments!Issue /\ Keep5
    \/ focus = "payments" /\ Payments!Void /\ Keep5
    \/ focus = "payments" /\ Payments!ExpireGrace /\ Keep5
    \/ \E h \in Actors, e \in Events :
           focus = "payments" /\ Payments!Receive(h, e) /\ Keep5
    \/ \E h \in Actors : focus = "payments" /\ Payments!Ignore(h) /\ Keep5
    \/ \E h \in Actors : focus = "payments" /\ Payments!Mismatch(h) /\ Keep5
    \/ \E h \in Actors : focus = "payments" /\ Payments!ReadInvoice(h) /\ Keep5
    \/ \E h \in Actors : focus = "payments" /\ Payments!ApplyPaid(h) /\ Keep5
    \/ \E h \in Actors : focus = "payments" /\ Payments!ApplyRefused(h) /\ Keep5
    \/ \E h \in Actors : focus = "payments" /\ Payments!PickAttempt(h) /\ Keep5
    \/ \E h \in Actors : focus = "payments" /\ Payments!ApplyFailed(h) /\ Keep5
    \/ \E h \in Actors : focus = "payments" /\ Payments!HandlerDies(h) /\ Keep5

ToolsSteps ==
    \/ \E w \in Actors : focus = "tools" /\ Tools!Begin(w) /\ Keep6
    \/ \E w \in Actors : focus = "tools" /\ Tools!Context(w) /\ Keep6
    \/ \E w \in Actors : focus = "tools" /\ Tools!Answered(w) /\ Keep6
    \/ \E w \in Actors : focus = "tools" /\ Tools!Propose(w) /\ Keep6
    \/ \E w \in Actors : focus = "tools" /\ Tools!Handle(w) /\ Keep6
    \/ \E w \in Actors : focus = "tools" /\ Tools!Execute(w) /\ Keep6
    \/ \E w \in Actors : focus = "tools" /\ Tools!ExecuteFails(w) /\ Keep6
    \/ \E w \in Actors : focus = "tools" /\ Tools!EndRound(w) /\ Keep6
    \/ \E w \in Actors : focus = "tools" /\ Tools!WorkerLost(w) /\ Keep6
    \/ focus = "tools" /\ Tools!HumanReply /\ Keep6
    \/ focus = "tools" /\ Tools!Pause /\ Keep6
    \/ \E t \in ToolNames, mode \in Tools!Modes : focus = "tools" /\ Tools!ChangePolicy(t, mode) /\ Keep6
    \/ \E c \in 1 .. MaxCalls : focus = "tools" /\ Tools!Approve(c) /\ Keep6
    \/ \E c \in 1 .. MaxCalls : focus = "tools" /\ Tools!ApproveFails(c) /\ Keep6
    \/ \E c \in 1 .. MaxCalls : focus = "tools" /\ Tools!Reject(c) /\ Keep6

WorkspaceNext ==
    \/ CrmSteps
    \/ LeadsSteps
    \/ MembersSteps
    \/ AccountsSteps
    \/ ContextSteps
    \/ AccessSteps
    \/ ControlsSteps
    \/ DataRequestsSteps
    \/ JobsSteps
    \/ ChatSteps
    \/ CallsSteps
    \/ MailSteps
    \/ UsageSteps
    \/ PaymentsSteps
    \/ ToolsSteps

WorkspaceSpec == WorkspaceInit /\ [][WorkspaceNext]_vars

-----------------------------------------------------------------------------
(* Every part keeps its rows within what its models allow.                 *)
WorkspaceTypeOK ==
    CASE focus = "crm" -> Crm!CrmTypeOK
      [] focus = "leads" -> Leads!LeadsTypeOK
      [] focus = "members" -> Members!MembersTypeOK
      [] focus = "accounts" -> Accounts!AccountsTypeOK
      [] focus = "context" -> Context!ContextTypeOK
      [] focus = "access" -> Access!PlatformTypeOK
      [] focus = "controls" -> Controls!ControlTypeOK
      [] focus = "data_requests" -> DataRequests!RequestsTypeOK
      [] focus = "jobs" -> Jobs!JobsTypeOK
      [] focus = "chat" -> Chat!ChatTypeOK
      [] focus = "calls" -> Calls!CallsTypeOK
      [] focus = "mail" -> Mail!MailTypeOK
      [] focus = "usage" -> Usage!UsageTypeOK
      [] focus = "payments" -> Payments!PaymentsTypeOK
      [] focus = "tools" -> Tools!AIToolsTypeOK

(* A provider delivers a message several times and at once: the unread     *)
(* counter of the conversation counts stored messages (backend/apps/crm).  *)
UnreadIsStored == focus = "crm" => Crm!UnreadIsStored

(* Rows that several requests write agree: a lead has the dates of its     *)
(* status, a job the schedule of its status and a number of its own, the   *)
(* published profile of an assistant the revision stored under its number. *)
RowsAgree ==
    /\ focus = "leads" => Leads!DatesFitStatus
    /\ focus = "jobs" => Jobs!JobRowsAgree
    /\ focus = "context" => Context!SnapshotIsRevision

(* What is good for one use has one: an invitation makes one member, a     *)
(* reset link changes one password, a code of an authenticator one login.  *)
SecretsWorkOnce ==
    /\ focus = "members" => Members!InvitedOnce
    /\ focus = "accounts" => Accounts!ResetOnce
    /\ focus = "access" => Access!CodeOnce

(* The platform staff: a suspended organization gets back the status it    *)
(* had, a deletion has two approvals (backend/apps/control_plane).         *)
GovernanceHolds ==
    /\ focus = "controls" => Controls!ReactivationRestores
    /\ focus = "data_requests" => DataRequests!DestructiveNeedsTwo

(* Money is counted once: a total of usage never exceeds the events it     *)
(* counts, none of them a correction, and no two attempts pay an invoice   *)
(* (backend/apps/billing).                                                 *)
CountedOnce ==
    /\ focus = "usage" => Usage!UsageNotOverstated
    /\ focus = "payments" => Payments!PaidOnce

(* A message, a mail and an approved tool call are acted on once, whatever *)
(* is delivered or approved twice, and the gates of a mail agree with it.  *)
HandledOnce ==
    /\ focus = "chat" => Chat!AgentRunsOnce
    /\ focus = "mail" => Mail!MailFiledOnce /\ Mail!GatesAgree
    /\ focus = "tools" => Tools!ActsOnce

(* What is decided stands: a late callback takes nothing from the details  *)
(* of a call, and a tool call that was executed or refused stays so.       *)
VerdictsStand ==
    [][/\ focus = "calls" => Calls!DetailsKept
       /\ focus = "tools" => Tools!DecidedStay]_vars
=============================================================================
