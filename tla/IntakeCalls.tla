---------------------------- MODULE IntakeCalls -----------------------------
(***************************************************************************)
(* Voice callbacks of the legacy intake (backend/apps/intake/services:     *)
(* voice, escalation; views: voice, escalate, escalations).  The status,   *)
(* recording and transcription callbacks of one call are handlers that     *)
(* read the interaction without a lock; every statement commits by itself. *)
(***************************************************************************)
EXTENDS Naturals, FiniteSets

CONSTANTS
    Calls,              \* CallSids
    Handlers,           \* bound: callbacks handled at the same time
    MaxCallbacks        \* bound: callbacks received

VARIABLES icRow, icJobs, icEscalation, icReq, icCallbacks

icVars == <<icRow, icJobs, icEscalation, icReq, icCallbacks>>

-----------------------------------------------------------------------------
InteractionCategory == {"immediate_resolution", "job_request_intake", "review_required", "escalation"}

\* transcript: raw_content holds it; reference: what raw_content_reference names
InteractionRow == [category: InteractionCategory, transcript: BOOLEAN,
                   reference: SUBSET {"recording", "transcript"},
                   summary: BOOLEAN, job: BOOLEAN, read: BOOLEAN]
NoRow == [category |-> "none"]
EscalationRow == {"none", "unread", "read"}
Idle == [at |-> "idle"]

\* a transcript comes with its sid; flag: the platform says the call is an escalation;
\* structured job fields weigh as a summary does and are left out
Payloads == [transcript: BOOLEAN, recording: BOOLEAN, summary: BOOLEAN, flag: BOOLEAN]
References(payload) == {part \in {"recording", "transcript"} : payload[part]}

CallsTypeOK ==
    /\ \A c \in Calls : icRow[c] = NoRow \/ icRow[c] \in InteractionRow
    /\ icJobs \in [Calls -> Nat]
    /\ icEscalation \in [Calls -> EscalationRow]
    /\ \A h \in Handlers : icReq[h] = Idle \/ icReq[h].at \in {"new", "store", "update", "job", "newjob", "save"}
    /\ icCallbacks \in 0..MaxCallbacks

CallsInit ==
    /\ icRow = [c \in Calls |-> NoRow]
    /\ icJobs = [c \in Calls |-> 0]
    /\ icEscalation = [c \in Calls |-> "none"]
    /\ icReq = [h \in Handlers |-> Idle]
    /\ icCallbacks = 0

At(h, stage) == icReq[h].at = stage
Goto(h, row) == icReq' = [icReq EXCEPT ![h] = row]
End(h) == Goto(h, Idle)

-----------------------------------------------------------------------------
(* process_voice_webhook: the lookup by CallSid.                           *)
Receive(h, c, payload) ==
    /\ icReq[h] = Idle
    /\ icCallbacks < MaxCallbacks
    /\ icCallbacks' = icCallbacks + 1
    /\ IF icRow[c] = NoRow
       THEN Goto(h, [at |-> "new", call |-> c, payload |-> payload])
       ELSE /\ payload.transcript \/ payload.recording \/ payload.summary
            /\ Goto(h, [at |-> "update", call |-> c, payload |-> payload, copy |-> icRow[c]])
    /\ UNCHANGED <<icRow, icJobs, icEscalation>>

\* an error is logged and answered with 200: the platform does not send it again
HandlerFails(h) ==
    /\ icReq[h] # Idle
    /\ End(h)
    /\ UNCHANGED <<icRow, icJobs, icEscalation, icCallbacks>>

(* _is_escalation_call and classify_text.                                  *)
IsEscalationCall(c, payload) ==
    \/ payload.flag
    \/ icEscalation[c] # "none"
    \/ icRow[c].category = "escalation"

\* what classify_text may say of a text; without one the summary decides
Classes(payload) == IF payload.transcript THEN InteractionCategory
                    ELSE IF payload.summary THEN {"job_request_intake"}
                    ELSE {"review_required"}
Category(c, payload, class) == IF IsEscalationCall(c, payload) THEN "escalation" ELSE class

ClassifyNew(h, class) ==
    LET r == icReq[h] IN
    /\ At(h, "new")
    /\ class \in Classes(r.payload)
    /\ Goto(h, [at |-> "store", call |-> r.call, payload |-> r.payload,
                category |-> Category(r.call, r.payload, class)])
    /\ UNCHANGED <<icRow, icJobs, icEscalation, icCallbacks>>

\* the CallSid is unique: a second insert raises and its transcript is lost (HandlerFails)
StoreNew(h) ==
    LET r == icReq[h] IN
    /\ At(h, "store")
    /\ icRow[r.call] = NoRow
    /\ icRow' = [icRow EXCEPT ![r.call] =
           [category |-> r.category, transcript |-> r.payload.transcript, reference |-> References(r.payload),
            summary |-> r.payload.summary, job |-> FALSE, read |-> FALSE]]
    /\ IF r.category = "job_request_intake" THEN Goto(h, [at |-> "newjob", call |-> r.call]) ELSE End(h)
    /\ UNCHANGED <<icJobs, icEscalation, icCallbacks>>

-----------------------------------------------------------------------------
(* _handle_existing_interaction.                                           *)
Updated(copy, payload) == [copy EXCEPT !.transcript = @ \/ payload.transcript,
                                       !.reference = @ \cup References(payload),
                                       !.summary = @ \/ payload.summary]
Changed(copy, edited) == {f \in DOMAIN copy : copy[f] # edited[f]}

Saving(h, stage, edited) == Goto(h, [at |-> stage, call |-> icReq[h].call, edited |-> edited,
                                     fields |-> Changed(icReq[h].copy, edited)])

UpdateOnly(h) ==
    LET r == icReq[h] IN
    /\ At(h, "update")
    /\ ~(r.payload.transcript /\ r.copy.category = "review_required")
    /\ Saving(h, "save", Updated(r.copy, r.payload))
    /\ UNCHANGED <<icRow, icJobs, icEscalation, icCallbacks>>

Reclassify(h, class) ==
    LET r == icReq[h]
        category == Category(r.call, r.payload, class) IN
    /\ At(h, "update")
    /\ r.payload.transcript /\ r.copy.category = "review_required"
    /\ Saving(h, IF category = "job_request_intake" /\ ~r.copy.job THEN "job" ELSE "save",
              [Updated(r.copy, r.payload) EXCEPT !.category = category])
    /\ UNCHANGED <<icRow, icJobs, icEscalation, icCallbacks>>

(* _create_job_from_voice links the job to the interaction at once.        *)
CreateJob(h) ==
    LET r == icReq[h] IN
    /\ At(h, "job") \/ At(h, "newjob")
    /\ icJobs' = [icJobs EXCEPT ![r.call] = @ + 1]
    /\ icRow' = [icRow EXCEPT ![r.call].job = TRUE]
    /\ IF At(h, "job") THEN Goto(h, [r EXCEPT !.at = "save"]) ELSE End(h)
    /\ UNCHANGED <<icEscalation, icCallbacks>>

SaveRow(h) ==
    LET r == icReq[h] IN
    /\ At(h, "save")
    /\ icRow' = [icRow EXCEPT ![r.call] =
           [f \in DOMAIN @ |-> IF f \in r.fields THEN r.edited[f] ELSE @[f]]]
    /\ End(h)
    /\ UNCHANGED <<icJobs, icEscalation, icCallbacks>>

-----------------------------------------------------------------------------
(* create_escalation: an interaction of its own, without the CallSid as    *)
(* its provider id; and the staff's queue.                                 *)
CreateEscalation(c) ==
    /\ icEscalation[c] = "none"
    /\ icEscalation' = [icEscalation EXCEPT ![c] = "unread"]
    /\ UNCHANGED <<icRow, icJobs, icReq, icCallbacks>>

Acknowledge(c) ==
    /\ icEscalation[c] = "unread"
    /\ icEscalation' = [icEscalation EXCEPT ![c] = "read"]
    /\ UNCHANGED <<icRow, icJobs, icReq, icCallbacks>>

AcknowledgeCall(c) ==
    /\ icRow[c].category = "escalation"
    /\ ~icRow[c].read
    /\ icRow' = [icRow EXCEPT ![c].read = TRUE]
    /\ UNCHANGED <<icJobs, icEscalation, icReq, icCallbacks>>

CallsNext ==
    \/ \E h \in Handlers, c \in Calls, payload \in Payloads : Receive(h, c, payload)
    \/ \E h \in Handlers, class \in InteractionCategory : ClassifyNew(h, class) \/ Reclassify(h, class)
    \/ \E h \in Handlers : HandlerFails(h) \/ StoreNew(h) \/ UpdateOnly(h) \/ CreateJob(h) \/ SaveRow(h)
    \/ \E c \in Calls : CreateEscalation(c) \/ Acknowledge(c) \/ AcknowledgeCall(c)

CallsSpec == CallsInit /\ [][CallsNext]_icVars

-----------------------------------------------------------------------------
(* Callbacks of a call overlap and save columns of stale copies: what one  *)
(* of them stored of the call (transcript, summary, the link to its job)   *)
(* no other erases.                                                        *)
Kept == {"transcript", "summary", "job"}
DetailsKept == \A c \in Calls, f \in Kept : icRow[c] # NoRow /\ icRow[c][f] => icRow'[c][f]
CallDetailsStay == [][DetailsKept]_icVars

(* voice.py:9: "The endpoint is idempotent per CallSid": a call becomes    *)
(* one job at most.                                                        *)
OneJobPerCall == \A c \in Calls : icJobs[c] <= 1

(* voice.py:67-68: a call that is an escalation "must NOT create a job".   *)
EscalationIsNoJob == [][\A c \in Calls : icEscalation[c] # "none" => icJobs'[c] = icJobs[c]]_icVars
=============================================================================
