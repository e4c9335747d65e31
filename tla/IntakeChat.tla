----------------------------- MODULE IntakeChat -----------------------------
(***************************************************************************)
(* The legacy SMS assistant (backend/apps/intake/services/sms_chat): one   *)
(* phone number, its threads and the webhook handlers at work for it.  No  *)
(* caller opens a transaction around handle_inbound_sms: on a database     *)
(* with row locks select_for_update raises and the view answers 200; on    *)
(* SQLite the call locks nothing and every statement commits by itself.    *)
(* History messages are left out but for the failures they can cause.      *)
(***************************************************************************)
EXTENDS Naturals, Sequences, FiniteSets

CONSTANTS
    RowLocks,           \* the database implements SELECT ... FOR UPDATE
    Sids,               \* MessageSids of the texts of this phone
    Handlers,           \* bound: webhook handlers at the same time
    MaxThreads,         \* bound: threads of the phone
    MAX_TOOL_ITERATIONS

VARIABLES ihContacts, ihThread, ihRow, ihRuns, ihSent, ihJobs, ihEscalated, ihReq

ihVars == <<ihContacts, ihThread, ihRow, ihRuns, ihSent, ihJobs, ihEscalated, ihReq>>

-----------------------------------------------------------------------------
\* old: its last message is SESSION_TIMEOUT_HOURS ago
ThreadRow == [open: BOOLEAN, old: BOOLEAN, job: BOOLEAN]
NoRow == [contact |-> 0, linked |-> FALSE]
Idle == [at |-> "idle"]
Stage == {"contact", "create", "thread", "open", "store", "agent"}

ChatTypeOK ==
    /\ ihContacts \in Nat
    /\ ihThread \in Seq(ThreadRow)
    /\ ihRow \in [Sids -> [contact: Nat, linked: BOOLEAN]]
    /\ ihRuns \in [Sids -> Nat]
    /\ ihSent \in [Sids -> 0..1] /\ ihJobs \in Nat /\ ihEscalated \in Nat
    /\ \A h \in Handlers : ihReq[h] = Idle \/ ihReq[h].at \in Stage

ChatInit ==
    /\ ihContacts = 0
    /\ ihThread = <<>>
    /\ ihRow = [s \in Sids |-> NoRow]
    /\ ihRuns = [s \in Sids |-> 0]
    /\ ihSent = [s \in Sids |-> 0]
    /\ ihJobs = 0
    /\ ihEscalated = 0
    /\ ihReq = [h \in Handlers |-> Idle]

At(h, stage) == ihReq[h].at = stage
Goto(h, row) == ihReq' = [ihReq EXCEPT ![h] = row]
End(h) == Goto(h, Idle)

-----------------------------------------------------------------------------
(* handle_inbound_sms: the view has checked the signature and the number.  *)
Receive(h, s) ==
    /\ ihReq[h] = Idle
    /\ ihRow[s] = NoRow
    /\ Goto(h, [at |-> "contact", sid |-> s])
    /\ UNCHANGED <<ihContacts, ihThread, ihRow, ihRuns, ihSent, ihJobs, ihEscalated>>

\* any exception: logged and answered with 200, so the text does not come again
HandlerFails(h) ==
    /\ ihReq[h] # Idle
    /\ End(h)
    /\ UNCHANGED <<ihContacts, ihThread, ihRow, ihRuns, ihSent, ihJobs, ihEscalated>>

(* get_or_create_contact: the newest contact of the phone, or a new one.   *)
FindContact(h) ==
    /\ At(h, "contact") /\ ~RowLocks
    /\ Goto(h, IF ihContacts = 0 THEN [at |-> "create", sid |-> ihReq[h].sid]
               ELSE [at |-> "thread", sid |-> ihReq[h].sid, contact |-> ihContacts])
    /\ UNCHANGED <<ihContacts, ihThread, ihRow, ihRuns, ihSent, ihJobs, ihEscalated>>

CreateContact(h) ==
    /\ At(h, "create")
    /\ ihContacts' = ihContacts + 1
    /\ Goto(h, [at |-> "thread", sid |-> ihReq[h].sid, contact |-> ihContacts + 1])
    /\ UNCHANGED <<ihThread, ihRow, ihRuns, ihSent, ihJobs, ihEscalated>>

(* resolve_thread: the newest open thread, or a new one.                   *)
OpenThreads == {n \in DOMAIN ihThread : ihThread[n].open}
Newest(s) == CHOOSE n \in s : \A m \in s : m <= n

InThread(h, n) == [at |-> "store", sid |-> ihReq[h].sid, contact |-> ihReq[h].contact, thread |-> n]

FindThread(h) ==
    /\ At(h, "thread")
    /\ IF OpenThreads = {}
       THEN Goto(h, [ihReq[h] EXCEPT !.at = "open"]) /\ UNCHANGED ihThread
       ELSE LET n == Newest(OpenThreads) IN
            IF ihThread[n].old
            THEN /\ ihThread' = [ihThread EXCEPT ![n].open = FALSE]
                 /\ Goto(h, [ihReq[h] EXCEPT !.at = "open"])
            ELSE Goto(h, InThread(h, n)) /\ UNCHANGED ihThread
    /\ UNCHANGED <<ihContacts, ihRow, ihRuns, ihSent, ihJobs, ihEscalated>>

OpenThread(h) ==
    /\ At(h, "open")
    /\ Len(ihThread) < MaxThreads
    /\ ihThread' = Append(ihThread, [open |-> TRUE, old |-> FALSE, job |-> FALSE])
    /\ Goto(h, InThread(h, Len(ihThread) + 1))
    /\ UNCHANGED <<ihContacts, ihRow, ihRuns, ihSent, ihJobs, ihEscalated>>

ThreadAges(n) ==
    /\ n \in DOMAIN ihThread
    /\ ihThread[n].open /\ ~ihThread[n].old
    /\ ihThread' = [ihThread EXCEPT ![n].old = TRUE]
    /\ UNCHANGED <<ihContacts, ihRow, ihRuns, ihSent, ihJobs, ihEscalated, ihReq>>

\* Mutant: the MessageSid is not unique.
NeverRefused(s) == FALSE

(* The interaction: its MessageSid is unique, a second insert raises.      *)
Refused(s) == ihRow[s] # NoRow

StoreInteraction(h) ==
    LET s == ihReq[h].sid IN
    /\ At(h, "store")
    /\ ~Refused(s)
    /\ ihRow' = [ihRow EXCEPT ![s] = [contact |-> ihReq[h].contact, linked |-> FALSE]]
    /\ ihThread' = [ihThread EXCEPT ![ihReq[h].thread].old = FALSE]
    /\ ihRuns' = [ihRuns EXCEPT ![s] = @ + 1]
    /\ Goto(h, [at |-> "agent", sid |-> s, contact |-> ihReq[h].contact, thread |-> ihReq[h].thread,
               steps |-> MAX_TOOL_ITERATIONS])
    /\ UNCHANGED <<ihContacts, ihSent, ihJobs, ihEscalated>>

-----------------------------------------------------------------------------
(* run_agent_loop: one tool call of the model a step, until a text is sent *)
(* or the chat ends.                                                       *)
Calling(h) == At(h, "agent") /\ ihReq[h].steps > 0
Again(h) == Goto(h, [ihReq[h] EXCEPT !.steps = @ - 1])

SendSms(h) ==
    /\ Calling(h)
    /\ ihSent' = [ihSent EXCEPT ![ihReq[h].sid] = 1]
    /\ End(h)
    /\ UNCHANGED <<ihContacts, ihThread, ihRow, ihRuns, ihJobs, ihEscalated>>

\* finalize_job: the job, the thread's active job, and every unlinked text of the contact
FinishAndSubmit(h) ==
    /\ Calling(h)
    /\ ihJobs' = ihJobs + 1
    /\ ihThread' = [ihThread EXCEPT ![ihReq[h].thread].job = TRUE]
    /\ ihRow' = [s \in Sids |-> IF ihRow[s].contact = ihReq[h].contact THEN [ihRow[s] EXCEPT !.linked = TRUE] ELSE ihRow[s]]
    /\ Again(h)
    /\ UNCHANGED <<ihContacts, ihRuns, ihSent, ihEscalated>>

\* enrich_job, mmc_checker, or an escalation refused for want of a name
ToolContinues(h) ==
    /\ Calling(h)
    /\ Again(h)
    /\ UNCHANGED <<ihContacts, ihThread, ihRow, ihRuns, ihSent, ihJobs, ihEscalated>>

Closed(h) == [ihThread EXCEPT ![ihReq[h].thread].open = FALSE, ![ihReq[h].thread].old = FALSE]
CloseChat(h, farewell) ==
    /\ Calling(h)
    /\ ihThread' = Closed(h)
    /\ ihSent' = [ihSent EXCEPT ![ihReq[h].sid] = IF farewell THEN 1 ELSE @]
    /\ End(h)
    /\ UNCHANGED <<ihContacts, ihRow, ihRuns, ihJobs, ihEscalated>>

EscalateChat(h) ==
    /\ Calling(h)
    /\ ihThread' = Closed(h)
    /\ ihEscalated' = ihEscalated + 1
    /\ ihSent' = [ihSent EXCEPT ![ihReq[h].sid] = 1]
    /\ End(h)
    /\ UNCHANGED <<ihContacts, ihRow, ihRuns, ihJobs>>

\* the model's call failed, an empty answer, an unknown tool, or no calls left
AgentStops(h) ==
    /\ At(h, "agent")
    /\ End(h)
    /\ UNCHANGED <<ihContacts, ihThread, ihRow, ihRuns, ihSent, ihJobs, ihEscalated>>

ChatNext ==
    \/ \E h \in Handlers, s \in Sids : Receive(h, s)
    \/ \E h \in Handlers : HandlerFails(h) \/ FindContact(h) \/ CreateContact(h) \/ FindThread(h)
    \/ \E h \in Handlers : OpenThread(h) \/ StoreInteraction(h)
    \/ \E n \in 1 .. MaxThreads : ThreadAges(n)
    \/ \E h \in Handlers : SendSms(h) \/ FinishAndSubmit(h) \/ ToolContinues(h) \/ EscalateChat(h)
    \/ \E h \in Handlers, farewell \in BOOLEAN : CloseChat(h, farewell)
    \/ \E h \in Handlers : AgentStops(h)

ChatSpec == ChatInit /\ [][ChatNext]_ihVars

-----------------------------------------------------------------------------
(* agent.py:40-42: "Same MessageSid means the same physical SMS":          *)
(* deliveries that race past the duplicate check still run the assistant   *)
(* once.                                                                   *)
AgentRunsOnce == \A s \in Sids : ihRuns[s] <= 1

(* agent.py:97-99: locking the contact "prevents two simultaneous         *)
(* first-time SMS deliveries from each creating their own                  *)
(* ConversationThread".                                                    *)
OneOpenThread == Cardinality(OpenThreads) <= 1
=============================================================================
