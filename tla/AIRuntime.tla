----------------------------- MODULE AIRuntime -----------------------------
(***************************************************************************)
(* AI runs of one conversation (backend/apps/ai_runtime) on a channel whose *)
(* messages the CRM stores itself: the internal test channel or web chat.  *)
(*                                                                         *)
(* A run is worked on in steps.  The first is a transaction; the rest hold *)
(* no lock while the provider answers, and each writes the status of the   *)
(* run whatever it is by then.  The transactions of people lock the        *)
(* conversation, so each is one action.  Tasks are acknowledged late and   *)
(* delivered again when their worker dies.                                 *)
(*                                                                         *)
(* The position of a message in the chat is its time.  `facts' is the      *)
(* version of all else a prompt is built from.  The runtime stays enabled  *)
(* and within its limits.  Tools that need no approval show only as edits  *)
(* of the facts; a run proposes at most one that needs approval.           *)
(***************************************************************************)
EXTENDS Integers, Sequences

CONSTANTS
    Workers,        \* executions of process_ai_run
    Modes,          \* AI states a conversation may be put into
    ManualKeys,     \* idempotency keys of requested drafts
    Channel,        \* of the conversation
    MaxMessages, MaxRuns, MaxDeliveries, MaxFacts, MaxCrashes     \* bounds

ActiveModes == {"suggest", "autopilot"}

ASSUME AIRuntimeAssumption ==
    /\ Modes \subseteq ActiveModes \cup {"off"}
    /\ ManualKeys \subseteq Nat
    /\ Channel \in {"internal_test", "web_chat"}
    /\ {MaxMessages, MaxRuns, MaxDeliveries, MaxFacts, MaxCrashes} \subseteq Nat

VARIABLES
    chat,          \* the messages, in order
    aiState,       \* Conversation.ai_state
    handoff,       \* the AIHandoff that is not resolved, if any
    facts,         \* version of what else a prompt contains
    runs,          \* rows of AIRun with their draft and tool call
    evaluations,   \* messages whose evaluation is not acknowledged
    deliveries,    \* per run, deliveries of process_ai_run nobody has taken
    work,          \* per worker, the run in hand and the step that is next
    pausing,       \* a pause request is between its two transactions
    crashes        \* how many processes have died

vars == <<chat, aiState, handoff, facts, runs, evaluations, deliveries, work,
          pausing, crashes>>

conversation == <<chat, aiState, handoff, facts>>
tasks == <<evaluations, deliveries, work, pausing, crashes>>
-----------------------------------------------------------------------------
AIStates == ActiveModes \cup {"off", "paused_by_human", "handoff_required"}

ActiveStatuses == {"queued", "running", "waiting_for_approval"}

RunStatuses == ActiveStatuses \cup {"completed", "failed", "superseded", "handoff"}

DraftStatuses == {"none", "pending", "approved", "rejected", "superseded"}

CallStatuses == {"none", "awaiting", "succeeded", "failed", "rejected", "cancelled"}

\* `reply' is sent by a run itself, `draft' by the person who approved it.
Message == [from : {"customer", "agent"}] \cup [from : {"reply", "draft"}, run : Nat \ {0}]

Run ==
    [trigger : Nat \ {0}, mode : ActiveModes, status : RunStatuses,
     key : [by : {"inbound", "manual"}, n : Nat], prompt : [chat : Nat, facts : Nat],
     draft : DraftStatuses, call : CallStatuses]

Steps == {"context", "generate", "wait", "reply", "send", "draft", "complete"}

Idle == [step |-> "idle", run |-> 0]

TypeOK ==
    /\ chat \in Seq(Message)
    /\ \A m \in DOMAIN chat :
          chat[m].from \in {"reply", "draft"} => chat[m].run \in DOMAIN runs
    /\ aiState \in AIStates
    /\ handoff \in {"none", "open", "acknowledged"}
    /\ facts \in Nat
    /\ runs \in Seq(Run)
    /\ \A r \in DOMAIN runs : runs[r].trigger \in DOMAIN chat
    /\ evaluations \subseteq DOMAIN chat
    /\ deliveries \in Seq(Nat)
    /\ Len(deliveries) = Len(runs)
    /\ \A w \in Workers :
          work[w] = Idle \/ (work[w].step \in Steps /\ work[w].run \in DOMAIN runs)
    /\ pausing \in BOOLEAN
    /\ crashes \in Nat
-----------------------------------------------------------------------------
(* Reading the conversation.                                               *)

\* _stale_after_human_reply
Stale(r) == \E m \in DOMAIN chat : m > runs[r].trigger /\ chat[m].from = "agent"

Prompt == [chat |-> Len(chat), facts |-> facts]

Active(row) == row.status \in ActiveStatuses

KeyHolders(key) == {r \in DOMAIN runs : runs[r].key = key}

Customers == {m \in DOMAIN chat : chat[m].from = "customer"}

(* Rows written by the handlers.                                           *)

WithStatus(row, status) == [row EXCEPT !.status = status]

WithDraft(row, status) == [row EXCEPT !.draft = status]

WithCall(row, status) == [row EXCEPT !.call = status]

\* update_or_create names no status: a draft that exists keeps its own.
Drafted(row) == IF row.draft = "none" THEN WithDraft(row, "pending") ELSE row

\* supersede_active_runs withdraws the pending drafts of all runs, and the
\* proposals of the active ones.
Withdrawn(row) ==
    [row EXCEPT !.status = IF Active(row) THEN "superseded" ELSE row.status,
                !.draft = IF row.draft = "pending" THEN "superseded" ELSE row.draft,
                !.call = IF Active(row) /\ row.call = "awaiting" THEN "cancelled"
                         ELSE row.call]

SupersedeActiveRuns == runs' = [r \in DOMAIN runs |-> Withdrawn(runs[r])]

\* create_handoff for run r; `row' is the run as its caller left it and
\* `status' what the caller last read.
HandOff(r, row, status) ==
    IF handoff # "none"
    THEN /\ runs' = [runs EXCEPT ![r] =
                        IF status \in {"handoff", "completed"} THEN row
                        ELSE WithStatus(row, "handoff")]
         /\ UNCHANGED <<aiState, handoff>>
    ELSE /\ runs' = [runs EXCEPT ![r] = WithStatus(row, "handoff")]
         /\ handoff' = "open"
         /\ aiState' = "handoff_required"
-----------------------------------------------------------------------------
(* Messages and the queueing of runs.                                      *)

\* A process that dies takes the callback or the task call it owes with it.
Survives == crashes' = crashes

Dies == crashes < MaxCrashes /\ crashes' = crashes + 1

CustomerMessage ==
    /\ Len(chat) < MaxMessages
    /\ chat' = Append(chat, [from |-> "customer"])
    /\ \/ Survives /\ evaluations' = evaluations \cup {Len(chat) + 1}
       \/ Dies /\ UNCHANGED evaluations
    /\ UNCHANGED <<aiState, handoff, facts, runs, deliveries, work, pausing>>

NewRun(m, mode, key) ==
    [trigger |-> m, mode |-> mode, status |-> "queued", key |-> key,
     prompt |-> Prompt, draft |-> "none", call |-> "none"]

\* Mutant: a running run does not stand in the way of another.
NothingQueued ==
    \A r \in DOMAIN runs : runs[r].status # "queued" /\ runs[r].draft # "pending"

NothingUnderWay == \A r \in DOMAIN runs : ~Active(runs[r]) /\ runs[r].draft # "pending"

SelectedMode(key) == IF key.by = "manual" THEN "suggest" ELSE aiState

\* Mutant: a run is queued although the AI is off or paused.
RunnableAlways(mode) == TRUE

Runnable(mode) == mode \in ActiveModes

\* How often process_ai_run is called for the run that holds the key.
Calls(key, r) ==
    IF key.by = "manual" \/ runs[r].status \in {"queued", "running"} THEN 1 ELSE 0

\* create_queued_run and the call of process_ai_run that follows it.  A process
\* that dies after the commit may or may not have made the call.
Queue(m, key) ==
    /\ Runnable(SelectedMode(key))
    /\ handoff = "none"
    /\ \/ /\ UNCHANGED runs
          /\ \E r \in KeyHolders(key) :
                \/ Survives /\ deliveries' = [deliveries EXCEPT ![r] = @ + Calls(key, r)]
                \/ Dies /\ \E n \in 0 .. Calls(key, r) :
                              deliveries' = [deliveries EXCEPT ![r] = @ + n]
       \/ /\ KeyHolders(key) = {}
          /\ NothingUnderWay
          /\ Len(runs) < MaxRuns
          /\ runs' = Append(runs, NewRun(m, SelectedMode(key), key))
          /\ \/ Survives /\ deliveries' = Append(deliveries, 1)
             \/ Dies /\ \E n \in 0 .. 1 : deliveries' = Append(deliveries, n)

InboundKey(m) == [by |-> "inbound", n |-> m]

\* A conflict, or an AI that is off, ends the evaluation for good.
Skipped(m) ==
    \/ ~Runnable(SelectedMode(InboundKey(m)))
    \/ handoff # "none"
    \/ (KeyHolders(InboundKey(m)) = {} /\ ~NothingUnderWay)

\* evaluate_inbound_message is acknowledged when it ends: if its worker dies
\* it runs again.
Evaluate(m) ==
    /\ \/ /\ Skipped(m)
          /\ Survives
          /\ UNCHANGED <<runs, deliveries>>
       \/ Queue(m, InboundKey(m))
    /\ evaluations' = IF crashes' = crashes THEN evaluations \ {m} ELSE evaluations
    /\ UNCHANGED <<conversation, work, pausing>>

\* GenerateDraftView, for the last message of the customer.
GenerateDraft(k) ==
    /\ \A r \in DOMAIN runs : deliveries[r] < MaxDeliveries
    /\ \E m \in Customers :
          /\ \A other \in Customers : other <= m
          /\ Queue(m, [by |-> "manual", n |-> k])
    /\ UNCHANGED <<conversation, evaluations, work, pausing>>
-----------------------------------------------------------------------------
(* process_run, step by step.                                              *)

At(w, step) == work[w].step = step

GoTo(w, step) == work' = [work EXCEPT ![w] = [step |-> step, run |-> work[w].run]]

Leave(w) == work' = [work EXCEPT ![w] = Idle]

\* A status saved without a look at the one in the row.
Save(w, status) ==
    runs' = [runs EXCEPT ![work[w].run] = WithStatus(@, status)]

\* Mutant: a run whose worker died is not taken up again.
ProcessableOnce == {"queued"}

Processable == {"queued", "running"}

\* The first transaction.
Start(w, r) ==
    /\ work[w] = Idle
    /\ deliveries[r] > 0
    /\ deliveries' = [deliveries EXCEPT ![r] = @ - 1]
    /\ \/ /\ runs[r].status \notin Processable
          /\ UNCHANGED <<runs, work>>
       \/ /\ runs[r].status \in Processable
          /\ aiState \notin ActiveModes \/ Stale(r)
          /\ runs' = [runs EXCEPT ![r] = WithStatus(@, "superseded")]
          /\ UNCHANGED work
       \/ /\ runs[r].status \in Processable
          /\ aiState \in ActiveModes
          /\ ~Stale(r)
          /\ runs' = [runs EXCEPT ![r] = WithStatus(@, "running")]
          /\ work' = [work EXCEPT ![w] = [step |-> "context", run |-> r]]
    /\ UNCHANGED <<conversation, evaluations, pausing, crashes>>

\* The prompt is built anew and must be the one the run was queued with.
CheckContext(w) ==
    /\ At(w, "context")
    /\ \/ /\ runs[work[w].run].prompt = Prompt
          /\ GoTo(w, "generate")
          /\ UNCHANGED runs
       \/ /\ runs[work[w].run].prompt # Prompt
          /\ Save(w, "superseded")
          /\ Leave(w)
    /\ UNCHANGED <<conversation, evaluations, deliveries, pausing, crashes>>

\* What the provider answers: a text, an action to approve, what ends in a
\* handoff (a request for a person, a refused tool, an unsafe text), or an error.
Answered(w) ==
    /\ At(w, "generate")
    /\ \/ GoTo(w, "reply") /\ UNCHANGED <<runs, aiState, handoff>>
       \/ /\ runs' = [runs EXCEPT ![work[w].run] =
                         IF @.call = "none" THEN WithCall(@, "awaiting") ELSE @]
          /\ GoTo(w, "wait")
          /\ UNCHANGED <<aiState, handoff>>
       \/ /\ HandOff(work[w].run, runs[work[w].run], "running")
          /\ Leave(w)
    /\ UNCHANGED <<chat, facts, evaluations, deliveries, pausing, crashes>>

ProviderFails(w) ==
    /\ At(w, "generate")
    /\ IF Channel = "web_chat"
       THEN HandOff(work[w].run, runs[work[w].run], "running")
       ELSE Save(w, "failed") /\ UNCHANGED <<aiState, handoff>>
    /\ Leave(w)
    /\ UNCHANGED <<chat, facts, evaluations, deliveries, pausing, crashes>>

\* The database admits one active run: a save that makes a second one raises,
\* and the run fails.
WaitForApproval(w) ==
    /\ At(w, "wait")
    /\ IF \E r \in DOMAIN runs : r # work[w].run /\ Active(runs[r])
       THEN Save(w, "failed")
       ELSE Save(w, "waiting_for_approval")
    /\ Leave(w)
    /\ UNCHANGED <<conversation, evaluations, deliveries, pausing, crashes>>

CanAutopilot(r) ==
    /\ aiState = "autopilot"
    /\ ~Stale(r)
    /\ handoff = "none"
    /\ runs[r].call # "awaiting"

ChooseReply(w) ==
    /\ At(w, "reply")
    /\ IF runs[work[w].run].mode = "autopilot" /\ CanAutopilot(work[w].run)
       THEN GoTo(w, "send") ELSE GoTo(w, "draft")
    /\ UNCHANGED <<conversation, runs, evaluations, deliveries, pausing, crashes>>

\* Mutant: the message is written without a look for an earlier one.
NeverSent(message) == FALSE

Sent(message) == \E m \in DOMAIN chat : chat[m] = message

\* _create_ai_message: the run, or its draft, names the message.
Post(message) == chat' = IF Sent(message) THEN chat ELSE Append(chat, message)

Send(w) ==
    /\ At(w, "send")
    /\ Post([from |-> "reply", run |-> work[w].run])
    /\ GoTo(w, "complete")
    /\ UNCHANGED <<aiState, handoff, facts, runs, evaluations, deliveries,
                   pausing, crashes>>

\* Mutant: a message that was refused is not told from one that was sent.
SendRefusedUnnoticed(w) ==
    /\ At(w, "send")
    /\ GoTo(w, "complete")
    /\ UNCHANGED <<conversation, runs, evaluations, deliveries, pausing, crashes>>

\* The session is closed, the channel is off, the allowance is used up, or
\* another execution of the run inserts the message at the same moment.
SendRefused(w) ==
    /\ At(w, "send")
    /\ Save(w, "failed")
    /\ Leave(w)
    /\ UNCHANGED <<conversation, evaluations, deliveries, pausing, crashes>>

WriteDraft(w) ==
    /\ At(w, "draft")
    /\ runs' = [runs EXCEPT ![work[w].run] = Drafted(@)]
    /\ GoTo(w, "complete")
    /\ UNCHANGED <<conversation, evaluations, deliveries, pausing, crashes>>

Complete(w) ==
    /\ At(w, "complete")
    /\ Save(w, "completed")
    /\ Leave(w)
    /\ UNCHANGED <<conversation, evaluations, deliveries, pausing, crashes>>

\* The worker dies between two steps; the broker delivers the task again.
Crash(w) ==
    /\ work[w] # Idle
    /\ Dies
    /\ deliveries' = [deliveries EXCEPT ![work[w].run] = @ + 1]
    /\ Leave(w)
    /\ UNCHANGED <<conversation, runs, evaluations, pausing>>
-----------------------------------------------------------------------------
(* People.                                                                 *)

\* send_outbound_message: by an employee, or a reminder of the booking module.
AgentReply ==
    /\ Len(chat) < MaxMessages
    /\ chat' = Append(chat, [from |-> "agent"])
    /\ aiState' = "paused_by_human"
    /\ SupersedeActiveRuns
    /\ UNCHANGED <<handoff, facts, tasks>>

\* PauseAIView commits the state and the withdrawal one after the other.
Pause ==
    /\ ~pausing
    /\ aiState' = "paused_by_human"
    /\ pausing' = TRUE
    /\ UNCHANGED <<chat, handoff, facts, runs, evaluations, deliveries, work, crashes>>

FinishPause ==
    /\ pausing
    /\ pausing' = FALSE
    /\ \/ Survives /\ SupersedeActiveRuns
       \/ Dies /\ UNCHANGED runs
    /\ UNCHANGED <<conversation, evaluations, deliveries, work>>

SetAIState(state) ==
    /\ aiState' = state
    /\ IF state = "off" THEN SupersedeActiveRuns ELSE UNCHANGED runs
    /\ UNCHANGED <<chat, handoff, facts, tasks>>

\* Mutant: a draft or a proposal is approved whoever has written meanwhile.
UsableAlways(r) == TRUE

\* A stale one is answered with a conflict, which rolls its withdrawal back.
Usable(r) == ~Stale(r)

ApproveDraft(r) ==
    /\ runs[r].draft = "pending"
    /\ Usable(r)
    /\ Post([from |-> "draft", run |-> r])
    /\ runs' = [runs EXCEPT ![r] = WithDraft(@, "approved")]
    /\ UNCHANGED <<aiState, handoff, facts, tasks>>

RejectDraft(r) ==
    /\ runs[r].draft = "pending"
    /\ Usable(r)
    /\ runs' = [runs EXCEPT ![r] = WithDraft(@, "rejected")]
    /\ UNCHANGED <<conversation, tasks>>

\* An approved action is executed at once; a waiting run ends with a draft.
ApproveCall(r) ==
    /\ runs[r].call = "awaiting"
    /\ Usable(r)
    /\ runs' = [runs EXCEPT ![r] =
                   IF @.status = "waiting_for_approval"
                   THEN WithStatus(Drafted(WithCall(@, "succeeded")), "completed")
                   ELSE WithCall(@, "succeeded")]
    /\ facts' \in {facts, facts + 1} \cap 0 .. MaxFacts
    /\ UNCHANGED <<chat, aiState, handoff, tasks>>

ApprovedCallFails(r) ==
    /\ runs[r].call = "awaiting"
    /\ Usable(r)
    /\ HandOff(r, WithCall(runs[r], "failed"), runs[r].status)
    /\ UNCHANGED <<chat, facts, tasks>>

RejectCall(r) ==
    /\ runs[r].call = "awaiting"
    /\ HandOff(r, WithCall(runs[r], "rejected"), runs[r].status)
    /\ UNCHANGED <<chat, facts, tasks>>

\* The visitor of a web chat asks for a person: no run is concerned.
RequestHandoff ==
    /\ Channel = "web_chat"
    /\ chat # <<>>
    /\ handoff = "none"
    /\ handoff' = "open"
    /\ aiState' = "handoff_required"
    /\ UNCHANGED <<chat, facts, runs, tasks>>

UpdateHandoff(status) ==
    /\ \/ handoff = "open" /\ status = "acknowledged"
       \/ handoff # "none" /\ status = "none"
    /\ handoff' = status
    /\ UNCHANGED <<chat, aiState, facts, runs, tasks>>

\* A revision is published, or the contact, its lead or its tasks change.
EditFacts ==
    /\ facts < MaxFacts
    /\ facts' = facts + 1
    /\ UNCHANGED <<chat, aiState, handoff, runs, tasks>>
-----------------------------------------------------------------------------
Init ==
    /\ chat = <<>>
    /\ aiState \in Modes
    /\ handoff = "none"
    /\ facts = 0
    /\ runs = <<>>
    /\ evaluations = {}
    /\ deliveries = <<>>
    /\ work = [w \in Workers |-> Idle]
    /\ pausing = FALSE
    /\ crashes = 0

Queueing ==
    \/ \E m \in evaluations : Evaluate(m)
    \/ \E k \in ManualKeys : GenerateDraft(k)

Proceed(w) ==
    \/ CheckContext(w)
    \/ Answered(w)
    \/ ProviderFails(w)
    \/ WaitForApproval(w)
    \/ ChooseReply(w)
    \/ Send(w)
    \/ SendRefused(w)
    \/ WriteDraft(w)
    \/ Complete(w)

Process(w) == (\E r \in DOMAIN runs : Start(w, r)) \/ Proceed(w)

Employee ==
    \/ AgentReply
    \/ Pause
    \/ FinishPause
    \/ \E state \in Modes : SetAIState(state)
    \/ \E r \in DOMAIN runs :
          \/ ApproveDraft(r)
          \/ RejectDraft(r)
          \/ ApproveCall(r)
          \/ ApprovedCallFails(r)
          \/ RejectCall(r)
    \/ \E status \in {"acknowledged", "none"} : UpdateHandoff(status)

Next ==
    \/ CustomerMessage
    \/ RequestHandoff
    \/ EditFacts
    \/ Queueing
    \/ Employee
    \/ \E w \in Workers : Process(w) \/ Crash(w)

Spec == Init /\ [][Next]_vars

\* Workers are always running, and the broker hands out what it holds.
Fairness ==
    /\ \A w \in Workers : WF_vars(Process(w))
    /\ WF_vars(\E m \in evaluations : Evaluate(m))

LiveSpec == Spec /\ Fairness
-----------------------------------------------------------------------------
(* Properties.                                                             *)

\* However evaluations, requested drafts and blind saves interleave, one run
\* at most is under way.
OneActiveRun ==
    \A r, s \in DOMAIN runs : Active(runs[r]) /\ Active(runs[s]) => r = s

\* A draft or a proposal from before a human reply is never used, even one
\* that a worker wrote after the reply had withdrawn what it found.
StaleWorkUnused ==
    [][\A r \in DOMAIN runs :
          /\ runs'[r].draft = "approved" => runs[r].draft = "approved" \/ ~Stale(r)
          /\ runs'[r].call = "succeeded" => runs[r].call = "succeeded" \/ ~Stale(r)]_vars

\* A run answers at most once by itself, and at most once by its draft, with
\* two executions at work on it and with executions that die half way.
AnswersOnce ==
    \A m, n \in DOMAIN chat :
        chat[m].from \in {"reply", "draft"} /\ chat[m] = chat[n] => m = n

\* What module Conversation speaks of.
Triggers == [r \in DOMAIN runs |-> runs[r].trigger]

UnderWay == {r \in DOMAIN runs : Active(runs[r])}

CarriedOut == {r \in DOMAIN runs : runs[r].call = "succeeded"}

Talk == INSTANCE Conversation WITH asked <- Triggers, current <- UnderWay,
                                   carried <- CarriedOut

\* The runtime keeps what a conversation is promised (module Conversation): one
\* run at a time that an employee's message ends, one answer of each kind per
\* run, and no draft or action, with two executions at work on a run and
\* executions that die half way, that is used twice or after an employee wrote.
ImplementsConversation == Talk!Spec

\* A run is reported completed only when there is an answer to show for it.
CompletedIsAnswered ==
    \A r \in DOMAIN runs :
        runs[r].status = "completed"
            => \/ runs[r].draft # "none"
               \/ \E m \in DOMAIN chat : chat[m] = [from |-> "reply", run |-> r]

\* A run that was handed to the workers ends, or waits for an approval, even
\* if they die on it.
RunsFinish ==
    \A r \in 1 .. MaxRuns :
        (r \in DOMAIN runs /\ deliveries[r] > 0)
            ~> (r \in DOMAIN runs /\ runs[r].status \notin {"queued", "running"})

\* The customer writes on while the run for an earlier message is queued.
Burst(m) ==
    /\ m \in evaluations
    /\ \E r \in DOMAIN runs : runs[r].status = "queued" /\ runs[r].prompt.chat < m

SteppedIn ==
    \/ aiState \notin ActiveModes
    \/ handoff # "none"
    \/ \E m \in DOMAIN chat : chat[m].from = "agent"

\* A later message of a burst is in the prompt of some run, unless somebody
\* steps in.
BurstIsConsidered ==
    \A m \in 1 .. MaxMessages :
        Burst(m) ~> SteppedIn \/ \E r \in DOMAIN runs : runs[r].prompt.chat >= m
=============================================================================
