-------------------------- MODULE AIRuntimeProofs --------------------------
(***************************************************************************)
(* Theorems about module AIRuntime, for every number of workers, messages, *)
(* runs, deliveries and deaths.                                            *)
(***************************************************************************)
EXTENDS AIRuntime, RowProofs, TLAPS

ChatOK ==
    /\ chat \in Seq(Message)
    /\ \A m \in DOMAIN chat :
          chat[m].from \in {"reply", "draft"} => chat[m].run \in DOMAIN runs

RunsOK ==
    /\ runs \in Seq(Run)
    /\ \A r \in DOMAIN runs : runs[r].trigger \in DOMAIN chat

DeliveriesOK == deliveries \in Seq(Nat) /\ Len(deliveries) = Len(runs)

TInv ==
    /\ ChatOK
    /\ aiState \in AIStates
    /\ handoff \in {"none", "open", "acknowledged"}
    /\ facts \in Nat
    /\ RunsOK
    /\ evaluations \subseteq Customers
    /\ DeliveriesOK
    /\ work \in [Workers -> {Idle} \cup [step : Steps, run : DOMAIN runs]]
    /\ pausing \in BOOLEAN
    /\ crashes \in Nat

\* What a run with an answer to show for it has.
Answer(r) ==
    \/ runs[r].draft # "none"
    \/ \E m \in DOMAIN chat : chat[m] = [from |-> "reply", run |-> r]
-----------------------------------------------------------------------------
(* Rows the handlers write.                                                *)

\* A row that may replace the one of run r: what it may not do to a status,
\* a draft and a proposal.
Rewrite(r, row) ==
    /\ row \in Run
    /\ row.trigger = runs[r].trigger
    /\ Active(row) => Active(runs[r]) \/ \A s \in DOMAIN runs : s # r => ~Active(runs[s])
    /\ row.draft = "approved" => runs[r].draft = "approved" \/ ~Stale(r)
    /\ row.call = "succeeded" =>
          \/ runs[r].call = "succeeded"
          \/ ~Stale(r) /\ (Active(row) => Active(runs[r]))
    /\ runs[r].call = "succeeded" => row.call = "succeeded"
    /\ runs[r].draft # "none" => row.draft # "none"
    /\ row.status = "completed" =>
          \/ runs[r].status = "completed"
          \/ row.draft # "none"
          \/ \E w \in Workers : work[w] = [step |-> "complete", run |-> r]

LEMMA StatusRow ==
    ASSUME NEW row \in Run, NEW status \in RunStatuses
    PROVE  /\ WithStatus(row, status) \in Run
           /\ WithStatus(row, status).status = status
           /\ WithStatus(row, status).trigger = row.trigger
           /\ WithStatus(row, status).draft = row.draft
           /\ WithStatus(row, status).call = row.call
  BY DEF WithStatus, Run

LEMMA DraftRow ==
    ASSUME NEW row \in Run, NEW status \in DraftStatuses
    PROVE  /\ WithDraft(row, status) \in Run
           /\ WithDraft(row, status).draft = status
           /\ WithDraft(row, status).trigger = row.trigger
           /\ WithDraft(row, status).status = row.status
           /\ WithDraft(row, status).call = row.call
  BY DEF WithDraft, Run

LEMMA CallRow ==
    ASSUME NEW row \in Run, NEW status \in CallStatuses
    PROVE  /\ WithCall(row, status) \in Run
           /\ WithCall(row, status).call = status
           /\ WithCall(row, status).trigger = row.trigger
           /\ WithCall(row, status).status = row.status
           /\ WithCall(row, status).draft = row.draft
  BY DEF WithCall, Run

LEMMA DraftedRow ==
    ASSUME NEW row \in Run
    PROVE  /\ Drafted(row) \in Run
           /\ Drafted(row).draft # "none"
           /\ Drafted(row).draft = "approved" => row.draft = "approved"
           /\ Drafted(row).trigger = row.trigger
           /\ Drafted(row).status = row.status
           /\ Drafted(row).call = row.call
<1>1. "pending" \in DraftStatuses
  BY DEF DraftStatuses
<1> QED
  BY <1>1, DraftRow DEF Drafted

LEMMA WithdrawnRow ==
    ASSUME NEW row \in Run
    PROVE  /\ Withdrawn(row) \in Run
           /\ ~Active(Withdrawn(row))
           /\ Withdrawn(row).trigger = row.trigger
           /\ Withdrawn(row).draft = "approved" => row.draft = "approved"
           /\ Withdrawn(row).call = "succeeded" <=> row.call = "succeeded"
           /\ row.draft # "none" => Withdrawn(row).draft # "none"
           /\ Withdrawn(row).status = "completed" => row.status = "completed"
<1> DEFINE status == IF Active(row) THEN "superseded" ELSE row.status
           draft == IF row.draft = "pending" THEN "superseded" ELSE row.draft
           call == IF Active(row) /\ row.call = "awaiting" THEN "cancelled" ELSE row.call
<1>1. status \in RunStatuses /\ status \notin ActiveStatuses
  BY DEF Active, Run, RunStatuses, ActiveStatuses
<1>2. draft \in DraftStatuses /\ call \in CallStatuses
  BY DEF Run, DraftStatuses, CallStatuses
<1>3. /\ draft = "approved" => row.draft = "approved"
      /\ call = "succeeded" <=> row.call = "succeeded"
      /\ row.draft # "none" => draft # "none"
      /\ status = "completed" => row.status = "completed"
  OBVIOUS
<1>4. Withdrawn(row) = [row EXCEPT !.status = status, !.draft = draft, !.call = call]
  BY DEF Withdrawn
<1> HIDE DEF status, draft, call
<1>5. /\ Withdrawn(row) \in Run
      /\ Withdrawn(row).status = status /\ Withdrawn(row).draft = draft
      /\ Withdrawn(row).call = call /\ Withdrawn(row).trigger = row.trigger
  BY <1>1, <1>2, <1>4 DEF Run
<1> QED
  BY <1>1, <1>3, <1>5 DEF Active
-----------------------------------------------------------------------------
(* The shapes of a step on the runs.                                       *)

Queued ==
    /\ NothingUnderWay
    /\ \E row \in Run :
          /\ row.trigger \in Customers
          /\ row.status = "queued" /\ row.draft = "none" /\ row.call = "none"
          /\ runs' = Append(runs, row)

Rewriting ==
    \E r \in DOMAIN runs, row \in Run :
       Rewrite(r, row) /\ runs' = [runs EXCEPT ![r] = row]

RunShape == runs' = runs \/ Queued \/ Rewriting \/ SupersedeActiveRuns

LEMMA RunRows ==
    ASSUME TInv, NEW r \in DOMAIN runs
    PROVE  /\ runs[r] \in Run /\ runs[r].status \in RunStatuses
           /\ Rewrite(r, runs[r])
<1>1. runs[r] \in Run
  BY DEF TInv, RunsOK
<1> QED
  BY <1>1 DEF Run, Rewrite

LEMMA Saved ==
    ASSUME TInv, NEW r \in DOMAIN runs, NEW row \in Run, Rewrite(r, row),
           NEW status \in RunStatuses \ {"completed"},
           status \in ActiveStatuses =>
              /\ Active(runs[r]) \/ \A s \in DOMAIN runs : s # r => ~Active(runs[s])
              /\ row.call = runs[r].call
    PROVE  Rewrite(r, WithStatus(row, status))
  BY StatusRow DEF Rewrite, Active

LEMMA HandsOff ==
    ASSUME TInv, NEW r \in DOMAIN runs, NEW row \in Run, Rewrite(r, row), NEW status,
           HandOff(r, row, status)
    PROVE  /\ Rewriting
           /\ aiState' \in AIStates
           /\ handoff' \in {"none", "open", "acknowledged"}
<1>1. "handoff" \in RunStatuses \ {"completed"} /\ "handoff" \notin ActiveStatuses
  BY DEF RunStatuses, ActiveStatuses
<1>2. Rewrite(r, WithStatus(row, "handoff")) /\ WithStatus(row, "handoff") \in Run
  BY <1>1, Saved, StatusRow
<1>3. /\ aiState \in AIStates /\ handoff \in {"none", "open", "acknowledged"}
      /\ "handoff_required" \in AIStates
  BY DEF TInv, AIStates
<1>4. CASE handoff # "none"
  <2>1. \/ runs' = [runs EXCEPT ![r] = row]
        \/ runs' = [runs EXCEPT ![r] = WithStatus(row, "handoff")]
    BY <1>4 DEF HandOff
  <2>2. UNCHANGED <<aiState, handoff>>
    BY <1>4 DEF HandOff
  <2> QED
    BY <1>2, <1>3, <2>1, <2>2 DEF Rewriting
<1>5. CASE handoff = "none"
  <2>1. /\ runs' = [runs EXCEPT ![r] = WithStatus(row, "handoff")]
        /\ handoff' = "open" /\ aiState' = "handoff_required"
    BY <1>5 DEF HandOff
  <2> QED
    BY <1>2, <1>3, <2>1 DEF Rewriting
<1> QED
  BY <1>4, <1>5

\* The key of a run.
Key == [by : {"inbound", "manual"}, n : Nat]

LEMMA QueueEffect ==
    ASSUME TInv, NEW m \in Customers, NEW key \in Key, Queue(m, key)
    PROVE  /\ runs' = runs \/ Queued
           /\ deliveries' \in Seq(Nat) /\ Len(deliveries') = Len(runs')
           /\ crashes' \in Nat
<1>0. /\ runs \in Seq(Run) /\ deliveries \in Seq(Nat) /\ Len(deliveries) = Len(runs)
      /\ DOMAIN deliveries = DOMAIN runs
      /\ crashes \in Nat /\ m \in Nat \ {0} /\ Len(chat) \in Nat /\ facts \in Nat
  BY DEF TInv, RunsOK, DeliveriesOK, ChatOK, Customers
<1>1. crashes' \in Nat
  BY <1>0 DEF Queue, Survives, Dies
<1>2. ASSUME runs' = runs,
             NEW r \in KeyHolders(key), NEW n \in 0 .. 1,
             deliveries' = [deliveries EXCEPT ![r] = @ + n]
      PROVE  deliveries' \in Seq(Nat) /\ Len(deliveries') = Len(runs')
  <2>1. r \in DOMAIN deliveries
    BY <1>0 DEF KeyHolders
  <2>2. deliveries[r] + n \in Nat
    BY <1>0, <2>1
  <2> QED
    BY <1>0, <1>2, <2>1, <2>2, Replaced
<1>3. ASSUME NEW r PROVE Calls(key, r) \in 0 .. 1
  BY DEF Calls
<1>4. CASE /\ runs' = runs
           /\ \E r \in KeyHolders(key) :
                 \/ deliveries' = [deliveries EXCEPT ![r] = @ + Calls(key, r)]
                 \/ \E n \in 0 .. Calls(key, r) : deliveries' = [deliveries EXCEPT ![r] = @ + n]
  <2>1. PICK r \in KeyHolders(key) :
                 \/ deliveries' = [deliveries EXCEPT ![r] = @ + Calls(key, r)]
                 \/ \E n \in 0 .. Calls(key, r) : deliveries' = [deliveries EXCEPT ![r] = @ + n]
    BY <1>4
  <2>2. Calls(key, r) \in 0 .. 1 /\ 0 .. Calls(key, r) \subseteq 0 .. 1
    BY <1>3
  <2>3. \E n \in 0 .. 1 : deliveries' = [deliveries EXCEPT ![r] = @ + n]
    BY <2>1, <2>2
  <2> QED
    BY <1>1, <1>2, <1>4, <2>3
<1>5. CASE /\ NothingUnderWay
           /\ runs' = Append(runs, NewRun(m, SelectedMode(key), key))
           /\ \E n \in 0 .. 1 : deliveries' = Append(deliveries, n)
  <2> DEFINE row == NewRun(m, SelectedMode(key), key)
  <2>1. SelectedMode(key) \in ActiveModes
    BY DEF Queue, Runnable
  <2>2. Prompt \in [chat : Nat, facts : Nat]
    BY <1>0 DEF Prompt
  <2>3. /\ row \in Run /\ row.trigger = m
        /\ row.status = "queued" /\ row.draft = "none" /\ row.call = "none"
    BY <1>0, <2>1, <2>2 DEF NewRun, Run, Key, RunStatuses, ActiveStatuses, DraftStatuses,
                            CallStatuses
  <2> HIDE DEF row
  <2>4. Queued
    BY <1>5, <2>3 DEF Queued, row
  <2>5. Len(runs') = Len(runs) + 1
    BY <1>0, <1>5, <2>3 DEF row
  <2>6. deliveries' \in Seq(Nat) /\ Len(deliveries') = Len(deliveries) + 1
    BY <1>0, <1>5
  <2> QED
    BY <1>0, <1>1, <2>4, <2>5, <2>6
<1> QED
  BY <1>4, <1>5 DEF Queue
-----------------------------------------------------------------------------
(* What a step does, with the types of what it writes.                     *)

\* A message is added; an answer is added once and names a run.
Said(message) ==
    /\ chat' = Append(chat, message)
    /\ message.from \in {"reply", "draft"} => message.run \in DOMAIN runs /\ ~Sent(message)

ChatShape == chat' = chat \/ \E message \in Message : Said(message)

\* A worker goes on to a step or lets its run go.
GoesTo(w, step, r) ==
    /\ work' = [work EXCEPT ![w] = [step |-> step, run |-> r]]
    /\ step = "complete" => Answer(r)'

WorkShape ==
    \/ work' = work
    \/ \E w \in Workers :
          \/ Leave(w)
          \/ \E step \in Steps, r \in DOMAIN runs : GoesTo(w, step, r)

Effect ==
    /\ RunShape
    /\ ChatShape
    /\ WorkShape
    /\ aiState' \in AIStates
    /\ handoff' \in {"none", "open", "acknowledged"}
    /\ facts' \in Nat
    /\ evaluations' \subseteq Customers'
    /\ deliveries' \in Seq(Nat) /\ Len(deliveries') = Len(runs')
    /\ pausing' \in BOOLEAN
    /\ crashes' \in Nat

LEMMA SameLength ==
    ASSUME TInv, runs' = runs \/ Rewriting \/ SupersedeActiveRuns
    PROVE  Len(runs') = Len(runs) /\ DOMAIN runs' = DOMAIN runs /\ runs' \in Seq(Run)
<1>0. runs \in Seq(Run)
  BY DEF TInv, RunsOK
<1>1. CASE Rewriting
  <2>1. PICK r \in DOMAIN runs, row \in Run : runs' = [runs EXCEPT ![r] = row]
    BY <1>1 DEF Rewriting
  <2> QED
    BY <1>0, <2>1
<1>2. CASE SupersedeActiveRuns
  <2>1. \A r \in DOMAIN runs : Withdrawn(runs[r]) \in Run
    BY <1>0, WithdrawnRow
  <2>2. runs' = [r \in DOMAIN runs |-> Withdrawn(runs[r])]
    BY <1>2 DEF SupersedeActiveRuns
  <2> QED
    BY <1>0, <2>1, <2>2
<1> QED
  BY <1>0, <1>1, <1>2

\* What stays as it is.
LEMMA Unmoved ==
    ASSUME TInv
    PROVE  /\ UNCHANGED runs => RunShape
           /\ UNCHANGED chat => ChatShape
           /\ UNCHANGED work => WorkShape
           /\ UNCHANGED <<evaluations, chat>> => evaluations' \subseteq Customers'
           /\ UNCHANGED deliveries /\ (runs' = runs \/ Rewriting \/ SupersedeActiveRuns) =>
                 deliveries' \in Seq(Nat) /\ Len(deliveries') = Len(runs')
           /\ UNCHANGED aiState => aiState' \in AIStates
           /\ UNCHANGED handoff => handoff' \in {"none", "open", "acknowledged"}
           /\ UNCHANGED facts => facts' \in Nat
           /\ UNCHANGED pausing => pausing' \in BOOLEAN
           /\ UNCHANGED crashes => crashes' \in Nat
  BY SameLength DEF TInv, RunShape, ChatShape, WorkShape, DeliveriesOK, Customers

LEMMA Dying == ASSUME TInv PROVE Survives \/ Dies => crashes' \in Nat
  BY DEF TInv, Survives, Dies

\* The run a worker has in hand.
LEMMA InHand ==
    ASSUME TInv, NEW w \in Workers, work[w].step \in Steps
    PROVE  /\ work[w].run \in DOMAIN runs
           /\ work[w] = [step |-> work[w].step, run |-> work[w].run]
<1>1. work[w] # Idle
  BY DEF Idle, Steps
<1>2. work[w] \in [step : Steps, run : DOMAIN runs]
  BY <1>1 DEF TInv
<1> QED
  BY <1>2

LEMMA StatusSaved ==
    ASSUME TInv, NEW r \in DOMAIN runs, NEW status \in RunStatuses \ {"completed"},
           status \in ActiveStatuses =>
              Active(runs[r]) \/ \A s \in DOMAIN runs : s # r => ~Active(runs[s]),
           runs' = [runs EXCEPT ![r] = WithStatus(@, status)]
    PROVE  Rewriting
<1>1. runs[r] \in Run /\ Rewrite(r, runs[r])
  BY RunRows
<1>2. WithStatus(runs[r], status) \in Run /\ Rewrite(r, WithStatus(runs[r], status))
  BY <1>1, Saved, StatusRow
<1> QED
  BY <1>2 DEF Rewriting

LEMMA Arrivals ==
    ASSUME TInv, CustomerMessage \/ RequestHandoff \/ EditFacts
    PROVE  Effect
<1>1. CASE CustomerMessage
  <2>1. chat \in Seq(Message) /\ evaluations \subseteq Customers
    BY DEF TInv, ChatOK
  <2>2. [from |-> "customer"] \in Message
    BY DEF Message
  <2>3. chat' = Append(chat, [from |-> "customer"])
    BY <1>1 DEF CustomerMessage
  <2>4. Customers \cup {Len(chat) + 1} \subseteq Customers'
    BY <2>1, <2>2, <2>3, Added DEF Customers
  <2>5. evaluations' \subseteq Customers'
    BY <1>1, <2>1, <2>4 DEF CustomerMessage
  <2>6. ChatShape
    BY <2>2, <2>3 DEF ChatShape, Said
  <2>7. crashes' \in Nat
    BY <1>1, Dying DEF CustomerMessage
  <2> QED
    BY <1>1, <2>5, <2>6, <2>7, Unmoved DEF CustomerMessage, Effect
<1>2. CASE RequestHandoff
  BY <1>2, Unmoved DEF RequestHandoff, tasks, Effect, AIStates
<1>3. CASE EditFacts
  <2>1. facts' \in Nat
    BY <1>3 DEF EditFacts, TInv
  <2> QED
    BY <1>3, <2>1, Unmoved DEF EditFacts, tasks, Effect
<1> QED
  BY <1>1, <1>2, <1>3

LEMMA QueueingEffect ==
    ASSUME TInv, Queueing
    PROVE  Effect
<1>0. evaluations \subseteq Customers /\ Customers \subseteq DOMAIN chat
  BY DEF TInv, Customers
<1>1. ASSUME NEW m \in evaluations, Evaluate(m) PROVE Effect
  <2>1. InboundKey(m) \in Key /\ m \in DOMAIN chat
    <3>1. m \in Nat
      BY <1>0, <1>1 DEF TInv, ChatOK
    <3> QED
      BY <1>0, <1>1, <3>1 DEF InboundKey, Key
  <2>2. evaluations' \subseteq Customers'
    BY <1>0, <1>1 DEF Evaluate, conversation, Customers
  <2>3. CASE Survives /\ UNCHANGED <<runs, deliveries>>
    BY <1>1, <2>2, <2>3, Unmoved, Dying DEF Evaluate, conversation, Effect
  <2>4. CASE Queue(m, InboundKey(m))
    <3>1. /\ runs' = runs \/ Queued
          /\ deliveries' \in Seq(Nat) /\ Len(deliveries') = Len(runs')
          /\ crashes' \in Nat
      BY <1>0, <2>1, <2>4, QueueEffect
    <3> QED
      BY <1>1, <2>2, <3>1, Unmoved DEF Evaluate, conversation, Effect, RunShape
  <2> QED
    BY <1>1, <2>3, <2>4 DEF Evaluate
<1>2. ASSUME NEW k \in ManualKeys, GenerateDraft(k) PROVE Effect
  <2>1. [by |-> "manual", n |-> k] \in Key
    BY AIRuntimeAssumption DEF Key
  <2>2. PICK m \in Customers : Queue(m, [by |-> "manual", n |-> k])
    BY <1>2 DEF GenerateDraft
  <2>3. /\ runs' = runs \/ Queued
        /\ deliveries' \in Seq(Nat) /\ Len(deliveries') = Len(runs')
        /\ crashes' \in Nat
    BY <1>0, <2>1, <2>2, QueueEffect
  <2> QED
    BY <1>2, <2>3, Unmoved DEF GenerateDraft, conversation, Effect, RunShape
<1> QED
  BY <1>1, <1>2 DEF Queueing
-----------------------------------------------------------------------------
(* The workers.                                                            *)

LEMMA StartEffect ==
    ASSUME TInv, NEW w \in Workers, NEW r \in DOMAIN runs, Start(w, r)
    PROVE  Effect
<1>0. /\ DOMAIN deliveries = DOMAIN runs /\ deliveries \in Seq(Nat)
      /\ Len(deliveries) = Len(runs) /\ deliveries[r] - 1 \in Nat
  BY DEF TInv, RunsOK, DeliveriesOK, Start
<1>1. deliveries' \in Seq(Nat) /\ Len(deliveries') = Len(runs)
  BY <1>0, Replaced DEF Start
<1>2. UNCHANGED <<chat, aiState, handoff, facts, evaluations, pausing, crashes>>
  BY DEF Start, conversation
<1>3. "superseded" \in RunStatuses \ {"completed"} /\ "superseded" \notin ActiveStatuses
      /\ "running" \in RunStatuses \ {"completed"} /\ "context" \in Steps /\ "context" # "complete"
  BY DEF RunStatuses, ActiveStatuses, Steps
<1>4. CASE UNCHANGED <<runs, work>>
  BY <1>1, <1>2, <1>4, Unmoved DEF Effect
<1>5. CASE runs' = [runs EXCEPT ![r] = WithStatus(@, "superseded")] /\ UNCHANGED work
  <2>1. Rewriting
    BY <1>3, <1>5, StatusSaved
  <2> QED
    BY <1>1, <1>2, <1>5, <2>1, Unmoved, SameLength DEF Effect, RunShape
<1>6. CASE /\ runs[r].status \in Processable
           /\ runs' = [runs EXCEPT ![r] = WithStatus(@, "running")]
           /\ work' = [work EXCEPT ![w] = [step |-> "context", run |-> r]]
  <2>1. Active(runs[r])
    BY <1>6 DEF Processable, Active, ActiveStatuses
  <2>2. Rewriting
    BY <1>3, <1>6, <2>1, StatusSaved
  <2>3. WorkShape
    BY <1>3, <1>6 DEF WorkShape, GoesTo
  <2> QED
    BY <1>1, <1>2, <2>2, <2>3, Unmoved, SameLength DEF Effect, RunShape
<1> QED
  BY <1>4, <1>5, <1>6 DEF Start

\* A step that leaves the tasks and the conversation alone but for what its
\* lemma says of runs, work, AI state and handoff.
LEMMA Proceeding ==
    ASSUME TInv, RunShape, ChatShape, WorkShape,
           runs' = runs \/ Rewriting \/ SupersedeActiveRuns,
           aiState' \in AIStates, handoff' \in {"none", "open", "acknowledged"},
           evaluations' = evaluations,
           UNCHANGED <<facts, deliveries, pausing, crashes>>
    PROVE  Effect
<1>1. Customers \subseteq Customers'
  <2>1. chat \in Seq(Message)
    BY DEF TInv, ChatOK
  <2>2. ASSUME NEW message \in Message, chat' = Append(chat, message)
        PROVE  Customers \subseteq Customers'
    BY <2>1, <2>2, Added DEF Customers
  <2> QED
    BY <2>2 DEF ChatShape, Said, Customers
<1>2. evaluations' \subseteq Customers'
  BY <1>1 DEF TInv
<1> QED
  BY <1>2, Unmoved DEF Effect

LEMMA ProceedEffect ==
    ASSUME TInv, NEW w \in Workers, Proceed(w)
    PROVE  Effect
<1>0. work[w].step \in Steps
  BY DEF Proceed, CheckContext, Answered, ProviderFails, WaitForApproval, ChooseReply, Send,
         SendRefused, WriteDraft, Complete, At, Steps
<1>r. PICK r \in DOMAIN runs : work[w].run = r
  BY <1>0, InHand
<1>1. /\ r \in DOMAIN runs /\ work[w].run = r
      /\ work[w] = [step |-> work[w].step, run |-> r]
      /\ runs[r] \in Run /\ Rewrite(r, runs[r])
  BY <1>0, <1>r, InHand, RunRows
<1>2. /\ aiState \in AIStates /\ handoff \in {"none", "open", "acknowledged"}
      /\ {"failed", "superseded"} \subseteq RunStatuses \ {"completed"}
      /\ {"failed", "superseded"} \cap ActiveStatuses = {}
      /\ "waiting_for_approval" \in RunStatuses \ {"completed"}
      /\ {"generate", "wait", "reply", "send", "draft", "complete"} \subseteq Steps
  BY DEF TInv, RunStatuses, ActiveStatuses, Steps
<1>3. ASSUME NEW step \in Steps, GoTo(w, step), step # "complete" PROVE WorkShape
  BY <1>1, <1>3 DEF WorkShape, GoTo, GoesTo
<1>4. ASSUME NEW status \in {"failed", "superseded"}, Save(w, status) PROVE Rewriting
  BY <1>1, <1>2, <1>4, StatusSaved DEF Save
<1>5. ASSUME Leave(w) PROVE WorkShape
  BY <1>5 DEF WorkShape
<1>6. CASE CheckContext(w)
  <2>1. CASE GoTo(w, "generate") /\ UNCHANGED runs
    BY <1>2, <1>3, <1>6, <2>1, Unmoved, Proceeding DEF CheckContext, conversation
  <2>2. CASE Save(w, "superseded") /\ Leave(w)
    BY <1>2, <1>4, <1>5, <1>6, <2>2, Unmoved, Proceeding DEF CheckContext, conversation, RunShape
  <2> QED
    BY <1>6, <2>1, <2>2 DEF CheckContext
<1>7. ASSUME HandOff(r, runs[r], "running"), Leave(w),
             UNCHANGED <<chat, facts, evaluations, deliveries, pausing, crashes>>
      PROVE  Effect
  BY <1>1, <1>5, <1>7, HandsOff, Unmoved, Proceeding DEF RunShape
<1>8. CASE Answered(w)
  <2>0. UNCHANGED <<chat, facts, evaluations, deliveries, pausing, crashes>>
    BY <1>8 DEF Answered
  <2>1. CASE GoTo(w, "reply") /\ UNCHANGED <<runs, aiState, handoff>>
    BY <1>2, <1>3, <2>0, <2>1, Unmoved, Proceeding
  <2>2. CASE /\ runs' = [runs EXCEPT ![r] =
                            IF @.call = "none" THEN WithCall(@, "awaiting") ELSE @]
             /\ GoTo(w, "wait")
             /\ UNCHANGED <<aiState, handoff>>
    <3>1. "awaiting" \in CallStatuses
      BY DEF CallStatuses
    <3>2. ASSUME runs[r].call = "none"
          PROVE  /\ WithCall(runs[r], "awaiting") \in Run
                 /\ Rewrite(r, WithCall(runs[r], "awaiting"))
      BY <1>1, <3>1, <3>2, CallRow DEF Rewrite, Active
    <3>3. Rewriting
      BY <1>1, <2>2, <3>2 DEF Rewriting
    <3> QED
      BY <1>2, <1>3, <2>0, <2>2, <3>3, Unmoved, Proceeding DEF RunShape
  <2> QED
    BY <1>1, <1>7, <1>8, <2>0, <2>1, <2>2 DEF Answered
<1>9. CASE ProviderFails(w)
  <2>0. UNCHANGED <<chat, facts, evaluations, deliveries, pausing, crashes>> /\ Leave(w)
    BY <1>9 DEF ProviderFails
  <2>1. CASE Save(w, "failed") /\ UNCHANGED <<aiState, handoff>>
    BY <1>2, <1>4, <1>5, <2>0, <2>1, Unmoved, Proceeding DEF RunShape
  <2> QED
    BY <1>1, <1>7, <1>9, <2>0, <2>1 DEF ProviderFails
<1>10. CASE WaitForApproval(w)
  <2>0. /\ UNCHANGED <<chat, aiState, handoff, facts, evaluations, deliveries, pausing, crashes>>
        /\ Leave(w)
    BY <1>10 DEF WaitForApproval, conversation
  <2>1. CASE Save(w, "failed")
    BY <1>2, <1>4, <1>5, <2>0, <2>1, Unmoved, Proceeding DEF RunShape
  <2>2. CASE /\ \A s \in DOMAIN runs : s # r => ~Active(runs[s])
             /\ Save(w, "waiting_for_approval")
    <3>1. Rewriting
      BY <1>1, <1>2, <2>2, StatusSaved DEF Save
    <3> QED
      BY <1>2, <1>5, <2>0, <3>1, Unmoved, Proceeding DEF RunShape
  <2> QED
    BY <1>1, <1>10, <2>1, <2>2 DEF WaitForApproval
<1>11. CASE ChooseReply(w)
  BY <1>2, <1>3, <1>11, Unmoved, Proceeding DEF ChooseReply, conversation
<1>12. CASE Send(w)
  <2> DEFINE message == [from |-> "reply", run |-> r]
  <2>1. message \in Message
    <3>1. r \in Nat \ {0}
      BY <1>1 DEF TInv, RunsOK
    <3> QED
      BY <3>1 DEF Message
  <2>2. \/ chat' = chat /\ Sent(message)
        \/ chat' = Append(chat, message) /\ ~Sent(message)
    <3>1. chat' = IF Sent(message) THEN chat ELSE Append(chat, message)
      BY <1>1, <1>12 DEF Send, Post, Sent
    <3>2. CASE Sent(message)
      BY <3>1, <3>2
    <3>3. CASE ~Sent(message)
      BY <3>1, <3>3
    <3> QED
      BY <3>2, <3>3
  <2>3. ChatShape
    BY <1>1, <2>1, <2>2 DEF ChatShape, Said
  <2>4. Answer(r)'
    <3>1. CASE chat' = chat /\ Sent(message)
      BY <3>1 DEF Answer, Sent
    <3>2. CASE chat' = Append(chat, message)
      <4>1. chat \in Seq(Message)
        BY DEF TInv, ChatOK
      <4>2. Len(chat) + 1 \in DOMAIN chat' /\ chat'[Len(chat) + 1] = message
        BY <2>1, <3>2, <4>1, Added
      <4> QED
        BY <4>2 DEF Answer
    <3> QED
      BY <2>2, <3>1, <3>2
  <2>5. WorkShape
    BY <1>1, <1>2, <1>12, <2>4 DEF Send, GoTo, WorkShape, GoesTo
  <2> QED
    BY <1>2, <1>12, <2>3, <2>5, Unmoved, Proceeding DEF Send
<1>13. CASE SendRefused(w)
  BY <1>2, <1>4, <1>5, <1>13, Unmoved, Proceeding DEF SendRefused, conversation, RunShape
<1>14. CASE WriteDraft(w)
  <2>1. Drafted(runs[r]) \in Run /\ Rewrite(r, Drafted(runs[r]))
    BY <1>1, DraftedRow DEF Rewrite, Active
  <2>2. runs' = [runs EXCEPT ![r] = Drafted(runs[r])]
    BY <1>1, <1>14 DEF WriteDraft
  <2>3. Rewriting
    BY <1>1, <2>1, <2>2 DEF Rewriting
  <2>4. Answer(r)'
    <3>1. runs'[r] = Drafted(runs[r])
      BY <1>1, <2>2
    <3> QED
      BY <1>1, <3>1, DraftedRow DEF Answer
  <2>5. WorkShape
    BY <1>1, <1>2, <1>14, <2>4 DEF WriteDraft, GoTo, WorkShape, GoesTo
  <2> QED
    BY <1>2, <1>14, <2>3, <2>5, Unmoved, Proceeding DEF WriteDraft, conversation, RunShape
<1>15. CASE Complete(w)
  <2>1. "completed" \in RunStatuses /\ "completed" \notin ActiveStatuses
    BY DEF RunStatuses, ActiveStatuses
  <2>2. work[w] = [step |-> "complete", run |-> r]
    BY <1>1, <1>15 DEF Complete, At
  <2>3. WithStatus(runs[r], "completed") \in Run /\ Rewrite(r, WithStatus(runs[r], "completed"))
    BY <1>1, <2>1, <2>2, StatusRow DEF Rewrite, Active
  <2>4. Rewriting
    BY <1>1, <1>15, <2>3 DEF Complete, Save, Rewriting
  <2> QED
    BY <1>2, <1>5, <1>15, <2>4, Unmoved, Proceeding DEF Complete, conversation, RunShape
<1> QED
  BY <1>6, <1>8, <1>9, <1>10, <1>11, <1>12, <1>13, <1>14, <1>15 DEF Proceed

LEMMA CrashEffect ==
    ASSUME TInv, NEW w \in Workers, Crash(w)
    PROVE  Effect
<1>0. /\ work[w].run \in DOMAIN runs
      /\ DOMAIN deliveries = DOMAIN runs /\ deliveries \in Seq(Nat)
      /\ Len(deliveries) = Len(runs)
  BY DEF TInv, RunsOK, DeliveriesOK, Crash
<1>1. deliveries[work[w].run] + 1 \in Nat
  BY <1>0
<1>2. deliveries' \in Seq(Nat) /\ Len(deliveries') = Len(deliveries)
  BY <1>0, <1>1, Replaced DEF Crash
<1>3. WorkShape
  BY DEF Crash, WorkShape
<1> QED
  BY <1>0, <1>2, <1>3, Unmoved, Dying DEF Crash, conversation, Effect
-----------------------------------------------------------------------------
(* People.                                                                 *)

LEMMA ReviewEffect ==
    ASSUME TInv, NEW r \in DOMAIN runs,
           ApproveDraft(r) \/ RejectDraft(r) \/ ApproveCall(r) \/ ApprovedCallFails(r)
              \/ RejectCall(r)
    PROVE  Effect
<1>1. /\ runs[r] \in Run /\ Rewrite(r, runs[r])
      /\ aiState \in AIStates /\ handoff \in {"none", "open", "acknowledged"}
      /\ facts \in Nat
      /\ {"approved", "rejected"} \subseteq DraftStatuses
      /\ {"succeeded", "failed", "rejected"} \subseteq CallStatuses
  BY RunRows DEF TInv, DraftStatuses, CallStatuses
<1>2. ASSUME ApproveDraft(r) PROVE Effect
  <2> DEFINE message == [from |-> "draft", run |-> r]
  <2>1. message \in Message
    <3>1. r \in Nat \ {0}
      BY DEF TInv, RunsOK
    <3> QED
      BY <3>1 DEF Message
  <2>2. \/ chat' = chat
        \/ chat' = Append(chat, message) /\ ~Sent(message)
    BY <1>2 DEF ApproveDraft, Post
  <2>3. ChatShape
    BY <2>1, <2>2 DEF ChatShape, Said
  <2>4. /\ WithDraft(runs[r], "approved") \in Run
        /\ Rewrite(r, WithDraft(runs[r], "approved"))
    BY <1>1, <1>2, DraftRow DEF Rewrite, Active, ApproveDraft, Usable
  <2>5. Rewriting
    BY <1>2, <2>4 DEF ApproveDraft, Rewriting
  <2> QED
    BY <1>1, <1>2, <2>3, <2>5, Unmoved, Proceeding DEF ApproveDraft, tasks, RunShape
<1>3. ASSUME RejectDraft(r) PROVE Effect
  <2>1. /\ WithDraft(runs[r], "rejected") \in Run
        /\ Rewrite(r, WithDraft(runs[r], "rejected"))
    BY <1>1, DraftRow DEF Rewrite, Active
  <2>2. Rewriting
    BY <1>3, <2>1 DEF RejectDraft, Rewriting
  <2> QED
    BY <1>1, <1>3, <2>2, Unmoved, Proceeding DEF RejectDraft, conversation, tasks, RunShape
<1>4. ASSUME ApproveCall(r) PROVE Effect
  <2> DEFINE called == WithCall(runs[r], "succeeded")
             done == WithStatus(Drafted(called), "completed")
  <2>0. ~Stale(r)
    BY <1>4 DEF ApproveCall, Usable
  <2>1. called \in Run /\ Rewrite(r, called)
    BY <1>1, <2>0, CallRow DEF Rewrite, Active
  <2>2. Drafted(called) \in Run /\ Rewrite(r, Drafted(called))
    BY <2>1, DraftedRow DEF Rewrite, Active
  <2>3. Drafted(called).draft # "none"
    BY <2>1, DraftedRow
  <2>4. "completed" \in RunStatuses /\ "completed" \notin ActiveStatuses
    BY DEF RunStatuses, ActiveStatuses
  <2>5. done \in Run /\ Rewrite(r, done)
    BY <2>2, <2>3, <2>4, StatusRow DEF Rewrite, Active
  <2>6. runs' = [runs EXCEPT ![r] = called] \/ runs' = [runs EXCEPT ![r] = done]
    BY <1>4 DEF ApproveCall
  <2> HIDE DEF called, done
  <2>7. Rewriting
    BY <2>1, <2>5, <2>6 DEF Rewriting
  <2>8. facts' \in Nat
    BY <1>1, <1>4 DEF ApproveCall
  <2> QED
    BY <1>1, <1>4, <2>7, <2>8, Unmoved DEF ApproveCall, tasks, Effect, RunShape
<1>5. ASSUME NEW status \in {"failed", "rejected"}, runs[r].call = "awaiting",
             HandOff(r, WithCall(runs[r], status), runs[r].status),
             UNCHANGED <<chat, facts, tasks>>
      PROVE  Effect
  <2>1. /\ WithCall(runs[r], status) \in Run
        /\ Rewrite(r, WithCall(runs[r], status))
    BY <1>1, <1>5, CallRow DEF Rewrite, Active
  <2>2. Rewriting /\ aiState' \in AIStates /\ handoff' \in {"none", "open", "acknowledged"}
    BY <1>5, <2>1, HandsOff
  <2> QED
    BY <1>5, <2>2, Unmoved, Proceeding DEF tasks, RunShape
<1> QED
  BY <1>2, <1>3, <1>4, <1>5 DEF ApprovedCallFails, RejectCall

LEMMA EmployeeEffect ==
    ASSUME TInv, Employee
    PROVE  Effect
<1>0. /\ aiState \in AIStates /\ handoff \in {"none", "open", "acknowledged"}
      /\ "paused_by_human" \in AIStates /\ Modes \subseteq AIStates
      /\ chat \in Seq(Message)
  BY AIRuntimeAssumption DEF TInv, AIStates, ActiveModes, ChatOK
<1>1. CASE AgentReply
  <2>1. [from |-> "agent"] \in Message
    BY DEF Message
  <2>2. ChatShape
    BY <1>1, <2>1 DEF AgentReply, ChatShape, Said
  <2> QED
    BY <1>0, <1>1, <2>2, Unmoved, Proceeding DEF AgentReply, tasks, RunShape
<1>2. CASE Pause
  BY <1>0, <1>2, Unmoved DEF Pause, Effect
<1>3. CASE FinishPause
  BY <1>0, <1>3, Unmoved, Dying DEF FinishPause, conversation, Effect, RunShape
<1>4. ASSUME NEW state \in Modes, SetAIState(state) PROVE Effect
  <2>1. runs' = runs \/ SupersedeActiveRuns
    BY <1>4 DEF SetAIState
  <2> QED
    BY <1>0, <1>4, <2>1, Unmoved, Proceeding DEF SetAIState, tasks, RunShape
<1>5. ASSUME NEW status \in {"acknowledged", "none"}, UpdateHandoff(status) PROVE Effect
  BY <1>0, <1>5, Unmoved, Proceeding DEF UpdateHandoff, tasks
<1> QED
  BY <1>1, <1>2, <1>3, <1>4, <1>5, ReviewEffect DEF Employee

LEMMA Effects == TInv /\ [Next]_vars => Effect
<1> SUFFICES ASSUME TInv, [Next]_vars PROVE Effect
  OBVIOUS
<1>1. CASE UNCHANGED vars
  BY <1>1, Unmoved DEF vars, Effect
<1>2. CASE \E w \in Workers : Process(w) \/ Crash(w)
  BY <1>2, StartEffect, ProceedEffect, CrashEffect DEF Process
<1> QED
  BY <1>1, <1>2, Arrivals, QueueingEffect, EmployeeEffect DEF Next
-----------------------------------------------------------------------------
(* Type correctness.                                                       *)

LEMMA QueuedRow ==
    ASSUME TInv, Queued
    PROVE  /\ runs' \in Seq(Run)
           /\ Len(runs) \in Nat /\ DOMAIN runs = 1 .. Len(runs)
           /\ DOMAIN runs' = 1 .. (Len(runs) + 1)
           /\ \A r \in DOMAIN runs : runs'[r] = runs[r]
           /\ runs'[Len(runs) + 1].trigger \in Customers
           /\ runs'[Len(runs) + 1].status = "queued"
           /\ runs'[Len(runs) + 1].call = "none"
  BY Added DEF Queued, TInv, RunsOK

\* What a step does to a run that exists.
LEMMA RunStep ==
    ASSUME TInv, [Next]_vars, NEW r \in DOMAIN runs
    PROVE  r \in DOMAIN runs' /\ Rewrite(r, runs'[r])
<1>0. runs \in Seq(Run) /\ runs[r] \in Run /\ Rewrite(r, runs[r])
  BY RunRows DEF TInv, RunsOK
<1>1. CASE Queued
  BY <1>0, <1>1, QueuedRow
<1>2. CASE Rewriting
  <2>1. PICK s \in DOMAIN runs, row \in Run : Rewrite(s, row) /\ runs' = [runs EXCEPT ![s] = row]
    BY <1>2 DEF Rewriting
  <2>2. CASE s = r
    BY <1>0, <2>1, <2>2, Replaced
  <2>3. CASE s # r
    BY <1>0, <2>1, <2>3, Replaced
  <2> QED
    BY <2>2, <2>3
<1>3. CASE SupersedeActiveRuns
  <2>1. r \in DOMAIN runs' /\ runs'[r] = Withdrawn(runs[r])
    BY <1>3 DEF SupersedeActiveRuns
  <2>2. Rewrite(r, Withdrawn(runs[r]))
    BY <1>0, WithdrawnRow DEF Rewrite
  <2> QED
    BY <2>1, <2>2
<1> QED
  BY <1>0, <1>1, <1>2, <1>3, Effects DEF Effect, RunShape

\* Runs and messages only grow in number.
LEMMA Grows ==
    ASSUME TInv, [Next]_vars
    PROVE  /\ runs' \in Seq(Run) /\ DOMAIN runs \subseteq DOMAIN runs'
           /\ chat' \in Seq(Message) /\ DOMAIN chat \subseteq DOMAIN chat'
           /\ \A m \in DOMAIN chat : chat'[m] = chat[m]
<1>1. runs' \in Seq(Run) /\ DOMAIN runs \subseteq DOMAIN runs'
  BY QueuedRow, SameLength, RunStep, Effects DEF Effect, RunShape
<1>2. chat \in Seq(Message)
  BY DEF TInv, ChatOK
<1>3. ASSUME NEW message \in Message, chat' = Append(chat, message)
      PROVE  /\ chat' \in Seq(Message) /\ DOMAIN chat \subseteq DOMAIN chat'
             /\ \A m \in DOMAIN chat : chat'[m] = chat[m]
  BY <1>2, <1>3, Added
<1> QED
  BY <1>1, <1>2, <1>3, Effects DEF Effect, ChatShape, Said

LEMMA TypedInit == Init => TInv
<1> SUFFICES ASSUME Init PROVE TInv
  OBVIOUS
<1>1. Modes \subseteq AIStates
  BY AIRuntimeAssumption DEF AIStates
<1>2. chat \in Seq(Message) /\ DOMAIN chat = {} /\ runs \in Seq(Run) /\ DOMAIN runs = {}
  BY DEF Init
<1>3. ChatOK /\ RunsOK
  BY <1>2 DEF ChatOK, RunsOK
<1>4. DeliveriesOK
  BY DEF Init, DeliveriesOK
<1>5. work \in [Workers -> {Idle} \cup [step : Steps, run : DOMAIN runs]]
  BY DEF Init
<1> QED
  BY <1>1, <1>3, <1>4, <1>5 DEF Init, TInv

LEMMA TypedNext == TInv /\ [Next]_vars => TInv'
<1> SUFFICES ASSUME TInv, [Next]_vars PROVE TInv'
  OBVIOUS
<1>0. Effect
  BY Effects
<1>1. /\ runs' \in Seq(Run) /\ DOMAIN runs \subseteq DOMAIN runs'
      /\ chat' \in Seq(Message) /\ DOMAIN chat \subseteq DOMAIN chat'
      /\ \A m \in DOMAIN chat : chat'[m] = chat[m]
  BY Grows
<1>2. ChatOK'
  <2>1. ASSUME NEW m \in DOMAIN chat', chat'[m].from \in {"reply", "draft"}
        PROVE  chat'[m].run \in DOMAIN runs'
    <3>1. CASE m \in DOMAIN chat
      BY <1>1, <2>1, <3>1 DEF TInv, ChatOK
    <3>2. CASE m \notin DOMAIN chat
      <4>1. chat \in Seq(Message) /\ chat' # chat
        BY <2>1, <3>2 DEF TInv, ChatOK
      <4>2. PICK message \in Message : Said(message)
        BY <1>0, <4>1 DEF Effect, ChatShape
      <4>3. /\ DOMAIN chat = 1 .. Len(chat) /\ Len(chat) \in Nat
            /\ DOMAIN chat' = 1 .. (Len(chat) + 1) /\ chat'[Len(chat) + 1] = message
        BY <4>1, <4>2, Added DEF Said
      <4>4. m = Len(chat) + 1
        BY <2>1, <3>2, <4>3
      <4> QED
        BY <1>1, <2>1, <4>2, <4>3, <4>4 DEF Said
    <3> QED
      BY <3>1, <3>2
  <2> QED
    BY <1>1, <2>1 DEF ChatOK
<1>3. RunsOK'
  <2>1. ASSUME NEW r \in DOMAIN runs' PROVE runs'[r].trigger \in DOMAIN chat'
    <3>1. CASE r \in DOMAIN runs
      BY <1>1, <3>1, RunStep DEF Rewrite, TInv, RunsOK
    <3>2. CASE r \notin DOMAIN runs
      <4>1. Queued
        BY <1>0, <2>1, <3>2, SameLength DEF Effect, RunShape
      <4>2. r = Len(runs) + 1
        BY <2>1, <3>2, <4>1, QueuedRow
      <4> QED
        BY <1>1, <4>1, <4>2, QueuedRow DEF Customers
    <3> QED
      BY <3>1, <3>2
  <2> QED
    BY <1>1, <2>1 DEF RunsOK
<1>4. work' \in [Workers -> {Idle} \cup [step : Steps, run : DOMAIN runs']]
  <2>1. work \in [Workers -> {Idle} \cup [step : Steps, run : DOMAIN runs']]
    BY <1>1 DEF TInv
  <2>2. ASSUME NEW w \in Workers, NEW step \in Steps, NEW r \in DOMAIN runs, GoesTo(w, step, r)
        PROVE  work' \in [Workers -> {Idle} \cup [step : Steps, run : DOMAIN runs']]
    <3>1. [step |-> step, run |-> r] \in [step : Steps, run : DOMAIN runs']
      BY <1>1
    <3> QED
      BY <2>1, <2>2, <3>1 DEF GoesTo
  <2>3. ASSUME NEW w \in Workers, Leave(w)
        PROVE  work' \in [Workers -> {Idle} \cup [step : Steps, run : DOMAIN runs']]
    BY <2>1, <2>3 DEF Leave
  <2> QED
    BY <1>0, <2>1, <2>2, <2>3 DEF Effect, WorkShape
<1> QED
  BY <1>0, <1>2, <1>3, <1>4 DEF Effect, TInv, DeliveriesOK

LEMMA AlwaysTInv == Spec => []TInv
  BY TypedInit, TypedNext, PTL DEF Spec

\* Runs, messages and tasks keep their types, and whatever a task, a worker or
\* a message names exists, for any number of workers and deaths.
THEOREM Typed == Spec => []TypeOK
<1>1. TInv => TypeOK
  BY DEF TInv, TypeOK, ChatOK, RunsOK, DeliveriesOK, Customers
<1> QED
  BY <1>1, AlwaysTInv, PTL
-----------------------------------------------------------------------------
(* Safety.                                                                 *)

\* However evaluations, requested drafts, deaths and blind saves interleave,
\* one run at most is under way.
THEOREM OneRunAtATime == Spec => []OneActiveRun
<1>1. Init => OneActiveRun
  BY DEF Init, OneActiveRun
<1>2. TInv /\ OneActiveRun /\ [Next]_vars => OneActiveRun'
  <2> SUFFICES ASSUME TInv, OneActiveRun, [Next]_vars,
                      NEW r \in DOMAIN runs', NEW s \in DOMAIN runs',
                      Active(runs'[r]), Active(runs'[s])
               PROVE  r = s
    BY DEF OneActiveRun
  <2>1. CASE Queued
    <3>1. \A q \in DOMAIN runs : runs'[q] = runs[q] /\ ~Active(runs[q])
      BY <2>1, QueuedRow DEF Queued, NothingUnderWay
    <3>2. r \notin DOMAIN runs /\ s \notin DOMAIN runs
      BY <3>1
    <3> QED
      BY <2>1, <3>2, QueuedRow
  <2>2. CASE Rewriting
    <3>1. PICK q \in DOMAIN runs, row \in Run : Rewrite(q, row) /\ runs' = [runs EXCEPT ![q] = row]
      BY <2>2 DEF Rewriting
    <3>2. runs \in Seq(Run)
      BY DEF TInv, RunsOK
    <3>3. r \in DOMAIN runs /\ s \in DOMAIN runs
      BY <3>1
    <3>4. /\ runs'[q] = row
          /\ \A p \in DOMAIN runs : p # q => runs'[p] = runs[p]
      BY <3>1, <3>2, Replaced
    <3>5. CASE r = q /\ s # q
      BY <3>1, <3>3, <3>4, <3>5 DEF Rewrite, OneActiveRun
    <3>6. CASE r # q /\ s = q
      BY <3>1, <3>3, <3>4, <3>6 DEF Rewrite, OneActiveRun
    <3>7. CASE r # q /\ s # q
      BY <3>3, <3>4, <3>7 DEF OneActiveRun
    <3> QED
      BY <3>5, <3>6, <3>7
  <2>3. CASE SupersedeActiveRuns
    <3>1. r \in DOMAIN runs /\ runs'[r] = Withdrawn(runs[r])
      BY <2>3 DEF SupersedeActiveRuns
    <3> QED
      BY <3>1, RunRows, WithdrawnRow
  <2>4. CASE runs' = runs
    BY <2>4 DEF OneActiveRun
  <2> QED
    BY <2>1, <2>2, <2>3, <2>4, Effects DEF Effect, RunShape
<1> QED
  BY <1>1, <1>2, AlwaysTInv, PTL DEF Spec

\* A draft or a proposal from before a human reply is never used, even one
\* that a worker wrote after the reply had withdrawn what it found.
THEOREM StaleIsUnused == Spec => StaleWorkUnused
<1>1. TInv /\ [Next]_vars =>
         [\A r \in DOMAIN runs :
             /\ runs'[r].draft = "approved" => runs[r].draft = "approved" \/ ~Stale(r)
             /\ runs'[r].call = "succeeded" => runs[r].call = "succeeded" \/ ~Stale(r)]_vars
  BY RunStep DEF Rewrite
<1> QED
  BY <1>1, AlwaysTInv, PTL DEF StaleWorkUnused, Spec

\* A run answers at most once by itself and at most once by its draft, with
\* two executions at work on it and executions that die half way.
THEOREM AnswersAreUnique == Spec => []AnswersOnce
<1>1. Init => AnswersOnce
  BY DEF Init, AnswersOnce
<1>2. TInv /\ AnswersOnce /\ [Next]_vars => AnswersOnce'
  <2> SUFFICES ASSUME TInv, AnswersOnce, [Next]_vars,
                      NEW m \in DOMAIN chat', NEW n \in DOMAIN chat',
                      chat'[m].from \in {"reply", "draft"}, chat'[m] = chat'[n]
               PROVE  m = n
    BY DEF AnswersOnce
  <2>1. CASE chat' = chat
    BY <2>1 DEF AnswersOnce
  <2>2. ASSUME NEW message \in Message, Said(message) PROVE m = n
    <3>1. chat \in Seq(Message)
      BY DEF TInv, ChatOK
    <3>2. /\ DOMAIN chat = 1 .. Len(chat) /\ Len(chat) \in Nat
          /\ DOMAIN chat' = 1 .. (Len(chat) + 1) /\ chat'[Len(chat) + 1] = message
          /\ \A k \in DOMAIN chat : chat'[k] = chat[k]
      BY <2>2, <3>1, Added DEF Said
    <3>3. \A k \in DOMAIN chat' : k \in DOMAIN chat \/ k = Len(chat) + 1
      BY <3>2
    <3>4. message.from \in {"reply", "draft"} => \A k \in DOMAIN chat : chat[k] # message
      BY <2>2 DEF Said, Sent
    <3>5. CASE m \in DOMAIN chat /\ n \in DOMAIN chat
      BY <3>2, <3>5 DEF AnswersOnce
    <3>6. CASE m = Len(chat) + 1 \/ n = Len(chat) + 1
      BY <3>2, <3>3, <3>4, <3>6
    <3> QED
      BY <3>3, <3>5, <3>6
  <2> QED
    BY <2>1, <2>2, Effects DEF Effect, ChatShape
<1> QED
  BY <1>1, <1>2, AlwaysTInv, PTL DEF Spec

\* A run is marked completed by a worker that has seen its answer stored.
AnswerKnown ==
    /\ \A r \in DOMAIN runs : runs[r].status = "completed" => Answer(r)
    /\ \A w \in Workers, r \in DOMAIN runs :
          work[w] = [step |-> "complete", run |-> r] => Answer(r)

LEMMA AnswerStays ==
    ASSUME TInv, [Next]_vars, NEW r \in DOMAIN runs, Answer(r)
    PROVE  Answer(r)'
<1>1. CASE runs[r].draft # "none"
  BY <1>1, RunStep DEF Rewrite, Answer
<1>2. CASE \E m \in DOMAIN chat : chat[m] = [from |-> "reply", run |-> r]
  BY <1>2, Grows DEF Answer
<1> QED
  BY <1>1, <1>2 DEF Answer

\* A run is reported completed only when there is an answer to show for it: a
\* message that was stored, or a draft.
THEOREM CompletedHasAnswer == Spec => []CompletedIsAnswered
<1>1. Init => AnswerKnown
  BY DEF Init, AnswerKnown
<1>2. TInv /\ AnswerKnown /\ [Next]_vars => AnswerKnown'
  <2> SUFFICES ASSUME TInv, AnswerKnown, [Next]_vars PROVE AnswerKnown'
    OBVIOUS
  <2>1. ASSUME NEW r \in DOMAIN runs', runs'[r].status = "completed" PROVE Answer(r)'
    <3>1. CASE r \in DOMAIN runs
      <4>1. Rewrite(r, runs'[r])
        BY <3>1, RunStep
      <4>2. CASE runs'[r].draft # "none"
        BY <4>2 DEF Answer
      <4>3. CASE \/ runs[r].status = "completed"
                 \/ \E w \in Workers : work[w] = [step |-> "complete", run |-> r]
        BY <3>1, <4>3, AnswerStays DEF AnswerKnown
      <4> QED
        BY <2>1, <4>1, <4>2, <4>3 DEF Rewrite
    <3>2. CASE r \notin DOMAIN runs
      <4>1. Queued
        BY <2>1, <3>2, SameLength, Effects DEF Effect, RunShape
      <4>2. r = Len(runs) + 1
        BY <2>1, <3>2, <4>1, QueuedRow
      <4> QED
        BY <2>1, <4>1, <4>2, QueuedRow
    <3> QED
      BY <3>1, <3>2
  <2>2. ASSUME NEW w \in Workers, NEW r \in DOMAIN runs',
               work'[w] = [step |-> "complete", run |-> r]
        PROVE  Answer(r)'
    <3>0. work \in [Workers -> {Idle} \cup [step : Steps, run : DOMAIN runs]]
      BY DEF TInv
    <3>1. CASE work'[w] = work[w]
      <4>1. work[w] # Idle
        BY <2>2, <3>1 DEF Idle
      <4>2. r \in DOMAIN runs
        BY <2>2, <3>0, <3>1, <4>1
      <4> QED
        BY <2>2, <3>1, <4>2, AnswerStays DEF AnswerKnown
    <3>2. CASE work'[w] # work[w]
      <4>1. PICK v \in Workers :
                \/ Leave(v)
                \/ \E step \in Steps, s \in DOMAIN runs : GoesTo(v, step, s)
        BY <3>2, Effects DEF Effect, WorkShape
      <4>2. ~Leave(v)
        BY <2>2, <3>0, <3>2 DEF Leave, Idle
      <4>3. PICK step \in Steps, s \in DOMAIN runs : GoesTo(v, step, s)
        BY <4>1, <4>2
      <4>4. work'[w] = [step |-> step, run |-> s]
        BY <3>0, <3>2, <4>3 DEF GoesTo
      <4>5. step = "complete" /\ s = r
        BY <2>2, <4>4
      <4> QED
        BY <4>3, <4>5 DEF GoesTo
    <3> QED
      BY <3>1, <3>2
  <2> QED
    BY <2>1, <2>2 DEF AnswerKnown
<1>3. AnswerKnown => CompletedIsAnswered
  BY DEF AnswerKnown, CompletedIsAnswered, Answer
<1> QED
  BY <1>1, <1>2, <1>3, AlwaysTInv, PTL DEF Spec
-----------------------------------------------------------------------------
(* Refinement of module Conversation.                                      *)

LEMMA Overtaking ==
    ASSUME NEW r \in DOMAIN runs
    PROVE  Talk!Overtaken(r) <=> Stale(r)
  BY DEF Talk!Overtaken, Stale, Triggers

LEMMA SaidSent ==
    ASSUME NEW message
    PROVE  Talk!Said(message) <=> Sent(message)
  BY DEF Talk!Said, Sent

\* The actions that add a message.
LEMMA Voices ==
    ASSUME [Next]_vars
    PROVE  \/ chat' = chat
           \/ CustomerMessage
           \/ AgentReply
           \/ \E w \in Workers : Send(w)
           \/ \E r \in DOMAIN runs : ApproveDraft(r)
<1>1. CASE Queueing
  BY <1>1 DEF Queueing, Evaluate, GenerateDraft, conversation
<1>2. ASSUME NEW w \in Workers, Proceed(w) PROVE chat' = chat \/ Send(w)
  BY <1>2 DEF Proceed, CheckContext, Answered, ProviderFails, WaitForApproval, ChooseReply,
              SendRefused, WriteDraft, Complete, conversation
<1>3. ASSUME NEW w \in Workers, NEW r, Start(w, r) PROVE chat' = chat
  BY <1>3 DEF Start, conversation
<1>4. ASSUME NEW w \in Workers, Crash(w) PROVE chat' = chat
  BY <1>4 DEF Crash, conversation
<1>5. CASE Employee
  BY <1>5 DEF Employee, Pause, FinishPause, SetAIState, RejectDraft, ApproveCall,
              ApprovedCallFails, RejectCall, UpdateHandoff, conversation
<1>6. CASE RequestHandoff \/ EditFacts
  BY <1>6 DEF RequestHandoff, EditFacts
<1>7. CASE UNCHANGED vars
  BY <1>7 DEF vars
<1> QED
  BY <1>1, <1>2, <1>3, <1>4, <1>5, <1>6, <1>7 DEF Next, Process

\* A run keeps the message it is about, and what was carried out stays so.
LEMMA Kept ==
    ASSUME TInv, [Next]_vars, runs' = runs \/ Rewriting \/ SupersedeActiveRuns
    PROVE  /\ DOMAIN runs' = DOMAIN runs
           /\ Triggers' = Triggers
<1>1. DOMAIN runs' = DOMAIN runs
  BY SameLength
<1>2. \A r \in DOMAIN runs : runs'[r].trigger = runs[r].trigger
  BY RunStep DEF Rewrite
<1> QED
  BY <1>1, <1>2 DEF Triggers

LEMMA Withdrawing ==
    ASSUME TInv, [Next]_vars, SupersedeActiveRuns
    PROVE  Triggers' = Triggers /\ UnderWay' = {} /\ CarriedOut' = CarriedOut
<1>1. \A r \in DOMAIN runs : runs'[r] = Withdrawn(runs[r]) /\ runs[r] \in Run
  BY RunRows DEF SupersedeActiveRuns
<1>2. \A r \in DOMAIN runs :
         ~Active(runs'[r]) /\ (runs'[r].call = "succeeded" <=> runs[r].call = "succeeded")
  BY <1>1, WithdrawnRow
<1>3. DOMAIN runs' = DOMAIN runs /\ Triggers' = Triggers
  BY Kept
<1> QED
  BY <1>2, <1>3 DEF UnderWay, CarriedOut

\* A run is queued.
LEMMA Beginning ==
    ASSUME TInv, Queued, chat' = chat
    PROVE  \E m \in DOMAIN chat : Talk!Begin(m)
<1> DEFINE n == Len(runs) + 1
           m == runs'[n].trigger
<1>1. /\ Len(runs) \in Nat /\ DOMAIN runs = 1 .. Len(runs) /\ DOMAIN runs' = 1 .. n
      /\ \A r \in DOMAIN runs : runs'[r] = runs[r]
      /\ m \in Customers /\ runs'[n].status = "queued" /\ runs'[n].call = "none"
  BY QueuedRow
<1>2. Active(runs'[n])
  BY <1>1 DEF Active, ActiveStatuses
<1>3. \A r \in DOMAIN runs : ~Active(runs[r])
  BY DEF Queued, NothingUnderWay
<1>4. DOMAIN runs' = DOMAIN runs \cup {n} /\ n \notin DOMAIN runs
  BY <1>1
<1>5. Len(Triggers) = Len(runs) /\ Triggers \in Seq(Nat)
  <2>1. \A r \in DOMAIN runs : runs[r].trigger \in Nat
    BY RunRows DEF Run
  <2>2. DOMAIN Triggers = 1 .. Len(runs) /\ \A r \in DOMAIN Triggers : Triggers[r] \in Nat
    BY <1>1, <2>1 DEF Triggers
  <2>3. Triggers = [r \in 1 .. Len(runs) |-> Triggers[r]]
    BY <1>1 DEF Triggers
  <2> QED
    BY <1>1, <2>2, <2>3
<1>6. Triggers' = Append(Triggers, m)
  BY <1>1, <1>5 DEF Triggers
<1> HIDE DEF m, n
<1>7. UnderWay = {} /\ UnderWay' = {n} /\ n = Len(Triggers) + 1
  BY <1>1, <1>2, <1>3, <1>4, <1>5 DEF UnderWay, n
<1>8. CarriedOut' = CarriedOut
  BY <1>1, <1>4 DEF CarriedOut
<1>9. m \in DOMAIN chat /\ chat[m].from = "customer"
  BY <1>1 DEF Customers
<1> QED
  BY <1>6, <1>7, <1>8, <1>9 DEF Talk!Begin

\* A row is written while nothing is said.
LEMMA Writing ==
    ASSUME TInv, [Next]_vars, Rewriting, chat' = chat
    PROVE  Talk!Next \/ UNCHANGED Talk!vars
<1>0. runs \in Seq(Run)
  BY DEF TInv, RunsOK
<1>1. PICK r \in DOMAIN runs, row \in Run : Rewrite(r, row) /\ runs' = [runs EXCEPT ![r] = row]
  BY DEF Rewriting
<1>2. /\ DOMAIN runs' = DOMAIN runs /\ runs'[r] = row
      /\ \A s \in DOMAIN runs : s # r => runs'[s] = runs[s]
  BY <1>0, <1>1, Replaced
<1>3. Triggers' = Triggers /\ r \in DOMAIN Triggers
  BY Kept DEF Triggers
<1>4. UnderWay' = IF Active(row) THEN UnderWay \cup {r} ELSE UnderWay \ {r}
  BY <1>2 DEF UnderWay
<1>5. CarriedOut' = IF row.call = "succeeded" THEN CarriedOut \cup {r} ELSE CarriedOut
  BY <1>1, <1>2 DEF CarriedOut, Rewrite
<1>6. CASE row.call = "succeeded" /\ runs[r].call # "succeeded"
  <2>1. ~Stale(r) /\ (Active(row) => r \in UnderWay)
    BY <1>1, <1>6 DEF Rewrite, UnderWay
  <2>2. UnderWay' \subseteq UnderWay
    BY <1>4, <2>1
  <2>3. r \notin CarriedOut /\ CarriedOut' = CarriedOut \cup {r}
    BY <1>5, <1>6 DEF CarriedOut
  <2>4. Talk!Carry(r)
    BY <1>3, <2>1, <2>2, <2>3, Overtaking DEF Talk!Carry
  <2> QED
    BY <1>3, <2>4 DEF Talk!Next
<1>7. CASE ~(row.call = "succeeded" /\ runs[r].call # "succeeded")
  <2>1. CarriedOut' = CarriedOut
    BY <1>5, <1>7 DEF CarriedOut
  <2>2. CASE Active(row) /\ ~Active(runs[r])
    <3>1. UnderWay = {} /\ UnderWay' = {r}
      BY <1>1, <1>4, <2>2 DEF Rewrite, UnderWay
    <3>2. Talk!Resume(r)
      BY <1>3, <2>1, <3>1 DEF Talk!Resume
    <3> QED
      BY <1>3, <3>2 DEF Talk!Next
  <2>3. CASE ~(Active(row) /\ ~Active(runs[r]))
    <3>1. UnderWay' \subseteq UnderWay
      BY <1>4, <2>3 DEF UnderWay
    <3>2. Talk!End
      BY <1>3, <2>1, <3>1 DEF Talk!End
    <3> QED
      BY <3>2 DEF Talk!Next
  <2> QED
    BY <2>2, <2>3
<1> QED
  BY <1>6, <1>7

\* An answer is added, if it was not before.
LEMMA Answering ==
    ASSUME NEW r \in DOMAIN runs, NEW by \in {"reply", "draft"},
           Post([from |-> by, run |-> r]), by = "draft" => ~Stale(r),
           Triggers' = Triggers, UnderWay' = UnderWay, CarriedOut' = CarriedOut
    PROVE  Talk!Next \/ UNCHANGED Talk!vars
<1> DEFINE message == [from |-> by, run |-> r]
<1>1. chat' = IF Sent(message) THEN chat ELSE Append(chat, message)
  BY DEF Post, Sent
<1>2. CASE Sent(message)
  BY <1>1, <1>2 DEF Talk!vars
<1>3. CASE ~Sent(message)
  <2>1. chat' = Append(chat, message) /\ ~Talk!Said(message)
    BY <1>1, <1>3, SaidSent
  <2>2. by = "draft" => ~Talk!Overtaken(r)
    BY Overtaking
  <2>3. Talk!Answer(r, by)
    BY <2>1, <2>2 DEF Talk!Answer
  <2>4. r \in DOMAIN Triggers
    BY DEF Triggers
  <2> QED
    BY <2>3, <2>4 DEF Talk!Next
<1> QED
  BY <1>2, <1>3

LEMMA TalkStep == TInv /\ [Next]_vars => [Talk!Next]_(Talk!vars)
<1> SUFFICES ASSUME TInv, [Next]_vars PROVE Talk!Next \/ UNCHANGED Talk!vars
  OBVIOUS
<1>1. CASE chat' = chat
  <2>1. CASE runs' = runs
    BY <1>1, <2>1 DEF Talk!vars, Triggers, UnderWay, CarriedOut, Active
  <2>2. CASE Queued
    BY <1>1, <2>2, Beginning DEF Talk!Next
  <2>3. CASE Rewriting
    BY <1>1, <2>3, Writing
  <2>4. CASE SupersedeActiveRuns
    BY <1>1, <2>4, Withdrawing DEF Talk!Next, Talk!End
  <2> QED
    BY <2>1, <2>2, <2>3, <2>4, Effects DEF Effect, RunShape
<1>2. CASE CustomerMessage
  <2>1. UNCHANGED runs /\ chat' = Append(chat, [from |-> "customer"])
    BY <1>2 DEF CustomerMessage
  <2>2. UNCHANGED <<Triggers, UnderWay, CarriedOut>>
    BY <2>1 DEF Triggers, UnderWay, CarriedOut, Active
  <2> QED
    BY <2>1, <2>2 DEF Talk!Next, Talk!Customer
<1>3. CASE AgentReply
  <2>1. SupersedeActiveRuns /\ chat' = Append(chat, [from |-> "agent"])
    BY <1>3 DEF AgentReply
  <2> QED
    BY <2>1, Withdrawing DEF Talk!Next, Talk!Employee
<1>4. ASSUME NEW w \in Workers, Send(w) PROVE Talk!Next \/ UNCHANGED Talk!vars
  <2>1. UNCHANGED runs /\ Post([from |-> "reply", run |-> work[w].run])
    BY <1>4 DEF Send
  <2>2. work[w].run \in DOMAIN runs
    BY <1>4, InHand DEF Send, At, Steps
  <2>3. Triggers' = Triggers /\ UnderWay' = UnderWay /\ CarriedOut' = CarriedOut
    BY <2>1 DEF Triggers, UnderWay, CarriedOut, Active
  <2> QED
    BY <2>1, <2>2, <2>3, Answering
<1>5. ASSUME NEW r \in DOMAIN runs, ApproveDraft(r) PROVE Talk!Next \/ UNCHANGED Talk!vars
  <2>1. /\ ~Stale(r) /\ Post([from |-> "draft", run |-> r])
        /\ runs' = [runs EXCEPT ![r] = WithDraft(@, "approved")]
    BY <1>5 DEF ApproveDraft, Usable
  <2>2. /\ runs \in Seq(Run) /\ runs[r] \in Run /\ "approved" \in DraftStatuses
    BY DEF TInv, RunsOK, DraftStatuses
  <2>3. \A s \in DOMAIN runs :
           /\ runs'[s].trigger = runs[s].trigger
           /\ runs'[s].status = runs[s].status
           /\ runs'[s].call = runs[s].call
    BY <2>1, <2>2, DraftRow
  <2>4. DOMAIN runs' = DOMAIN runs
    BY <2>1
  <2>5. Triggers' = Triggers /\ UnderWay' = UnderWay /\ CarriedOut' = CarriedOut
    BY <2>3, <2>4 DEF Triggers, UnderWay, CarriedOut, Active
  <2> QED
    BY <2>1, <2>5, Answering
<1> QED
  BY <1>1, <1>2, <1>3, <1>4, <1>5, Voices

\* However runs are executed, interleaved and cut off by deaths, customers and
\* employees see the conversation that module Conversation describes: a run at
\* a time, ended by an employee's message; every answer, draft and action used
\* once; and no draft or action used after an employee has written.
THEOREM ConversationImplemented == Spec => ImplementsConversation
<1>1. Init => Talk!Init
  BY DEF Init, Talk!Init, Triggers, UnderWay, CarriedOut
<1> QED
  BY <1>1, TalkStep, AlwaysTInv, PTL DEF Spec, ImplementsConversation, Talk!Spec
=============================================================================
