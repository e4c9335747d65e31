------------------------------ MODULE AITools ------------------------------
(***************************************************************************)
(* The tools of one AI run (backend/apps/ai_runtime/tools.py and the tool  *)
(* handling of services.py).  The provider proposes calls, each under an   *)
(* id of its own; a policy decides whether a call runs at once or waits    *)
(* for a person.  Tools differ in what keeps a repetition from acting      *)
(* twice: "hold" (hold, appointment, move, tag, waitlist) is keyed by the  *)
(* run and its argument, "task" (and lead) shows in the prompt the run was *)
(* queued with, "note" does neither.                                       *)
(***************************************************************************)
EXTENDS Naturals, FiniteSets, Sequences

CONSTANTS
    Workers,            \* executions of process_run, of deliveries and redeliveries
    Tools,              \* a subset of {"hold", "task", "note"}
    MaxRounds,          \* config.max_tool_rounds
    MaxProposed,        \* AI_MAX_TOOL_CALLS_PER_RUN
    MaxCalls            \* bound: calls ever proposed

VARIABLES tlRun, tlCall, tlEffect, tlPolicy, tlTalk, tlWork

tlVars == <<tlRun, tlCall, tlEffect, tlPolicy, tlTalk, tlWork>>

-----------------------------------------------------------------------------
Modes == {"automatic", "require_approval", "disabled"}
RunStatus == {"queued", "running", "waiting", "completed", "failed", "superseded", "handoff"}
CallStatus == {"proposed", "awaiting", "succeeded", "failed", "rejected", "cancelled"}
Call == [tool: Tools, status: CallStatus, approval: BOOLEAN]
Idle == [at |-> "idle"]

\* tlEffect: what handlers wrote, in order; tlTalk: the AI may act, a person
\* answered, a handoff is open
AIToolsTypeOK ==
    /\ tlRun.status \in RunStatus /\ tlRun.rounds \in 0..MaxRounds
    /\ Len(tlCall) <= MaxCalls /\ \A c \in DOMAIN tlCall : tlCall[c] \in Call
    /\ \A e \in DOMAIN tlEffect : tlEffect[e].tool \in Tools /\ tlEffect[e].call \in DOMAIN tlCall
    /\ tlPolicy \in [Tools -> Modes]
    /\ tlTalk \in [on: BOOLEAN, human: BOOLEAN, handoff: BOOLEAN]
    /\ \A w \in Workers : tlWork[w].at \in {"idle", "context", "ask", "handle", "execute"}

Enabled == {t \in Tools : tlPolicy[t] # "disabled"}
Shown == Cardinality({e \in DOMAIN tlEffect : tlEffect[e].tool = "task"})
Prompt == [tools |-> Enabled, tasks |-> Shown]

AIToolsInit ==
    /\ tlPolicy \in [Tools -> Modes]
    /\ tlCall = <<>> /\ tlEffect = <<>>
    /\ tlRun = [status |-> "queued", rounds |-> 0, prompt |-> [tools |-> Enabled, tasks |-> 0]]
    /\ tlTalk = [on |-> TRUE, human |-> FALSE, handoff |-> FALSE]
    /\ tlWork = [w \in Workers |-> Idle]

At(w, stage) == tlWork[w].at = stage
Goto(w, work) == tlWork' = [tlWork EXCEPT ![w] = work]
Leave(w) == Goto(w, Idle)
Save(status) == tlRun' = [tlRun EXCEPT !.status = status]

\* create_handoff, for a run whose status the caller read as `status'
HandOff(status) ==
    /\ tlRun' = [tlRun EXCEPT !.status =
                    IF tlTalk.handoff /\ status \in {"handoff", "completed"} THEN @ ELSE "handoff"]
    /\ tlTalk' = [tlTalk EXCEPT !.handoff = TRUE, !.on = IF tlTalk.handoff THEN @ ELSE FALSE]

-----------------------------------------------------------------------------
(* process_run up to the provider; a worker lost is followed by another.   *)
Begin(w) ==
    /\ tlWork[w] = Idle
    /\ tlRun.status \in {"queued", "running"}
    /\ IF tlTalk.on /\ ~tlTalk.human
       THEN Save("running") /\ Goto(w, [at |-> "context"])
       ELSE Save("superseded") /\ UNCHANGED tlWork
    /\ UNCHANGED <<tlCall, tlEffect, tlPolicy, tlTalk>>

\* the policies are read once for the whole execution
Context(w) ==
    /\ At(w, "context")
    /\ IF Prompt = tlRun.prompt
       THEN Goto(w, [at |-> "ask", policy |-> tlPolicy, rounds |-> tlRun.rounds]) /\ UNCHANGED tlRun
       ELSE Save("superseded") /\ Leave(w)
    /\ UNCHANGED <<tlCall, tlEffect, tlPolicy, tlTalk>>

\* the provider fails, or its answer becomes a message or a draft
Answered(w) ==
    /\ At(w, "ask")
    /\ \E status \in {"completed", "failed"} : Save(status)
    /\ Leave(w)
    /\ UNCHANGED <<tlCall, tlEffect, tlPolicy, tlTalk>>

Proposals == UNION {[1..n -> Tools] : n \in 1..(MaxProposed + 1)}

Propose(w) ==
    /\ At(w, "ask")
    /\ \E calls \in Proposals :
          IF tlWork[w].rounds >= MaxRounds \/ Len(calls) > MaxProposed
          THEN HandOff("running") /\ Leave(w)
          ELSE /\ Goto(w, [at |-> "handle", policy |-> tlWork[w].policy, rounds |-> tlWork[w].rounds,
                           left |-> calls, pending |-> FALSE])
               /\ UNCHANGED <<tlRun, tlTalk>>
    /\ UNCHANGED <<tlCall, tlEffect, tlPolicy>>

-----------------------------------------------------------------------------
(* _handle_tool_calls: one proposal after the other.                       *)
Recorded(tool, status, approval) ==
    /\ Len(tlCall) < MaxCalls
    /\ tlCall' = Append(tlCall, [tool |-> tool, status |-> status, approval |-> approval])

Handle(w) ==
    /\ At(w, "handle")
    /\ tlWork[w].left # <<>>
    /\ LET tool == Head(tlWork[w].left)
           next == [tlWork[w] EXCEPT !.left = Tail(@)]
           mode == tlWork[w].policy[tool] IN
       \/ /\ mode = "disabled"
          /\ Recorded(tool, "rejected", FALSE)
          /\ HandOff("running")
          /\ Leave(w)
       \/ /\ mode = "require_approval"
          /\ Recorded(tool, "awaiting", TRUE)
          /\ Goto(w, [next EXCEPT !.pending = TRUE])
          /\ UNCHANGED <<tlRun, tlTalk>>
       \/ /\ mode = "automatic"
          /\ Recorded(tool, "proposed", FALSE)
          /\ Goto(w, [at |-> "execute", policy |-> next.policy, rounds |-> next.rounds,
                      left |-> next.left, pending |-> next.pending, call |-> Len(tlCall) + 1])
          /\ UNCHANGED <<tlRun, tlTalk>>
    /\ UNCHANGED <<tlEffect, tlPolicy>>

\* what a handler writes: a keyed one finds what it wrote before
Found(tool) == tool = "hold" /\ \E e \in DOMAIN tlEffect : tlEffect[e].tool = tool
Written(c) ==
    IF Found(tlCall[c].tool) THEN tlEffect
    ELSE Append(tlEffect, [tool |-> tlCall[c].tool, call |-> c])

\* execute_tool, one transaction with its row locked
Succeeds(c) ==
    /\ tlEffect' = Written(c)
    /\ tlCall' = [tlCall EXCEPT ![c].status = "succeeded"]

Execute(w) ==
    LET c == tlWork[w].call IN
    /\ At(w, "execute")
    /\ Succeeds(c)
    /\ Goto(w, [at |-> "handle", policy |-> tlWork[w].policy, rounds |-> tlWork[w].rounds,
                left |-> tlWork[w].left, pending |-> tlWork[w].pending])
    /\ UNCHANGED <<tlRun, tlPolicy, tlTalk>>

\* no right, no entitlement, an invalid argument: all of it is rolled back
ExecuteFails(w) ==
    /\ At(w, "execute")
    /\ HandOff("running")
    /\ Leave(w)
    /\ UNCHANGED <<tlCall, tlEffect, tlPolicy>>

EndRound(w) ==
    LET rounds == tlWork[w].rounds + 1 IN
    /\ At(w, "handle")
    /\ tlWork[w].left = <<>>
    /\ IF tlWork[w].pending
       THEN /\ tlRun' = [tlRun EXCEPT !.status = "waiting", !.rounds = rounds]
            /\ Leave(w)
       ELSE /\ tlRun' = [tlRun EXCEPT !.rounds = rounds]
            /\ Goto(w, [at |-> "ask", policy |-> tlWork[w].policy, rounds |-> rounds])
    /\ UNCHANGED <<tlCall, tlEffect, tlPolicy, tlTalk>>

WorkerLost(w) ==
    /\ tlWork[w] # Idle
    /\ Leave(w)
    /\ UNCHANGED <<tlRun, tlCall, tlEffect, tlPolicy, tlTalk>>

-----------------------------------------------------------------------------
(* People.  supersede_active_runs, after an answer or a pause.             *)
Superseded ==
    IF tlRun.status \notin {"queued", "running", "waiting"} THEN UNCHANGED <<tlRun, tlCall>>
    ELSE /\ Save("superseded")
         /\ tlCall' = [c \in DOMAIN tlCall |->
                          IF tlCall[c].status \in {"proposed", "awaiting"}
                          THEN [tlCall[c] EXCEPT !.status = "cancelled"] ELSE tlCall[c]]

HumanReply ==
    /\ ~tlTalk.human
    /\ tlTalk' = [tlTalk EXCEPT !.human = TRUE, !.on = FALSE]
    /\ Superseded
    /\ UNCHANGED <<tlEffect, tlPolicy, tlWork>>

Pause ==
    /\ tlTalk.on
    /\ tlTalk' = [tlTalk EXCEPT !.on = FALSE]
    /\ Superseded
    /\ UNCHANGED <<tlEffect, tlPolicy, tlWork>>

\* ToolPoliciesView.patch
ChangePolicy(tool, mode) ==
    /\ tlPolicy[tool] # mode
    /\ tlPolicy' = [tlPolicy EXCEPT ![tool] = mode]
    /\ UNCHANGED <<tlRun, tlCall, tlEffect, tlTalk, tlWork>>

\* Mutant: a call that was decided is decided again.
AwaitingAlways(c) == c \in DOMAIN tlCall

Awaiting(c) == c \in DOMAIN tlCall /\ tlCall[c].status = "awaiting"

\* approve_tool_call: the last call decided completes a waiting run
Completed ==
    IF tlRun.status = "waiting" /\ \A c \in DOMAIN tlCall : tlCall'[c].status # "awaiting"
    THEN Save("completed") ELSE UNCHANGED tlRun

Approve(c) ==
    /\ Awaiting(c)
    /\ ~tlTalk.human
    /\ Succeeds(c)
    /\ Completed
    /\ UNCHANGED <<tlPolicy, tlTalk, tlWork>>

ApproveFails(c) ==
    /\ Awaiting(c)
    /\ ~tlTalk.human
    /\ tlCall' = [tlCall EXCEPT ![c].status = "failed"]
    /\ HandOff(tlRun.status)
    /\ UNCHANGED <<tlEffect, tlPolicy, tlWork>>

Reject(c) ==
    /\ Awaiting(c)
    /\ tlCall' = [tlCall EXCEPT ![c].status = "rejected"]
    /\ HandOff(tlRun.status)
    /\ UNCHANGED <<tlEffect, tlPolicy, tlWork>>

AIToolsNext ==
    \/ \E w \in Workers : Begin(w) \/ Context(w) \/ Answered(w) \/ Propose(w) \/ Handle(w)
    \/ \E w \in Workers : Execute(w) \/ ExecuteFails(w) \/ EndRound(w) \/ WorkerLost(w)
    \/ HumanReply \/ Pause
    \/ \E tool \in Tools, mode \in Modes : ChangePolicy(tool, mode)
    \/ \E c \in 1..MaxCalls : Approve(c) \/ ApproveFails(c) \/ Reject(c)

AIToolsSpec == AIToolsInit /\ [][AIToolsNext]_tlVars

-----------------------------------------------------------------------------
(* However often workers are lost, deliveries overlap and people decide, a *)
(* run holds a slot once, a call acts at most once, and what acted is a    *)
(* call that succeeded.                                                    *)
ActsOnce ==
    /\ Cardinality({e \in DOMAIN tlEffect : tlEffect[e].tool = "hold"}) <= 1
    /\ \A e, f \in DOMAIN tlEffect : tlEffect[e].call = tlEffect[f].call => e = f
    /\ \A e \in DOMAIN tlEffect : tlCall[tlEffect[e].call].status = "succeeded"

(* backend/docs/architecture/ai-conversation-runtime.md: "duplicate        *)
(* approval returns a conflict and cannot repeat a write": a call a person *)
(* was to decide keeps its verdict, and without one acts never.            *)
DecidedStay ==
    \A c \in DOMAIN tlCall :
        tlCall[c].approval /\ tlCall[c].status # "awaiting" => tlCall'[c].status = tlCall[c].status
VerdictStands == [][DecidedStay]_tlVars

(* "Any human outbound reply immediately pauses AI and supersedes queued   *)
(* runs, drafts, and proposals": a proposal withdrawn stays withdrawn.     *)
WithdrawnStays ==
    [][\A c \in DOMAIN tlCall : tlCall[c].status = "cancelled" => tlCall'[c].status = "cancelled"]_tlVars
=============================================================================
