------------------------------- MODULE Voice -------------------------------
(***************************************************************************)
(* Inbound voice calls (backend/apps/voice): the webhook that routes a     *)
(* call, the worker that claims its controller job and handles the events  *)
(* of the realtime session, the carrier's status callback and the employee *)
(* who takes over.                                                         *)
(*                                                                         *)
(* Every handler of an event locks the call's row; the worker's loop and   *)
(* the webhook decide from what they read before.  vcWork is where the     *)
(* worker of a call is: "segment" has read that the transcript may be      *)
(* kept, "handled" has to read the call again, "over" and "broken" have to *)
(* finalize, "release" and "retry" to give the job back.                   *)
(***************************************************************************)
EXTENDS Naturals, FiniteSets

CONSTANTS
    Calls,              \* bound: calls to the number
    MaxConcurrent,      \* VOICE_MAX_CONCURRENT_CALLS
    MaxAttempts,        \* VOICE_CONTROLLER_MAX_ATTEMPTS
    MaxSegments,        \* VOICE_MAX_TRANSCRIPT_SEGMENTS
    MaxTools            \* max_tools_per_call

VARIABLES vcConn, vcCall, vcRoute, vcJob, vcLock, vcWork

vcVars == <<vcConn, vcCall, vcRoute, vcJob, vcLock, vcWork>>

-----------------------------------------------------------------------------
CallStatuses == {"none", "routing", "accepted", "active", "transfer_requested", "transferred", "completed", "failed", "rejected"}
ActiveStatuses == {"routing", "accepted", "active", "transfer_requested"}

ConsentStates == {"not_required", "pending", "granted", "declined"}
\* keep: transcript_storage_allowed; ai: ai_control_active; billed: usage recorded
CallRow == [status: CallStatuses, ended: BOOLEAN, consent: ConsentStates, keep: BOOLEAN,
            segments: 0 .. MaxSegments, ai: BOOLEAN, taken: BOOLEAN, tools: 0 .. MaxTools, billed: 0 .. 2]
NoCall == [status |-> "none", ended |-> FALSE, consent |-> "not_required", keep |-> FALSE, segments |-> 0,
           ai |-> TRUE, taken |-> FALSE, tools |-> 0, billed |-> 0]
ConnStatuses == {"none", "connected", "paused", "disconnected"}
JobRow == [status: {"none", "pending", "running", "completed", "failed"}, attempts: 0 .. MaxAttempts]
Places == {"none", "claimed", "reading", "segment", "handled", "over", "broken", "release", "retry"}

VoiceTypeOK ==
    /\ vcConn \in ConnStatuses
    /\ vcCall \in [Calls -> CallRow]
    /\ vcRoute \in [Calls -> {"none", "free", "full", "refused", "routed", "answered"}]
    /\ vcJob \in [Calls -> JobRow]
    /\ vcLock \subseteq Calls
    /\ vcWork \in [Calls -> Places]

VoiceInit ==
    /\ vcConn = "none"
    /\ vcCall = [c \in Calls |-> NoCall]
    /\ vcRoute = [c \in Calls |-> "none"]
    /\ vcJob = [c \in Calls |-> [status |-> "none", attempts |-> 0]]
    /\ vcLock = {}
    /\ vcWork = [c \in Calls |-> "none"]

-----------------------------------------------------------------------------
(* The connection of the number, by its managers.                          *)

CreateConnection ==
    /\ vcConn \in {"none", "disconnected"}
    /\ vcConn' = "connected"
    /\ UNCHANGED <<vcCall, vcRoute, vcJob, vcLock, vcWork>>

SetConnectionState(status) ==
    /\ vcConn # "none"
    /\ vcConn' = status
    /\ UNCHANGED <<vcCall, vcRoute, vcJob, vcLock, vcWork>>

-----------------------------------------------------------------------------
(* The webhook.  The transaction counts the active calls without a lock    *)
(* and creates the call, its envelope and its job.                         *)

ActiveCalls == {c \in Calls : vcCall[c].status \in ActiveStatuses}

(* A number without a connected row is refused and leaves nothing.         *)
\* blocked: the kill switch, a control, the organization or the entitlement
RouteBegin(c, blocked) ==
    /\ vcRoute[c] = "none"
    /\ vcConn = "connected"
    /\ vcRoute' = [vcRoute EXCEPT ![c] = CASE blocked -> "refused"
                                          [] Cardinality(ActiveCalls) >= MaxConcurrent -> "full"
                                          [] OTHER -> "free"]
    /\ UNCHANGED <<vcConn, vcCall, vcJob, vcLock, vcWork>>

\* Mutant: a transcript is kept before the caller was asked.
KeptUnasked(explicit, stores) == stores

Kept(explicit, stores) == stores /\ ~explicit

\* explicit: the caller is asked before the transcript is kept; stores: the retention
\* of the connection at that moment
RouteCommit(c, explicit, stores) ==
    /\ vcRoute[c] \in {"free", "full", "refused"}
    /\ vcRoute' = [vcRoute EXCEPT ![c] = "routed"]
    /\ IF vcRoute[c] = "free"
       THEN /\ vcCall' = [vcCall EXCEPT ![c] = [NoCall EXCEPT !.status = "routing",
                                                 !.consent = IF explicit THEN "pending" ELSE "not_required",
                                                 !.keep = Kept(explicit, stores)]]
            /\ vcJob' = [vcJob EXCEPT ![c].status = "pending"]
       ELSE /\ vcCall' = [vcCall EXCEPT ![c] = [NoCall EXCEPT !.status = "rejected", !.ended = TRUE]]
            /\ UNCHANGED vcJob
    /\ UNCHANGED <<vcConn, vcLock, vcWork>>

(* The provider is told after the commit; a redelivered webhook comes here *)
(* again, for every call that is not rejected or failed.                   *)
Accept(c) ==
    /\ vcRoute[c] \in {"routed", "answered"}
    /\ vcCall[c].status \notin {"rejected", "failed"}
    /\ vcRoute' = [vcRoute EXCEPT ![c] = "answered"]
    /\ vcCall' = [vcCall EXCEPT ![c].status = IF @ = "routing" THEN "accepted" ELSE @]
    /\ UNCHANGED <<vcConn, vcJob, vcLock, vcWork>>

(* A control was activated since: the call is ended, its job is not.       *)
AcceptBlocked(c) ==
    /\ vcRoute[c] \in {"routed", "answered"}
    /\ vcCall[c].status \notin {"rejected", "failed"}
    /\ vcRoute' = [vcRoute EXCEPT ![c] = "answered"]
    /\ vcCall' = [vcCall EXCEPT ![c].status = "rejected", ![c].ended = TRUE]
    /\ UNCHANGED <<vcConn, vcJob, vcLock, vcWork>>

-----------------------------------------------------------------------------
(* finalize_call: a call that has an end is left alone.                    *)

Finalized(call, error) ==
    IF call.ended THEN call
    ELSE [call EXCEPT !.ended = TRUE, !.ai = FALSE, !.billed = @ + 1,
                      !.status = CASE @ = "transferred" -> @
                                   [] error             -> "failed"
                                   [] OTHER             -> "completed"]

(* receive_carrier_status: each callback counts once.                      *)
CarrierStatus(c, error) ==
    /\ vcCall[c].status # "none"
    /\ vcCall' = [vcCall EXCEPT ![c] = Finalized(@, error)]
    /\ UNCHANGED <<vcConn, vcRoute, vcJob, vcLock, vcWork>>

(* human_takeover asks for the role and not for the call's status.         *)
TakeOver(c) ==
    /\ vcCall[c].status # "none"
    /\ vcCall' = [vcCall EXCEPT ![c].ai = FALSE, ![c].taken = TRUE]
    /\ UNCHANGED <<vcConn, vcRoute, vcJob, vcLock, vcWork>>

(* privacy_delete_expired_transcripts.                                     *)
DeleteTranscript(c) ==
    /\ vcCall[c].ended
    /\ vcCall[c].segments > 0
    /\ vcCall' = [vcCall EXCEPT ![c].segments = 0]
    /\ UNCHANGED <<vcConn, vcRoute, vcJob, vcLock, vcWork>>

-----------------------------------------------------------------------------
(* The worker.                                                             *)

At(c, place, next) ==
    /\ vcWork[c] = place
    /\ vcWork' = [vcWork EXCEPT ![c] = next]

\* Mutant: a claimed job is not taken from the queue.
ClaimLeft(c) ==
    /\ vcJob[c].status = "pending"
    /\ c \notin vcLock
    /\ At(c, "none", "claimed")
    /\ vcJob' = [vcJob EXCEPT ![c].attempts = @ + 1]
    /\ vcLock' = vcLock \cup {c}
    /\ UNCHANGED <<vcConn, vcCall, vcRoute>>

(* claim_next_job: the row is locked and skipped, then the lock of the     *)
(* call is taken in the cache.                                             *)
Claim(c) ==
    /\ vcJob[c].status = "pending"
    /\ c \notin vcLock
    /\ At(c, "none", "claimed")
    /\ vcJob' = [vcJob EXCEPT ![c] = [status |-> "running", attempts |-> @.attempts + 1]]
    /\ vcLock' = vcLock \cup {c}
    /\ UNCHANGED <<vcConn, vcCall, vcRoute>>

(* run marks the call active without asking what it is.                    *)
RunBegin(c) ==
    /\ At(c, "claimed", "reading")
    /\ vcCall' = [vcCall EXCEPT ![c].status = "active"]
    /\ UNCHANGED <<vcConn, vcRoute, vcJob, vcLock>>

(* _persist_segment reads the permission, store_final_transcript reads it  *)
(* again with the row locked; the limit of segments raises.                *)
SegmentBegin(c) ==
    /\ At(c, "reading", IF vcCall[c].keep THEN "segment" ELSE "handled")
    /\ UNCHANGED <<vcConn, vcCall, vcRoute, vcJob, vcLock>>

SegmentEnd(c) ==
    /\ At(c, "segment", IF vcCall[c].keep /\ vcCall[c].segments >= MaxSegments THEN "broken" ELSE "handled")
    /\ vcCall' = [vcCall EXCEPT ![c].segments =
                      IF vcCall[c].keep /\ @ < MaxSegments THEN @ + 1 ELSE @]
    /\ UNCHANGED <<vcConn, vcRoute, vcJob, vcLock>>

\* An event whose handler is one transaction on the call.
Handles(c, call) ==
    /\ At(c, "reading", "handled")
    /\ vcCall' = [vcCall EXCEPT ![c] = call]
    /\ UNCHANGED <<vcConn, vcRoute, vcJob, vcLock>>

Consent(c, granted, stores) ==
    Handles(c, [vcCall[c] EXCEPT !.consent = IF granted THEN "granted" ELSE "declined", !.keep = granted /\ stores])

(* execute_voice_tool: the one that fails is undone with its record, the   *)
(* model is answered either way.                                           *)
Tool(c) ==
    /\ vcCall[c].tools < MaxTools
    /\ Handles(c, [vcCall[c] EXCEPT !.tools = @ + 1])
Transferred(c) == Handles(c, [vcCall[c] EXCEPT !.status = "transferred", !.ai = FALSE])
TransferFails(c) == Handles(c, [vcCall[c] EXCEPT !.status = "transfer_requested"])
TakenByEvent(c) == Handles(c, [vcCall[c] EXCEPT !.ai = FALSE, !.taken = TRUE])
Unclear(c) == Handles(c, Finalized(vcCall[c], FALSE))
Completed(c) == Handles(c, Finalized(vcCall[c], FALSE))

(* The session is lost, the call too long, or a handler raises.            *)
Breaks(c, timeout) ==
    /\ At(c, "reading", IF timeout THEN "over" ELSE "broken")
    /\ vcCall' = IF timeout THEN [vcCall EXCEPT ![c] = Finalized(@, TRUE)] ELSE vcCall
    /\ UNCHANGED <<vcConn, vcRoute, vcJob, vcLock>>

(* The loop reads the call after each event.                               *)
Refresh(c) ==
    /\ At(c, "handled", IF vcCall[c].ended \/ ~vcCall[c].ai THEN "over" ELSE "reading")
    /\ UNCHANGED <<vcConn, vcCall, vcRoute, vcJob, vcLock>>

StreamEnds(c) ==
    /\ At(c, "reading", "over")
    /\ UNCHANGED <<vcConn, vcCall, vcRoute, vcJob, vcLock>>

RunEnd(c) ==
    /\ At(c, "over", "release")
    /\ vcCall' = IF vcCall[c].status = "transferred" THEN vcCall ELSE [vcCall EXCEPT ![c] = Finalized(@, FALSE)]
    /\ UNCHANGED <<vcConn, vcRoute, vcJob, vcLock>>

RunFailed(c) ==
    /\ At(c, "broken", "retry")
    /\ vcCall' = [vcCall EXCEPT ![c] = Finalized(@, TRUE)]
    /\ UNCHANGED <<vcConn, vcRoute, vcJob, vcLock>>

Release(c) ==
    /\ vcWork[c] \in {"release", "retry"}
    /\ vcWork' = [vcWork EXCEPT ![c] = "none"]
    /\ vcLock' = vcLock \ {c}
    /\ vcJob' = [vcJob EXCEPT ![c].status = CASE vcWork[c] = "release"          -> "completed"
                                             [] vcJob[c].attempts < MaxAttempts -> "pending"
                                             [] OTHER                           -> "failed"]
    /\ UNCHANGED <<vcConn, vcCall, vcRoute>>

(* The gateway is killed: nobody looks at locked_until, the job stays      *)
(* running; the lock in the cache expires.                                 *)
GatewayDies(c) ==
    /\ vcWork[c] # "none"
    /\ vcWork' = [vcWork EXCEPT ![c] = "none"]
    /\ UNCHANGED <<vcConn, vcCall, vcRoute, vcJob, vcLock>>

LockExpires(c) ==
    /\ c \in vcLock
    /\ vcWork[c] = "none"
    /\ vcLock' = vcLock \ {c}
    /\ UNCHANGED <<vcConn, vcCall, vcRoute, vcJob, vcWork>>

VoiceNext ==
    \/ CreateConnection
    \/ \E s \in {"connected", "paused", "disconnected"} : SetConnectionState(s)
    \/ \E c \in Calls :
        \/ \E b \in BOOLEAN : RouteBegin(c, b) \/ CarrierStatus(c, b) \/ Breaks(c, b)
        \/ \E b, stores \in BOOLEAN : RouteCommit(c, b, stores) \/ Consent(c, b, stores)
        \/ Accept(c) \/ AcceptBlocked(c) \/ TakeOver(c) \/ DeleteTranscript(c)
        \/ Claim(c) \/ RunBegin(c) \/ SegmentBegin(c) \/ SegmentEnd(c) \/ Tool(c) \/ Transferred(c)
        \/ TransferFails(c) \/ TakenByEvent(c) \/ Unclear(c) \/ Completed(c) \/ Refresh(c) \/ StreamEnds(c) \/ RunEnd(c)
        \/ RunFailed(c) \/ Release(c) \/ GatewayDies(c) \/ LockExpires(c)

VoiceSpec == VoiceInit /\ [][VoiceNext]_vcVars

-----------------------------------------------------------------------------
(* Properties.                                                             *)

(* finalize_call is reached by the worker, its error path, the carrier and *)
(* the loop of the call; the seconds of a call are recorded once.          *)
CallBilledOnce == \A c \in Calls : vcCall[c].billed <= 1

(* voice-ai-telephony.md:49: where consent is explicit nothing is stored   *)
(* until the caller agrees, and nothing after he declined, whatever stands *)
(* between the answer and the segment: events, retries of the job, a       *)
(* redelivered webhook.                                                    *)
SegmentsAreAllowed ==
    \A c \in Calls : vcCall'[c].segments > vcCall[c].segments
                        => vcCall[c].keep /\ vcCall[c].consent \in {"not_required", "granted"}
TranscriptNeedsConsent == [][SegmentsAreAllowed]_vcVars

(* voice-ai-telephony.md: provider loss and timeout finalize the call.  A  *)
(* call that has ended does not count as active any more.                  *)
EndedCallIsOver == \A c \in Calls : vcCall[c].ended => vcCall[c].status \notin ActiveStatuses

(* voice-ai-telephony.md: human takeover disables AI control before        *)
(* further AI actions.                                                     *)
NoToolAfterTakeover ==
    [][\A c \in Calls : vcCall'[c].tools > vcCall[c].tools => ~vcCall[c].taken]_vcVars
=============================================================================
