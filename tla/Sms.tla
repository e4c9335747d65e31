--------------------------------- MODULE Sms ---------------------------------
(***************************************************************************)
(* The SMS channel of one organization: its connection, the consent of one *)
(* phone number, the webhook envelopes of the carrier and the messages     *)
(* sent to that number (backend/apps/sms).                                 *)
(*                                                                         *)
(* Every handler is one database transaction.  One is split in two steps:  *)
(* retry_outbound_attempt calls the carrier while it holds the rows its    *)
(* first query locked, the connection among them, and not the consent;     *)
(* smsRetry is the message whose retry stands between its checks and the   *)
(* answer of the carrier, and ConnUnlocked is the guard of the handlers    *)
(* that need the connection row.                                           *)
(*                                                                         *)
(* Refusals that change no row (rate limits, daily quota, entitlements,    *)
(* country policy, segment limits, a failed signature) are steps that do   *)
(* not happen.  Bodies are members of Texts.                               *)
(***************************************************************************)
EXTENDS Naturals

CONSTANTS
    Envelopes,        \* envelopes in flight at once: a processed one gives its place to a new event
    Msgs,             \* client message ids of outbound messages
    Texts,            \* bodies, as the repeated-content guard tells them apart
    Reports,          \* bound: what the carrier reports of a message it took
    Choices,          \* bound: the consents an employee sets
    MaxAttempts,      \* SMS_MAX_SEND_ATTEMPTS
    BreakerFailures,  \* SMS_CIRCUIT_BREAKER_FAILURES
    MaxHanded         \* bound: how often the carrier takes a message whose row was lost or erased

VARIABLES smsConn, smsConsent, smsEnv, smsMsg, smsRecent, smsRetry, smsControl, smsAi

smsVars == <<smsConn, smsConsent, smsEnv, smsMsg, smsRecent, smsRetry, smsControl, smsAi>>

-----------------------------------------------------------------------------
(* Rows.                                                                   *)

ConnStatuses == {"connected", "degraded", "paused", "disconnected"}
NoConn == [status |-> "none", failures |-> 0, advanced |-> FALSE]
ConnRow == [status: ConnStatuses, failures: 0 .. BreakerFailures, advanced: BOOLEAN] \cup {NoConn}

ConsentStates == {"unknown", "implied_support", "opted_in", "opted_out", "blocked", "invalid"}
ConsentRow == [state: ConsentStates \cup {"none"}, optedOutAt: BOOLEAN]
Sendable == {"implied_support", "opted_in"}

Keywords == {"", "STOP", "START", "HELP"}
Inbound == {ev \in [kind: {"inbound"}, word: Keywords, signal: BOOLEAN] : ev.signal => ev.word = "START"}
Callback == [kind: {"status"}, msg: Msgs, report: Reports]
NoEnv == [event |-> "none", state |-> "none", ingested |-> FALSE]
EnvRow == [event: Inbound \cup Callback, state: {"received", "failed"}, ingested: BOOLEAN] \cup {NoEnv}

(* sending ranks between queued and sent, canceled is one more final       *)
(* state.                                                                  *)
MsgStatuses == {"queued", "sent", "delivered", "undelivered", "failed"}
NoMsg == [status |-> "none", attempt |-> "none", count |-> 0, retryable |-> FALSE, handed |-> 0,
          newer |-> FALSE, metered |-> FALSE]
MsgRow == [status: MsgStatuses \cup {"none"}, attempt: {"none", "sending", "accepted", "failed"}, count: 0 .. MaxAttempts,
           retryable: BOOLEAN, handed: 0 .. MaxHanded + 1, newer: BOOLEAN, metered: BOOLEAN]

SmsTypeOK ==
    /\ smsConn \in ConnRow
    /\ smsConsent \in ConsentRow
    /\ smsEnv \in [Envelopes -> EnvRow]
    /\ smsMsg \in [Msgs -> MsgRow]
    /\ smsRecent \subseteq Texts
    /\ smsRetry \in Msgs \cup {"none"}
    /\ smsControl \in BOOLEAN
    /\ smsAi \in {"idle", "asked", "paused"}

SmsInit ==
    /\ smsConn = NoConn
    /\ smsConsent = [state |-> "none", optedOutAt |-> FALSE]
    /\ smsEnv = [e \in Envelopes |-> NoEnv]
    /\ smsMsg = [m \in Msgs |-> NoMsg]
    /\ smsRecent = {}
    /\ smsRetry = "none"
    /\ smsControl = FALSE
    /\ smsAi = "idle"

\* Mutant: a webhook is processed while a retry talks to the carrier.
ConnNeverLocked == TRUE

ConnUnlocked == smsRetry = "none"

-----------------------------------------------------------------------------
(* The connection.                                                         *)

CreateConnection ==
    /\ smsConn.status = "none"
    /\ smsConn' = [status |-> "connected", failures |-> 0, advanced |-> FALSE]
    /\ UNCHANGED <<smsConsent, smsEnv, smsMsg, smsRecent, smsRetry, smsControl, smsAi>>

SaveConnection(row) ==
    /\ smsConn.status # "none"
    /\ ConnUnlocked
    /\ smsConn' = row
    /\ UNCHANGED <<smsConsent, smsEnv, smsMsg, smsRecent, smsRetry, smsControl, smsAi>>

UpdateConnection == \E adv \in BOOLEAN : SaveConnection([smsConn EXCEPT !.advanced = adv])

SetConnectionState ==
    \E s \in {"paused", "connected", "disconnected"} : SaveConnection([smsConn EXCEPT !.status = s])

(* check_sms_connections and the health view: a failure degrades, a        *)
(* success resets the failures and leaves the status.                      *)
Health(reachable) ==
    /\ smsConn.status \in {"connected", "degraded"}
    /\ ConnUnlocked
    /\ smsConn' = IF reachable THEN [smsConn EXCEPT !.failures = 0]
                  ELSE [smsConn EXCEPT !.failures = IF @ < BreakerFailures THEN @ + 1 ELSE @,
                                       !.status = "degraded"]
    /\ UNCHANGED <<smsConsent, smsEnv, smsMsg, smsRecent, smsRetry, smsControl, smsAi>>

ToggleControl ==
    /\ smsControl' = ~smsControl
    /\ UNCHANGED <<smsConn, smsConsent, smsEnv, smsMsg, smsRecent, smsRetry, smsAi>>

-----------------------------------------------------------------------------
(* Webhooks: receive stores an envelope once per event key, a task         *)
(* processes it, and processes it again when it failed.                    *)

Accepts == smsConn.status \in {"connected", "degraded"}

Receive(e, event) ==
    /\ smsEnv[e].state = "none"
    /\ Accepts
    /\ ConnUnlocked
    /\ smsEnv' = [smsEnv EXCEPT ![e] = [event |-> event, state |-> "received", ingested |-> FALSE]]
    /\ UNCHANGED <<smsConn, smsConsent, smsMsg, smsRecent, smsRetry, smsControl, smsAi>>

ReceiveInbound(e) == \E ev \in Inbound : Receive(e, ev)

(* The carrier reports on messages it accepted.                            *)
ReceiveStatus(e) == \E ev \in Callback : smsMsg[ev.msg].handed > 0 /\ Receive(e, ev)

(* The state of the consent after an inbound message.                      *)
ConsentAfter(c, word, signal) ==
    CASE word = "STOP"  -> [state |-> "opted_out", optedOutAt |-> TRUE]
      [] word = "START" /\ (signal \/ ~smsConn.advanced) -> [state |-> "opted_in", optedOutAt |-> FALSE]
      [] word = ""      -> [c EXCEPT !.state = IF @ \in {"none", "unknown"} THEN "implied_support" ELSE @]
      [] OTHER          -> [c EXCEPT !.state = IF @ = "none" THEN "unknown" ELSE @]

(* ingest_inbound_message, then the consent, then the AI is asked by the   *)
(* call that created the message.                                          *)
ProcessInbound(e) ==
    LET ev == smsEnv[e].event
        after == ConsentAfter(smsConsent, ev.word, ev.signal)
    IN
    /\ smsEnv[e].state \in {"received", "failed"}
    /\ ev.kind = "inbound"
    /\ ConnUnlocked
    /\ Accepts
    /\ smsConsent' = after
    /\ smsEnv' = [smsEnv EXCEPT ![e] = NoEnv]
    /\ smsAi' = IF smsAi = "idle" /\ ~smsEnv[e].ingested /\ ev.word = "" /\ after.state \in Sendable
                THEN "asked" ELSE smsAi
    /\ UNCHANGED <<smsConn, smsMsg, smsRecent, smsRetry, smsControl>>

(* The exception is caught inside the transaction: what was stored before  *)
(* it stays.  The connection is inactive, or the contact lost the identity *)
(* after the message was stored.                                           *)
FailInbound(e) ==
    /\ smsEnv[e].state \in {"received", "failed"}
    /\ smsEnv[e].event.kind = "inbound"
    /\ ConnUnlocked
    /\ smsEnv' = [smsEnv EXCEPT ![e].state = "failed", ![e].ingested = @ \/ Accepts]
    /\ UNCHANGED <<smsConn, smsConsent, smsMsg, smsRecent, smsRetry, smsControl, smsAi>>

Rank == [s \in MsgStatuses |-> CASE s = "queued" -> 0 [] s = "sent" -> 2 [] OTHER -> 3]
Terminal == {"delivered", "undelivered", "failed"}

\* Mutant: one final state replaces another.
AppliesByRank(now, next) == Rank[next] >= Rank[now]

(* Whether a callback moves the message (lines 1148-1154).                 *)
Applies(now, next) ==
    /\ now \notin Terminal
    /\ Rank[next] >= Rank[now]
    /\ Rank[next] = Rank[now] => next = now

ProcessStatus(e) ==
    LET ev == smsEnv[e].event
    IN
    /\ smsEnv[e].state \in {"received", "failed"}
    /\ ev.kind = "status"
    /\ ConnUnlocked
    /\ smsEnv' = [smsEnv EXCEPT ![e] =
                      IF ev.report = "read" \/ smsMsg[ev.msg].attempt = "accepted" THEN NoEnv ELSE [@ EXCEPT !.state = "failed"]]
    /\ IF ev.report # "read" /\ smsMsg[ev.msg].attempt = "accepted" /\ Applies(smsMsg[ev.msg].status, ev.report)
       THEN /\ smsMsg' = [smsMsg EXCEPT ![ev.msg].status = ev.report]
            /\ smsAi' = IF ev.report \in {"undelivered", "failed"} THEN "paused" ELSE smsAi
       ELSE UNCHANGED <<smsMsg, smsAi>>
    /\ UNCHANGED <<smsConn, smsConsent, smsRecent, smsRetry, smsControl>>

-----------------------------------------------------------------------------
(* Sending.                                                                *)

CanSend == smsConn.status = "connected" /\ smsConsent.state \in Sendable

(* The guards of send_sms_message up to the repeated-content guard.        *)
MaySend(m, text) ==
    /\ smsMsg[m].status = "none"
    /\ ConnUnlocked
    /\ CanSend
    /\ ~smsControl
    /\ text \notin smsRecent
    /\ smsMsg[m].handed < MaxHanded

SendAccepted(m, text, human) ==
    /\ MaySend(m, text)
    /\ human \/ smsAi = "asked"
    /\ smsRecent' = smsRecent \cup {text}
    /\ smsMsg' = [smsMsg EXCEPT ![m] = [status |-> "queued", attempt |-> "accepted", count |-> 1,
                                        retryable |-> FALSE, handed |-> @.handed + 1, newer |-> FALSE, metered |-> TRUE]]
    /\ smsAi' = IF human THEN "paused" ELSE "idle"
    /\ UNCHANGED <<smsConn, smsConsent, smsEnv, smsRetry, smsControl>>

(* The carrier refuses; the breaker counts failures and degrades.          *)
SendRefused(m, text, transient) ==
    LET n == IF smsConn.failures < BreakerFailures THEN smsConn.failures + 1 ELSE smsConn.failures
    IN
    /\ MaySend(m, text)
    /\ smsRecent' = smsRecent \cup {text}
    /\ smsMsg' = [smsMsg EXCEPT ![m] = [status |-> "failed", attempt |-> "failed", count |-> 1,
                                        retryable |-> transient /\ MaxAttempts > 1, handed |-> @.handed, newer |-> FALSE, metered |-> FALSE]]
    /\ smsConn' = [smsConn EXCEPT !.failures = n, !.status = IF n >= BreakerFailures THEN "degraded" ELSE @]
    /\ UNCHANGED <<smsConsent, smsEnv, smsRetry, smsControl, smsAi>>

(* A control raised between the two checks: the attempt fails for good and *)
(* the message stays queued.                                               *)
SendControlled(m, text) ==
    /\ MaySend(m, text)
    /\ smsRecent' = smsRecent \cup {text}
    /\ smsControl' = TRUE
    /\ smsMsg' = [smsMsg EXCEPT ![m] = [status |-> "queued", attempt |-> "failed", count |-> 1,
                                        retryable |-> FALSE, handed |-> @.handed, newer |-> FALSE, metered |-> FALSE]]
    /\ UNCHANGED <<smsConn, smsConsent, smsEnv, smsRetry, smsAi>>

(* The process dies before the commit: the rows roll back, the cache and   *)
(* perhaps the carrier do not.                                             *)
SendLost(m, text, accepted) ==
    /\ MaySend(m, text)
    /\ smsRecent' = smsRecent \cup {text}
    /\ smsMsg' = [smsMsg EXCEPT ![m].handed = IF accepted THEN @ + 1 ELSE @]
    /\ UNCHANGED <<smsConn, smsConsent, smsEnv, smsRetry, smsControl, smsAi>>

(* Another message of the conversation is created after m.                 *)
NewerMessage(m) ==
    /\ smsMsg[m].status # "none"
    /\ ConnUnlocked
    /\ CanSend
    /\ ~smsControl
    /\ smsMsg' = [smsMsg EXCEPT ![m].newer = TRUE]
    /\ UNCHANGED <<smsConn, smsConsent, smsEnv, smsRecent, smsRetry, smsControl, smsAi>>

ForgetText(text) ==
    /\ text \in smsRecent
    /\ smsRecent' = smsRecent \ {text}
    /\ UNCHANGED <<smsConn, smsConsent, smsEnv, smsMsg, smsRetry, smsControl, smsAi>>

(* retry_outbound_attempt up to the call of the carrier.                   *)
RetryBegin(m) ==
    /\ smsMsg[m].attempt = "failed"
    /\ smsMsg[m].retryable
    /\ smsMsg[m].count < MaxAttempts
    /\ ConnUnlocked
    /\ ~smsMsg[m].newer
    /\ CanSend
    /\ smsRetry' = m
    /\ smsMsg' = [smsMsg EXCEPT ![m].attempt = "sending", ![m].count = @ + 1]
    /\ UNCHANGED <<smsConn, smsConsent, smsEnv, smsRecent, smsControl, smsAi>>

(* Exhausted, superseded by a newer message, or refused by the policy.     *)
RetryDropped(m) ==
    /\ smsMsg[m].attempt = "failed"
    /\ smsMsg[m].retryable
    /\ ConnUnlocked
    /\ \/ smsMsg[m].count >= MaxAttempts
       \/ ~CanSend
       \/ smsMsg[m].newer
    /\ smsMsg' = [smsMsg EXCEPT ![m].retryable = FALSE]
    /\ UNCHANGED <<smsConn, smsConsent, smsEnv, smsRecent, smsRetry, smsControl, smsAi>>

RetryAccepted(m) ==
    /\ smsRetry = m
    /\ smsRetry' = "none"
    /\ smsMsg' = [smsMsg EXCEPT ![m].attempt = "accepted", ![m].status = "queued", ![m].retryable = FALSE,
                                ![m].handed = @ + 1]
    /\ UNCHANGED <<smsConn, smsConsent, smsEnv, smsRecent, smsControl, smsAi>>

RetryRefused(m, transient) ==
    /\ smsRetry = m
    /\ smsRetry' = "none"
    /\ smsMsg' = [smsMsg EXCEPT ![m].attempt = "failed", ![m].status = "failed",
                                ![m].retryable = transient /\ smsMsg[m].count < MaxAttempts]
    /\ UNCHANGED <<smsConn, smsConsent, smsEnv, smsRecent, smsControl, smsAi>>

RequestRetry(m) ==
    /\ smsMsg[m].attempt = "failed"
    /\ smsMsg[m].count < MaxAttempts
    /\ ConnUnlocked
    /\ smsMsg' = [smsMsg EXCEPT ![m].retryable = TRUE]
    /\ UNCHANGED <<smsConn, smsConsent, smsEnv, smsRecent, smsRetry, smsControl, smsAi>>

-----------------------------------------------------------------------------
(* Consent set by an employee, and privacy requests.                       *)

EmployeeConsent(s) ==
    /\ smsConn.status # "none"
    /\ ~(smsConsent.state = "opted_out" /\ s = "opted_in")
    /\ smsConsent' = [smsConsent EXCEPT !.state = s]
    /\ UNCHANGED <<smsConn, smsEnv, smsMsg, smsRecent, smsRetry, smsControl, smsAi>>

(* Erasure keeps the refusals and drops the other consents.                *)
PrivacyErase(delete) ==
    /\ smsConn.status # "none"
    /\ ConnUnlocked
    /\ smsConsent' = IF smsConsent.state \in {"opted_out", "blocked", "invalid"} THEN smsConsent
                     ELSE [state |-> "none", optedOutAt |-> FALSE]
    /\ smsMsg' = IF delete THEN [m \in Msgs |-> IF smsMsg[m] = NoMsg THEN NoMsg ELSE [NoMsg EXCEPT !.handed = smsMsg[m].handed]]
                 ELSE smsMsg
    /\ UNCHANGED <<smsConn, smsEnv, smsRecent, smsRetry, smsControl, smsAi>>

SmsNext ==
    \/ CreateConnection
    \/ UpdateConnection
    \/ SetConnectionState
    \/ \E ok \in BOOLEAN : Health(ok)
    \/ ToggleControl
    \/ \E e \in Envelopes : ReceiveInbound(e) \/ ReceiveStatus(e) \/ ProcessInbound(e) \/ FailInbound(e) \/ ProcessStatus(e)
    \/ \E m \in Msgs, t \in Texts : \E b \in BOOLEAN :
           SendAccepted(m, t, b) \/ SendRefused(m, t, b) \/ SendControlled(m, t) \/ SendLost(m, t, b)
    \/ \E t \in Texts : ForgetText(t)
    \/ \E m \in Msgs : RetryBegin(m) \/ RetryDropped(m) \/ RetryAccepted(m) \/ RequestRetry(m) \/ NewerMessage(m)
    \/ \E m \in Msgs, b \in BOOLEAN : RetryRefused(m, b)
    \/ \E s \in Choices : EmployeeConsent(s)
    \/ \E b \in BOOLEAN : PrivacyErase(b)

SmsSpec == SmsInit /\ [][SmsNext]_smsVars

-----------------------------------------------------------------------------
(* Properties.                                                             *)

(* architecture/sms-messaging.md:51: an employee cannot silently reverse a *)
(* provider opt-out; only a START the carrier permits does.                *)
ProviderOptOutStands == smsConsent.state \in Sendable => ~smsConsent.optedOutAt

(* The consent and the connection race with a send and with a retry that   *)
(* stands between its checks and the carrier.  While the number is         *)
(* recorded as opted out, or has given no consent, nothing is handed over; *)
(* by a first send, nothing either while it is blocked or invalid.  (A     *)
(* START, or an employee's block and opt-in, ends an opt-out.)             *)
HandedWithConsent ==
    \A m \in Msgs : smsMsg'[m].handed > smsMsg[m].handed =>
        /\ smsConsent.state \notin {"none", "unknown", "opted_out"}
        /\ smsRetry = "none" => smsConsent.state \in Sendable
OptOutIsHonoured == [][HandedWithConsent]_smsVars

(* architecture/sms-messaging.md:52-53: every outbound path locks and      *)
(* rechecks consent; blocked and invalid recipients never reach the        *)
(* provider.  A block between the check of a retry and its call does not   *)
(* stop it: the retry reads the consent without a lock.                    *)
EveryPathRechecks ==
    [][\A m \in Msgs : smsMsg'[m].handed > smsMsg[m].handed => smsConsent.state \in Sendable]_smsVars

(* Callbacks come late, twice and out of order: the final state the        *)
(* carrier reported for a message it accepted never changes.               *)
VerdictKept ==
    \A m \in Msgs : (smsMsg[m].attempt = "accepted" /\ smsMsg[m].status \in Terminal)
        => (smsMsg'[m].status = smsMsg[m].status \/ smsMsg'[m].status = "none")
CarrierVerdictIsFinal == [][VerdictKept]_smsVars
=============================================================================
