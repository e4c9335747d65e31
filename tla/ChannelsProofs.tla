---------------------------- MODULE ChannelsProofs ----------------------------
(***************************************************************************)
(* Theorems about module Channels, for every choice of its constants: an   *)
(* inductive invariant for each channel, and what follows for the          *)
(* specification that runs one of them.                                    *)
(***************************************************************************)
EXTENDS Channels, WellFoundedInduction, TLAPS

-----------------------------------------------------------------------------
(* SMS.  The rows by the names module Sms gives them.                      *)
smsConn == row1
smsConsent == row2
smsEnv == row3
smsMsg == row4
smsRecent == row5
smsRetry == row6
smsControl == row7
smsAi == row8

USE DEF smsConn, smsConsent, smsEnv, smsMsg, smsRecent, smsRetry, smsControl, smsAi

\* A number that opted out, or said nothing, is not written to.
Reachable == smsConsent.state \notin {"none", "unknown", "opted_out"}

\* What a message is handed over with: a send locks the consent, a retry does not.
HandedWith == Reachable /\ (smsRetry = "none" => smsConsent.state \in Sms!Sendable)

SmsInv ==
    /\ Sms!SmsTypeOK
    /\ \A m \in Msgs : smsRetry = m => smsMsg[m].attempt = "sending"
    /\ \A m \in Msgs : smsMsg[m].attempt \in {"failed", "sending"} => smsMsg[m].handed <= MaxHanded
    /\ smsRetry # "none" => Reachable

SmsStep == SmsInv' /\ Sms!HandedWithConsent /\ Sms!VerdictKept

\* The rows besides the messages keep their types.
SmsOthersOK ==
    /\ smsConn \in Sms!ConnRow
    /\ smsConsent \in Sms!ConsentRow
    /\ smsEnv \in [Envelopes -> Sms!EnvRow]
    /\ smsRecent \subseteq Texts
    /\ smsControl \in BOOLEAN
    /\ smsAi \in {"idle", "asked", "paused"}

\* What may be written to the row of a message.
MsgWrite(old, new) ==
    /\ new \in Sms!MsgRow
    /\ new.attempt \in {"failed", "sending"} => new.handed <= MaxHanded
    /\ new.handed > old.handed => HandedWith
    /\ old.attempt = "accepted" /\ old.status \in Sms!Terminal => new.status \in {old.status, "none"}

\* The initial states satisfy the invariant.
LEMMA SmsStarts == Sms!SmsInit => SmsInv
<1> SUFFICES ASSUME Sms!SmsInit PROVE SmsInv
  OBVIOUS
<1> USE SmsAssumption DEF Sms!SmsInit
<1>1. smsConn \in Sms!ConnRow
  BY DEF Sms!NoConn, Sms!ConnRow
<1>2. smsConsent \in Sms!ConsentRow
  BY DEF Sms!ConsentRow
<1>3. smsEnv \in [Envelopes -> Sms!EnvRow]
  BY DEF Sms!EnvRow
<1>4. smsMsg \in [Msgs -> Sms!MsgRow]
  BY DEF Sms!MsgRow, Sms!NoMsg
<1>5. Sms!SmsTypeOK
  BY <1>1, <1>2, <1>3, <1>4 DEF Sms!SmsTypeOK
<1> QED
  BY <1>5 DEF SmsInv, Sms!NoMsg

\* A step that leaves the messages and the retry alone.
LEMMA SmsRest ==
    ASSUME SmsInv, SmsOthersOK', UNCHANGED <<smsMsg, smsRetry>>, smsRetry # "none" => Reachable'
    PROVE  SmsStep
<1>1. Sms!SmsTypeOK'
  BY DEF SmsInv, SmsOthersOK, Sms!SmsTypeOK
<1>2. Sms!HandedWithConsent
  BY SmsAssumption DEF SmsInv, Sms!SmsTypeOK, Sms!MsgRow, Sms!HandedWithConsent
<1> QED
  BY <1>1, <1>2 DEF SmsStep, SmsInv, Sms!VerdictKept

\* A step that writes the row of one message, and plans or ends its retry.
LEMMA SmsWrites ==
    ASSUME SmsInv, SmsOthersOK', UNCHANGED smsConsent,
           NEW m \in Msgs, NEW r, MsgWrite(smsMsg[m], r),
           smsMsg' = [smsMsg EXCEPT ![m] = r],
           smsRetry' \in {m, "none"},
           smsRetry' = m => r.attempt = "sending" /\ Reachable
    PROVE  SmsStep
<1> USE SmsAssumption DEF SmsInv, MsgWrite
<1>1. Sms!SmsTypeOK'
  BY DEF SmsOthersOK, Sms!SmsTypeOK
<1>2. SmsInv'
  BY <1>1 DEF Sms!SmsTypeOK, Reachable
<1>3. Sms!HandedWithConsent
  BY DEF Sms!SmsTypeOK, Sms!MsgRow, Sms!HandedWithConsent, Reachable, HandedWith
<1>4. Sms!VerdictKept
  BY DEF Sms!SmsTypeOK, Sms!VerdictKept
<1> QED
  BY <1>2, <1>3, <1>4 DEF SmsStep

\* What the managers and the health check do to the number.
LEMMA SmsConnection ==
    ASSUME SmsInv,
           \/ Sms!CreateConnection \/ Sms!UpdateConnection \/ Sms!SetConnectionState
           \/ Sms!ToggleControl \/ \E ok \in BOOLEAN : Sms!Health(ok)
    PROVE  SmsStep
<1> USE SmsAssumption DEF SmsInv, Sms!SmsTypeOK, SmsOthersOK
<1>1. CASE Sms!CreateConnection
  <2>1. smsConn' \in Sms!ConnRow
    BY <1>1 DEF Sms!CreateConnection, Sms!ConnRow, Sms!ConnStatuses
  <2> QED
    BY <1>1, <2>1, SmsRest DEF Sms!CreateConnection, Reachable
<1>2. CASE Sms!UpdateConnection
  <2>1. smsConn' \in Sms!ConnRow
    BY <1>2 DEF Sms!UpdateConnection, Sms!SaveConnection, Sms!ConnRow, Sms!NoConn
  <2> QED
    BY <1>2, <2>1, SmsRest DEF Sms!UpdateConnection, Sms!SaveConnection, Reachable
<1>3. CASE Sms!SetConnectionState
  <2>1. smsConn' \in Sms!ConnRow
    BY <1>3 DEF Sms!SetConnectionState, Sms!SaveConnection, Sms!ConnRow, Sms!ConnStatuses, Sms!NoConn
  <2> QED
    BY <1>3, <2>1, SmsRest DEF Sms!SetConnectionState, Sms!SaveConnection, Reachable
<1>4. CASE Sms!ToggleControl
  BY <1>4, SmsRest DEF Sms!ToggleControl, Reachable
<1>5. ASSUME NEW ok \in BOOLEAN, Sms!Health(ok) PROVE SmsStep
  <2>1. smsConn' \in Sms!ConnRow
    <3>1. smsConn \in [status: Sms!ConnStatuses, failures: 0 .. SmsFailures, advanced: BOOLEAN]
      BY <1>5 DEF Sms!Health, Sms!ConnRow, Sms!NoConn
    <3>2. smsConn.failures < SmsFailures => smsConn.failures + 1 \in 0 .. SmsFailures
      BY <3>1
    <3>3. CASE ok
      BY <1>5, <3>1, <3>3 DEF Sms!Health, Sms!ConnRow
    <3>4. CASE ~ok
      BY <1>5, <3>1, <3>2, <3>4 DEF Sms!Health, Sms!ConnRow, Sms!ConnStatuses
    <3> QED
      BY <3>3, <3>4
  <2>2. UNCHANGED <<smsConsent, smsEnv, smsMsg, smsRecent, smsRetry, smsControl, smsAi>>
    BY <1>5 DEF Sms!Health
  <2> QED
    BY <2>1, <2>2, SmsRest DEF Reachable
<1> QED
  BY <1>1, <1>2, <1>3, <1>4, <1>5

\* The envelopes the carrier delivers.
LEMMA SmsWebhooks ==
    ASSUME SmsInv, NEW e \in Envelopes,
           \/ Sms!ReceiveInbound(e) \/ Sms!ReceiveStatus(e) \/ Sms!FailInbound(e)
           \/ Sms!ProcessInbound(e) \/ Sms!ProcessStatus(e)
    PROVE  SmsStep
<1> USE SmsAssumption DEF SmsInv, Sms!SmsTypeOK, SmsOthersOK
<1>1. ASSUME NEW ev \in Sms!Inbound \cup Sms!Callback, Sms!Receive(e, ev)
      PROVE  SmsStep
  <2>1. smsEnv' \in [Envelopes -> Sms!EnvRow]
    BY <1>1 DEF Sms!Receive, Sms!EnvRow
  <2> QED
    BY <1>1, <2>1, SmsRest DEF Sms!Receive, Reachable
<1>2. CASE Sms!FailInbound(e)
  <2>1. smsEnv[e] \in [event: Sms!Inbound \cup Sms!Callback, state: {"received", "failed"},
                       ingested: BOOLEAN]
    BY <1>2 DEF Sms!FailInbound, Sms!EnvRow, Sms!NoEnv
  <2>2. smsEnv'[e] = [smsEnv[e] EXCEPT !.state = "failed", !.ingested = @ \/ Sms!Accepts]
    BY <1>2 DEF Sms!FailInbound
  <2>3. (smsEnv[e].ingested \/ Sms!Accepts) \in BOOLEAN
    OBVIOUS
  <2>4. smsEnv'[e] \in Sms!EnvRow
    BY <2>1, <2>2, <2>3 DEF Sms!EnvRow
  <2>5. smsEnv' \in [Envelopes -> Sms!EnvRow]
    BY <1>2, <2>4 DEF Sms!FailInbound
  <2> QED
    BY <1>2, <2>5, SmsRest DEF Sms!FailInbound, Reachable
<1>3. CASE Sms!ProcessInbound(e)
  <2> DEFINE ev == smsEnv[e].event
  <2>1. smsConsent' = Sms!ConsentAfter(smsConsent, ev.word, ev.signal)
    BY <1>3 DEF Sms!ProcessInbound
  <2>2. smsConsent' \in Sms!ConsentRow
    BY <2>1 DEF Sms!ConsentAfter, Sms!ConsentRow, Sms!ConsentStates
  <2>3. smsEnv' \in [Envelopes -> Sms!EnvRow]
    BY <1>3 DEF Sms!ProcessInbound, Sms!EnvRow
  <2>4. smsAi' \in {"idle", "asked", "paused"}
    BY <1>3 DEF Sms!ProcessInbound
  <2>5. UNCHANGED <<smsConn, smsMsg, smsRecent, smsRetry, smsControl>> /\ smsRetry = "none"
    BY <1>3 DEF Sms!ProcessInbound, Sms!ConnUnlocked
  <2> QED
    BY <2>2, <2>3, <2>4, <2>5, SmsRest
<1>4. CASE Sms!ProcessStatus(e)
  <2> DEFINE ev == smsEnv[e].event
             r == [smsMsg[ev.msg] EXCEPT !.status = ev.report]
  <2>1. smsEnv[e] \in Sms!EnvRow /\ smsEnv[e].state # "none" /\ ev.kind = "status"
    BY <1>4 DEF Sms!ProcessStatus
  <2>2. ev \in Sms!Callback
    BY <2>1 DEF Sms!EnvRow, Sms!NoEnv, Sms!Inbound, Sms!Callback
  <2>3. smsEnv' \in [Envelopes -> Sms!EnvRow]
    <3>1. [smsEnv[e] EXCEPT !.state = "failed"] \in Sms!EnvRow
      BY <2>1 DEF Sms!EnvRow, Sms!NoEnv
    <3> QED
      BY <1>4, <3>1 DEF Sms!ProcessStatus, Sms!EnvRow
  <2>4. /\ UNCHANGED <<smsConn, smsConsent, smsRecent, smsRetry, smsControl>>
        /\ smsRetry = "none"
    BY <1>4 DEF Sms!ProcessStatus, Sms!ConnUnlocked
  <2>5. CASE UNCHANGED <<smsMsg, smsAi>>
    BY <2>3, <2>4, <2>5, SmsRest
  <2>6. CASE /\ ev.report # "read" /\ smsMsg[ev.msg].attempt = "accepted"
             /\ Sms!Applies(smsMsg[ev.msg].status, ev.report)
             /\ smsMsg' = [smsMsg EXCEPT ![ev.msg].status = ev.report]
             /\ smsAi' \in {"paused", smsAi}
    <3>1. ev.msg \in Msgs /\ ev.report \in Sms!MsgStatuses
      BY <2>2, <2>6 DEF Sms!Callback, Sms!MsgStatuses
    <3>2. r \in Sms!MsgRow /\ r.attempt = "accepted" /\ r.handed = smsMsg[ev.msg].handed
          /\ smsMsg[ev.msg].handed \in Nat
      BY <2>6, <3>1 DEF Sms!MsgRow
    <3>3. MsgWrite(smsMsg[ev.msg], r)
      BY <2>6, <3>1, <3>2 DEF MsgWrite, Sms!Applies, Sms!MsgRow
    <3>4. smsMsg' = [smsMsg EXCEPT ![ev.msg] = r]
      BY <2>6
    <3> QED
      BY <2>3, <2>4, <2>6, <3>1, <3>3, <3>4, SmsWrites
  <2> QED
    BY <1>4, <2>5, <2>6 DEF Sms!ProcessStatus
<1> QED
  BY <1>1, <1>2, <1>3, <1>4 DEF Sms!ReceiveInbound, Sms!ReceiveStatus

\* What a first attempt of a message writes, and what it needs.
LEMMA SmsSends ==
    ASSUME SmsInv, NEW m \in Msgs, NEW t \in Texts, NEW b \in BOOLEAN,
           \/ Sms!SendAccepted(m, t, b) \/ Sms!SendRefused(m, t, b)
           \/ Sms!SendControlled(m, t) \/ Sms!SendLost(m, t, b)
    PROVE  SmsStep
<1> USE SmsAssumption
<1> DEFINE old == smsMsg[m]
<1>1. /\ old \in Sms!MsgRow /\ old.status = "none" /\ old.handed \in 0 .. (MaxHanded - 1)
      /\ HandedWith /\ smsRetry = "none" /\ SmsOthersOK
      /\ smsRecent \cup {t} \subseteq Texts
  <2>1. Sms!MaySend(m, t)
    BY DEF Sms!SendAccepted, Sms!SendRefused, Sms!SendControlled, Sms!SendLost
  <2> QED
    BY <2>1 DEF SmsInv, Sms!SmsTypeOK, Sms!MaySend, Sms!MsgRow, Sms!CanSend, Sms!Sendable,
                Sms!ConnUnlocked, Reachable, HandedWith, SmsOthersOK
<1>2. CASE Sms!SendAccepted(m, t, b)
  <2> DEFINE r == [status |-> "queued", attempt |-> "accepted", count |-> 1, retryable |-> FALSE,
                   handed |-> old.handed + 1, newer |-> FALSE, metered |-> TRUE]
  <2>1. MsgWrite(old, r)
    BY <1>1 DEF MsgWrite, Sms!MsgRow, Sms!MsgStatuses, Sms!Terminal
  <2>2. smsMsg' = [smsMsg EXCEPT ![m] = r]
    BY <1>2 DEF Sms!SendAccepted
  <2>3. SmsOthersOK' /\ smsRetry' = "none" /\ UNCHANGED smsConsent
    BY <1>1, <1>2 DEF Sms!SendAccepted, SmsOthersOK
  <2> QED
    BY <2>1, <2>2, <2>3, SmsWrites
<1>3. CASE Sms!SendRefused(m, t, b)
  <2> DEFINE r == [status |-> "failed", attempt |-> "failed", count |-> 1,
                   retryable |-> b /\ SmsAttempts > 1, handed |-> old.handed, newer |-> FALSE,
                   metered |-> FALSE]
  <2>1. r.retryable \in BOOLEAN
    OBVIOUS
  <2>2. MsgWrite(old, r)
    BY <1>1, <2>1 DEF MsgWrite, Sms!MsgRow, Sms!MsgStatuses, Sms!Terminal
  <2>3. smsMsg' = [smsMsg EXCEPT ![m] = r]
    BY <1>3 DEF Sms!SendRefused
  <2>4. smsConn' \in Sms!ConnRow
    <3>1. smsConn \in [status: Sms!ConnStatuses, failures: 0 .. SmsFailures, advanced: BOOLEAN]
      BY <1>1, <1>3 DEF Sms!SendRefused, Sms!MaySend, Sms!CanSend, SmsOthersOK, Sms!ConnRow,
                        Sms!NoConn
    <3>2. smsConn.failures < SmsFailures => smsConn.failures + 1 \in 0 .. SmsFailures
      BY <3>1
    <3> QED
      BY <1>3, <3>1, <3>2 DEF Sms!SendRefused, Sms!ConnRow, Sms!ConnStatuses
  <2>5. SmsOthersOK' /\ smsRetry' = "none" /\ UNCHANGED smsConsent
    BY <1>1, <1>3, <2>4 DEF Sms!SendRefused, SmsOthersOK
  <2> QED
    BY <2>2, <2>3, <2>5, SmsWrites
<1>4. CASE Sms!SendControlled(m, t)
  <2> DEFINE r == [status |-> "queued", attempt |-> "failed", count |-> 1, retryable |-> FALSE,
                   handed |-> old.handed, newer |-> FALSE, metered |-> FALSE]
  <2>1. MsgWrite(old, r)
    BY <1>1 DEF MsgWrite, Sms!MsgRow, Sms!MsgStatuses, Sms!Terminal
  <2>2. smsMsg' = [smsMsg EXCEPT ![m] = r]
    BY <1>4 DEF Sms!SendControlled
  <2>3. SmsOthersOK' /\ smsRetry' = "none" /\ UNCHANGED smsConsent
    BY <1>1, <1>4 DEF Sms!SendControlled, SmsOthersOK
  <2> QED
    BY <2>1, <2>2, <2>3, SmsWrites
<1>5. CASE Sms!SendLost(m, t, b)
  <2> DEFINE r == [old EXCEPT !.handed = IF b THEN @ + 1 ELSE @]
  <2>1. MsgWrite(old, r)
    BY <1>1 DEF MsgWrite, Sms!MsgRow, Sms!MsgStatuses, Sms!Terminal
  <2>2. smsMsg' = [smsMsg EXCEPT ![m] = r]
    BY <1>5 DEF Sms!SendLost
  <2>3. SmsOthersOK' /\ smsRetry' = "none" /\ UNCHANGED smsConsent
    BY <1>1, <1>5 DEF Sms!SendLost, SmsOthersOK
  <2> QED
    BY <2>1, <2>2, <2>3, SmsWrites
<1> QED
  BY <1>2, <1>3, <1>4, <1>5

\* A retry reads the consent again; the planned one holds its message.
LEMMA SmsRetries ==
    ASSUME SmsInv, NEW m \in Msgs,
           \/ Sms!RetryBegin(m) \/ Sms!RetryDropped(m) \/ Sms!RetryAccepted(m)
           \/ Sms!RequestRetry(m) \/ Sms!NewerMessage(m)
           \/ \E b \in BOOLEAN : Sms!RetryRefused(m, b)
    PROVE  SmsStep
<1> USE SmsAssumption
<1> DEFINE old == smsMsg[m]
<1>1. /\ old \in Sms!MsgRow /\ old.handed \in Nat /\ SmsOthersOK /\ m # "none"
      /\ old.attempt \in {"failed", "sending"} => old.handed <= MaxHanded
  BY DEF SmsInv, Sms!SmsTypeOK, SmsOthersOK, Sms!MsgRow
<1>2. CASE Sms!RetryBegin(m)
  <2> DEFINE r == [old EXCEPT !.attempt = "sending", !.count = @ + 1]
  <2>1. MsgWrite(old, r) /\ r.attempt = "sending"
    <3>1. old.attempt = "failed" /\ old.count + 1 \in 0 .. SmsAttempts
      BY <1>1, <1>2 DEF Sms!RetryBegin, Sms!MsgRow
    <3>2. r \in Sms!MsgRow /\ r.attempt = "sending" /\ r.handed = old.handed
      BY <1>1, <3>1 DEF Sms!MsgRow
    <3> QED
      BY <1>1, <3>1, <3>2 DEF MsgWrite
  <2>2. smsMsg' = [smsMsg EXCEPT ![m] = r]
    BY <1>2 DEF Sms!RetryBegin
  <2>3. SmsOthersOK' /\ smsRetry' = m /\ UNCHANGED smsConsent /\ Reachable
    BY <1>1, <1>2 DEF Sms!RetryBegin, SmsOthersOK, Sms!CanSend, Sms!Sendable, Reachable
  <2> QED
    BY <2>1, <2>2, <2>3, SmsWrites
<1>3. CASE Sms!RetryDropped(m)
  <2> DEFINE r == [old EXCEPT !.retryable = FALSE]
  <2>1. MsgWrite(old, r)
    <3>1. r \in Sms!MsgRow /\ r.attempt = "failed" /\ r.handed = old.handed
      BY <1>1, <1>3 DEF Sms!RetryDropped, Sms!MsgRow
    <3> QED
      BY <1>1, <1>3, <3>1 DEF Sms!RetryDropped, MsgWrite
  <2>2. smsMsg' = [smsMsg EXCEPT ![m] = r]
    BY <1>3 DEF Sms!RetryDropped
  <2>3. SmsOthersOK' /\ smsRetry' = "none" /\ UNCHANGED smsConsent
    BY <1>1, <1>3 DEF Sms!RetryDropped, SmsOthersOK, Sms!ConnUnlocked
  <2> QED
    BY <1>1, <2>1, <2>2, <2>3, SmsWrites
<1>4. CASE Sms!RetryAccepted(m)
  <2> DEFINE r == [old EXCEPT !.attempt = "accepted", !.status = "queued", !.retryable = FALSE,
                              !.handed = @ + 1]
  <2>1. old.attempt = "sending" /\ HandedWith
    BY <1>1, <1>4 DEF Sms!RetryAccepted, SmsInv, HandedWith
  <2>2. MsgWrite(old, r)
    <3>1. old.handed + 1 \in 0 .. MaxHanded + 1
      BY <1>1, <2>1
    <3>2. r \in Sms!MsgRow /\ r.attempt = "accepted"
      BY <1>1, <3>1 DEF Sms!MsgRow, Sms!MsgStatuses
    <3> QED
      BY <2>1, <3>2 DEF MsgWrite
  <2>3. smsMsg' = [smsMsg EXCEPT ![m] = r]
    BY <1>4 DEF Sms!RetryAccepted
  <2>4. SmsOthersOK' /\ smsRetry' = "none" /\ UNCHANGED smsConsent
    BY <1>1, <1>4 DEF Sms!RetryAccepted, SmsOthersOK
  <2> QED
    BY <1>1, <2>2, <2>3, <2>4, SmsWrites
<1>5. ASSUME NEW b \in BOOLEAN, Sms!RetryRefused(m, b) PROVE SmsStep
  <2> DEFINE r == [old EXCEPT !.attempt = "failed", !.status = "failed",
                              !.retryable = b /\ old.count < SmsAttempts]
  <2>1. old.attempt = "sending"
    BY <1>1, <1>5 DEF Sms!RetryRefused, SmsInv
  <2>2. (b /\ old.count < SmsAttempts) \in BOOLEAN
    OBVIOUS
  <2>3. MsgWrite(old, r)
    <3>1. r \in Sms!MsgRow /\ r.handed = old.handed
      BY <1>1, <2>2 DEF Sms!MsgRow, Sms!MsgStatuses
    <3> QED
      BY <1>1, <2>1, <3>1 DEF MsgWrite
  <2>4. smsMsg' = [smsMsg EXCEPT ![m] = r]
    BY <1>5 DEF Sms!RetryRefused
  <2>5. SmsOthersOK' /\ smsRetry' = "none" /\ UNCHANGED smsConsent
    BY <1>1, <1>5 DEF Sms!RetryRefused, SmsOthersOK
  <2> QED
    BY <1>1, <2>3, <2>4, <2>5, SmsWrites
<1>6. CASE Sms!RequestRetry(m)
  <2> DEFINE r == [old EXCEPT !.retryable = TRUE]
  <2>1. MsgWrite(old, r)
    <3>1. r \in Sms!MsgRow /\ r.handed = old.handed
      BY <1>1 DEF Sms!MsgRow
    <3> QED
      BY <1>1, <1>6, <3>1 DEF Sms!RequestRetry, MsgWrite
  <2>2. smsMsg' = [smsMsg EXCEPT ![m] = r]
    BY <1>6 DEF Sms!RequestRetry
  <2>3. SmsOthersOK' /\ smsRetry' = "none" /\ UNCHANGED smsConsent
    BY <1>1, <1>6 DEF Sms!RequestRetry, SmsOthersOK, Sms!ConnUnlocked
  <2> QED
    BY <1>1, <2>1, <2>2, <2>3, SmsWrites
<1>7. CASE Sms!NewerMessage(m)
  <2> DEFINE r == [old EXCEPT !.newer = TRUE]
  <2>1. MsgWrite(old, r)
    <3>1. /\ r \in Sms!MsgRow
          /\ r.attempt = old.attempt /\ r.status = old.status /\ r.handed = old.handed
      BY <1>1 DEF Sms!MsgRow
    <3> QED
      BY <1>1, <3>1 DEF MsgWrite
  <2>2. smsMsg' = [smsMsg EXCEPT ![m] = r]
    BY <1>7 DEF Sms!NewerMessage
  <2>3. SmsOthersOK' /\ smsRetry' = "none" /\ UNCHANGED smsConsent
    BY <1>1, <1>7 DEF Sms!NewerMessage, SmsOthersOK, Sms!ConnUnlocked
  <2> QED
    BY <1>1, <2>1, <2>2, <2>3, SmsWrites
<1> QED
  BY <1>2, <1>3, <1>4, <1>5, <1>6, <1>7

\* What the employee says of the consent, and what is forgotten.
LEMMA SmsConsents ==
    ASSUME SmsInv,
           \/ \E t \in Texts : Sms!ForgetText(t)
           \/ \E s \in Choices : Sms!EmployeeConsent(s)
    PROVE  SmsStep
<1> USE SmsAssumption DEF SmsInv, Sms!SmsTypeOK, SmsOthersOK
<1>1. ASSUME NEW t \in Texts, Sms!ForgetText(t) PROVE SmsStep
  BY <1>1, SmsRest DEF Sms!ForgetText, Reachable
<1>2. ASSUME NEW s \in Choices, Sms!EmployeeConsent(s) PROVE SmsStep
  <2>1. smsConsent' \in Sms!ConsentRow /\ Reachable'
    BY <1>2 DEF Sms!EmployeeConsent, Sms!ConsentRow, Sms!ConsentStates, Reachable
  <2> QED
    BY <1>2, <2>1, SmsRest DEF Sms!EmployeeConsent
<1> QED
  BY <1>1, <1>2

\* The erasure keeps how often a message was handed over: the carrier has it.
LEMMA SmsErases ==
    ASSUME SmsInv, NEW delete \in BOOLEAN, Sms!PrivacyErase(delete)
    PROVE  SmsStep
<1> USE SmsAssumption DEF SmsInv, Sms!SmsTypeOK, SmsOthersOK
<1>1. smsConsent' \in Sms!ConsentRow
  BY DEF Sms!PrivacyErase, Sms!ConsentRow
<1>2. UNCHANGED <<smsConn, smsEnv, smsRecent, smsRetry, smsControl, smsAi>> /\ smsRetry = "none"
  BY DEF Sms!PrivacyErase, Sms!ConnUnlocked
<1>3. CASE delete = FALSE
  BY <1>1, <1>2, <1>3, SmsRest DEF Sms!PrivacyErase
<1>4. CASE delete = TRUE
  <2>1. ASSUME NEW m \in Msgs
        PROVE  /\ smsMsg'[m] \in Sms!MsgRow
               /\ smsMsg'[m].attempt = "none" /\ smsMsg'[m].status = "none"
               /\ smsMsg'[m].handed = smsMsg[m].handed /\ smsMsg[m].handed \in Nat
    <3>1. smsMsg'[m] = IF smsMsg[m] = Sms!NoMsg THEN Sms!NoMsg
                       ELSE [Sms!NoMsg EXCEPT !.handed = smsMsg[m].handed]
      BY <1>4 DEF Sms!PrivacyErase
    <3>2. smsMsg[m] \in Sms!MsgRow /\ smsMsg[m].handed \in 0 .. MaxHanded + 1
      BY DEF Sms!MsgRow
    <3>3. CASE smsMsg[m] = Sms!NoMsg
      <4>1. smsMsg'[m] = smsMsg[m]
        BY <3>1, <3>3
      <4> QED
        BY <3>2, <3>3, <4>1 DEF Sms!NoMsg
    <3>4. CASE smsMsg'[m] = [Sms!NoMsg EXCEPT !.handed = smsMsg[m].handed]
      <4>1. smsMsg'[m] = [status |-> "none", attempt |-> "none", count |-> 0, retryable |-> FALSE,
                          handed |-> smsMsg[m].handed, newer |-> FALSE, metered |-> FALSE]
        BY <3>4 DEF Sms!NoMsg
      <4> QED
        BY <3>2, <4>1 DEF Sms!MsgRow
    <3> QED
      BY <3>1, <3>3, <3>4
  <2>2. smsMsg' \in [Msgs -> Sms!MsgRow]
    BY <1>4, <2>1 DEF Sms!PrivacyErase
  <2>3. SmsInv'
    BY <1>1, <1>2, <2>1, <2>2
  <2>4. Sms!HandedWithConsent
    BY <2>1 DEF Sms!HandedWithConsent
  <2> QED
    BY <2>1, <2>3, <2>4 DEF SmsStep, Sms!VerdictKept
<1> QED
  BY <1>3, <1>4

-----------------------------------------------------------------------------
(* Gmail.  The rows by the names module Gmail gives them.                  *)
gmHead == row1
gmConn == row2
gmRow == row3
gmAsked == row4
gmNote == row5
gmSync == row6
gmCheck == row7

USE DEF gmHead, gmConn, gmRow, gmAsked, gmNote, gmSync, gmCheck

\* What a reconciliation read past the cursor is still to do, or stored.
ReadIsStored ==
    gmSync.kind = "incremental" =>
        /\ gmSync.phase = "ingest"
        /\ \A i \in Gmail!Mails :
              gmSync.cursor < i /\ i <= gmSync.end /\ i <= gmSync.cursor + HistoryLimit
                  => i \in gmSync.todo \/ gmRow[i] # "none"

GmailInv ==
    /\ Gmail!GmailTypeOK
    /\ \A i \in Gmail!Mails : gmRow[i] = "none" => gmAsked[i] = 0
    /\ Gmail!AskedOnce
    /\ \A i \in Noted : Gmail!Pending(i) => i <= gmHead
    /\ ReadIsStored

GmailStep == GmailInv' /\ Gmail!PassedAreStored

\* A mail that is stored stays stored.
RowsKept == \A i \in Gmail!Mails : gmRow[i] # "none" => gmRow'[i] # "none"

\* The initial states satisfy the invariant.
LEMMA GmailStarts == Gmail!GmailInit => GmailInv
<1> SUFFICES ASSUME Gmail!GmailInit PROVE GmailInv
  OBVIOUS
<1> USE GmailAssumption DEF Gmail!GmailInit
<1>1. gmHead \in 1 .. Last /\ gmConn \in Gmail!ConnRow
  BY DEF Gmail!ConnRow, Gmail!ConnStatuses, Gmail!InitialStates, Gmail!Cursors
<1>2. /\ gmRow \in [Gmail!Mails -> {"none", "message", "recorded"}]
      /\ gmAsked \in [Gmail!Mails -> 0 .. 2]
      /\ \A i \in Gmail!Mails : gmAsked[i] = 0
  OBVIOUS
<1>3. /\ gmNote \in [Noted -> Gmail!NoteRow]
      /\ \A i \in Noted : gmNote[i].status = "none"
  BY DEF Gmail!NoteRow
<1>4. gmSync \in Gmail!Syncs /\ gmSync.kind = "none"
  BY DEF Gmail!Syncs, Gmail!NoSync
<1>5. Gmail!GmailTypeOK
  BY <1>1, <1>2, <1>3, <1>4 DEF Gmail!GmailTypeOK
<1> QED
  BY <1>2, <1>3, <1>4, <1>5 DEF GmailInv, ReadIsStored, Gmail!AskedOnce, Gmail!Pending

\* A nonempty set of mails has a first one.
LEMMA FirstMail ==
    ASSUME NEW S, S \subseteq Nat, S # {}
    PROVE  Gmail!Min(S) \in S
<1> DEFINE R == OpToRel(<, Nat)
<1>1. PICK x \in S : \A y \in S : ~ (<<y, x>> \in R)
  BY NatLessThanWellFounded, WFMin
<1>2. R = {p \in Nat \X Nat : p[1] < p[2]}
  BY DEF OpToRel
<1> HIDE DEF R
<1>3. ASSUME NEW y \in S PROVE x <= y
  <2>1. <<y, x>> \in Nat \X Nat /\ <<y, x>> \notin R
    BY <1>1, <1>3
  <2>2. ~ (y < x)
    BY <1>2, <2>1
  <2> QED
    BY <2>1, <2>2
<1> QED
  BY <1>3 DEF Gmail!Min

\* What moves no cursor in a step of a notification passes no mail.
LEMMA PassesNothing ==
    ASSUME GmailInv, RowsKept, gmHead' \in Nat,
           Gmail!NotificationMoves => gmConn'.cursor = gmConn.cursor
    PROVE  Gmail!PassedAreStored
<1> USE GmailAssumption DEF Gmail!ReadFrom, Gmail!ReadTo
<1> SUFFICES ASSUME NEW i \in Gmail!Mails, gmRow'[i] = "none"
             PROVE  ~ (Gmail!Passed(i) /\ i <= Gmail!ReadFrom + HistoryLimit)
  BY DEF Gmail!PassedAreStored
<1>1. CASE Gmail!ReconcileEnds
  <2>1. gmSync.cursor \in Nat /\ gmSync.end \in Nat /\ i \in Nat
    BY <1>1 DEF GmailInv, Gmail!GmailTypeOK, Gmail!Syncs, Gmail!NoSync, Gmail!Cursors, Gmail!Mails,
                Gmail!ReconcileEnds
  <2>2. ~ (gmSync.cursor < i /\ i <= gmSync.end /\ i <= gmSync.cursor + HistoryLimit)
    BY <1>1 DEF GmailInv, ReadIsStored, RowsKept, Gmail!ReconcileEnds
  <2> QED
    BY <1>1, <2>1, <2>2 DEF Gmail!Passed
<1>2. CASE ~Gmail!ReconcileEnds
  <2>1. gmConn.cursor \in Nat /\ i \in Nat
    BY DEF GmailInv, Gmail!GmailTypeOK, Gmail!ConnRow, Gmail!Cursors, Gmail!Mails
  <2> QED
    BY <1>2, <2>1 DEF Gmail!Passed
<1> QED
  BY <1>1, <1>2

\* A step that stores nothing passes no mail.
LEMMA GmailQuiet ==
    ASSUME GmailInv, Gmail!GmailTypeOK', UNCHANGED <<gmRow, gmAsked, gmNote>>, gmHead <= gmHead',
           gmSync' = gmSync \/ gmSync'.kind # "incremental"
    PROVE  GmailStep
<1> USE GmailAssumption
<1>1. ReadIsStored'
  BY DEF GmailInv, ReadIsStored
<1>2. \A i \in Noted : Gmail!Pending(i)' => i <= gmHead'
  BY DEF GmailInv, Gmail!GmailTypeOK, Gmail!Pending
<1>3. GmailInv'
  BY <1>1, <1>2 DEF GmailInv, Gmail!AskedOnce
<1>4. ~Gmail!NotificationMoves
  BY DEF Gmail!NotificationMoves
<1> QED
  BY <1>3, <1>4, PassesNothing DEF GmailStep, RowsKept, Gmail!GmailTypeOK

\* What changes only the connection and a check of it.
LEMMA GmailConnection ==
    ASSUME GmailInv,
           \/ Gmail!Arrive \/ Gmail!Disconnect \/ Gmail!RenewEnd \/ Gmail!HealthEnd
           \/ Gmail!CheckRefused \/ Gmail!InitialStuck \/ Gmail!CancelInitialSync
           \/ \E b \in BOOLEAN : Gmail!CompleteOAuth(b)
           \/ \E k \in {"renew", "health"} : Gmail!CheckBegin(k)
    PROVE  GmailStep
<1> USE GmailAssumption
<1>1. /\ Gmail!GmailTypeOK /\ gmConn \in Gmail!ConnRow /\ gmHead \in 1 .. Last
      /\ gmConn.cursor \in 0 .. Last /\ gmHead \in 0 .. Last /\ 0 \in 0 .. Last
  BY DEF GmailInv, Gmail!GmailTypeOK, Gmail!ConnRow, Gmail!Cursors
<1>2. CASE Gmail!Arrive
  <2>1. gmHead' \in 1 .. Last
    BY <1>1, <1>2 DEF Gmail!Arrive
  <2>2. Gmail!GmailTypeOK'
    BY <1>1, <1>2, <2>1 DEF Gmail!Arrive, Gmail!GmailTypeOK
  <2> QED
    BY <1>1, <1>2, <2>2, GmailQuiet DEF Gmail!Arrive
<1>3. ASSUME gmConn' \in Gmail!ConnRow, UNCHANGED Gmail!gmRest,
             gmCheck' \in [kind: {"renew", "health"}, cursor: Gmail!Cursors] \cup {Gmail!NoCheck}
      PROVE  GmailStep
  <2>1. UNCHANGED <<gmHead, gmRow, gmAsked, gmNote, gmSync>>
    BY <1>3 DEF Gmail!gmRest
  <2>2. Gmail!GmailTypeOK'
    BY <1>1, <1>3, <2>1 DEF Gmail!GmailTypeOK
  <2> QED
    BY <1>1, <2>1, <2>2, GmailQuiet
<1>4. CASE Gmail!Disconnect
  <2>1. gmConn' \in Gmail!ConnRow
    <3>1. gmConn' = [gmConn EXCEPT !.status = "disconnected", !.cursor = 0]
      BY <1>4 DEF Gmail!Disconnect
    <3> QED
      BY <1>1, <3>1 DEF Gmail!ConnRow, Gmail!ConnStatuses, Gmail!Cursors
  <2> QED
    BY <1>1, <1>3, <1>4, <2>1 DEF Gmail!Disconnect, Gmail!GmailTypeOK
<1>5. CASE Gmail!RenewEnd
  <2>1. gmCheck.cursor \in 0 .. Last /\ gmCheck' = Gmail!NoCheck
    BY <1>1, <1>5 DEF Gmail!RenewEnd, Gmail!CheckLive, Gmail!GmailTypeOK, Gmail!Cursors
  <2>2. gmConn' \in Gmail!ConnRow
    BY <1>1, <1>5, <2>1 DEF Gmail!RenewEnd, Gmail!ConnRow, Gmail!ConnStatuses, Gmail!Cursors
  <2> QED
    BY <1>3, <1>5, <2>1, <2>2 DEF Gmail!RenewEnd
<1>6. CASE Gmail!HealthEnd
  <2>1. gmConn' \in Gmail!ConnRow
    BY <1>1, <1>6 DEF Gmail!HealthEnd, Gmail!ConnRow, Gmail!ConnStatuses
  <2> QED
    BY <1>3, <1>6, <2>1 DEF Gmail!HealthEnd, Gmail!CheckLive
<1>7. CASE Gmail!CheckRefused
  <2>1. gmConn' \in Gmail!ConnRow
    BY <1>1, <1>7 DEF Gmail!CheckRefused, Gmail!ConnRow, Gmail!ConnStatuses
  <2> QED
    BY <1>3, <1>7, <2>1 DEF Gmail!CheckRefused, Gmail!CheckLive
<1>8. CASE Gmail!InitialStuck
  <2>1. gmConn' \in Gmail!ConnRow
    BY <1>1, <1>8 DEF Gmail!InitialStuck, Gmail!ConnRow, Gmail!ConnStatuses, Gmail!InitialStates
  <2> QED
    BY <1>1, <1>3, <1>8, <2>1 DEF Gmail!InitialStuck, Gmail!GmailTypeOK
<1>9. CASE Gmail!CancelInitialSync
  <2>1. gmConn' \in Gmail!ConnRow
    BY <1>1, <1>9 DEF Gmail!CancelInitialSync, Gmail!ConnRow, Gmail!InitialStates
  <2> QED
    BY <1>1, <1>3, <1>9, <2>1 DEF Gmail!CancelInitialSync, Gmail!GmailTypeOK
<1>10. ASSUME NEW b \in BOOLEAN, Gmail!CompleteOAuth(b) PROVE GmailStep
  <2>1. gmConn' \in Gmail!ConnRow
    BY <1>1, <1>10 DEF Gmail!CompleteOAuth, Gmail!ConnRow, Gmail!ConnStatuses, Gmail!InitialStates,
                       Gmail!Cursors
  <2> QED
    BY <1>1, <1>3, <1>10, <2>1 DEF Gmail!CompleteOAuth, Gmail!GmailTypeOK
<1>11. ASSUME NEW k \in {"renew", "health"}, Gmail!CheckBegin(k) PROVE GmailStep
  <2>1. gmCheck' \in [kind: {"renew", "health"}, cursor: Gmail!Cursors]
    BY <1>1, <1>11 DEF Gmail!CheckBegin, Gmail!Cursors
  <2> QED
    BY <1>1, <1>3, <1>11, <2>1 DEF Gmail!CheckBegin
<1> QED
  BY <1>2, <1>4, <1>5, <1>6, <1>7, <1>8, <1>9, <1>10, <1>11

\* What begins, moves or ends a synchronisation and stores no mail.
LEMMA GmailSyncs ==
    ASSUME GmailInv,
           \/ Gmail!InitialSync \/ Gmail!ManualResync \/ Gmail!HistoryExpired \/ Gmail!ListRecent
           \/ Gmail!ReadProfile \/ Gmail!FromNow \/ Gmail!SyncCancelled \/ Gmail!FullEnd
           \/ Gmail!IncrementalEnd \/ Gmail!SyncFailed \/ Gmail!SyncCrash(FALSE)
           \/ Gmail!ReconcileHistory /\ gmConn.cursor = 0
    PROVE  GmailStep
<1> USE GmailAssumption
<1> DEFINE Live == [kind: {"initial", "full", "incremental"}, phase: {"list", "profile", "ingest"},
                    cursor: Gmail!Cursors, todo: SUBSET Gmail!Mails, end: Gmail!Cursors]
<1>1. /\ Gmail!GmailTypeOK /\ gmConn \in Gmail!ConnRow /\ gmHead \in 1 .. Last
      /\ gmConn.cursor \in Gmail!Cursors /\ gmHead \in Gmail!Cursors /\ 0 \in Gmail!Cursors
      /\ gmSync \in Live \/ gmSync = Gmail!NoSync
      /\ Gmail!Recent(gmHead) \subseteq Gmail!Mails
  BY DEF GmailInv, Gmail!GmailTypeOK, Gmail!ConnRow, Gmail!Cursors, Gmail!Syncs, Gmail!Recent,
         Gmail!Mails
<1>2. Gmail!NoSync \in Gmail!Syncs /\ Gmail!NoSync.kind = "none" /\ Gmail!NoSync.phase = "none"
  BY DEF Gmail!Syncs, Gmail!NoSync
<1>3. ASSUME gmConn' \in Gmail!ConnRow, gmSync' \in Live \/ gmSync' = Gmail!NoSync,
             gmSync'.kind # "incremental", UNCHANGED <<gmHead, gmRow, gmAsked, gmNote, gmCheck>>
      PROVE  GmailStep
  <2>1. Gmail!GmailTypeOK'
    BY <1>1, <1>2, <1>3 DEF Gmail!GmailTypeOK, Gmail!Syncs
  <2> QED
    BY <1>1, <1>3, <2>1, GmailQuiet
<1>4. ASSUME NEW kind \in {"initial", "full"}, Gmail!FullBegin(kind)
      PROVE  gmSync' \in Live /\ gmSync'.kind # "incremental"
  BY <1>1, <1>4 DEF Gmail!FullBegin, Gmail!NoSync
<1>5. CASE Gmail!InitialSync
  <2>1. gmConn' \in Gmail!ConnRow
    BY <1>1, <1>5 DEF Gmail!InitialSync, Gmail!ConnRow, Gmail!ConnStatuses, Gmail!InitialStates
  <2> QED
    BY <1>3, <1>4, <1>5, <2>1 DEF Gmail!InitialSync
<1>6. CASE Gmail!ManualResync
  BY <1>1, <1>3, <1>4, <1>6 DEF Gmail!ManualResync
<1>7. CASE Gmail!HistoryExpired
  <2>1. gmSync' \in Live /\ gmSync'.kind # "incremental"
    BY <1>1, <1>2, <1>7 DEF Gmail!HistoryExpired
  <2> QED
    BY <1>1, <1>3, <1>7, <2>1 DEF Gmail!HistoryExpired
<1>8. CASE Gmail!ListRecent
  <2>1. gmSync' \in Live /\ gmSync'.kind # "incremental"
    BY <1>1, <1>2, <1>8 DEF Gmail!ListRecent, GmailInv, ReadIsStored
  <2> QED
    BY <1>1, <1>3, <1>8, <2>1 DEF Gmail!ListRecent
<1>9. CASE Gmail!ReadProfile
  <2>1. gmSync' \in Live /\ gmSync'.kind # "incremental"
    BY <1>1, <1>2, <1>9 DEF Gmail!ReadProfile, GmailInv, ReadIsStored
  <2> QED
    BY <1>1, <1>3, <1>9, <2>1 DEF Gmail!ReadProfile
<1>10. CASE Gmail!FromNow
  <2>1. gmSync' \in Live /\ gmSync'.kind # "incremental"
    BY <1>1, <1>2, <1>10 DEF Gmail!FromNow
  <2> QED
    BY <1>1, <1>3, <1>10, <2>1 DEF Gmail!FromNow
<1>11. CASE Gmail!SyncCancelled \/ Gmail!SyncCrash(FALSE)
  BY <1>1, <1>2, <1>3, <1>11 DEF Gmail!SyncCancelled, Gmail!SyncCrash
<1>12. CASE Gmail!FullEnd
  <2> DEFINE c == IF gmSync.end # 0 THEN gmSync.end ELSE gmSync.cursor
  <2>1. c \in Gmail!Cursors
    BY <1>1, <1>2, <1>12 DEF Gmail!FullEnd
  <2>2. gmConn' \in {[status |-> "connected", cursor |-> c, initial |-> "succeeded"],
                     [gmConn EXCEPT !.cursor = c]}
    BY <1>12 DEF Gmail!FullEnd
  <2>3. gmConn' \in Gmail!ConnRow
    BY <1>1, <2>1, <2>2 DEF Gmail!ConnRow, Gmail!ConnStatuses, Gmail!InitialStates
  <2> QED
    BY <1>2, <1>3, <1>12, <2>3 DEF Gmail!FullEnd
<1>13. CASE Gmail!IncrementalEnd
  <2>1. Gmail!Larger(gmSync.end, gmSync.cursor) \in Gmail!Cursors
    BY <1>1, <1>2, <1>13 DEF Gmail!IncrementalEnd, Gmail!Larger
  <2>2. gmConn' \in Gmail!ConnRow
    BY <1>1, <1>13, <2>1 DEF Gmail!IncrementalEnd, Gmail!ConnRow
  <2> QED
    BY <1>2, <1>3, <1>13, <2>2 DEF Gmail!IncrementalEnd
<1>14. CASE Gmail!SyncFailed
  <2>1. gmConn' \in Gmail!ConnRow
    BY <1>1, <1>14 DEF Gmail!SyncFailed, Gmail!ConnRow, Gmail!ConnStatuses, Gmail!InitialStates
  <2> QED
    BY <1>2, <1>3, <1>14, <2>1 DEF Gmail!SyncFailed
<1>15. CASE Gmail!ReconcileHistory /\ gmConn.cursor = 0
  BY <1>1, <1>3, <1>4, <1>15 DEF Gmail!ReconcileHistory
<1> QED
  BY <1>5, <1>6, <1>7, <1>8, <1>9, <1>10, <1>11, <1>12, <1>13, <1>14, <1>15

\* A reconciliation reads everything that arrived after the cursor, up to its limit.
LEMMA GmailReconciles ==
    ASSUME GmailInv, Gmail!ReconcileHistory, gmConn.cursor # 0
    PROVE  GmailStep
<1> USE GmailAssumption
<1> DEFINE c == gmConn.cursor
<1>1. /\ gmSync' = [kind |-> "incremental", phase |-> "ingest", cursor |-> c,
                    todo |-> Gmail!History(c, gmHead), end |-> gmHead]
      /\ UNCHANGED <<gmHead, gmConn, gmRow, gmAsked, gmNote, gmCheck>>
  BY DEF Gmail!ReconcileHistory
<1>2. c \in Gmail!Cursors /\ gmHead \in Gmail!Cursors /\ gmHead \in 1 .. Last
  BY DEF GmailInv, Gmail!GmailTypeOK, Gmail!ConnRow, Gmail!Cursors
<1>3. Gmail!History(c, gmHead) \subseteq Gmail!Mails
  BY <1>2 DEF Gmail!History, Gmail!Mails
<1>4. gmSync' \in Gmail!Syncs
  BY <1>1, <1>2, <1>3 DEF Gmail!Syncs
<1>5. Gmail!GmailTypeOK'
  BY <1>1, <1>4 DEF GmailInv, Gmail!GmailTypeOK
<1>6. \A i \in Gmail!Mails : c < i /\ i <= gmHead /\ i <= c + HistoryLimit => i \in Gmail!History(c, gmHead)
  BY <1>2 DEF Gmail!History, Gmail!Mails
<1>7. ReadIsStored'
  BY <1>1, <1>6 DEF ReadIsStored
<1>8. GmailInv'
  BY <1>1, <1>5, <1>7 DEF GmailInv, Gmail!AskedOnce, Gmail!Pending
<1>9. ~Gmail!NotificationMoves
  BY <1>1 DEF Gmail!NotificationMoves
<1> QED
  BY <1>1, <1>2, <1>8, <1>9, PassesNothing DEF GmailStep, RowsKept

\* Storing mails asks only about those that had no row.
LEMMA StoredAndAsked ==
    ASSUME GmailInv, NEW set, NEW historical \in BOOLEAN,
           gmRow' = Gmail!Stored(gmRow, set), gmAsked' = Gmail!AskedAfter(gmRow, set, historical)
    PROVE  /\ gmRow' \in [Gmail!Mails -> {"none", "message", "recorded"}]
           /\ gmAsked' \in [Gmail!Mails -> 0 .. 2]
           /\ \A i \in Gmail!Mails : gmRow'[i] = "none" => gmAsked'[i] = 0
           /\ Gmail!AskedOnce'
           /\ RowsKept
           /\ \A i \in Gmail!Mails \cap set : gmRow'[i] # "none"
<1>1. ASSUME NEW i \in Gmail!Mails
      PROVE  /\ gmRow[i] \in {"none", "message", "recorded"} /\ gmAsked[i] \in {0, 1}
             /\ gmRow[i] = "none" => gmAsked[i] = 0
             /\ gmRow'[i] = IF i \in set /\ gmRow[i] = "none" THEN "recorded" ELSE gmRow[i]
             /\ gmAsked'[i] = IF i \in set /\ gmRow[i] = "none" /\ Gmail!AskedFor(i, historical)
                              THEN gmAsked[i] + 1 ELSE gmAsked[i]
  BY DEF GmailInv, Gmail!GmailTypeOK, Gmail!AskedOnce, Gmail!Stored, Gmail!AskedAfter
<1>2. ASSUME NEW i \in Gmail!Mails
      PROVE  /\ gmRow'[i] \in {"none", "message", "recorded"} /\ gmAsked'[i] \in {0, 1}
             /\ gmRow'[i] = "none" => gmAsked'[i] = 0
             /\ gmRow[i] # "none" \/ i \in set => gmRow'[i] # "none"
  BY <1>1
<1> QED
  BY <1>2 DEF Gmail!Stored, Gmail!AskedAfter, Gmail!AskedOnce, RowsKept

\* A synchronisation stores one mail, and may die after it.
LEMMA GmailIngests ==
    ASSUME GmailInv, Gmail!SyncOne \/ Gmail!SyncCrash(TRUE)
    PROVE  GmailStep
<1> USE GmailAssumption
<1> DEFINE i == Gmail!Min(gmSync.todo)
<1>1. /\ Gmail!GmailTypeOK /\ gmSync.todo # {} /\ gmSync # Gmail!NoSync
      /\ UNCHANGED <<gmHead, gmConn, gmNote, gmCheck>>
  BY DEF GmailInv, Gmail!SyncOne, Gmail!SyncCrash, Gmail!Ingesting, Gmail!NoSync
<1>2. gmSync \in [kind: {"initial", "full", "incremental"}, phase: {"list", "profile", "ingest"},
                  cursor: Gmail!Cursors, todo: SUBSET Gmail!Mails, end: Gmail!Cursors]
  BY <1>1 DEF Gmail!GmailTypeOK, Gmail!Syncs
<1>3. i \in gmSync.todo /\ i \in Gmail!Mails
  BY <1>1, <1>2, FirstMail DEF Gmail!Mails
<1>4. ~Gmail!NotificationMoves /\ gmHead' \in Nat
  BY <1>1 DEF Gmail!NotificationMoves, Gmail!GmailTypeOK
<1>5. CASE Gmail!SyncOne
  <2>1. /\ gmRow' \in [Gmail!Mails -> {"none", "message", "recorded"}]
        /\ gmAsked' \in [Gmail!Mails -> 0 .. 2]
        /\ \A j \in Gmail!Mails : gmRow'[j] = "none" => gmAsked'[j] = 0
        /\ Gmail!AskedOnce'
        /\ RowsKept
        /\ gmRow'[i] # "none"
    BY <1>3, <1>5, StoredAndAsked DEF Gmail!SyncOne
  <2>2. gmSync' = [gmSync EXCEPT !.todo = @ \ {i}]
    BY <1>5 DEF Gmail!SyncOne
  <2>3. /\ gmSync' \in Gmail!Syncs /\ gmSync'.kind = gmSync.kind /\ gmSync'.phase = gmSync.phase
        /\ gmSync'.cursor = gmSync.cursor /\ gmSync'.end = gmSync.end
        /\ gmSync'.todo = gmSync.todo \ {i}
    BY <1>2, <2>2 DEF Gmail!Syncs
  <2>4. ReadIsStored'
    BY <2>1, <2>3 DEF GmailInv, ReadIsStored, RowsKept
  <2>5. Gmail!GmailTypeOK'
    BY <1>1, <2>1, <2>3 DEF Gmail!GmailTypeOK
  <2>6. GmailInv'
    BY <1>1, <2>1, <2>4, <2>5 DEF GmailInv, Gmail!Pending
  <2> QED
    BY <1>4, <2>1, <2>6, PassesNothing DEF GmailStep
<1>6. CASE Gmail!SyncCrash(TRUE)
  <2>1. /\ gmRow[i] = "none" /\ gmRow' = [gmRow EXCEPT ![i] = "message"]
        /\ gmSync' = Gmail!NoSync /\ UNCHANGED gmAsked
    BY <1>6 DEF Gmail!SyncCrash
  <2>2. gmSync' \in Gmail!Syncs /\ gmSync'.kind = "none"
    BY <2>1 DEF Gmail!Syncs, Gmail!NoSync
  <2>3. Gmail!GmailTypeOK' /\ RowsKept
    BY <1>1, <1>3, <2>1, <2>2 DEF Gmail!GmailTypeOK, RowsKept
  <2>4. \A j \in Gmail!Mails : gmRow'[j] = "none" => gmAsked'[j] = 0
    BY <1>1, <2>1 DEF Gmail!GmailTypeOK, GmailInv
  <2>5. GmailInv'
    BY <1>1, <2>1, <2>2, <2>3, <2>4 DEF GmailInv, ReadIsStored, Gmail!Pending, Gmail!AskedOnce
  <2> QED
    BY <1>4, <2>3, <2>5, PassesNothing DEF GmailStep
<1> QED
  BY <1>5, <1>6

\* A notification is received once, of a mail that is there.
LEMMA GmailNotes ==
    ASSUME GmailInv, NEW n \in Noted, Gmail!ReceivePubsub(n)
    PROVE  GmailStep
<1> USE GmailAssumption
<1>1. Gmail!GmailTypeOK /\ gmNote[n] \in Gmail!NoteRow
  BY DEF GmailInv, Gmail!GmailTypeOK
<1>2. /\ UNCHANGED <<gmHead, gmConn, gmRow, gmAsked, gmSync, gmCheck>>
      /\ n <= gmHead
      /\ gmNote' = [gmNote EXCEPT ![n] = [gmNote[n] EXCEPT !.status = "received"]]
  BY <1>1 DEF Gmail!ReceivePubsub, Gmail!GmailTypeOK
<1>3. [gmNote[n] EXCEPT !.status = "received"] \in Gmail!NoteRow
  BY <1>1 DEF Gmail!NoteRow
<1>4. Gmail!GmailTypeOK'
  BY <1>1, <1>2, <1>3 DEF Gmail!GmailTypeOK
<1>5. \A j \in Noted : Gmail!Pending(j)' => j <= gmHead'
  BY <1>1, <1>2 DEF GmailInv, Gmail!Pending, Gmail!GmailTypeOK
<1>6. GmailInv'
  BY <1>2, <1>4, <1>5 DEF GmailInv, ReadIsStored, Gmail!AskedOnce
<1> QED
  BY <1>1, <1>2, <1>6, PassesNothing DEF GmailStep, RowsKept, Gmail!GmailTypeOK

\* The transaction of a notification stores a set of mails and writes its own row.
LEMMA NotificationStores ==
    ASSUME GmailInv, NEW n \in Noted, Gmail!Pending(n), NEW set, NEW historical \in BOOLEAN,
           gmRow' = Gmail!Stored(gmRow, set), gmAsked' = Gmail!AskedAfter(gmRow, set, historical),
           NEW row \in Gmail!NoteRow, gmNote' = [gmNote EXCEPT ![n] = row],
           gmConn' \in Gmail!ConnRow, UNCHANGED <<gmHead, gmSync, gmCheck>>
    PROVE  /\ GmailInv'
           /\ RowsKept
           /\ gmHead' \in Nat
           /\ ~Gmail!ReconcileEnds
           /\ \A j \in Gmail!Mails \cap set : gmRow'[j] # "none"
<1> USE GmailAssumption
<1>1. Gmail!GmailTypeOK /\ n <= gmHead
  BY DEF GmailInv
<1>2. /\ gmRow' \in [Gmail!Mails -> {"none", "message", "recorded"}]
      /\ gmAsked' \in [Gmail!Mails -> 0 .. 2]
      /\ \A j \in Gmail!Mails : gmRow'[j] = "none" => gmAsked'[j] = 0
      /\ Gmail!AskedOnce'
      /\ RowsKept
      /\ \A j \in Gmail!Mails \cap set : gmRow'[j] # "none"
  BY StoredAndAsked
<1>3. gmNote' \in [Noted -> Gmail!NoteRow]
  BY <1>1 DEF Gmail!GmailTypeOK
<1>4. Gmail!GmailTypeOK'
  BY <1>1, <1>2, <1>3 DEF Gmail!GmailTypeOK
<1>5. \A j \in Noted : Gmail!Pending(j)' => j <= gmHead'
  BY <1>1 DEF GmailInv, Gmail!Pending, Gmail!GmailTypeOK
<1>6. ReadIsStored'
  BY <1>2 DEF GmailInv, ReadIsStored, RowsKept
<1>7. GmailInv'
  BY <1>2, <1>4, <1>5, <1>6 DEF GmailInv
<1>8. ~Gmail!ReconcileEnds
  BY DEF Gmail!ReconcileEnds
<1> QED
  BY <1>1, <1>2, <1>7, <1>8 DEF Gmail!GmailTypeOK

\* A failure half way commits what was stored before it and leaves the cursor.
LEMMA GmailFails ==
    ASSUME GmailInv, NEW n \in Noted, NEW full \in BOOLEAN, NEW last, Gmail!NotificationFailed(n, full, last)
    PROVE  GmailStep
<1> USE GmailAssumption
<1>1. /\ Gmail!Pending(n) /\ gmConn \in Gmail!ConnRow
      /\ gmNote[n] \in Gmail!NoteRow /\ gmNote[n].attempts \in 0 .. MaxSync
  BY DEF Gmail!NotificationFailed, GmailInv, Gmail!GmailTypeOK, Gmail!NoteRow
<1> DEFINE row == Gmail!FailedNote(gmNote[n])
<1>2. row \in Gmail!NoteRow
  <2>1. gmNote[n].attempts + 1 < MaxSync => gmNote[n].attempts + 1 \in 0 .. MaxSync
    BY <1>1
  <2>2. 0 \in 0 .. MaxSync
    OBVIOUS
  <2> QED
    BY <1>1, <2>1, <2>2 DEF Gmail!NoteRow, Gmail!FailedNote
<1>3. gmNote' = [gmNote EXCEPT ![n] = row] /\ UNCHANGED <<gmHead, gmConn, gmSync, gmCheck>>
  BY DEF Gmail!NotificationFailed, GmailInv, Gmail!GmailTypeOK
<1> HIDE DEF row
<1>4. ASSUME NEW seen \in 1 .. gmHead, NEW set,
             gmRow' = Gmail!Stored(gmRow, set), gmAsked' = Gmail!AskedAfter(gmRow, set, full)
      PROVE  GmailInv' /\ RowsKept /\ gmHead' \in Nat
  BY <1>1, <1>2, <1>3, <1>4, NotificationStores
<1>5. GmailInv' /\ RowsKept /\ gmHead' \in Nat
  BY <1>4 DEF Gmail!NotificationFailed
<1> QED
  BY <1>3, <1>5, PassesNothing DEF GmailStep

\* One transaction stores what the notification tells of and moves the cursor.
LEMMA GmailNotified ==
    ASSUME GmailInv, NEW n \in Noted, NEW expired \in BOOLEAN, Gmail!ProcessNotification(n, expired)
    PROVE  GmailStep
<1> USE GmailAssumption
<1> DEFINE c == gmConn.cursor
           full == c = 0 \/ expired
           row == [status |-> "done", attempts |-> 0, run |-> IF full THEN "recent" ELSE "history"]
<1>1. /\ Gmail!GmailTypeOK /\ n \in 0 .. Last /\ c \in 0 .. Last /\ gmHead \in 1 .. Last
      /\ gmConn \in Gmail!ConnRow /\ Gmail!Pending(n) /\ full \in BOOLEAN
  BY DEF GmailInv, Gmail!GmailTypeOK, Gmail!ConnRow, Gmail!Cursors, Gmail!ProcessNotification
<1>2. PICK seen \in Gmail!Larger(n, c) .. gmHead : \E next \in seen .. gmHead :
          /\ full \/ next = seen
          /\ gmRow' = Gmail!Stored(gmRow, Gmail!Reads(full, seen))
          /\ gmAsked' = Gmail!AskedAfter(gmRow, Gmail!Reads(full, seen), full)
          /\ gmConn' = [gmConn EXCEPT !.cursor = next]
  BY DEF Gmail!ProcessNotification
<1>3. PICK next \in seen .. gmHead :
          /\ full \/ next = seen
          /\ gmConn' = [gmConn EXCEPT !.cursor = next]
  BY <1>2
<1>4. gmNote' = [gmNote EXCEPT ![n] = row] /\ UNCHANGED <<gmHead, gmSync, gmCheck>>
  BY DEF Gmail!ProcessNotification
<1>5. row \in Gmail!NoteRow /\ row.run = (IF full THEN "recent" ELSE "history")
  BY DEF Gmail!NoteRow
<1>6. seen \in Nat /\ next \in 0 .. Last /\ gmConn' \in Gmail!ConnRow /\ gmConn'.cursor = next
  <2>1. seen \in Nat /\ next \in 0 .. Last
    BY <1>1, <1>2, <1>3 DEF Gmail!Larger
  <2> QED
    BY <1>1, <1>3, <2>1 DEF Gmail!ConnRow, Gmail!Cursors
<1>7. gmNote'[n] = row
  BY <1>1, <1>4 DEF Gmail!GmailTypeOK
<1>8. \A j \in Noted : gmNote'[j] # gmNote[j] => j = n
  BY <1>1, <1>4 DEF Gmail!GmailTypeOK
<1> HIDE DEF full, row
<1>9. /\ GmailInv' /\ RowsKept /\ ~Gmail!ReconcileEnds
      /\ \A j \in Gmail!Mails \cap Gmail!Reads(full, seen) : gmRow'[j] # "none"
  BY <1>1, <1>2, <1>4, <1>5, <1>6, NotificationStores
<1>10. ASSUME NEW j \in Gmail!Mails, Gmail!Passed(j), j <= Gmail!ReadFrom + HistoryLimit
      PROVE  gmRow'[j] # "none"
  <2>1. Gmail!NotificationMoves /\ j > c /\ j <= next /\ j <= c + HistoryLimit
    BY <1>6, <1>9, <1>10 DEF Gmail!Passed, Gmail!ReadFrom, Gmail!ReadTo
  <2>2. ~full
    BY <1>5, <1>7, <1>8, <2>1 DEF Gmail!NotificationMoves
  <2>3. j \in Nat /\ 2 <= j /\ j <= seen
    BY <1>3, <2>1, <2>2 DEF Gmail!Mails
  <2>4. j \in Gmail!Reads(full, seen)
    BY <1>1, <1>6, <2>1, <2>2, <2>3 DEF Gmail!Reads, Gmail!History
  <2> QED
    BY <1>9, <2>4
<1> QED
  BY <1>9, <1>10 DEF GmailStep, Gmail!PassedAreStored

-----------------------------------------------------------------------------
(* The reply through Gmail.                                                *)
grReady == row1
grReq == row2
grLock == row3
grOut == row4

USE DEF grReady, grReq, grLock, grOut

\* What the row of the reply may say, whoever runs.
OutOK(o) ==
    /\ o \in Reply!OutRow
    /\ o.msg = "none" => o.attempt = "none" /\ o.handed = 0 /\ o.lost = 0
    /\ o.attempt = "queued" => o.handed <= o.lost
    /\ o.handed <= 1 + o.lost
    /\ o.msg = "sent" => o.handed >= 1

\* One request at most calls Google, for a reply that was not handed over.
CallsOK ==
    \A r \in Requests : grReq[r] = "calling" =>
        /\ grOut.msg = "queued" /\ grOut.attempt = "sending" /\ grOut.handed = 0 /\ grOut.lost = 0
        /\ \A q \in Requests : grReq[q] = "calling" => q = r

ReplyInv == Reply!ReplyTypeOK /\ OutOK(grOut) /\ CallsOK

\* The initial states satisfy the invariant.
LEMMA ReplyStarts == Reply!ReplyInit => ReplyInv
<1> SUFFICES ASSUME Reply!ReplyInit PROVE ReplyInv
  OBVIOUS
<1>1. /\ grOut \in Reply!OutRow /\ grOut.msg = "none" /\ grOut.attempt = "none"
      /\ grOut.handed = 0 /\ grOut.lost = 0
  BY ReplyAssumption DEF Reply!ReplyInit, Reply!OutRow
<1>2. OutOK(grOut)
  BY <1>1 DEF OutOK
<1>3. Reply!ReplyTypeOK /\ CallsOK
  BY <1>1 DEF Reply!ReplyInit, Reply!ReplyTypeOK, CallsOK
<1> QED
  BY <1>2, <1>3 DEF ReplyInv

\* A request goes on, or the lock and the policy change; the reply stays.
LEMMA ReplyQuiet ==
    ASSUME ReplyInv, UNCHANGED grOut, grReady' \in BOOLEAN, grLock' \in BOOLEAN,
           grReq' \in [Requests -> {"start", "checked", "locked", "calling", "done"}],
           \A r \in Requests : grReq'[r] = "calling" => grReq[r] = "calling"
    PROVE  ReplyInv'
<1>1. CallsOK'
  BY DEF ReplyInv, CallsOK
<1> QED
  BY <1>1 DEF ReplyInv, Reply!ReplyTypeOK, OutOK

\* Everything before the row of the reply is inserted.
LEMMA ReplyMoves ==
    ASSUME ReplyInv,
           \/ Reply!PolicyChanges \/ Reply!LockExpires
           \/ \E r \in Requests :
                 \/ Reply!Check(r) \/ Reply!Answered(r) \/ Reply!Lock(r) \/ Reply!Busy(r)
                 \/ Reply!InsertRefused(r)
    PROVE  ReplyInv'
<1>1. Reply!ReplyTypeOK
  BY DEF ReplyInv
<1>2. CASE Reply!PolicyChanges \/ Reply!LockExpires
  BY <1>1, <1>2, ReplyQuiet DEF Reply!PolicyChanges, Reply!LockExpires, Reply!ReplyTypeOK
<1>3. ASSUME NEW r \in Requests, NEW from, NEW to \in {"checked", "locked", "done"},
             Reply!Goes(r, from, to), UNCHANGED <<grReady, grOut>>, grLock' \in BOOLEAN
      PROVE  ReplyInv'
  <2>1. /\ grReq' \in [Requests -> {"start", "checked", "locked", "calling", "done"}]
        /\ \A q \in Requests : grReq'[q] = "calling" => grReq[q] = "calling"
    BY <1>1, <1>3 DEF Reply!Goes, Reply!ReplyTypeOK
  <2> QED
    BY <1>1, <1>3, <2>1, ReplyQuiet DEF Reply!ReplyTypeOK
<1>4. ASSUME NEW r \in Requests,
             \/ Reply!Check(r) \/ Reply!Answered(r) \/ Reply!Lock(r) \/ Reply!Busy(r)
             \/ Reply!InsertRefused(r)
      PROVE  ReplyInv'
  <2>1. grLock' \in BOOLEAN /\ UNCHANGED <<grReady, grOut>>
    BY <1>1, <1>4 DEF Reply!Check, Reply!Answered, Reply!Lock, Reply!Busy, Reply!InsertRefused,
                      Reply!ReplyTypeOK
  <2>2. \E from : \E to \in {"checked", "locked", "done"} : Reply!Goes(r, from, to)
    BY <1>4 DEF Reply!Check, Reply!Answered, Reply!Lock, Reply!Busy, Reply!InsertRefused
  <2> QED
    BY <1>3, <2>1, <2>2
<1> QED
  BY <1>2, <1>4

\* The unique client id lets one request through: nobody else calls.
LEMMA ReplyInserted ==
    ASSUME ReplyInv, NEW r \in Requests, Reply!Insert(r)
    PROVE  ReplyInv'
<1> USE ReplyAssumption
<1>1. /\ grOut' = [grOut EXCEPT !.msg = "queued", !.attempt = "sending", !.count = 1]
      /\ grOut \in Reply!OutRow /\ grOut.handed = 0 /\ grOut.lost = 0
      /\ grReq \in [Requests -> {"start", "checked", "locked", "calling", "done"}]
      /\ grReq' = [grReq EXCEPT ![r] = "calling"]
      /\ UNCHANGED <<grReady, grLock>>
  BY DEF Reply!Insert, Reply!Goes, ReplyInv, OutOK, Reply!ReplyTypeOK
<1>2. /\ grOut' \in Reply!OutRow /\ grOut'.msg = "queued" /\ grOut'.attempt = "sending"
      /\ grOut'.handed = 0 /\ grOut'.lost = 0
  <2>1. 1 \in 0 .. GmailAttempts
    OBVIOUS
  <2> QED
    BY <1>1, <2>1 DEF Reply!OutRow
<1>3. \A q \in Requests : grReq[q] # "calling"
  BY DEF ReplyInv, CallsOK, Reply!Insert
<1>4. CallsOK'
  BY <1>1, <1>2, <1>3 DEF CallsOK
<1>5. Reply!ReplyTypeOK'
  BY <1>1, <1>2 DEF ReplyInv, Reply!ReplyTypeOK
<1> QED
  BY <1>2, <1>4, <1>5 DEF ReplyInv, OutOK

\* No answer but lost ones was a success.
Undelivered(o) ==
    /\ o \in Reply!OutRow /\ o.msg # "none"
    /\ o.handed <= o.lost
    /\ o.msg = "sent" => o.handed >= 1

\* What the answer of Gmail makes of the row.
LEMMA ReplyOutcomes ==
    ASSUME NEW o, Undelivered(o)
    PROVE  /\ OutOK(Reply!Accept(o))
           /\ OutOK(Reply!Transient(o, FALSE))
           /\ o.lost < GmailLost => OutOK(Reply!Transient(o, TRUE))
<1> USE ReplyAssumption
<1>1. o \in Reply!OutRow /\ o.lost \in 0 .. GmailLost /\ o.handed \in 0 .. GmailLost
  BY DEF Undelivered, Reply!OutRow
<1>2. OutOK(Reply!Accept(o))
  <2> DEFINE p == Reply!Accept(o)
  <2>1. o.handed + 1 \in 0 .. GmailLost + 2
    BY <1>1
  <2>2. /\ p \in Reply!OutRow /\ p.msg = "sent" /\ p.attempt = "sent"
        /\ p.handed = o.handed + 1 /\ p.lost = o.lost
    BY <1>1, <2>1 DEF Reply!Accept, Reply!OutRow
  <2> HIDE DEF p
  <2>3. OutOK(p)
    BY <1>1, <2>2 DEF OutOK, Undelivered
  <2> QED
    BY <2>3 DEF p
<1>3. OutOK(Reply!Transient(o, FALSE))
  <2> DEFINE p == Reply!Transient(o, FALSE)
  <2>1. /\ p \in Reply!OutRow /\ p.msg = o.msg /\ p.attempt = "queued"
        /\ p.handed = o.handed /\ p.lost = o.lost
    BY <1>1 DEF Reply!Transient, Reply!OutRow
  <2> HIDE DEF p
  <2>2. OutOK(p)
    BY <1>1, <2>1 DEF OutOK, Undelivered
  <2> QED
    BY <2>2 DEF p
<1>4. ASSUME o.lost < GmailLost PROVE OutOK(Reply!Transient(o, TRUE))
  <2> DEFINE p == Reply!Transient(o, TRUE)
  <2>1. o.handed + 1 \in 0 .. GmailLost + 2 /\ o.lost + 1 \in 0 .. GmailLost
    BY <1>1, <1>4
  <2>2. /\ p \in Reply!OutRow /\ p.msg = o.msg /\ p.attempt = "queued"
        /\ p.handed = o.handed + 1 /\ p.lost = o.lost + 1
    BY <1>1, <2>1 DEF Reply!Transient, Reply!OutRow
  <2> HIDE DEF p
  <2>3. OutOK(p)
    BY <1>1, <2>2 DEF OutOK, Undelivered
  <2> QED
    BY <2>3 DEF p
<1> QED
  BY <1>2, <1>3, <1>4

\* The request that inserted the row is answered by Gmail.
LEMMA ReplyAnswered ==
    ASSUME ReplyInv, NEW r \in Requests, NEW o \in Reply!Outcomes, Reply!SendAnswer(r, o)
    PROVE  ReplyInv'
<1> USE ReplyAssumption
<1>1. /\ Reply!ReplyTypeOK /\ grOut \in Reply!OutRow /\ grReq[r] = "calling"
      /\ grOut.msg = "queued" /\ grOut.handed = 0 /\ grOut.lost = 0
      /\ o = "lost" => grOut.lost < GmailLost
      /\ UNCHANGED grReady /\ grLock' = FALSE /\ grReq' = [grReq EXCEPT ![r] = "done"]
  BY DEF Reply!SendAnswer, Reply!Goes, ReplyInv, OutOK, CallsOK
<1>2. \A q \in Requests : grReq'[q] # "calling"
  BY <1>1 DEF ReplyInv, CallsOK, Reply!ReplyTypeOK
<1>3. Undelivered(grOut)
  BY <1>1 DEF Undelivered
<1>4. OutOK(grOut')
  <2>1. CASE o = "accepted"
    <3>1. grOut' = Reply!Accept(grOut)
      BY <2>1 DEF Reply!SendAnswer
    <3> QED
      BY <1>1, <1>3, <3>1, ReplyOutcomes
  <2>2. CASE o = "transient"
    <3>1. grOut' = Reply!Transient(grOut, FALSE)
      BY <2>2 DEF Reply!SendAnswer
    <3> QED
      BY <1>1, <1>3, <3>1, ReplyOutcomes
  <2>3. CASE o = "lost"
    <3>1. grOut' = Reply!Transient(grOut, TRUE)
      BY <2>3 DEF Reply!SendAnswer
    <3> QED
      BY <1>1, <1>3, <2>3, <3>1, ReplyOutcomes
  <2>4. CASE o = "refused"
    <3>1. grOut' = [grOut EXCEPT !.msg = "failed", !.attempt = "failed"]
      BY <2>4 DEF Reply!SendAnswer
    <3>2. /\ grOut' \in Reply!OutRow /\ grOut'.msg = "failed" /\ grOut'.attempt = "failed"
          /\ grOut'.handed = 0 /\ grOut'.lost = 0
      BY <1>1, <3>1 DEF Reply!OutRow
    <3> QED
      BY <3>2 DEF OutOK
  <2> QED
    BY <2>1, <2>2, <2>3, <2>4 DEF Reply!Outcomes
<1>5. Reply!ReplyTypeOK'
  BY <1>1, <1>4 DEF Reply!ReplyTypeOK, OutOK
<1> QED
  BY <1>2, <1>4, <1>5 DEF ReplyInv, CallsOK

\* The request dies, before or after Gmail had the reply.
LEMMA ReplyCrashes ==
    ASSUME ReplyInv, NEW r \in Requests, NEW b \in BOOLEAN, Reply!Crash(r, b)
    PROVE  ReplyInv'
<1> USE ReplyAssumption
<1>1. /\ Reply!ReplyTypeOK /\ grReq' = [grReq EXCEPT ![r] = "done"]
      /\ UNCHANGED <<grReady, grLock>>
  BY DEF Reply!Crash, ReplyInv
<1>2. CASE b = FALSE
  <2>1. UNCHANGED grOut
    BY <1>2 DEF Reply!Crash
  <2>2. /\ grReq' \in [Requests -> {"start", "checked", "locked", "calling", "done"}]
        /\ \A q \in Requests : grReq'[q] = "calling" => grReq[q] = "calling"
    BY <1>1 DEF Reply!ReplyTypeOK
  <2> QED
    BY <1>1, <2>1, <2>2, ReplyQuiet DEF Reply!ReplyTypeOK
<1>3. CASE b = TRUE
  <2>1. /\ grReq[r] = "calling" /\ grOut' = [grOut EXCEPT !.handed = @ + 1]
        /\ grOut \in Reply!OutRow
        /\ grOut.msg = "queued" /\ grOut.attempt = "sending" /\ grOut.handed = 0 /\ grOut.lost = 0
    BY <1>3 DEF Reply!Crash, ReplyInv, CallsOK, OutOK
  <2>2. 1 \in 0 .. GmailLost + 2
    OBVIOUS
  <2>3. /\ grOut' \in Reply!OutRow /\ grOut'.msg = "queued" /\ grOut'.attempt = "sending"
        /\ grOut'.handed = 1 /\ grOut'.lost = 0
    BY <2>1, <2>2 DEF Reply!OutRow
  <2>4. \A q \in Requests : grReq'[q] # "calling"
    BY <1>1, <2>1 DEF ReplyInv, CallsOK, Reply!ReplyTypeOK
  <2>5. Reply!ReplyTypeOK'
    BY <1>1, <2>3 DEF Reply!ReplyTypeOK
  <2> QED
    BY <2>3, <2>4, <2>5 DEF ReplyInv, OutOK, CallsOK
<1> QED
  BY <1>2, <1>3

\* A retry is due only when no answer but lost ones was a success.
LEMMA ReplyRetries ==
    ASSUME ReplyInv,
           Reply!RetryExhausted \/ \E o \in Reply!Outcomes : Reply!RetryOutbound(o)
    PROVE  ReplyInv'
<1> USE ReplyAssumption
<1>1. /\ Reply!ReplyTypeOK /\ grOut \in Reply!OutRow /\ OutOK(grOut)
      /\ grOut.attempt = "queued" /\ grOut.handed <= grOut.lost /\ grOut.msg # "none"
      /\ grOut.handed \in Nat /\ grOut.lost \in Nat
      /\ UNCHANGED <<grReady, grReq, grLock>>
      /\ \A q \in Requests : grReq[q] # "calling"
  <2>1. Reply!Retrying
    BY DEF Reply!RetryExhausted, Reply!RetryOutbound
  <2> QED
    BY <2>1 DEF Reply!Retrying, ReplyInv, OutOK, CallsOK, Reply!OutRow
<1>2. SUFFICES OutOK(grOut')
  BY <1>1 DEF ReplyInv, OutOK, CallsOK, Reply!ReplyTypeOK
<1>3. CASE Reply!RetryExhausted
  <2>1. grOut' = [grOut EXCEPT !.msg = "failed", !.attempt = "dead_letter", !.task = FALSE]
    BY <1>3 DEF Reply!RetryExhausted
  <2>2. /\ grOut' \in Reply!OutRow /\ grOut'.msg = "failed" /\ grOut'.attempt = "dead_letter"
        /\ grOut'.handed = grOut.handed /\ grOut'.lost = grOut.lost
    BY <1>1, <2>1 DEF Reply!OutRow
  <2> QED
    BY <1>1, <2>2 DEF OutOK
<1>4. ASSUME NEW o \in Reply!Outcomes, Reply!RetryOutbound(o) PROVE OutOK(grOut')
  <2> DEFINE p == [grOut EXCEPT !.count = @ + 1]
  <2>1. grOut.count + 1 \in 0 .. GmailAttempts
    BY <1>1, <1>4 DEF Reply!RetryOutbound, Reply!OutRow
  <2>2. /\ p \in Reply!OutRow /\ p.msg = grOut.msg /\ p.attempt = "queued"
        /\ p.handed = grOut.handed /\ p.lost = grOut.lost
    BY <1>1, <2>1 DEF Reply!OutRow
  <2>3. o = "lost" => p.lost < GmailLost
    BY <1>4, <2>2 DEF Reply!RetryOutbound
  <2>4. Undelivered(p)
    BY <1>1, <2>2 DEF Undelivered, OutOK
  <2>5. CASE o = "accepted"
    <3>1. grOut' = Reply!Accept(p)
      BY <1>4, <2>5 DEF Reply!RetryOutbound
    <3> HIDE DEF p
    <3> QED
      BY <2>4, <3>1, ReplyOutcomes
  <2>6. CASE o = "transient"
    <3>1. grOut' = Reply!Transient(p, FALSE)
      BY <1>4, <2>6 DEF Reply!RetryOutbound
    <3> HIDE DEF p
    <3> QED
      BY <2>4, <3>1, ReplyOutcomes
  <2>7. CASE o = "lost"
    <3>1. grOut' = Reply!Transient(p, TRUE)
      BY <1>4, <2>7 DEF Reply!RetryOutbound
    <3> HIDE DEF p
    <3> QED
      BY <2>3, <2>4, <2>7, <3>1, ReplyOutcomes
  <2>8. CASE o = "refused"
    <3>1. grOut' = [p EXCEPT !.attempt = "failed", !.task = FALSE]
      BY <1>4, <2>8 DEF Reply!RetryOutbound
    <3> HIDE DEF p
    <3>2. /\ grOut' \in Reply!OutRow /\ grOut'.msg = grOut.msg /\ grOut'.attempt = "failed"
          /\ grOut'.handed = grOut.handed /\ grOut'.lost = grOut.lost
      BY <2>2, <3>1 DEF Reply!OutRow
    <3> QED
      BY <1>1, <3>2 DEF OutOK
  <2> QED
    BY <2>5, <2>6, <2>7, <2>8 DEF Reply!Outcomes
<1> QED
  BY <1>3, <1>4

-----------------------------------------------------------------------------
(* Instagram.                                                              *)
igNow == row1
igConn == row2
igWindow == row3
igEvent == row4
igMsg == row5
igCalled == row6
igOutside == row7

USE DEF igNow, igConn, igWindow, igEvent, igMsg, igCalled, igOutside

\* What the row of the reply may say.
IgMsgOK(o) ==
    /\ o \in Instagram!MsgRow
    /\ o.status = "none" => o.attempt = "none" /\ o.handed = 0 /\ o.lost = 0 /\ ~o.known
    /\ o.attempt = "queued" => o.handed <= o.lost
    /\ o.handed <= 1 + o.lost

\* A reply has Meta's id only while no echo has taken it, and no more is handed
\* over than one answer and the answers that were lost.
InstagramInv ==
    /\ Instagram!InstagramTypeOK
    /\ IgMsgOK(igMsg)
    /\ igMsg.known => "echo" \notin igOutside

\* The rows besides the reply keep their types.
IgOthersOK ==
    /\ igNow \in Instagram!Times
    /\ igConn \in Instagram!ConnRow
    /\ igWindow \in Instagram!Times
    /\ igEvent \in [Events -> Instagram!EventRow]
    /\ igCalled \in BOOLEAN
    /\ igOutside \subseteq Instagram!Echoes

\* The initial states satisfy the invariant.
LEMMA InstagramStarts == Instagram!InstagramInit => InstagramInv
<1> SUFFICES ASSUME Instagram!InstagramInit PROVE InstagramInv
  OBVIOUS
<1> USE InstagramAssumption DEF Instagram!InstagramInit
<1>1. igNow \in Instagram!Times /\ igWindow \in Instagram!Times
  BY DEF Instagram!Times
<1>2. igConn \in Instagram!ConnRow
  BY DEF Instagram!ConnRow, Instagram!ConnStatuses
<1>3. igEvent \in [Events -> Instagram!EventRow]
  BY DEF Instagram!EventRow
<1>4. /\ igMsg \in Instagram!MsgRow /\ igMsg.attempt = "none" /\ ~igMsg.known
      /\ igMsg.handed = 0 /\ igMsg.lost = 0
  BY DEF Instagram!MsgRow, Instagram!Times
<1>5. Instagram!InstagramTypeOK
  BY <1>1, <1>2, <1>3, <1>4 DEF Instagram!InstagramTypeOK
<1>6. IgMsgOK(igMsg)
  BY <1>4 DEF IgMsgOK
<1> QED
  BY <1>4, <1>5, <1>6 DEF InstagramInv

\* A step that leaves the reply and its echo alone.
LEMMA InstagramRest ==
    ASSUME InstagramInv, IgOthersOK', UNCHANGED <<igMsg, igOutside>>
    PROVE  InstagramInv'
  BY DEF InstagramInv, IgOthersOK, Instagram!InstagramTypeOK, IgMsgOK

\* The account, its token and the clock.
LEMMA InstagramConnection ==
    ASSUME InstagramInv,
           \/ Instagram!Tick \/ Instagram!Disconnect \/ Instagram!Reconnect \/ Instagram!Health
           \/ Instagram!CircuitCloses
           \/ \E b \in BOOLEAN : Instagram!CompleteOAuth(b)
    PROVE  InstagramInv'
<1> USE InstagramAssumption
<1>1. IgOthersOK /\ igConn \in Instagram!ConnRow
  BY DEF InstagramInv, IgOthersOK, Instagram!InstagramTypeOK
<1>2. CASE Instagram!Tick
  <2>1. igNow' \in Instagram!Times
    BY <1>1, <1>2 DEF Instagram!Tick, IgOthersOK, Instagram!Times
  <2> QED
    BY <1>1, <1>2, <2>1, InstagramRest DEF Instagram!Tick, IgOthersOK
<1>3. ASSUME NEW row \in Instagram!ConnRow, Instagram!SetConnection(row) PROVE InstagramInv'
  BY <1>1, <1>3, InstagramRest DEF Instagram!SetConnection, IgOthersOK
<1>4. ASSUME NEW s \in Instagram!ConnStatuses
      PROVE  /\ [igConn EXCEPT !.status = s] \in Instagram!ConnRow
             /\ [igConn EXCEPT !.status = s, !.failures = 0] \in Instagram!ConnRow
  <2>1. 0 \in 0 .. InstagramFailures
    OBVIOUS
  <2> QED
    BY <1>1, <2>1 DEF Instagram!ConnRow
<1>5. CASE Instagram!Disconnect \/ Instagram!Reconnect
  BY <1>3, <1>4, <1>5 DEF Instagram!Disconnect, Instagram!Reconnect, Instagram!ConnStatuses
<1>6. CASE Instagram!Health
  BY <1>3, <1>4, <1>6 DEF Instagram!Health, Instagram!ConnStatuses
<1>7. CASE Instagram!CircuitCloses
  <2>1. [igConn EXCEPT !.open = FALSE] \in Instagram!ConnRow
    BY <1>1 DEF Instagram!ConnRow
  <2> QED
    BY <1>3, <1>7, <2>1 DEF Instagram!CircuitCloses
<1>8. ASSUME NEW b \in BOOLEAN, Instagram!CompleteOAuth(b) PROVE InstagramInv'
  BY <1>3, <1>4, <1>8 DEF Instagram!CompleteOAuth, Instagram!ConnStatuses
<1> QED
  BY <1>2, <1>5, <1>6, <1>7, <1>8

\* The events Meta delivers; an echo takes the id only if no row has it.
LEMMA InstagramWebhooks ==
    ASSUME InstagramInv, NEW e \in Events,
           \/ \E k \in Instagram!Kinds : Instagram!Happens(e, k)
           \/ Instagram!Receive(e) \/ Instagram!EventLost(e) \/ Instagram!ProcessMessage(e)
           \/ Instagram!ProcessEcho(e) \/ Instagram!ProcessRead(e) \/ Instagram!ProcessFails(e)
    PROVE  InstagramInv'
<1> USE InstagramAssumption
<1>1. IgOthersOK /\ igEvent[e] \in Instagram!EventRow
  BY DEF InstagramInv, IgOthersOK, Instagram!InstagramTypeOK
<1>2. ASSUME NEW row \in Instagram!EventRow
      PROVE  [igEvent EXCEPT ![e] = row] \in [Events -> Instagram!EventRow]
  BY <1>1 DEF IgOthersOK
<1>3. Instagram!NoEvent \in Instagram!EventRow
  BY DEF Instagram!EventRow
<1>4. igEvent[e].at \in Instagram!Times
  BY <1>1 DEF Instagram!EventRow, Instagram!NoEvent, Instagram!Times
<1>5. ASSUME NEW k \in Instagram!Kinds, Instagram!Happens(e, k) PROVE InstagramInv'
  <2> DEFINE row == [kind |-> k, at |-> IF k \in Instagram!Echoes THEN 0 ELSE igNow, state |-> "pending"]
  <2>1. row \in Instagram!EventRow
    BY <1>1 DEF Instagram!EventRow, IgOthersOK, Instagram!Times
  <2>2. igEvent' = [igEvent EXCEPT ![e] = row]
    BY <1>5 DEF Instagram!Happens
  <2> HIDE DEF row
  <2>3. igEvent' \in [Events -> Instagram!EventRow]
    BY <1>2, <2>1, <2>2
  <2> QED
    BY <1>1, <1>5, <2>3, InstagramRest DEF Instagram!Happens, IgOthersOK
<1>6. ASSUME igEvent[e].state \in {"pending", "received"}
      PROVE  /\ [igEvent[e] EXCEPT !.state = "received"] \in Instagram!EventRow
             /\ [igEvent[e] EXCEPT !.state = "failed"] \in Instagram!EventRow
  BY <1>1, <1>6 DEF Instagram!EventRow, Instagram!NoEvent
<1>7. CASE Instagram!Receive(e) \/ Instagram!ProcessFails(e)
  <2>1. igEvent' \in [Events -> Instagram!EventRow]
    BY <1>1, <1>2, <1>6, <1>7 DEF Instagram!Receive, Instagram!ProcessFails
  <2> QED
    BY <1>1, <1>7, <2>1, InstagramRest DEF Instagram!Receive, Instagram!ProcessFails, IgOthersOK
<1>8. CASE Instagram!EventLost(e)
  BY <1>1, <1>2, <1>3, <1>8, InstagramRest DEF Instagram!EventLost, IgOthersOK
<1>9. ASSUME NEW k, Instagram!Processes(e, k)
      PROVE  igEvent' \in [Events -> Instagram!EventRow] /\ UNCHANGED <<igNow, igConn, igCalled>>
  BY <1>2, <1>3, <1>9 DEF Instagram!Processes
<1>10. CASE Instagram!ProcessMessage(e)
  BY <1>1, <1>4, <1>9, <1>10, InstagramRest DEF Instagram!ProcessMessage, IgOthersOK
<1>11. ASSUME NEW k \in Instagram!Echoes, Instagram!Processes(e, k),
              igMsg' = IF Instagram!Finds(k) THEN [igMsg EXCEPT !.status = "sent"] ELSE igMsg,
              igOutside' = IF Instagram!Finds(k) THEN igOutside ELSE igOutside \cup {k},
              UNCHANGED igWindow
       PROVE  InstagramInv'
  <2>1. /\ IgMsgOK(igMsg) /\ igMsg \in Instagram!MsgRow /\ igMsg.known \in BOOLEAN
        /\ igMsg.known => "echo" \notin igOutside
    BY DEF InstagramInv, IgMsgOK, Instagram!MsgRow
  <2>2. igOutside' \subseteq Instagram!Echoes
    BY <1>1, <1>11 DEF IgOthersOK
  <2>3. IgOthersOK'
    BY <1>1, <1>9, <1>11, <2>2 DEF IgOthersOK
  <2>4. CASE Instagram!Finds(k)
    <3>1. /\ igMsg' \in Instagram!MsgRow /\ igMsg'.status = "sent" /\ igMsg'.known = igMsg.known
          /\ igMsg'.attempt = igMsg.attempt
          /\ igMsg'.handed = igMsg.handed /\ igMsg'.lost = igMsg.lost
      BY <1>11, <2>1, <2>4 DEF Instagram!MsgRow
    <3>2. IgMsgOK(igMsg')
      BY <2>1, <2>4, <3>1 DEF IgMsgOK, Instagram!Finds
    <3> QED
      BY <1>11, <2>1, <2>3, <2>4, <3>1, <3>2
         DEF InstagramInv, IgOthersOK, Instagram!InstagramTypeOK, IgMsgOK
  <2>5. CASE ~Instagram!Finds(k)
    <3>1. igMsg' = igMsg /\ (igMsg'.known => "echo" \notin igOutside')
      BY <1>11, <2>1, <2>5 DEF Instagram!Finds, Instagram!Echoes
    <3> QED
      BY <2>1, <2>3, <3>1 DEF InstagramInv, IgOthersOK, Instagram!InstagramTypeOK, IgMsgOK
  <2> QED
    BY <2>4, <2>5
<1>12. CASE Instagram!ProcessRead(e)
  <2>1. /\ \/ igMsg' = igMsg
           \/ igMsg.status = "sent" /\ igMsg' = [igMsg EXCEPT !.status = "read"]
        /\ UNCHANGED <<igWindow, igOutside>>
    BY <1>12 DEF Instagram!ProcessRead
  <2>2. /\ IgMsgOK(igMsg) /\ igMsg \in Instagram!MsgRow
        /\ igMsg.known => "echo" \notin igOutside
    BY DEF InstagramInv, IgMsgOK
  <2>3. IgOthersOK'
    BY <1>1, <1>9, <1>12, <2>1 DEF Instagram!ProcessRead, IgOthersOK
  <2>4. CASE igMsg' = igMsg
    BY <2>1, <2>3, <2>4, InstagramRest
  <2>5. CASE igMsg' = [igMsg EXCEPT !.status = "read"]
    <3>1. /\ igMsg' \in Instagram!MsgRow /\ igMsg'.status = "read" /\ igMsg'.known = igMsg.known
          /\ igMsg'.attempt = igMsg.attempt
          /\ igMsg'.handed = igMsg.handed /\ igMsg'.lost = igMsg.lost
      BY <2>1, <2>5, <2>2 DEF Instagram!MsgRow
    <3>2. IgMsgOK(igMsg')
      BY <2>1, <2>2, <3>1 DEF IgMsgOK
    <3> QED
      BY <2>1, <2>3, <2>2, <3>1, <3>2 DEF InstagramInv, IgOthersOK, Instagram!InstagramTypeOK, IgMsgOK
  <2> QED
    BY <2>1, <2>4, <2>5
<1> QED
  BY <1>5, <1>7, <1>8, <1>10, <1>11, <1>12 DEF Instagram!ProcessEcho

\* A step that writes the row of the reply.
LEMMA InstagramWrites ==
    ASSUME InstagramInv, IgOthersOK', IgMsgOK(igMsg'), UNCHANGED igOutside,
           igMsg'.known => igMsg.known \/ Instagram!IdFree
    PROVE  InstagramInv'
  BY DEF InstagramInv, IgOthersOK, Instagram!InstagramTypeOK, IgMsgOK, Instagram!IdFree

\* The row a reply starts with.
LEMMA FirstRow ==
    ASSUME InstagramInv, igMsg.status = "none", NEW h \in BOOLEAN
    PROVE  LET f == Instagram!First(h)
           IN  /\ f \in Instagram!MsgRow /\ f.status = "queued" /\ f.attempt = "sending"
               /\ ~f.known /\ f.handed = 0 /\ f.lost = 0
<1> USE InstagramAssumption
<1>1. /\ igMsg \in Instagram!MsgRow /\ igNow \in Instagram!Times /\ 1 \in 0 .. InstagramAttempts
      /\ ~igMsg.known /\ igMsg.handed = 0 /\ igMsg.lost = 0
  BY DEF InstagramInv, IgMsgOK, Instagram!InstagramTypeOK, Instagram!MsgRow
<1> QED
  BY <1>1 DEF Instagram!First, Instagram!MsgRow

\* The row of a reply Meta has, and whose answer was lost.
LEMMA HandedRow ==
    ASSUME NEW o \in Instagram!MsgRow, o.handed <= o.lost, o.lost < InstagramLost
    PROVE  LET p == Instagram!Handed(o, TRUE)
           IN  /\ p \in Instagram!MsgRow /\ p.status = o.status /\ p.attempt = o.attempt
               /\ p.known = o.known /\ p.count = o.count
               /\ p.handed = o.handed + 1 /\ p.lost = o.lost + 1
<1> USE InstagramAssumption
<1>1. o.handed + 1 \in 0 .. InstagramLost + 1 /\ o.lost + 1 \in 0 .. InstagramLost
  BY DEF Instagram!MsgRow
<1> QED
  BY <1>1 DEF Instagram!Handed, Instagram!MsgRow

\* The row of a reply Meta has.
LEMMA DeliveredRow ==
    ASSUME NEW o \in Instagram!MsgRow, o.handed <= o.lost
    PROVE  LET p == Instagram!Handed(o, FALSE)
           IN  /\ p \in Instagram!MsgRow /\ p.status = o.status /\ p.attempt = o.attempt
               /\ p.known = o.known /\ p.count = o.count
               /\ p.handed = o.handed + 1 /\ p.lost = o.lost
<1> USE InstagramAssumption
<1>1. o.handed + 1 \in 0 .. InstagramLost + 1
  BY DEF Instagram!MsgRow
<1> QED
  BY <1>1 DEF Instagram!Handed, Instagram!MsgRow

\* A failure is counted in the connection.
LEMMA FailuresRow ==
    ASSUME igConn \in Instagram!ConnRow
    PROVE  Instagram!Failures(1) \in Instagram!ConnRow
<1> USE InstagramAssumption
<1>1. /\ igConn.failures < InstagramFailures => igConn.failures + 1 \in 0 .. InstagramFailures
      /\ (igConn.open \/ igConn.failures + 1 >= InstagramFailures) \in BOOLEAN
  BY DEF Instagram!ConnRow
<1> QED
  BY <1>1 DEF Instagram!Failures, Instagram!ConnRow

\* The first attempt and what it saves.
LEMMA InstagramSends ==
    ASSUME InstagramInv,
           \/ \E b \in BOOLEAN : Instagram!SendAccepted(b)
           \/ \E h, tr, lo \in BOOLEAN : Instagram!SendFails(h, tr, lo)
           \/ Instagram!SendSaved \/ Instagram!SendUnsaved
    PROVE  InstagramInv'
<1> USE InstagramAssumption
<1>1. /\ IgOthersOK /\ igConn \in Instagram!ConnRow /\ IgMsgOK(igMsg)
      /\ igMsg \in Instagram!MsgRow /\ igMsg.handed \in Nat /\ igMsg.lost \in Nat
  BY DEF InstagramInv, IgOthersOK, Instagram!InstagramTypeOK, IgMsgOK, Instagram!MsgRow
<1>2. ASSUME NEW b \in BOOLEAN, Instagram!SendAccepted(b) PROVE InstagramInv'
  <2> DEFINE f == Instagram!First(b)
  <2>1. /\ f \in Instagram!MsgRow /\ f.status = "queued" /\ f.attempt = "sending"
        /\ ~f.known /\ f.handed = 0 /\ f.lost = 0 /\ ~igMsg.known
    BY <1>1, <1>2, FirstRow DEF Instagram!SendAccepted, IgMsgOK, Instagram!MsgRow
  <2>2. igMsg' = Instagram!Handed(f, FALSE)
    BY <1>2 DEF Instagram!SendAccepted
  <2> HIDE DEF f
  <2>3. /\ igMsg' \in Instagram!MsgRow /\ igMsg'.status = "queued" /\ igMsg'.attempt = "sending"
        /\ ~igMsg'.known /\ igMsg'.handed = 1 /\ igMsg'.lost = 0
    <3>1. f.handed <= f.lost
      BY <2>1
    <3>2. /\ Instagram!Handed(f, FALSE) \in Instagram!MsgRow
          /\ Instagram!Handed(f, FALSE).status = f.status
          /\ Instagram!Handed(f, FALSE).attempt = f.attempt
          /\ Instagram!Handed(f, FALSE).known = f.known
          /\ Instagram!Handed(f, FALSE).handed = f.handed + 1
          /\ Instagram!Handed(f, FALSE).lost = f.lost
      BY <2>1, <3>1, DeliveredRow
    <3>3. f.handed + 1 = 1
      BY <2>1
    <3> QED
      BY <2>1, <2>2, <3>2, <3>3
  <2>4. IgMsgOK(igMsg')
    BY <2>3 DEF IgMsgOK
  <2>5. IgOthersOK' /\ UNCHANGED igOutside
    BY <1>1, <1>2 DEF Instagram!SendAccepted, IgOthersOK
  <2> QED
    BY <2>1, <2>3, <2>4, <2>5, InstagramWrites
<1>3. ASSUME NEW h \in BOOLEAN, NEW tr \in BOOLEAN, NEW lo \in BOOLEAN,
             Instagram!SendFails(h, tr, lo)
      PROVE  InstagramInv'
  <2> DEFINE f == Instagram!First(h)
             o == IF lo THEN Instagram!Handed(f, TRUE) ELSE f
  <2>1. /\ f \in Instagram!MsgRow /\ f.status = "queued" /\ f.attempt = "sending"
        /\ ~f.known /\ f.handed = 0 /\ f.lost = 0 /\ ~igMsg.known
    BY <1>1, <1>3, FirstRow DEF Instagram!SendFails, IgMsgOK, Instagram!MsgRow
  <2> HIDE DEF f
  <2>2. /\ o \in Instagram!MsgRow /\ o.status = "queued" /\ ~o.known
        /\ o.handed = o.lost /\ o.lost \in {0, 1}
    <3>1. CASE lo
      <4>1. f.handed <= f.lost /\ f.lost < InstagramLost /\ f.handed + 1 = 1 /\ f.lost + 1 = 1
        BY <2>1
      <4>2. o = Instagram!Handed(f, TRUE)
        BY <3>1
      <4> QED
        BY <2>1, <4>1, <4>2, HandedRow
    <3>2. CASE ~lo
      BY <2>1, <3>2
    <3> QED
      BY <3>1, <3>2
  <2>3. igMsg' = IF tr THEN [o EXCEPT !.attempt = "queued"]
                 ELSE [o EXCEPT !.status = "failed", !.attempt = "failed"]
    BY <1>3 DEF Instagram!SendFails, f
  <2> HIDE DEF o
  <2>4. /\ igMsg' \in Instagram!MsgRow /\ igMsg'.status \in {"queued", "failed"}
        /\ ~igMsg'.known /\ igMsg'.handed = o.handed /\ igMsg'.lost = o.lost
    BY <2>2, <2>3 DEF Instagram!MsgRow
  <2>5. IgMsgOK(igMsg')
    BY <2>2, <2>4 DEF IgMsgOK
  <2>6. igConn' \in Instagram!ConnRow
    BY <1>1, <1>3, FailuresRow DEF Instagram!SendFails
  <2>7. IgOthersOK' /\ UNCHANGED igOutside
    BY <1>1, <1>3, <2>6 DEF Instagram!SendFails, IgOthersOK
  <2> QED
    BY <2>1, <2>4, <2>5, <2>7, InstagramWrites
<1>4. CASE Instagram!SendSaved
  <2>1. igMsg' = [igMsg EXCEPT !.status = "sent", !.attempt = "sent", !.known = TRUE]
    BY <1>4 DEF Instagram!SendSaved
  <2>2. /\ igMsg' \in Instagram!MsgRow /\ igMsg'.status = "sent" /\ igMsg'.attempt = "sent"
        /\ igMsg'.handed = igMsg.handed /\ igMsg'.lost = igMsg.lost
    BY <1>1, <2>1 DEF Instagram!MsgRow
  <2>3. IgMsgOK(igMsg')
    BY <1>1, <2>2 DEF IgMsgOK
  <2>4. igConn' \in Instagram!ConnRow
    <3>1. 0 \in 0 .. InstagramFailures
      OBVIOUS
    <3> QED
      BY <1>1, <1>4, <3>1 DEF Instagram!SendSaved, Instagram!ConnRow
  <2>5. IgOthersOK' /\ UNCHANGED igOutside
    BY <1>1, <1>4, <2>4 DEF Instagram!SendSaved, IgOthersOK
  <2> QED
    BY <1>4, <2>3, <2>5, InstagramWrites DEF Instagram!SendSaved
<1>5. CASE Instagram!SendUnsaved
  BY <1>1, <1>5, InstagramRest DEF Instagram!SendUnsaved, IgOthersOK
<1> QED
  BY <1>2, <1>3, <1>4, <1>5

\* The retries of the attempt.
LEMMA InstagramRetries ==
    ASSUME InstagramInv,
           \/ \E tr, lo \in BOOLEAN : Instagram!RetryFails(tr, lo)
           \/ Instagram!RetryAccepted \/ Instagram!RetryExhausted
    PROVE  InstagramInv'
<1> USE InstagramAssumption
<1>1. /\ IgMsgOK(igMsg) /\ igMsg \in Instagram!MsgRow
      /\ igMsg.handed \in Nat /\ igMsg.lost \in Nat /\ igMsg.handed <= igMsg.lost
      /\ igMsg.status # "none" /\ igMsg.attempt = "queued"
      /\ IgOthersOK' /\ UNCHANGED igOutside
  <2>1. Instagram!Retrying
    BY DEF Instagram!RetryFails, Instagram!RetryAccepted, Instagram!RetryExhausted
  <2> QED
    BY <2>1 DEF Instagram!Retrying, InstagramInv, IgOthersOK, Instagram!InstagramTypeOK, IgMsgOK,
                Instagram!MsgRow
<1>2. CASE Instagram!RetryAccepted
  <2> DEFINE o == Instagram!Handed(igMsg, FALSE)
  <2>1. /\ o \in Instagram!MsgRow /\ o.handed = igMsg.handed + 1 /\ o.lost = igMsg.lost
        /\ o.count = igMsg.count
    BY <1>1, DeliveredRow
  <2>2. /\ igMsg' = [o EXCEPT !.count = @ + 1, !.status = "sent", !.attempt = "sent", !.known = TRUE]
        /\ igMsg.count < InstagramAttempts
    BY <1>2 DEF Instagram!RetryAccepted
  <2> HIDE DEF o
  <2>3. o.count + 1 \in 0 .. InstagramAttempts
    BY <1>1, <2>1, <2>2 DEF Instagram!MsgRow
  <2>4. /\ igMsg' \in Instagram!MsgRow /\ igMsg'.status = "sent" /\ igMsg'.attempt = "sent"
        /\ igMsg'.handed = o.handed /\ igMsg'.lost = o.lost
    BY <2>1, <2>2, <2>3 DEF Instagram!MsgRow
  <2>5. IgMsgOK(igMsg')
    BY <1>1, <2>1, <2>4 DEF IgMsgOK
  <2> QED
    BY <1>1, <1>2, <2>5, InstagramWrites DEF Instagram!RetryAccepted
<1>3. ASSUME NEW tr \in BOOLEAN, NEW lo \in BOOLEAN, Instagram!RetryFails(tr, lo)
      PROVE  InstagramInv'
  <2> DEFINE o == IF lo THEN Instagram!Handed(igMsg, TRUE) ELSE igMsg
  <2>1. igMsg.count < InstagramAttempts /\ (lo => tr /\ igMsg.lost < InstagramLost)
    BY <1>3 DEF Instagram!RetryFails
  <2>2. /\ o \in Instagram!MsgRow /\ o.handed <= o.lost /\ o.lost \in Nat /\ o.handed \in Nat
        /\ o.status = igMsg.status /\ o.known = igMsg.known /\ o.count = igMsg.count
    <3>1. CASE lo
      <4>1. o = Instagram!Handed(igMsg, TRUE) /\ igMsg.lost < InstagramLost
        BY <2>1, <3>1
      <4>2. /\ igMsg.handed + 1 <= igMsg.lost + 1
            /\ igMsg.handed + 1 \in Nat /\ igMsg.lost + 1 \in Nat
        BY <1>1
      <4>3. /\ o \in Instagram!MsgRow /\ o.status = igMsg.status /\ o.known = igMsg.known
            /\ o.count = igMsg.count /\ o.handed = igMsg.handed + 1 /\ o.lost = igMsg.lost + 1
        BY <1>1, <4>1, HandedRow
      <4> QED
        BY <4>2, <4>3
    <3>2. CASE ~lo
      BY <1>1, <3>2
    <3> QED
      BY <3>1, <3>2
  <2>3. igMsg' = [o EXCEPT !.count = @ + 1, !.attempt = IF tr THEN "queued" ELSE "failed"]
    BY <1>3 DEF Instagram!RetryFails
  <2> HIDE DEF o
  <2>4. o.count + 1 \in 0 .. InstagramAttempts
    BY <1>1, <2>1, <2>2 DEF Instagram!MsgRow
  <2>5. /\ igMsg' \in Instagram!MsgRow /\ igMsg'.status = igMsg.status
        /\ igMsg'.known = igMsg.known /\ igMsg'.handed = o.handed /\ igMsg'.lost = o.lost
    BY <2>2, <2>3, <2>4 DEF Instagram!MsgRow
  <2>6. IgMsgOK(igMsg')
    BY <1>1, <2>2, <2>5 DEF IgMsgOK
  <2> QED
    BY <1>1, <2>5, <2>6, InstagramWrites
<1>4. CASE Instagram!RetryExhausted
  <2>1. igMsg' = [igMsg EXCEPT !.status = "failed", !.attempt = "dead_letter"]
    BY <1>4 DEF Instagram!RetryExhausted
  <2>2. /\ igMsg' \in Instagram!MsgRow /\ igMsg'.status = "failed"
        /\ igMsg'.attempt = "dead_letter" /\ igMsg'.known = igMsg.known
        /\ igMsg'.handed = igMsg.handed /\ igMsg'.lost = igMsg.lost
    BY <1>1, <2>1 DEF Instagram!MsgRow
  <2>3. IgMsgOK(igMsg')
    BY <1>1, <2>2 DEF IgMsgOK
  <2> QED
    BY <1>1, <2>2, <2>3, InstagramWrites
<1> QED
  BY <1>2, <1>3, <1>4

-----------------------------------------------------------------------------
(* Telegram.                                                               *)
tgReq == row1
tgMgr == row2
tgConn == row3
tgWork == row4
tgUpdate == row5
tgBlocked == row6
tgMsg == row7

USE DEF tgReq, tgMgr, tgConn, tgWork, tgUpdate, tgBlocked, tgMsg

\* The row of an update the customer caused.
LiveUpdate ==
    [kind: Telegram!Kinds, state: {"sent", "received", "failed", "done"},
     attempts: 0 .. UpdateAttempts, stored: BOOLEAN, asked: 0 .. 2, reply: Telegram!ReplyStates,
     tries: 0 .. TelegramAttempts, handed: 0 .. TelegramLost + 1, lost: 0 .. TelegramLost]

\* An answer still to come was handed over only where that was lost.
UpdateOK(r) ==
    /\ r \in LiveUpdate
    /\ r.asked <= 1
    /\ ~r.stored => r.asked = 0
    /\ r.handed <= 1 + r.lost
    /\ r.reply \in {"none", "queued"} => r.handed <= r.lost
    /\ r.state # "done" => r.reply = "none" /\ r.tries = 0

TelegramInv ==
    /\ Telegram!TelegramTypeOK
    /\ \A u \in Updates : tgUpdate[u] = Telegram!NoUpdate \/ UpdateOK(tgUpdate[u])

\* The initial states satisfy the invariant.
LEMMA TelegramStarts == Telegram!TelegramInit => TelegramInv
<1> SUFFICES ASSUME Telegram!TelegramInit PROVE TelegramInv
  OBVIOUS
<1> USE TelegramAssumption DEF Telegram!TelegramInit
<1>1. tgReq \in Telegram!RequestStates
  BY DEF Telegram!RequestStates
<1>2. tgConn \in Telegram!ConnRow
  BY DEF Telegram!ConnRow, Telegram!ConnStatuses, Telegram!Tokens
<1>3. tgWork \in Telegram!WorkRow
  BY DEF Telegram!WorkRow
<1>4. tgUpdate \in [Updates -> Telegram!UpdateRow]
  BY DEF Telegram!UpdateRow
<1>5. tgMsg \in Telegram!MsgRow
  BY DEF Telegram!MsgRow
<1>6. Telegram!TelegramTypeOK
  BY <1>1, <1>2, <1>3, <1>4, <1>5 DEF Telegram!TelegramTypeOK
<1> QED
  BY <1>5, <1>6 DEF TelegramInv

\* What provisions or connects the bot leaves the chat alone.
LEMMA TelegramQuiet ==
    ASSUME TelegramInv, UNCHANGED <<tgUpdate, tgBlocked, tgMsg>>,
           tgReq' \in Telegram!RequestStates, tgMgr' \in {"none", "received", "failed"},
           tgConn' \in Telegram!ConnRow, tgWork' \in Telegram!WorkRow
    PROVE  TelegramInv'
  BY DEF TelegramInv, Telegram!TelegramTypeOK, UpdateOK

\* How the bot is provisioned.
LEMMA TelegramProvisions ==
    ASSUME TelegramInv,
           \/ Telegram!CreateManagedRequest \/ Telegram!ExpireRequest
           \/ Telegram!ReceiveManagerUpdate \/ Telegram!ManagedFails \/ Telegram!ManagerDeadLetter
           \/ \E b \in BOOLEAN : Telegram!CompleteManaged(b)
           \/ \E b \in BOOLEAN : Telegram!ConnectExistingBot(b)
    PROVE  TelegramInv'
<1> USE DEF Telegram!Chat
<1>1. /\ tgReq \in Telegram!RequestStates /\ tgMgr \in {"none", "received", "failed"}
      /\ tgConn \in Telegram!ConnRow /\ tgWork \in Telegram!WorkRow
  BY DEF TelegramInv, Telegram!TelegramTypeOK
<1>2. CASE \/ Telegram!CreateManagedRequest \/ Telegram!ExpireRequest
           \/ Telegram!ReceiveManagerUpdate \/ Telegram!ManagedFails \/ Telegram!ManagerDeadLetter
  <2>1. tgReq' \in Telegram!RequestStates /\ tgMgr' \in {"none", "received", "failed"}
    BY <1>1, <1>2 DEF Telegram!CreateManagedRequest, Telegram!ExpireRequest,
       Telegram!ReceiveManagerUpdate, Telegram!ManagedFails, Telegram!ManagerDeadLetter,
       Telegram!RequestStates
  <2>2. UNCHANGED <<tgConn, tgWork, tgUpdate, tgBlocked, tgMsg>>
    BY <1>2 DEF Telegram!CreateManagedRequest, Telegram!ExpireRequest,
       Telegram!ReceiveManagerUpdate, Telegram!ManagedFails, Telegram!ManagerDeadLetter
  <2> QED
    BY <1>1, <2>1, <2>2, TelegramQuiet
<1>3. ASSUME NEW b \in BOOLEAN
      PROVE  [status |-> IF b THEN "connected" ELSE "degraded",
              webhook |-> IF b THEN "verified" ELSE "error", token |-> "current"]
                 \in Telegram!ConnRow
  BY DEF Telegram!ConnRow, Telegram!ConnStatuses, Telegram!Tokens
<1>4. ASSUME NEW b \in BOOLEAN, Telegram!CompleteManaged(b) PROVE TelegramInv'
  <2>1. tgReq' \in Telegram!RequestStates
    BY <1>4 DEF Telegram!CompleteManaged, Telegram!RequestStates
  <2>2. tgConn' \in Telegram!ConnRow /\ tgMgr' = "none"
    BY <1>3, <1>4 DEF Telegram!CompleteManaged
  <2>3. UNCHANGED <<tgWork, tgUpdate, tgBlocked, tgMsg>>
    BY <1>4 DEF Telegram!CompleteManaged
  <2> QED
    BY <1>1, <2>1, <2>2, <2>3, TelegramQuiet
<1>5. ASSUME NEW b \in BOOLEAN, Telegram!ConnectExistingBot(b) PROVE TelegramInv'
  <2>1. tgConn' \in Telegram!ConnRow
    BY <1>3, <1>5 DEF Telegram!ConnectExistingBot
  <2>2. UNCHANGED <<tgReq, tgMgr, tgWork, tgUpdate, tgBlocked, tgMsg>>
    BY <1>5 DEF Telegram!ConnectExistingBot
  <2> QED
    BY <1>1, <2>1, <2>2, TelegramQuiet
<1> QED
  BY <1>2, <1>4, <1>5

\* The token, the health check and the state of the connection.
LEMMA TelegramConnection ==
    ASSUME TelegramInv,
           \/ Telegram!RotateBegin \/ Telegram!RotateSave \/ Telegram!RotateEnd
           \/ Telegram!WorkLost \/ Telegram!HealthBegin \/ Telegram!HealthEnd
           \/ Telegram!StateEnd
           \/ \E a \in {"pause", "reconnect", "disconnect"} : Telegram!StateBegin(a)
    PROVE  TelegramInv'
<1> USE DEF Telegram!Chat
<1>1. /\ tgReq \in Telegram!RequestStates /\ tgMgr \in {"none", "received", "failed"}
      /\ tgConn \in Telegram!ConnRow /\ tgWork \in Telegram!WorkRow
  BY DEF TelegramInv, Telegram!TelegramTypeOK
<1>2. /\ tgConn.token \in Telegram!Tokens
      /\ tgWork.token \in Telegram!Tokens
      /\ Telegram!NoWork \in Telegram!WorkRow /\ Telegram!NoWork.kind = "none"
  BY <1>1 DEF Telegram!ConnRow, Telegram!WorkRow, Telegram!NoWork, Telegram!Tokens
<1>3. ASSUME tgConn' \in Telegram!ConnRow, tgWork' \in Telegram!WorkRow,
             UNCHANGED <<tgReq, tgMgr, tgUpdate, tgBlocked, tgMsg>>
      PROVE  TelegramInv'
  BY <1>1, <1>3, TelegramQuiet
<1>4. ASSUME NEW k \in {"rotated", "health", "pause", "reconnect", "disconnect"},
             NEW t \in Telegram!Tokens, Telegram!Works(k, t)
      PROVE  tgWork' \in Telegram!WorkRow
  BY <1>4 DEF Telegram!Works, Telegram!WorkRow
<1>5. CASE Telegram!RotateBegin
  <2>1. tgConn' \in Telegram!ConnRow
    BY <1>1, <1>5 DEF Telegram!RotateBegin, Telegram!ConnRow, Telegram!Tokens
  <2>2. tgWork' \in Telegram!WorkRow
    BY <1>2, <1>4, <1>5 DEF Telegram!RotateBegin, Telegram!Tokens
  <2> QED
    BY <1>3, <1>5, <2>1, <2>2 DEF Telegram!RotateBegin
<1>6. CASE Telegram!RotateSave
  <2>1. tgConn' \in Telegram!ConnRow
    BY <1>6 DEF Telegram!RotateSave, Telegram!ConnRow, Telegram!ConnStatuses, Telegram!Tokens
  <2>2. tgWork' \in Telegram!WorkRow
    BY <1>1, <1>2, <1>6 DEF Telegram!RotateSave, Telegram!WorkRow
  <2> QED
    BY <1>3, <1>6, <2>1, <2>2 DEF Telegram!RotateSave
<1>7. ASSUME NEW s \in Telegram!ConnStatuses
      PROVE  /\ [tgConn EXCEPT !.status = s] \in Telegram!ConnRow
             /\ [tgConn EXCEPT !.status = s, !.webhook = "verified"] \in Telegram!ConnRow
             /\ \A t \in Telegram!Tokens :
                   [tgConn EXCEPT !.status = s, !.token = t] \in Telegram!ConnRow
  BY <1>1 DEF Telegram!ConnRow
<1>8. CASE Telegram!RotateEnd
  <2>1. tgConn' \in Telegram!ConnRow
    BY <1>7, <1>8 DEF Telegram!RotateEnd, Telegram!ConnStatuses
  <2> QED
    BY <1>2, <1>3, <1>8, <2>1 DEF Telegram!RotateEnd
<1>9. CASE Telegram!WorkLost
  BY <1>1, <1>2, <1>3, <1>9 DEF Telegram!WorkLost
<1>10. CASE Telegram!HealthBegin
  <2>1. tgWork' \in Telegram!WorkRow
    BY <1>4, <1>10 DEF Telegram!HealthBegin, Telegram!Tokens
  <2> QED
    BY <1>1, <1>3, <1>10, <2>1 DEF Telegram!HealthBegin
<1>11. CASE Telegram!HealthEnd
  <2>1. tgConn' \in Telegram!ConnRow
    BY <1>7, <1>11 DEF Telegram!HealthEnd, Telegram!ConnStatuses
  <2> QED
    BY <1>2, <1>3, <1>11, <2>1 DEF Telegram!HealthEnd
<1>12. CASE Telegram!StateEnd
  <2>1. tgConn' \in Telegram!ConnRow
    BY <1>2, <1>7, <1>12 DEF Telegram!StateEnd, Telegram!ConnStatuses, Telegram!Tokens
  <2> QED
    BY <1>2, <1>3, <1>12, <2>1 DEF Telegram!StateEnd
<1>13. ASSUME NEW a \in {"pause", "reconnect", "disconnect"}, Telegram!StateBegin(a)
       PROVE  TelegramInv'
  <2>1. tgWork' \in Telegram!WorkRow
    BY <1>2, <1>4, <1>13 DEF Telegram!StateBegin
  <2> QED
    BY <1>1, <1>3, <1>13, <2>1 DEF Telegram!StateBegin
<1> QED
  BY <1>5, <1>6, <1>8, <1>9, <1>10, <1>11, <1>12, <1>13

\* A step that writes the row of an update.
LEMMA TelegramUpdated ==
    ASSUME TelegramInv, NEW u \in Updates, NEW r, r = Telegram!NoUpdate \/ UpdateOK(r),
           tgUpdate' = [tgUpdate EXCEPT ![u] = r], tgBlocked' \in BOOLEAN,
           tgConn' \in Telegram!ConnRow, UNCHANGED <<tgReq, tgMgr, tgWork, tgMsg>>
    PROVE  TelegramInv'
<1>1. r \in Telegram!UpdateRow
  BY DEF UpdateOK, LiveUpdate, Telegram!UpdateRow
<1>2. Telegram!TelegramTypeOK'
  BY <1>1 DEF TelegramInv, Telegram!TelegramTypeOK
<1>3. \A v \in Updates : tgUpdate'[v] = Telegram!NoUpdate \/ UpdateOK(tgUpdate'[v])
  BY DEF TelegramInv, Telegram!TelegramTypeOK
<1> QED
  BY <1>2, <1>3 DEF TelegramInv, UpdateOK

\* The assistant is asked about an update when it is stored first.
LEMMA IngestedRow ==
    ASSUME NEW r, UpdateOK(r)
    PROVE  LET i == Telegram!Ingested(r)
           IN  /\ i \in LiveUpdate /\ i.stored /\ i.asked <= 1
               /\ i.kind = r.kind /\ i.state = r.state /\ i.attempts = r.attempts
               /\ i.reply = r.reply /\ i.tries = r.tries /\ i.handed = r.handed /\ i.lost = r.lost
<1> DEFINE i == Telegram!Ingested(r)
           n == IF r.stored THEN r.asked ELSE r.asked + 1
<1>1. r \in LiveUpdate /\ r.asked \in {0, 1} /\ (~r.stored => r.asked = 0)
  BY DEF UpdateOK, LiveUpdate
<1>2. n \in 0 .. 2 /\ n <= 1
  <2>1. CASE r.stored
    BY <1>1, <2>1
  <2>2. CASE ~r.stored
    BY <1>1, <2>2
  <2> QED
    BY <2>1, <2>2
<1>3. i = [r EXCEPT !.stored = TRUE, !.asked = n]
  BY DEF Telegram!Ingested
<1> HIDE DEF n
<1>4. /\ i \in LiveUpdate /\ i.stored /\ i.asked = n
      /\ i.kind = r.kind /\ i.state = r.state /\ i.attempts = r.attempts
      /\ i.reply = r.reply /\ i.tries = r.tries /\ i.handed = r.handed /\ i.lost = r.lost
  BY <1>1, <1>2, <1>3 DEF LiveUpdate
<1> QED
  BY <1>2, <1>4

\* An update arrives, is stored or forgotten.
LEMMA TelegramUpdates ==
    ASSUME TelegramInv, NEW u \in Updates,
           \/ \E k \in Telegram!Kinds : Telegram!CustomerDoes(u, k)
           \/ Telegram!ReceiveBotUpdate(u) \/ Telegram!ProcessBlocked(u) \/ Telegram!Forget(u)
           \/ Telegram!ProcessMessage(u)
    PROVE  TelegramInv'
<1> USE TelegramAssumption
<1> DEFINE r == tgUpdate[u]
<1>1. /\ r = Telegram!NoUpdate \/ UpdateOK(r)
      /\ Telegram!NoUpdate.state = "none" /\ tgBlocked \in BOOLEAN /\ tgConn \in Telegram!ConnRow
  BY DEF TelegramInv, Telegram!TelegramTypeOK, Telegram!NoUpdate
<1>2. ASSUME NEW k \in Telegram!Kinds, Telegram!CustomerDoes(u, k) PROVE TelegramInv'
  <2> DEFINE n == [Telegram!NoUpdate EXCEPT !.kind = k, !.state = "sent"]
  <2> DEFINE z == Telegram!NoUpdate
  <2>1. /\ z = [kind |-> "none", state |-> "none", attempts |-> 0, stored |-> FALSE, asked |-> 0,
                reply |-> "none", tries |-> 0, handed |-> 0, lost |-> 0]
        /\ z.asked = 0 /\ z.handed = 0 /\ z.lost = 0 /\ z.tries = 0 /\ ~z.stored /\ z.reply = "none"
    BY DEF Telegram!NoUpdate
  <2>2. /\ 0 \in 0 .. 2 /\ 0 \in 0 .. UpdateAttempts /\ 0 \in 0 .. TelegramLost
        /\ 0 \in 0 .. TelegramLost + 1 /\ 0 \in 0 .. TelegramAttempts
    OBVIOUS
  <2> HIDE DEF z
  <2>3. n = [z EXCEPT !.kind = k, !.state = "sent"]
    BY DEF z
  <2>4. n \in LiveUpdate
    BY <2>1, <2>2, <2>3 DEF LiveUpdate, Telegram!ReplyStates
  <2>5. n.asked = 0 /\ n.handed = 0 /\ n.lost = 0 /\ n.tries = 0 /\ n.reply = "none"
    BY <2>1, <2>3
  <2>6. tgUpdate' = [tgUpdate EXCEPT ![u] = n]
    BY <1>2 DEF Telegram!CustomerDoes
  <2> HIDE DEF n
  <2>7. UpdateOK(n)
    BY <2>4, <2>5 DEF UpdateOK
  <2> QED
    BY <1>1, <1>2, <2>6, <2>7, TelegramUpdated DEF Telegram!CustomerDoes
<1>3. ASSUME NEW s \in {"sent", "received", "failed", "done"}, UpdateOK(r), s = "done" \/ r.state # "done"
      PROVE  UpdateOK([r EXCEPT !.state = s])
  BY <1>3 DEF UpdateOK, LiveUpdate
<1>4. CASE Telegram!ReceiveBotUpdate(u)
  <2>1. UpdateOK([r EXCEPT !.state = "received"])
    BY <1>1, <1>3, <1>4 DEF Telegram!ReceiveBotUpdate
  <2> QED
    BY <1>1, <1>4, <2>1, TelegramUpdated DEF Telegram!ReceiveBotUpdate
<1>5. CASE Telegram!ProcessBlocked(u)
  <2>1. UpdateOK([r EXCEPT !.state = "done"])
    BY <1>1, <1>3, <1>5 DEF Telegram!ProcessBlocked, Telegram!Queued
  <2>2. tgBlocked' \in BOOLEAN
    BY <1>5 DEF Telegram!ProcessBlocked
  <2> QED
    BY <1>1, <1>5, <2>1, <2>2, TelegramUpdated DEF Telegram!ProcessBlocked, Telegram!Queued
<1>6. CASE Telegram!Forget(u)
  BY <1>1, <1>6, TelegramUpdated DEF Telegram!Forget
<1>7. CASE Telegram!ProcessMessage(u)
  <2> DEFINE i == Telegram!Ingested(r)
             n == [i EXCEPT !.state = "done"]
  <2>1. UpdateOK(r)
    BY <1>1, <1>7 DEF Telegram!ProcessMessage, Telegram!Queued
  <2>2. /\ i \in LiveUpdate /\ i.stored /\ i.asked <= 1
        /\ i.reply = r.reply /\ i.tries = r.tries /\ i.handed = r.handed /\ i.lost = r.lost
    BY <2>1, IngestedRow
  <2>3. tgUpdate' = [tgUpdate EXCEPT ![u] = n]
    BY <1>7 DEF Telegram!ProcessMessage
  <2> HIDE DEF i
  <2>4. /\ n \in LiveUpdate /\ n.stored /\ n.asked = i.asked
        /\ n.reply = r.reply /\ n.state = "done" /\ n.handed = r.handed /\ n.lost = r.lost
    BY <2>2 DEF LiveUpdate
  <2> HIDE DEF n
  <2>5. UpdateOK(n)
    BY <2>1, <2>2, <2>4 DEF UpdateOK
  <2> QED
    BY <1>1, <1>7, <2>3, <2>5, TelegramUpdated DEF Telegram!ProcessMessage, Telegram!Queued
<1> QED
  BY <1>2, <1>4, <1>5, <1>6, <1>7

\* What Telegram makes of an attempt leaves at most one answer more than were lost.
LEMMA TriedRow ==
    ASSUME NEW r, UpdateOK(r), r.state = "done", r.reply \in {"none", "queued"},
           r.tries < TelegramAttempts,
           NEW o \in Telegram!Outcomes, o = "lost" => r.lost < TelegramLost
    PROVE  UpdateOK(Telegram!Tried(r, o))
<1> USE TelegramAssumption
<1> DEFINE t == [r EXCEPT !.tries = @ + 1]
<1>1. /\ r \in LiveUpdate /\ r.handed <= r.lost /\ r.tries + 1 \in 0 .. TelegramAttempts
      /\ r.handed + 1 <= 1 + r.lost /\ r.handed + 1 \in 0 .. TelegramLost + 1
  BY DEF UpdateOK, LiveUpdate
<1>2. /\ t \in LiveUpdate /\ t.asked = r.asked /\ t.stored = r.stored
      /\ t.handed = r.handed /\ t.lost = r.lost /\ t.state = "done"
  BY <1>1 DEF LiveUpdate
<1>3. Telegram!Tried(r, o) = CASE o = "accepted"  -> [t EXCEPT !.reply = "sent", !.handed = @ + 1]
                               [] o = "transient" -> [t EXCEPT !.reply = "queued"]
                               [] o = "lost"      -> [t EXCEPT !.reply = "queued", !.handed = @ + 1, !.lost = @ + 1]
                               [] OTHER           -> [t EXCEPT !.reply = "failed"]
  BY DEF Telegram!Tried
<1> HIDE DEF t
<1>4. ASSUME NEW n \in LiveUpdate, n.asked = r.asked, n.stored = r.stored, n.state = "done", n.reply # "none",
             n.handed <= 1 + n.lost, n.reply = "queued" => n.handed <= n.lost
      PROVE  UpdateOK(n)
  BY <1>4 DEF UpdateOK
<1>5. CASE o = "accepted"
  <2> DEFINE n == [t EXCEPT !.reply = "sent", !.handed = @ + 1]
  <2>1. /\ n \in LiveUpdate /\ n.asked = r.asked /\ n.stored = r.stored /\ n.reply = "sent" /\ n.state = "done"
        /\ n.handed = r.handed + 1 /\ n.lost = r.lost
    BY <1>1, <1>2 DEF LiveUpdate, Telegram!ReplyStates
  <2> HIDE DEF n
  <2>2. UpdateOK(n)
    BY <1>1, <1>4, <2>1
  <2> QED
    BY <1>3, <1>5, <2>2 DEF n
<1>6. CASE o = "transient"
  <2> DEFINE n == [t EXCEPT !.reply = "queued"]
  <2>1. /\ n \in LiveUpdate /\ n.asked = r.asked /\ n.stored = r.stored /\ n.reply = "queued" /\ n.state = "done"
        /\ n.handed = r.handed /\ n.lost = r.lost
    BY <1>1, <1>2 DEF LiveUpdate, Telegram!ReplyStates
  <2> HIDE DEF n
  <2>2. n.handed <= n.lost /\ n.handed <= 1 + n.lost
    BY <1>1, <2>1 DEF LiveUpdate
  <2>3. UpdateOK(n)
    BY <1>4, <2>1, <2>2
  <2> QED
    BY <1>3, <1>6, <2>3 DEF n
<1>7. CASE o = "lost"
  <2> DEFINE n == [t EXCEPT !.reply = "queued", !.handed = @ + 1, !.lost = @ + 1]
  <2>1. r.lost + 1 \in 0 .. TelegramLost /\ r.handed + 1 <= 1 + (r.lost + 1) /\ r.handed + 1 <= r.lost + 1
    BY <1>1, <1>7 DEF LiveUpdate
  <2>2. /\ n \in LiveUpdate /\ n.asked = r.asked /\ n.stored = r.stored /\ n.reply = "queued" /\ n.state = "done"
        /\ n.handed = r.handed + 1 /\ n.lost = r.lost + 1
    BY <1>1, <1>2, <2>1 DEF LiveUpdate, Telegram!ReplyStates
  <2> HIDE DEF n
  <2>3. UpdateOK(n)
    BY <1>1, <1>4, <2>1, <2>2
  <2> QED
    BY <1>3, <1>7, <2>3 DEF n
<1>8. CASE o \notin {"accepted", "transient", "lost"}
  <2> DEFINE n == [t EXCEPT !.reply = "failed"]
  <2>1. /\ n \in LiveUpdate /\ n.asked = r.asked /\ n.stored = r.stored /\ n.reply = "failed" /\ n.state = "done"
        /\ n.handed = r.handed /\ n.lost = r.lost
    BY <1>1, <1>2 DEF LiveUpdate, Telegram!ReplyStates
  <2> HIDE DEF n
  <2>2. n.handed <= 1 + n.lost
    BY <1>1, <2>1 DEF LiveUpdate
  <2>3. UpdateOK(n)
    BY <1>4, <2>1, <2>2
  <2> QED
    BY <1>3, <1>8, <2>3 DEF n
<1> QED
  BY <1>5, <1>6, <1>7, <1>8

\* A command has no answer yet while its update is to be processed.
LEMMA TelegramCommands ==
    ASSUME TelegramInv, NEW u \in Updates,
           \/ \E o \in Telegram!Outcomes : Telegram!ProcessCommand(u, o)
           \/ \E o \in Telegram!Outcomes : Telegram!RetryCommand(u, o)
           \/ Telegram!ProcessRefused(u) \/ Telegram!ProcessLost(u)
    PROVE  TelegramInv'
<1> USE TelegramAssumption
<1> DEFINE r == tgUpdate[u]
           i == Telegram!Ingested(r)
<1>1. r = tgUpdate[u]
  OBVIOUS
<1>2. /\ UpdateOK(r) /\ tgBlocked \in BOOLEAN /\ tgConn \in Telegram!ConnRow
      /\ UNCHANGED <<tgReq, tgMgr, tgWork, tgMsg>>
  BY DEF Telegram!ProcessCommand, Telegram!RetryCommand, Telegram!ProcessRefused, Telegram!ProcessLost,
         Telegram!Queued, TelegramInv, Telegram!TelegramTypeOK, Telegram!NoUpdate
<1>3. /\ i \in LiveUpdate /\ i.stored /\ i.asked <= 1 /\ i.attempts = r.attempts
      /\ i.reply = r.reply /\ i.tries = r.tries /\ i.handed = r.handed /\ i.lost = r.lost
  BY <1>2, IngestedRow
<1>4. /\ r \in LiveUpdate /\ r.handed \in 0 .. TelegramLost + 1 /\ r.lost \in 0 .. TelegramLost
      /\ r.handed <= 1 + r.lost
      /\ r.reply \in {"none", "queued"} => r.handed <= r.lost
      /\ r.state # "done" => r.reply = "none" /\ r.tries = 0
  BY <1>2 DEF UpdateOK, LiveUpdate
<1>5. ASSUME NEW o \in Telegram!Outcomes, Telegram!ProcessCommand(u, o) PROVE TelegramInv'
  <2> DEFINE d == [i EXCEPT !.state = "done"]
  <2>1. /\ tgUpdate' = [tgUpdate EXCEPT ![u] = Telegram!Tried(d, o)] /\ tgBlocked' \in BOOLEAN
        /\ o = "lost" => r.lost < TelegramLost
        /\ tgConn' = IF o = "invalid" THEN [tgConn EXCEPT !.status = "token_invalid"] ELSE tgConn
        /\ r.state # "done"
    BY <1>2, <1>5 DEF Telegram!ProcessCommand, Telegram!Queued
  <2>2. tgConn' \in Telegram!ConnRow
    BY <1>2, <2>1 DEF Telegram!ConnRow, Telegram!ConnStatuses
  <2> HIDE DEF i
  <2>3. /\ d \in LiveUpdate /\ d.stored /\ d.asked = i.asked /\ d.state = "done"
        /\ d.reply = "none" /\ d.tries = 0 /\ d.handed = r.handed /\ d.lost = r.lost
    BY <1>3, <1>4, <2>1 DEF LiveUpdate
  <2> HIDE DEF d
  <2>4. UpdateOK(d)
    BY <1>3, <1>4, <2>1, <2>3 DEF UpdateOK
  <2>5. UpdateOK(Telegram!Tried(d, o))
    BY <2>1, <2>3, <2>4, TriedRow
  <2> QED
    BY <1>2, <2>1, <2>2, <2>5, TelegramUpdated
<1>8. ASSUME NEW o \in Telegram!Outcomes, Telegram!RetryCommand(u, o) PROVE TelegramInv'
  <2> HIDE DEF i
  <2>1. /\ r.reply = "queued" /\ r.state = "done" /\ tgBlocked' \in BOOLEAN /\ tgConn' \in Telegram!ConnRow
        /\ o = "lost" => r.lost < TelegramLost
        /\ tgUpdate' = [tgUpdate EXCEPT ![u] = IF r.tries >= TelegramAttempts THEN [r EXCEPT !.reply = "failed"]
                                                ELSE Telegram!Tried(r, o)]
    BY <1>2, <1>4, <1>8 DEF Telegram!RetryCommand
  <2>2. CASE r.tries >= TelegramAttempts
    <3> DEFINE n == [r EXCEPT !.reply = "failed"]
    <3>1. /\ n \in LiveUpdate /\ n.stored = r.stored /\ n.asked = r.asked /\ n.state = "done"
          /\ n.reply = "failed" /\ n.handed = r.handed /\ n.lost = r.lost
      BY <1>4, <2>1 DEF LiveUpdate, Telegram!ReplyStates
    <3>2. tgUpdate' = [tgUpdate EXCEPT ![u] = n]
      BY <2>1, <2>2
    <3> HIDE DEF n, r
    <3>3. UpdateOK(n)
      BY <1>2, <3>1 DEF UpdateOK
    <3> QED
      BY <1>2, <2>1, <3>2, <3>3, TelegramUpdated
  <2>3. CASE ~(r.tries >= TelegramAttempts)
    <3>1. r.tries < TelegramAttempts
      BY <1>4, <2>3 DEF LiveUpdate
    <3>2. UpdateOK(Telegram!Tried(r, o))
      BY <1>2, <2>1, <3>1, TriedRow
    <3>3. tgUpdate' = [tgUpdate EXCEPT ![u] = Telegram!Tried(r, o)]
      BY <2>1, <2>3
    <3> HIDE DEF r
    <3> QED
      BY <1>2, <2>1, <3>2, <3>3, TelegramUpdated
  <2> QED
    BY <2>2, <2>3
<1>6. CASE Telegram!ProcessRefused(u)
  <2> DEFINE n == [i EXCEPT !.attempts = @ + 1,
                            !.state = IF i.attempts + 1 < UpdateAttempts THEN "failed" ELSE "done"]
  <2>1. /\ tgUpdate' = [tgUpdate EXCEPT ![u] = n] /\ UNCHANGED <<tgBlocked, tgConn>>
        /\ i.attempts < UpdateAttempts /\ r.state # "done"
    BY <1>6 DEF Telegram!ProcessRefused, Telegram!Queued
  <2> HIDE DEF i
  <2>2. i.attempts + 1 \in 0 .. UpdateAttempts
    BY <1>3, <2>1 DEF LiveUpdate
  <2>3. /\ n \in LiveUpdate /\ n.stored /\ n.asked = i.asked
        /\ n.reply = r.reply /\ n.tries = r.tries /\ n.handed = r.handed /\ n.lost = r.lost
    BY <1>3, <2>2 DEF LiveUpdate
  <2> HIDE DEF n
  <2>4. UpdateOK(n)
    BY <1>3, <1>4, <2>1, <2>3 DEF UpdateOK
  <2> QED
    BY <1>2, <2>1, <2>4, TelegramUpdated
<1>7. CASE Telegram!ProcessLost(u)
  <2> DEFINE n == [r EXCEPT !.handed = @ + 1, !.lost = @ + 1]
  <2>1. /\ tgUpdate' = [tgUpdate EXCEPT ![u] = n] /\ UNCHANGED <<tgBlocked, tgConn>>
        /\ r.state # "done" /\ r.reply = "none" /\ r.lost < TelegramLost
    BY <1>4, <1>7 DEF Telegram!ProcessLost, Telegram!Queued
  <2>2. /\ r.handed + 1 \in 0 .. TelegramLost + 1 /\ r.lost + 1 \in 0 .. TelegramLost
        /\ r.handed + 1 <= r.lost + 1 /\ r.handed + 1 <= 1 + (r.lost + 1)
    BY <1>4, <2>1
  <2>3. /\ n \in LiveUpdate /\ n.stored = r.stored /\ n.asked = r.asked
        /\ n.reply = r.reply /\ n.tries = r.tries /\ n.handed = r.handed + 1 /\ n.lost = r.lost + 1
    BY <1>4, <2>2 DEF LiveUpdate
  <2> HIDE DEF n
  <2>4. UpdateOK(n)
    BY <1>2, <1>4, <2>1, <2>2, <2>3 DEF UpdateOK
  <2> QED
    BY <1>2, <2>1, <2>4, TelegramUpdated
<1> QED
  BY <1>5, <1>6, <1>7, <1>8

\* A step that writes the message of an employee.
LEMMA TelegramWrites ==
    ASSUME TelegramInv, tgMsg' \in Telegram!MsgRow, tgBlocked' \in BOOLEAN, tgConn' \in Telegram!ConnRow,
           UNCHANGED <<tgReq, tgMgr, tgWork, tgUpdate>>
    PROVE  TelegramInv'
  BY DEF TelegramInv, Telegram!TelegramTypeOK, UpdateOK

\* The message of an employee is sent.
LEMMA TelegramSends ==
    ASSUME TelegramInv, NEW o \in Telegram!Outcomes, Telegram!Send(o)
    PROVE  TelegramInv'
<1> USE TelegramAssumption
<1> DEFINE f == [tgMsg EXCEPT !.status = "queued", !.attempt = "queued", !.count = 1]
<1>1. /\ tgMsg \in Telegram!MsgRow /\ 1 \in 0 .. TelegramAttempts
      /\ tgBlocked \in BOOLEAN /\ tgConn \in Telegram!ConnRow
  BY DEF TelegramInv, Telegram!TelegramTypeOK
<1>2. f \in Telegram!MsgRow
  BY <1>1 DEF Telegram!MsgRow
<1>3. tgMsg' \in {Telegram!Accepted(f), f, [f EXCEPT !.status = "failed", !.attempt = "failed"]}
  BY DEF Telegram!Send, Telegram!Outcomes
<1> HIDE DEF f
<1>4. tgMsg' \in Telegram!MsgRow
  BY <1>2, <1>3 DEF Telegram!Accepted, Telegram!MsgRow
<1>5. tgConn' \in Telegram!ConnRow
  BY <1>1 DEF Telegram!Send, Telegram!ConnRow, Telegram!ConnStatuses
<1>6. tgBlocked' \in BOOLEAN /\ UNCHANGED <<tgReq, tgMgr, tgWork, tgUpdate>>
  BY DEF Telegram!Send
<1> QED
  BY <1>4, <1>5, <1>6, TelegramWrites

\* The message of an employee is sent again.
LEMMA TelegramRetries ==
    ASSUME TelegramInv, NEW o \in Telegram!Outcomes, Telegram!Retry(o)
    PROVE  TelegramInv'
<1> USE TelegramAssumption
<1> DEFINE f == [tgMsg EXCEPT !.count = @ + 1]
<1>1. /\ tgMsg \in Telegram!MsgRow /\ tgBlocked \in BOOLEAN /\ tgConn \in Telegram!ConnRow
      /\ UNCHANGED <<tgReq, tgMgr, tgConn, tgWork, tgUpdate, tgBlocked>>
  BY DEF Telegram!Retry, TelegramInv, Telegram!TelegramTypeOK
<1>2. CASE tgMsg.count >= TelegramAttempts
  <2>1. tgMsg' = [tgMsg EXCEPT !.status = "failed", !.attempt = "dead_letter"]
    BY <1>2 DEF Telegram!Retry
  <2>2. tgMsg' \in Telegram!MsgRow
    BY <1>1, <2>1 DEF Telegram!MsgRow
  <2> QED
    BY <1>1, <2>2, TelegramWrites
<1>3. CASE ~(tgMsg.count >= TelegramAttempts)
  <2>1. tgMsg.count + 1 \in 0 .. TelegramAttempts
    BY <1>1, <1>3 DEF Telegram!MsgRow
  <2>2. f \in Telegram!MsgRow
    BY <1>1, <2>1 DEF Telegram!MsgRow
  <2>3. tgMsg' \in {Telegram!Accepted(f), f, [f EXCEPT !.attempt = "failed"]}
    BY <1>3 DEF Telegram!Retry, Telegram!Outcomes
  <2> HIDE DEF f
  <2>4. tgMsg' \in Telegram!MsgRow
    BY <2>2, <2>3 DEF Telegram!Accepted, Telegram!MsgRow
  <2> QED
    BY <1>1, <2>4, TelegramWrites
<1> QED
  BY <1>2, <1>3

-----------------------------------------------------------------------------
(* The web chat.                                                           *)
wcInst == row1
wcProof == row2
wcSess == row3
wcReq == row4
wcPost == row5
wcReply == row6
wcLock == row7
wcEvents == row8
wcVisitor == row9

USE DEF wcInst, wcProof, wcSess, wcReq, wcPost, wcReply, wcLock, wcEvents, wcVisitor

\* What a session publishes besides messages.
Notices == {"started", "resumed", "identity", "handoff", "read", "closed"}

\* A published message is the row that says so, and has one number.
EventsOK(events, post, reply) ==
    /\ DOMAIN events \subseteq 1 .. MaxEvents
    /\ events \in [DOMAIN events -> WebChat!Said]
    /\ \A p \in Posts, i \in DOMAIN events : events[i] = p => post[p]
    /\ \A r \in Replies, i \in DOMAIN events : events[i] = r => reply[r] = "shown"
    /\ \A m \in Posts \cup Replies, i, j \in DOMAIN events : events[i] = m /\ events[j] = m => i = j

\* Who holds the row has a number above all others, for a message not published.
LockOK(lock, events, post, reply, status) ==
    /\ lock # WebChat!NoLock => status # "none" /\ \A m \in DOMAIN events : m < lock.number
    /\ \A p \in Posts : lock.by = p => ~post[p]
    /\ \A r \in Replies : lock.by = r => reply[r] = "stored"

\* A session nobody reads again, whose events may be purged.
Gone(sess, req) == sess.over /\ req = {} /\ sess.status \notin {"none", "active", "handed_off"}

\* The cursor is at an event, or at the start, and what it passed was given.
CursorOK(sess, req, events, visitor) ==
    \/ Gone(sess, req)
    \/ /\ visitor.after = 0 \/ visitor.after \in DOMAIN events
       /\ \A n \in DOMAIN events : n <= visitor.after => <<n, events[n]>> \in visitor.given

WebChatInv ==
    /\ WebChat!WebChatTypeOK
    /\ EventsOK(wcEvents, wcPost, wcReply)
    /\ LockOK(wcLock, wcEvents, wcPost, wcReply, wcSess.status)
    /\ CursorOK(wcSess, wcReq, wcEvents, wcVisitor)
    /\ \A r \in Replies : /\ wcReply[r] # "refused"
                          /\ wcReply[r] # "none" => wcSess.status # "none"
    /\ wcSess.status = "none" => ~wcSess.over /\ wcReq = {}

\* A nonempty set of numbers up to a bound has a highest, and Max is it.
LEMMA Highest ==
    ASSUME NEW b \in Nat, NEW S, S \subseteq 0 .. b, S # {}
    PROVE  WebChat!Max(S) \in S /\ \A y \in S : WebChat!Max(S) >= y
<1> DEFINE T == {b - x : x \in S}
<1>1. T \subseteq Nat /\ T # {}
  <2>1. \A x \in S : b - x \in Nat
    OBVIOUS
  <2>2. PICK x \in S : TRUE
    OBVIOUS
  <2>3. b - x \in T
    BY <2>2
  <2> QED
    BY <2>1, <2>3
<1> DEFINE R == OpToRel(<, Nat)
<1>2. PICK t \in T : \A u \in T : ~ (<<u, t>> \in R)
  <2> HIDE DEF T
  <2> QED
    BY <1>1, NatLessThanWellFounded, WFMin
<1>3. R = {p \in Nat \X Nat : p[1] < p[2]}
  BY DEF OpToRel
<1> HIDE DEF R
<1>4. PICK x \in S : t = b - x
  BY <1>2
<1>5. ASSUME NEW y \in S PROVE x >= y
  <2>1. b - y \in T /\ <<b - y, t>> \in Nat \X Nat /\ <<b - y, t>> \notin R
    BY <1>1, <1>2, <1>5
  <2>2. ~ (b - y < t)
    BY <1>3, <2>1
  <2> QED
    BY <1>4, <1>5, <2>2
<1> QED
  BY <1>4, <1>5 DEF WebChat!Max

\* The next number is above every number given.
LEMMA NextIsNew ==
    ASSUME WebChatInv
    PROVE  /\ WebChat!NextNumber \in Nat \ {0}
           /\ \A m \in DOMAIN wcEvents : m < WebChat!NextNumber
<1> USE WebChatAssumption
<1> DEFINE S == DOMAIN wcEvents \cup {0}
           h == WebChat!Max(S)
<1>1. S \subseteq 0 .. MaxEvents /\ S # {} /\ MaxEvents \in Nat
  BY DEF WebChatInv, EventsOK
<1>2. DOMAIN wcEvents \subseteq S
  OBVIOUS
<1> HIDE DEF S
<1>3. h \in S /\ \A y \in S : h >= y
  BY <1>1, Highest
<1>4. WebChat!NextNumber = h + 1
  BY DEF S, WebChat!NextNumber
<1> HIDE DEF h
<1>5. h \in Nat
  BY <1>1, <1>3
<1>6. ASSUME NEW m \in DOMAIN wcEvents
      PROVE  m < WebChat!NextNumber
  <2>1. m \in S
    BY <1>2
  <2>2. h >= m
    BY <1>3, <2>1
  <2>3. m \in 0 .. MaxEvents
    BY <1>1, <2>1
  <2>4. m \in Nat
    BY <1>1, <2>3
  <2> QED
    BY <1>4, <1>5, <2>2, <2>4
<1> QED
  BY <1>4, <1>5, <1>6

\* What inserting an event makes of the events.
LEMMA Inserting ==
    ASSUME NEW n, NEW e, WebChat!Insert(n, e), n \notin DOMAIN wcEvents
    PROVE  /\ DOMAIN wcEvents' = DOMAIN wcEvents \cup {n}
           /\ wcEvents' = [i \in DOMAIN wcEvents' |-> wcEvents'[i]]
           /\ \A i \in DOMAIN wcEvents : wcEvents'[i] = wcEvents[i]
           /\ wcEvents'[n] = e
  BY DEF WebChat!Insert

\* The rows of a session.
LEMMA WebTyped ==
    ASSUME WebChatInv
    PROVE  /\ wcInst \in WebChat!InstallationStatuses /\ wcProof \in BOOLEAN
           /\ wcSess \in WebChat!SessionRow /\ wcReq \subseteq WebChat!Operations
           /\ wcPost \in [Posts -> BOOLEAN] /\ wcReply \in [Replies -> WebChat!ReplyStates]
           /\ wcLock \in [by: Posts \cup Replies, number: 1 .. MaxEvents] \cup {WebChat!NoLock}
           /\ DOMAIN wcEvents \subseteq 1 .. MaxEvents
           /\ wcEvents \in [DOMAIN wcEvents -> WebChat!Said]
           /\ wcVisitor \in WebChat!VisitorRow
  BY DEF WebChatInv, WebChat!WebChatTypeOK, WebChat!Numbers

\* The rows after a step.
LEMMA WebKeepsTypes ==
    ASSUME wcInst' \in WebChat!InstallationStatuses, wcProof' \in BOOLEAN,
           wcSess' \in WebChat!SessionRow, wcReq' \subseteq WebChat!Operations,
           wcPost' \in [Posts -> BOOLEAN], wcReply' \in [Replies -> WebChat!ReplyStates],
           wcLock' \in [by: Posts \cup Replies, number: 1 .. MaxEvents] \cup {WebChat!NoLock},
           wcVisitor' \in WebChat!VisitorRow,
           DOMAIN wcEvents' \subseteq 1 .. MaxEvents,
           wcEvents' \in [DOMAIN wcEvents' -> WebChat!Said]
    PROVE  WebChat!WebChatTypeOK'
  BY DEF WebChat!WebChatTypeOK, WebChat!Numbers

\* The initial states satisfy the invariant.
LEMMA WebChatStarts == WebChat!WebChatInit => WebChatInv
<1> SUFFICES ASSUME WebChat!WebChatInit PROVE WebChatInv
  OBVIOUS
<1> USE WebChatAssumption DEF WebChat!WebChatInit
<1>1. wcSess \in WebChat!SessionRow /\ wcInst \in WebChat!InstallationStatuses
  BY DEF WebChat!SessionRow, WebChat!SessionStatuses, WebChat!InstallationStatuses
<1>2. wcPost \in [Posts -> BOOLEAN] /\ wcReply \in [Replies -> WebChat!ReplyStates]
  BY DEF WebChat!ReplyStates
<1>3. DOMAIN wcEvents = {} /\ wcEvents \in [DOMAIN wcEvents -> WebChat!Said]
  <2>1. wcEvents = <<>>
    OBVIOUS
  <2>2. <<>> \in [1 .. 0 -> WebChat!Said] /\ DOMAIN <<>> = {} /\ 1 .. 0 = {}
    OBVIOUS
  <2> QED
    BY <2>1, <2>2
<1>4. wcVisitor \in WebChat!VisitorRow /\ wcVisitor.after = 0
  BY DEF WebChat!VisitorRow
<1>5. WebChat!WebChatTypeOK
  <2>1. wcProof \in BOOLEAN /\ wcReq \subseteq WebChat!Operations /\ wcLock = WebChat!NoLock
    OBVIOUS
  <2> HIDE DEF WebChat!WebChatInit, wcEvents, wcLock
  <2> QED
    BY <1>1, <1>2, <1>3, <1>4, <2>1 DEF WebChat!WebChatTypeOK, wcEvents, wcLock
<1>6. EventsOK(wcEvents, wcPost, wcReply)
  BY <1>3 DEF EventsOK
<1>7. wcLock = WebChat!NoLock /\ wcLock.by = "nobody"
  BY DEF WebChat!NoLock
<1>8. LockOK(wcLock, wcEvents, wcPost, wcReply, wcSess.status)
  BY <1>7 DEF LockOK
<1>9. CursorOK(wcSess, wcReq, wcEvents, wcVisitor)
  BY <1>3, <1>4 DEF CursorOK
<1>10. ~wcSess.over /\ wcReq = {} /\ \A r \in Replies : wcReply[r] = "none"
  OBVIOUS
<1> QED
  BY <1>5, <1>6, <1>8, <1>9, <1>10 DEF WebChatInv

\* A step that publishes nothing and leaves messages, lock and cursor alone.
LEMMA WebQuiet ==
    ASSUME WebChatInv, UNCHANGED <<wcPost, wcReply, wcLock, wcEvents, wcVisitor>>,
           wcInst' \in WebChat!InstallationStatuses, wcProof' \in BOOLEAN,
           wcSess' \in WebChat!SessionRow, wcReq' \subseteq WebChat!Operations,
           Gone(wcSess, wcReq) => Gone(wcSess', wcReq'),
           wcSess.status # "none" => wcSess'.status # "none",
           wcSess'.status = "none" => ~wcSess'.over /\ wcReq' = {}
    PROVE  WebChatInv'
<1>1. WebChat!WebChatTypeOK'
  BY WebTyped, WebKeepsTypes
<1>2. CursorOK(wcSess', wcReq', wcEvents', wcVisitor')
  BY DEF WebChatInv, CursorOK
<1> QED
  BY <1>1, <1>2 DEF WebChatInv, LockOK

\* An event that gets a new number leaves what the cursor passed.
LEMMA CursorKept ==
    ASSUME WebChatInv, NEW n, NEW e, WebChat!Insert(n, e), n \in 1 .. MaxEvents,
           \A m \in DOMAIN wcEvents : m < n,
           Gone(wcSess, wcReq) => Gone(wcSess', wcReq'), UNCHANGED wcVisitor
    PROVE  CursorOK(wcSess', wcReq', wcEvents', wcVisitor')
<1> USE WebChatAssumption
<1>1. DOMAIN wcEvents \subseteq 1 .. MaxEvents
  BY WebTyped
<1>2. n \notin DOMAIN wcEvents
  BY <1>1
<1>3. /\ DOMAIN wcEvents' = DOMAIN wcEvents \cup {n}
      /\ \A i \in DOMAIN wcEvents : wcEvents'[i] = wcEvents[i]
  BY <1>2, Inserting
<1>4. CASE Gone(wcSess, wcReq)
  BY <1>4 DEF CursorOK
<1>5. CASE ~Gone(wcSess, wcReq)
  <2>1. /\ wcVisitor.after = 0 \/ wcVisitor.after \in DOMAIN wcEvents
        /\ \A m \in DOMAIN wcEvents : m <= wcVisitor.after => <<m, wcEvents[m]>> \in wcVisitor.given
    BY <1>5 DEF WebChatInv, CursorOK
  <2>2. ~ (n <= wcVisitor.after)
    BY <1>1, <2>1
  <2> QED
    BY <1>3, <2>1, <2>2 DEF CursorOK
<1> QED
  BY <1>4, <1>5

\* A step that publishes a notice while nobody holds the row.
LEMMA WebNotice ==
    ASSUME WebChatInv, NEW e \in Notices, WebChat!Publish(e), wcLock = WebChat!NoLock,
           ~Gone(wcSess, wcReq),
           UNCHANGED <<wcInst, wcProof, wcPost, wcReply, wcLock, wcVisitor>>,
           wcSess' \in WebChat!SessionRow, wcReq' \subseteq WebChat!Operations,
           wcSess'.status # "none"
    PROVE  WebChatInv'
<1> USE WebChatAssumption
<1> DEFINE n == WebChat!NextNumber
<1>1. /\ n \in 1 .. MaxEvents /\ n \notin DOMAIN wcEvents /\ WebChat!Insert(n, e)
      /\ \A m \in DOMAIN wcEvents : m < n
  BY NextIsNew DEF WebChat!Publish
<1> HIDE DEF n
<1>2. e \in WebChat!Said /\ e \notin Posts \cup Replies
  BY DEF WebChat!Said, Notices
<1>3. /\ DOMAIN wcEvents' = DOMAIN wcEvents \cup {n}
      /\ wcEvents' = [i \in DOMAIN wcEvents' |-> wcEvents'[i]]
      /\ \A i \in DOMAIN wcEvents : wcEvents'[i] = wcEvents[i]
      /\ wcEvents'[n] = e
  BY <1>1, Inserting
<1>4. /\ DOMAIN wcEvents' \subseteq 1 .. MaxEvents
      /\ wcEvents' \in [DOMAIN wcEvents' -> WebChat!Said]
  <2>1. \A i \in DOMAIN wcEvents' : wcEvents'[i] \in WebChat!Said
    BY <1>2, <1>3, WebTyped
  <2> QED
    BY <1>1, <1>3, <2>1, WebTyped
<1>5. \A i \in DOMAIN wcEvents' : wcEvents'[i] \in Posts \cup Replies
                                     => i \in DOMAIN wcEvents /\ wcEvents'[i] = wcEvents[i]
  BY <1>2, <1>3
<1>6. EventsOK(wcEvents', wcPost', wcReply')
  <2>1. EventsOK(wcEvents, wcPost, wcReply) /\ UNCHANGED <<wcPost, wcReply>>
    BY DEF WebChatInv
  <2> QED
    BY <1>4, <1>5, <2>1 DEF EventsOK
<1>7. WebChat!WebChatTypeOK'
  BY <1>4, WebTyped, WebKeepsTypes
<1>8. LockOK(wcLock', wcEvents', wcPost', wcReply', wcSess'.status)
  BY DEF WebChatInv, LockOK
<1>9. CursorOK(wcSess', wcReq', wcEvents', wcVisitor')
  BY <1>1, CursorKept
<1> QED
  BY <1>6, <1>7, <1>8, <1>9 DEF WebChatInv

\* The installation and the start of a session.
LEMMA WebInstallation ==
    ASSUME WebChatInv,
           \/ WebChat!Activate \/ WebChat!Pause \/ WebChat!Revoke
           \/ WebChat!RotateKey \/ WebChat!GetConfig \/ WebChat!CreateSession
    PROVE  WebChatInv'
<1>1. /\ wcInst \in WebChat!InstallationStatuses /\ wcProof \in BOOLEAN
      /\ wcSess \in WebChat!SessionRow /\ wcReq \subseteq WebChat!Operations
      /\ wcSess.status = "none" => ~wcSess.over /\ wcReq = {}
  BY WebTyped DEF WebChatInv
<1>2. CASE WebChat!CreateSession
  <2>1. wcLock = WebChat!NoLock
    BY <1>2 DEF WebChat!CreateSession, WebChatInv, LockOK
  <2>2. wcSess' \in WebChat!SessionRow /\ wcSess'.status = "active"
    BY <1>1, <1>2 DEF WebChat!CreateSession, WebChat!SessionRow, WebChat!SessionStatuses
  <2>3. ~Gone(wcSess, wcReq)
    BY <1>2 DEF WebChat!CreateSession, Gone
  <2>4. WebChat!Publish("started") /\ "started" \in Notices
    BY <1>2 DEF WebChat!CreateSession, Notices
  <2>5. UNCHANGED <<wcInst, wcProof, wcReq, wcPost, wcReply, wcLock, wcVisitor>>
    BY <1>2 DEF WebChat!CreateSession
  <2> QED
    BY <1>1, <2>1, <2>2, <2>3, <2>4, <2>5, WebNotice
<1>3. CASE WebChat!Revoke
  <2>1. /\ wcSess' \in WebChat!SessionRow /\ wcSess'.over = wcSess.over
        /\ wcSess.status # "none" => wcSess'.status # "none"
        /\ wcSess'.status = "none" => wcSess.status = "none"
        /\ wcSess'.status = wcSess.status \/ wcSess'.status = "blocked"
    BY <1>1, <1>3 DEF WebChat!Revoke, WebChat!SessionRow, WebChat!SessionStatuses
  <2>2. /\ wcInst' \in WebChat!InstallationStatuses
        /\ UNCHANGED <<wcProof, wcReq, wcPost, wcReply, wcLock, wcEvents, wcVisitor>>
    BY <1>3 DEF WebChat!Revoke, WebChat!InstallationStatuses
  <2>3. Gone(wcSess, wcReq) => Gone(wcSess', wcReq')
    BY <2>1, <2>2 DEF Gone
  <2> QED
    BY <1>1, <2>1, <2>2, <2>3, WebQuiet
<1>4. CASE \/ WebChat!Activate \/ WebChat!Pause \/ WebChat!RotateKey \/ WebChat!GetConfig
  <2>1. wcInst' \in WebChat!InstallationStatuses /\ wcProof' \in BOOLEAN
    BY <1>1, <1>4 DEF WebChat!Activate, WebChat!Pause, WebChat!RotateKey, WebChat!GetConfig,
       WebChat!InstallationStatuses
  <2>2. UNCHANGED <<wcSess, wcReq, wcPost, wcReply, wcLock, wcEvents, wcVisitor>>
    BY <1>4 DEF WebChat!Activate, WebChat!Pause, WebChat!RotateKey, WebChat!GetConfig
  <2> QED
    BY <1>1, <2>1, <2>2, WebQuiet
<1> QED
  BY <1>2, <1>3, <1>4

\* The requests of the visitor that post nothing.
LEMMA WebRequests ==
    ASSUME WebChatInv,
           \/ WebChat!PostAnswered \/ WebChat!Handoff \/ WebChat!Resume
           \/ WebChat!CloseSession \/ WebChat!UpdateIdentity \/ WebChat!MarkRead
    PROVE  WebChatInv'
<1>1. /\ wcInst \in WebChat!InstallationStatuses /\ wcProof \in BOOLEAN
      /\ wcSess \in WebChat!SessionRow /\ wcReq \subseteq WebChat!Operations
  BY WebTyped
<1>2. /\ wcReq' \subseteq WebChat!Operations /\ UNCHANGED <<wcInst, wcProof>>
      /\ wcLock = WebChat!NoLock /\ UNCHANGED <<wcPost, wcReply, wcLock, wcVisitor>>
      /\ wcReq # {}
  BY <1>1 DEF WebChat!PostAnswered, WebChat!Handoff, WebChat!Resume, WebChat!CloseSession,
     WebChat!UpdateIdentity, WebChat!MarkRead, WebChat!Runs, WebChat!Free
<1>3. ~Gone(wcSess, wcReq) /\ wcSess.status # "none"
  BY <1>2 DEF Gone, WebChatInv
<1>4. wcSess' \in WebChat!SessionRow /\ wcSess'.status # "none"
  <2>1. \A s \in WebChat!SessionStatuses, t, o \in BOOLEAN :
           /\ [wcSess EXCEPT !.status = s] \in WebChat!SessionRow
           /\ [wcSess EXCEPT !.status = s, !.token = t] \in WebChat!SessionRow
           /\ [wcSess EXCEPT !.token = t, !.over = o] \in WebChat!SessionRow
           /\ [wcSess EXCEPT !.contact = t] \in WebChat!SessionRow
    BY <1>1 DEF WebChat!SessionRow
  <2>2. \A t, o \in BOOLEAN :
           /\ [wcSess EXCEPT !.status = "handed_off"].status = "handed_off"
           /\ [wcSess EXCEPT !.status = "closed", !.token = t].status = "closed"
           /\ [wcSess EXCEPT !.token = t, !.over = o].status = wcSess.status
           /\ [wcSess EXCEPT !.contact = t].status = wcSess.status
    BY <1>1 DEF WebChat!SessionRow
  <2>3. {"handed_off", "closed"} \subseteq WebChat!SessionStatuses
    BY DEF WebChat!SessionStatuses
  <2>4. \/ wcSess' = wcSess
        \/ wcSess' = [wcSess EXCEPT !.status = "handed_off"]
        \/ wcSess' = [wcSess EXCEPT !.token = TRUE, !.over = FALSE]
        \/ wcSess' = [wcSess EXCEPT !.status = "closed", !.token = FALSE]
        \/ wcSess' = [wcSess EXCEPT !.contact = TRUE]
    BY DEF WebChat!PostAnswered, WebChat!Handoff, WebChat!Resume, WebChat!CloseSession,
       WebChat!UpdateIdentity, WebChat!MarkRead
  <2> QED
    BY <1>1, <1>3, <2>1, <2>2, <2>3, <2>4
<1>5. \/ UNCHANGED wcEvents
      \/ \E e \in Notices : WebChat!Publish(e)
  BY DEF WebChat!PostAnswered, WebChat!Handoff, WebChat!Resume, WebChat!CloseSession,
     WebChat!UpdateIdentity, WebChat!MarkRead, WebChat!Once, Notices
<1>6. CASE UNCHANGED wcEvents
  BY <1>1, <1>2, <1>3, <1>4, <1>6, WebQuiet
<1>7. ASSUME NEW e \in Notices, WebChat!Publish(e)
      PROVE  WebChatInv'
  BY <1>2, <1>3, <1>4, <1>7, WebNotice
<1> QED
  BY <1>5, <1>6, <1>7

\* The page the visitor gets is a beginning of what is after its cursor.
LEMMA WebPoll ==
    ASSUME WebChatInv, WebChat!Poll
    PROVE  WebChatInv'
<1> USE WebChatAssumption
<1> DEFINE U == WebChat!Unseen
           a == wcVisitor.after
           g == wcVisitor.given
<1>1. /\ wcVisitor \in WebChat!VisitorRow /\ a \in 0 .. MaxEvents
      /\ g \in SUBSET (WebChat!Numbers \X WebChat!Said)
      /\ DOMAIN wcEvents \subseteq 1 .. MaxEvents
      /\ wcEvents \in [DOMAIN wcEvents -> WebChat!Said]
  BY WebTyped DEF WebChat!VisitorRow
<1>2. /\ ~Gone(wcSess, wcReq)
      /\ UNCHANGED <<wcInst, wcProof, wcSess, wcReq, wcPost, wcReply, wcLock, wcEvents>>
  BY DEF WebChat!Poll, WebChat!Admitted, Gone
<1>3. \A n \in DOMAIN wcEvents : n <= a => <<n, wcEvents[n]>> \in g
  BY <1>2 DEF WebChatInv, CursorOK
<1>4. PICK last \in U : LET shown == {n \in U : n <= last}
                        IN  wcVisitor' = [after |-> WebChat!CursorAfter(shown),
                                          given |-> g \cup {<<n, wcEvents[n]>> : n \in shown}]
  BY DEF WebChat!Poll
<1> DEFINE shown == {n \in U : n <= last}
<1>5. U \subseteq DOMAIN wcEvents /\ \A n \in DOMAIN wcEvents : n \in U <=> n > a
  BY DEF WebChat!Unseen
<1>6. ASSUME NEW n \in DOMAIN wcEvents, n > a, n <= last
      PROVE  n \in shown
  BY <1>5, <1>6
<1>7. shown \subseteq DOMAIN wcEvents /\ last \in shown
  BY <1>1, <1>5
<1>8. \A n \in shown : n <= last
  OBVIOUS
<1> HIDE DEF shown, U
<1>9. WebChat!Max(shown) = last
  <2>1. shown \subseteq 0 .. MaxEvents /\ shown # {}
    BY <1>1, <1>7
  <2>2. WebChat!Max(shown) \in shown /\ WebChat!Max(shown) >= last
    BY <1>7, <2>1, Highest
  <2>3. WebChat!Max(shown) <= last
    BY <1>8, <2>2
  <2>4. WebChat!Max(shown) \in Int /\ last \in Int
    BY <1>7, <2>1, <2>2
  <2> QED
    BY <2>2, <2>3, <2>4
<1>10. /\ wcVisitor'.after = last
       /\ wcVisitor'.given = g \cup {<<n, wcEvents[n]>> : n \in shown}
       /\ wcVisitor' = [after |-> wcVisitor'.after, given |-> wcVisitor'.given]
  BY <1>4, <1>9 DEF shown, WebChat!CursorAfter
<1>11. wcVisitor' \in WebChat!VisitorRow
  <2>1. last \in 0 .. MaxEvents
    BY <1>1, <1>7
  <2>2. \A n \in shown : <<n, wcEvents[n]>> \in WebChat!Numbers \X WebChat!Said
    BY <1>1, <1>7 DEF WebChat!Numbers
  <2>3. wcVisitor'.given \in SUBSET (WebChat!Numbers \X WebChat!Said)
    BY <1>1, <1>10, <2>2
  <2> QED
    BY <1>10, <2>1, <2>3 DEF WebChat!VisitorRow
<1>12. CursorOK(wcSess', wcReq', wcEvents', wcVisitor')
  <2>1. wcVisitor'.after \in DOMAIN wcEvents'
    BY <1>2, <1>7, <1>10
  <2>2. ASSUME NEW n \in DOMAIN wcEvents', n <= wcVisitor'.after
        PROVE  <<n, wcEvents'[n]>> \in wcVisitor'.given
    <3>1. n \in DOMAIN wcEvents /\ n <= last /\ wcEvents' = wcEvents
      BY <1>2, <1>10, <2>2
    <3>2. CASE n <= a
      BY <1>3, <1>10, <3>1, <3>2
    <3>3. CASE ~(n <= a)
      <4>1. n > a
        BY <1>1, <3>1, <3>3
      <4>2. n \in shown
        BY <1>6, <3>1, <4>1
      <4> QED
        BY <1>10, <3>1, <4>2
    <3> QED
      BY <3>2, <3>3
  <2> QED
    BY <2>1, <2>2 DEF CursorOK
<1>13. WebChat!WebChatTypeOK'
  BY <1>2, <1>11, WebTyped, WebKeepsTypes
<1> QED
  BY <1>2, <1>12, <1>13 DEF WebChatInv

\* The visitor authenticates, the session runs out and its events are purged.
LEMMA WebVisits ==
    ASSUME WebChatInv,
           \/ \E op \in WebChat!Operations : WebChat!Authenticate(op)
           \/ WebChat!Poll \/ WebChat!Expires \/ WebChat!ExpiredSeen \/ WebChat!Cleanup
           \/ WebChat!Purge
    PROVE  WebChatInv'
<1>1. /\ wcInst \in WebChat!InstallationStatuses /\ wcProof \in BOOLEAN
      /\ wcSess \in WebChat!SessionRow /\ wcReq \subseteq WebChat!Operations
      /\ wcSess.status = "none" => ~wcSess.over /\ wcReq = {}
  BY WebTyped DEF WebChatInv
<1>2. CASE \E op \in WebChat!Operations : WebChat!Authenticate(op)
  <2>1. /\ wcReq' \subseteq WebChat!Operations /\ wcSess.status # "none" /\ ~Gone(wcSess, wcReq)
    BY <1>1, <1>2 DEF WebChat!Authenticate, WebChat!Admitted, WebChat!Open, Gone
  <2>2. UNCHANGED <<wcInst, wcProof, wcSess, wcPost, wcReply, wcLock, wcEvents, wcVisitor>>
    BY <1>2 DEF WebChat!Authenticate
  <2> QED
    BY <1>1, <2>1, <2>2, WebQuiet
<1>3. CASE WebChat!Poll
  BY <1>3, WebPoll
<1>4. CASE WebChat!Expires
  <2>1. /\ wcSess' \in WebChat!SessionRow /\ wcSess'.status = wcSess.status
        /\ wcSess.status # "none" /\ ~wcSess.over
    BY <1>1, <1>4 DEF WebChat!Expires, WebChat!SessionRow
  <2>2. UNCHANGED <<wcInst, wcProof, wcReq, wcPost, wcReply, wcLock, wcEvents, wcVisitor>>
    BY <1>4 DEF WebChat!Expires
  <2> QED
    BY <1>1, <2>1, <2>2, WebQuiet DEF Gone
<1>5. CASE WebChat!ExpiredSeen \/ WebChat!Cleanup
  <2>1. /\ wcSess' \in WebChat!SessionRow /\ wcSess'.status = "expired"
        /\ wcSess.status \in {"active", "handed_off"}
    BY <1>1, <1>5 DEF WebChat!ExpiredSeen, WebChat!Cleanup, WebChat!Open, WebChat!SessionRow,
       WebChat!SessionStatuses
  <2>2. UNCHANGED <<wcInst, wcProof, wcReq, wcPost, wcReply, wcLock, wcEvents, wcVisitor>>
    BY <1>5 DEF WebChat!ExpiredSeen, WebChat!Cleanup
  <2> QED
    BY <1>1, <2>1, <2>2, WebQuiet DEF Gone
<1>6. CASE WebChat!Purge
  <2>1. /\ Gone(wcSess, wcReq) /\ wcEvents' = <<>>
        /\ UNCHANGED <<wcInst, wcProof, wcSess, wcReq, wcPost, wcReply, wcLock, wcVisitor>>
    BY <1>1, <1>6 DEF WebChat!Purge, WebChat!Open, Gone
  <2>2. DOMAIN wcEvents' = {} /\ wcEvents' \in [DOMAIN wcEvents' -> WebChat!Said]
    <3>1. <<>> \in [1 .. 0 -> WebChat!Said] /\ DOMAIN <<>> = {} /\ 1 .. 0 = {}
      OBVIOUS
    <3> QED
      BY <2>1, <3>1
  <2>3. WebChat!WebChatTypeOK'
    BY <2>1, <2>2, WebTyped, WebKeepsTypes
  <2>4. EventsOK(wcEvents', wcPost', wcReply')
    BY <2>2 DEF EventsOK
  <2>5. LockOK(wcLock', wcEvents', wcPost', wcReply', wcSess'.status)
    BY <2>1, <2>2 DEF LockOK, WebChatInv
  <2>6. CursorOK(wcSess', wcReq', wcEvents', wcVisitor')
    BY <2>1 DEF CursorOK
  <2> QED
    BY <2>1, <2>3, <2>4, <2>5, <2>6 DEF WebChatInv
<1> QED
  BY <1>2, <1>3, <1>4, <1>5, <1>6

\* Taking the row for a message that is not published.
LEMMA WebLocks ==
    ASSUME WebChatInv,
           \/ \E p \in Posts : WebChat!PostBegin(p)
           \/ \E r \in Replies : WebChat!ShowBegin(r)
    PROVE  WebChatInv'
<1> USE WebChatAssumption
<1> DEFINE n == WebChat!NextNumber
<1>1. PICK m \in Posts \cup Replies :
         /\ wcLock' = [by |-> m, number |-> n] /\ n <= MaxEvents
         /\ m \in Posts => ~wcPost[m]
         /\ m \in Replies => wcReply[m] = "stored"
         /\ wcSess.status # "none"
  BY DEF WebChat!PostBegin, WebChat!ShowBegin, WebChat!Open, WebChatInv
<1>2. UNCHANGED <<wcInst, wcProof, wcSess, wcReq, wcPost, wcReply, wcEvents, wcVisitor>>
  BY DEF WebChat!PostBegin, WebChat!ShowBegin
<1>3. n \in 1 .. MaxEvents /\ \A i \in DOMAIN wcEvents : i < n
  BY <1>1, NextIsNew
<1> HIDE DEF n
<1>4. wcLock' \in [by: Posts \cup Replies, number: 1 .. MaxEvents]
  BY <1>1, <1>3
<1>5. WebChat!WebChatTypeOK'
  BY <1>2, <1>4, WebTyped, WebKeepsTypes
<1>6. wcLock'.by = m /\ wcLock'.number = n
  BY <1>1
<1>7. LockOK(wcLock', wcEvents', wcPost', wcReply', wcSess'.status)
  BY <1>1, <1>2, <1>3, <1>6 DEF LockOK
<1>8. CursorOK(wcSess', wcReq', wcEvents', wcVisitor')
  BY <1>2 DEF WebChatInv
<1> QED
  BY <1>2, <1>5, <1>7, <1>8 DEF WebChatInv

\* A message is published by who holds the row, and the row is free again.
LEMMA WebPublished ==
    ASSUME WebChatInv, NEW m \in Posts \cup Replies, wcLock.by = m,
           WebChat!Insert(wcLock.number, m), wcLock' = WebChat!NoLock,
           wcPost' \in [Posts -> BOOLEAN],
           \A p \in Posts : wcPost'[p] <=> (wcPost[p] \/ p = m),
           wcReply' \in [Replies -> WebChat!ReplyStates],
           \A r \in Replies : wcReply'[r] = IF r = m THEN "shown" ELSE wcReply[r],
           wcSess' \in WebChat!SessionRow, wcSess'.status = wcSess.status,
           wcReq' \subseteq WebChat!Operations,
           Gone(wcSess, wcReq) => Gone(wcSess', wcReq'),
           UNCHANGED <<wcInst, wcProof, wcVisitor>>
    PROVE  WebChatInv'
<1> USE WebChatAssumption
<1> DEFINE n == wcLock.number
<1>1. /\ DOMAIN wcEvents \subseteq 1 .. MaxEvents /\ m \in WebChat!Said
      /\ wcEvents \in [DOMAIN wcEvents -> WebChat!Said]
  BY WebTyped DEF WebChat!Said
<1>2. wcLock # WebChat!NoLock
  BY DEF WebChat!NoLock
<1>3. n \in 1 .. MaxEvents
  BY <1>2, WebTyped
<1>4. /\ \A i \in DOMAIN wcEvents : i < n
      /\ wcSess.status # "none"
      /\ m \in Posts => ~wcPost[m]
      /\ m \in Replies => wcReply[m] = "stored"
  BY <1>2 DEF WebChatInv, LockOK
<1> HIDE DEF n
<1>5. WebChat!Insert(n, m) /\ n \notin DOMAIN wcEvents
  BY <1>1, <1>3, <1>4 DEF n
<1>6. /\ DOMAIN wcEvents' = DOMAIN wcEvents \cup {n}
      /\ wcEvents' = [i \in DOMAIN wcEvents' |-> wcEvents'[i]]
      /\ \A i \in DOMAIN wcEvents : wcEvents'[i] = wcEvents[i]
      /\ wcEvents'[n] = m
  BY <1>5, Inserting
<1>7. /\ DOMAIN wcEvents' \subseteq 1 .. MaxEvents
      /\ wcEvents' \in [DOMAIN wcEvents' -> WebChat!Said]
  <2>1. \A i \in DOMAIN wcEvents' : wcEvents'[i] \in WebChat!Said
    BY <1>1, <1>6
  <2> QED
    BY <1>1, <1>3, <1>6, <2>1
<1>8. EventsOK(wcEvents, wcPost, wcReply)
  BY DEF WebChatInv
<1>9. \A i \in DOMAIN wcEvents : wcEvents[i] # m
  BY <1>4, <1>8 DEF EventsOK
<1>10. \A p \in Posts, i \in DOMAIN wcEvents' : wcEvents'[i] = p => wcPost'[p]
  BY <1>6, <1>8 DEF EventsOK
<1>11. \A r \in Replies, i \in DOMAIN wcEvents' : wcEvents'[i] = r => wcReply'[r] = "shown"
  BY <1>6, <1>8 DEF EventsOK
<1>12. ASSUME NEW x \in Posts \cup Replies, NEW i \in DOMAIN wcEvents', NEW j \in DOMAIN wcEvents',
              wcEvents'[i] = x, wcEvents'[j] = x
       PROVE  i = j
  <2>1. CASE x = m
    BY <1>6, <1>9, <1>12, <2>1
  <2>2. CASE x # m
    <3>1. /\ i \in DOMAIN wcEvents /\ j \in DOMAIN wcEvents
          /\ wcEvents[i] = x /\ wcEvents[j] = x
      BY <1>6, <1>12, <2>2
    <3> QED
      BY <1>8, <3>1 DEF EventsOK
  <2> QED
    BY <2>1, <2>2
<1>13. EventsOK(wcEvents', wcPost', wcReply')
  BY <1>7, <1>10, <1>11, <1>12 DEF EventsOK
<1>14. WebChat!WebChatTypeOK'
  BY <1>7, WebTyped, WebKeepsTypes
<1>15. wcLock'.by = "nobody"
  BY DEF WebChat!NoLock
<1>16. LockOK(wcLock', wcEvents', wcPost', wcReply', wcSess'.status)
  BY <1>15 DEF LockOK
<1>17. \A r \in Replies : wcReply'[r] # "refused" /\ (wcReply'[r] # "none" => wcSess'.status # "none")
  BY <1>4 DEF WebChatInv
<1>18. CursorOK(wcSess', wcReq', wcEvents', wcVisitor')
  BY <1>3, <1>4, <1>5, CursorKept
<1> QED
  BY <1>4, <1>13, <1>14, <1>16, <1>17, <1>18 DEF WebChatInv

\* A post commits: the number it read is still the next.
LEMMA WebPosts ==
    ASSUME WebChatInv, NEW p \in Posts, WebChat!PostCommit(p)
    PROVE  WebChatInv'
<1> USE WebChatAssumption
<1> DEFINE s == [wcSess EXCEPT !.conversation = TRUE, !.contact = TRUE]
<1>1. /\ wcLock.by = p /\ wcLock # WebChat!NoLock
      /\ wcReq' \subseteq WebChat!Operations /\ UNCHANGED <<wcInst, wcProof, wcReply, wcVisitor>>
      /\ wcLock' = WebChat!NoLock /\ ~Gone(wcSess, wcReq)
      /\ wcPost \in [Posts -> BOOLEAN]
      /\ wcReply \in [Replies -> WebChat!ReplyStates] /\ wcSess \in WebChat!SessionRow
  BY WebTyped DEF WebChat!PostCommit, WebChat!Runs, WebChat!NoLock, Gone
<1>2. wcLock.number \notin DOMAIN wcEvents
  <2>1. wcLock.number \in 1 .. MaxEvents
    BY <1>1, WebTyped
  <2>2. \A m \in DOMAIN wcEvents : m < wcLock.number
    BY <1>1 DEF WebChatInv, LockOK
  <2> QED
    BY <2>1, <2>2
<1>3. /\ WebChat!Insert(wcLock.number, p) /\ wcPost' = [wcPost EXCEPT ![p] = TRUE]
      /\ wcSess' = s
  BY <1>2 DEF WebChat!PostCommit
<1>4. s \in WebChat!SessionRow /\ s.status = wcSess.status
  BY <1>1 DEF WebChat!SessionRow
<1> HIDE DEF s
<1>5. wcPost' \in [Posts -> BOOLEAN] /\ \A q \in Posts : wcPost'[q] <=> (wcPost[q] \/ q = p)
  BY <1>1, <1>3
<1>6. \A r \in Replies : wcReply'[r] = IF r = p THEN "shown" ELSE wcReply[r]
  BY <1>1
<1> QED
  BY <1>1, <1>3, <1>4, <1>5, <1>6, WebPublished

\* A reply is stored, shown or lost.
LEMMA WebReplies ==
    ASSUME WebChatInv, NEW r \in Replies,
           WebChat!SendReply(r) \/ WebChat!ShowCommit(r) \/ WebChat!ShowLost(r)
    PROVE  WebChatInv'
<1> USE WebChatAssumption
<1>1. /\ wcReply \in [Replies -> WebChat!ReplyStates]
      /\ wcPost \in [Posts -> BOOLEAN] /\ wcSess \in WebChat!SessionRow
      /\ wcReq \subseteq WebChat!Operations
      /\ wcLock \in [by: Posts \cup Replies, number: 1 .. MaxEvents] \cup {WebChat!NoLock}
  BY WebTyped
<1>2. ASSUME NEW x \in {"stored", "lost"}, wcReply[r] \in {"none", "stored"},
             wcReply' = [wcReply EXCEPT ![r] = x], wcSess.status # "none",
             wcLock' = wcLock \/ wcLock' = WebChat!NoLock,
             wcLock'.by # r,
             UNCHANGED <<wcInst, wcProof, wcSess, wcReq, wcPost, wcEvents, wcVisitor>>
      PROVE  WebChatInv'
  <2>1. wcReply' \in [Replies -> WebChat!ReplyStates]
    BY <1>1, <1>2 DEF WebChat!ReplyStates
  <2>2. WebChat!WebChatTypeOK'
    BY <1>2, <2>1, WebTyped, WebKeepsTypes
  <2>3. EventsOK(wcEvents', wcPost', wcReply')
    BY <1>1, <1>2 DEF WebChatInv, EventsOK
  <2>4. LockOK(wcLock', wcEvents', wcPost', wcReply', wcSess'.status)
    <3>1. WebChat!NoLock.by = "nobody"
      BY DEF WebChat!NoLock
    <3> QED
      BY <1>1, <1>2, <3>1 DEF WebChatInv, LockOK
  <2>5. CursorOK(wcSess', wcReq', wcEvents', wcVisitor')
    BY <1>2 DEF WebChatInv
  <2> QED
    BY <1>1, <1>2, <2>2, <2>3, <2>4, <2>5 DEF WebChatInv
<1>3. CASE WebChat!SendReply(r)
  <2>1. /\ wcReply[r] = "none" /\ wcReply' = [wcReply EXCEPT ![r] = "stored"]
        /\ wcSess.status # "none"
        /\ UNCHANGED <<wcInst, wcProof, wcSess, wcReq, wcPost, wcLock, wcEvents, wcVisitor>>
    BY <1>3 DEF WebChat!SendReply, WebChat!Open
  <2>2. wcLock.by # r
    BY <2>1 DEF WebChatInv, LockOK
  <2> QED
    BY <1>2, <2>1, <2>2
<1>4. CASE WebChat!ShowLost(r)
  <2>1. /\ wcReply[r] = "stored" /\ wcReply' = [wcReply EXCEPT ![r] = "lost"]
        /\ wcLock' = IF wcLock.by = r THEN WebChat!NoLock ELSE wcLock
        /\ UNCHANGED <<wcInst, wcProof, wcSess, wcReq, wcPost, wcEvents, wcVisitor>>
    BY <1>4 DEF WebChat!ShowLost
  <2>2. wcSess.status # "none" /\ wcLock'.by # r
    BY <2>1 DEF WebChatInv, WebChat!NoLock
  <2> QED
    BY <1>2, <2>1, <2>2
<1>5. CASE WebChat!ShowCommit(r)
  <2>1. /\ wcLock.by = r /\ wcLock # WebChat!NoLock /\ wcLock' = WebChat!NoLock
        /\ UNCHANGED <<wcInst, wcProof, wcSess, wcReq, wcPost, wcVisitor>>
    BY <1>5 DEF WebChat!ShowCommit, WebChat!NoLock
  <2>2. wcLock.number \notin DOMAIN wcEvents
    <3>1. wcLock.number \in 1 .. MaxEvents
      BY <1>1, <2>1
    <3>2. \A m \in DOMAIN wcEvents : m < wcLock.number
      BY <2>1 DEF WebChatInv, LockOK
    <3> QED
      BY <3>1, <3>2
  <2>3. WebChat!Insert(wcLock.number, r) /\ wcReply' = [wcReply EXCEPT ![r] = "shown"]
    BY <1>5, <2>2 DEF WebChat!ShowCommit
  <2>4. /\ wcReply' \in [Replies -> WebChat!ReplyStates]
        /\ \A q \in Replies : wcReply'[q] = IF q = r THEN "shown" ELSE wcReply[q]
    BY <1>1, <2>3 DEF WebChat!ReplyStates
  <2>5. /\ wcPost' \in [Posts -> BOOLEAN]
        /\ \A p \in Posts : wcPost'[p] <=> (wcPost[p] \/ p = r)
    BY <1>1, <2>1
  <2> QED
    BY <1>1, <2>1, <2>3, <2>4, <2>5, WebPublished
<1> QED
  BY <1>3, <1>4, <1>5

-----------------------------------------------------------------------------
(* Voice calls.                                                            *)
vcConn == row1
vcCall == row2
vcRoute == row3
vcJob == row4
vcLock == row5
vcWork == row6

USE DEF vcConn, vcCall, vcRoute, vcJob, vcLock, vcWork

\* A call is billed when it gets its end; a transcript is kept with consent.
CallOK(r) ==
    /\ r \in Voice!CallRow
    /\ r.billed <= 1
    /\ ~r.ended => r.billed = 0
    /\ r.keep => r.consent \in {"not_required", "granted"}

\* A call the webhook has not committed has no job and no worker; a queued job has an
\* attempt left.
JobOK(route, job, place) ==
    /\ job.status = "pending" => job.attempts < JobAttempts
    /\ route \notin {"routed", "answered"} => job.status = "none" /\ job.attempts = 0 /\ place = "none"

VoiceInv ==
    /\ Voice!VoiceTypeOK
    /\ \A c \in Calls : CallOK(vcCall[c]) /\ JobOK(vcRoute[c], vcJob[c], vcWork[c])

VoiceStep == VoiceInv' /\ Voice!SegmentsAreAllowed

\* The initial states satisfy the invariant.
LEMMA VoiceStarts == Voice!VoiceInit => VoiceInv
<1> SUFFICES ASSUME Voice!VoiceInit PROVE VoiceInv
  OBVIOUS
<1> USE VoiceAssumption DEF Voice!VoiceInit
<1> DEFINE z == Voice!NoCall
           j == [status |-> "none", attempts |-> 0]
<1>1. /\ 0 \in 0 .. MaxSegments /\ 0 \in 0 .. MaxTools /\ 0 \in 0 .. 2 /\ 0 \in 0 .. JobAttempts
  OBVIOUS
<1>2. z \in Voice!CallRow /\ z.billed = 0 /\ ~z.keep
  BY <1>1 DEF Voice!NoCall, Voice!CallRow, Voice!CallStatuses, Voice!ConsentStates
<1>3. j \in Voice!JobRow /\ j.status = "none" /\ j.attempts = 0
  BY <1>1 DEF Voice!JobRow
<1>4. vcCall = [c \in Calls |-> z] /\ vcJob = [c \in Calls |-> j]
  OBVIOUS
<1> HIDE DEF z, j
<1>5. CallOK(z) /\ JobOK("none", j, "none")
  BY <1>2, <1>3 DEF CallOK, JobOK
<1>6. Voice!VoiceTypeOK
  BY <1>2, <1>3, <1>4 DEF Voice!VoiceTypeOK, Voice!ConnStatuses, Voice!Places
<1> QED
  BY <1>4, <1>5, <1>6 DEF VoiceInv

\* The row of one call and what is done with its job.
LEMMA VoiceTyped ==
    ASSUME VoiceInv, NEW c \in Calls
    PROVE  /\ CallOK(vcCall[c]) /\ vcCall[c] \in Voice!CallRow
           /\ JobOK(vcRoute[c], vcJob[c], vcWork[c]) /\ vcJob[c] \in Voice!JobRow
           /\ vcConn \in Voice!ConnStatuses /\ vcLock \subseteq Calls
           /\ vcRoute \in [Calls -> {"none", "free", "full", "refused", "routed", "answered"}]
           /\ vcWork \in [Calls -> Voice!Places]
  BY DEF VoiceInv, Voice!VoiceTypeOK, CallOK

\* A step that leaves the calls and their jobs alone.
LEMMA VoiceQuiet ==
    ASSUME VoiceInv, UNCHANGED <<vcCall, vcJob>>, vcConn' \in Voice!ConnStatuses,
           vcRoute' \in [Calls -> {"none", "free", "full", "refused", "routed", "answered"}],
           \A c \in Calls : vcRoute[c] \in {"routed", "answered"}
                               => vcRoute'[c] \in {"routed", "answered"},
           vcLock' \subseteq Calls, vcWork' \in [Calls -> Voice!Places],
           \A c \in Calls : vcWork[c] = "none" => vcWork'[c] = "none"
    PROVE  VoiceStep
<1>1. Voice!VoiceTypeOK'
  BY DEF VoiceInv, Voice!VoiceTypeOK
<1>2. ASSUME NEW c \in Calls PROVE CallOK(vcCall'[c]) /\ JobOK(vcRoute'[c], vcJob'[c], vcWork'[c])
  BY DEF VoiceInv, JobOK
<1>3. Voice!SegmentsAreAllowed
  <2>1. \A c \in Calls : vcCall[c].segments \in Nat
    BY VoiceAssumption DEF VoiceInv, CallOK, Voice!CallRow
  <2> QED
    BY <2>1 DEF Voice!SegmentsAreAllowed
<1> QED
  BY <1>1, <1>2, <1>3 DEF VoiceStep, VoiceInv

\* A step that writes one call.
LEMMA VoiceCallWritten ==
    ASSUME VoiceInv, NEW c \in Calls, NEW r, CallOK(r),
           vcCall' = [vcCall EXCEPT ![c] = r],
           r.segments > vcCall[c].segments => vcCall[c].keep,
           UNCHANGED <<vcConn, vcLock>>,
           vcJob' \in [Calls -> Voice!JobRow], \A d \in Calls : JobOK(vcRoute'[d], vcJob'[d], vcWork'[d]),
           vcRoute' \in [Calls -> {"none", "free", "full", "refused", "routed", "answered"}],
           vcWork' \in [Calls -> Voice!Places]
    PROVE  VoiceStep
<1>1. r \in Voice!CallRow
  BY DEF CallOK
<1>2. vcCall \in [Calls -> Voice!CallRow]
  BY DEF VoiceInv, Voice!VoiceTypeOK
<1>3. Voice!VoiceTypeOK'
  BY <1>1, <1>2 DEF VoiceInv, Voice!VoiceTypeOK
<1>4. ASSUME NEW d \in Calls PROVE CallOK(vcCall'[d])
  BY <1>2 DEF VoiceInv
<1>5. ASSUME NEW d \in Calls, vcCall'[d].segments > vcCall[d].segments
      PROVE  vcCall[d].keep /\ vcCall[d].consent \in {"not_required", "granted"}
  <2>1. vcCall[d].segments \in Nat /\ CallOK(vcCall[d])
    BY VoiceAssumption DEF VoiceInv, CallOK, Voice!CallRow
  <2>2. d = c
    BY <1>2, <1>5, <2>1
  <2>3. vcCall[d].keep
    BY <1>2, <1>5, <2>2
  <2> QED
    BY <2>1, <2>3 DEF CallOK
<1> QED
  BY <1>3, <1>4, <1>5 DEF VoiceStep, VoiceInv, Voice!SegmentsAreAllowed

\* The same by a step that leaves route and job.
LEMMA VoiceHandled ==
    ASSUME VoiceInv, NEW c \in Calls, NEW r, CallOK(r), r.segments = vcCall[c].segments,
           vcCall' = [vcCall EXCEPT ![c] = r],
           UNCHANGED <<vcConn, vcLock, vcJob>>,
           vcRoute' = vcRoute \/ vcRoute' = [vcRoute EXCEPT ![c] = "answered"],
           vcWork' \in [Calls -> Voice!Places],
           \A d \in Calls : vcWork[d] = "none" => vcWork'[d] = "none"
    PROVE  VoiceStep
<1>1. vcCall[c].segments \in Nat
  BY VoiceAssumption DEF VoiceInv, CallOK, Voice!CallRow
<1>2. ~(r.segments > vcCall[c].segments)
  BY <1>1
<1>3. vcJob' \in [Calls -> Voice!JobRow]
  BY DEF VoiceInv, Voice!VoiceTypeOK
<1>4. vcRoute' \in [Calls -> {"none", "free", "full", "refused", "routed", "answered"}]
  BY DEF VoiceInv, Voice!VoiceTypeOK
<1>5. ASSUME NEW d \in Calls PROVE JobOK(vcRoute'[d], vcJob'[d], vcWork'[d])
  BY DEF VoiceInv, Voice!VoiceTypeOK, JobOK
<1> QED
  BY <1>2, <1>3, <1>4, <1>5, VoiceCallWritten

\* finalize_call bills the call that has no end yet.
LEMMA CallFinalized ==
    ASSUME NEW r, CallOK(r), NEW error \in BOOLEAN
    PROVE  LET f == Voice!Finalized(r, error)
           IN  CallOK(f) /\ f.segments = r.segments
<1> DEFINE s == CASE r.status = "transferred" -> r.status
                  [] error                    -> "failed"
                  [] OTHER                    -> "completed"
           f == [r EXCEPT !.ended = TRUE, !.ai = FALSE, !.billed = @ + 1, !.status = s]
<1>1. CASE r.ended
  BY <1>1 DEF Voice!Finalized
<1>2. CASE ~r.ended
  <2>1. /\ r \in Voice!CallRow /\ r.billed = 0 /\ r.billed + 1 = 1 /\ 1 \in 0 .. 2 /\ 1 <= 1
        /\ r.keep => r.consent \in {"not_required", "granted"}
    BY <1>2 DEF CallOK
  <2>2. s \in Voice!CallStatuses
    BY DEF Voice!CallStatuses
  <2>3. Voice!Finalized(r, error) = f
    BY <1>2 DEF Voice!Finalized
  <2> HIDE DEF s
  <2>4. /\ f \in Voice!CallRow /\ f.billed = 1 /\ f.ended /\ f.keep = r.keep
        /\ f.consent = r.consent /\ f.segments = r.segments
    BY <2>1, <2>2 DEF Voice!CallRow
  <2> HIDE DEF f
  <2>5. CallOK(f)
    BY <2>1, <2>4 DEF CallOK
  <2> QED
    BY <2>3, <2>4, <2>5
<1> QED
  BY <1>1, <1>2

\* The number, and the count of calls before the route is committed.
LEMMA VoiceConnection ==
    ASSUME VoiceInv,
           \/ Voice!CreateConnection
           \/ \E s \in {"connected", "paused", "disconnected"} : Voice!SetConnectionState(s)
           \/ \E c \in Calls, b \in BOOLEAN : Voice!RouteBegin(c, b)
    PROVE  VoiceStep
<1>1. /\ vcConn \in Voice!ConnStatuses /\ vcLock \subseteq Calls
      /\ vcRoute \in [Calls -> {"none", "free", "full", "refused", "routed", "answered"}]
      /\ vcWork \in [Calls -> Voice!Places]
  BY DEF VoiceInv, Voice!VoiceTypeOK
<1>2. CASE \/ Voice!CreateConnection
           \/ \E s \in {"connected", "paused", "disconnected"} : Voice!SetConnectionState(s)
  <2>1. vcConn' \in Voice!ConnStatuses /\ UNCHANGED <<vcCall, vcRoute, vcJob, vcLock, vcWork>>
    BY <1>2 DEF Voice!CreateConnection, Voice!SetConnectionState, Voice!ConnStatuses
  <2> QED
    BY <1>1, <2>1, VoiceQuiet
<1>3. ASSUME NEW c \in Calls, NEW b \in BOOLEAN, Voice!RouteBegin(c, b) PROVE VoiceStep
  <2> DEFINE x == CASE b -> "refused"
                    [] Cardinality(Voice!ActiveCalls) >= MaxConcurrent -> "full"
                    [] OTHER -> "free"
  <2>1. /\ vcRoute[c] = "none" /\ vcRoute' = [vcRoute EXCEPT ![c] = x]
        /\ UNCHANGED <<vcConn, vcCall, vcJob, vcLock, vcWork>>
    BY <1>3 DEF Voice!RouteBegin
  <2>2. x \in {"refused", "full", "free"}
    OBVIOUS
  <2> HIDE DEF x
  <2>3. vcRoute' \in [Calls -> {"none", "free", "full", "refused", "routed", "answered"}]
    BY <1>1, <2>1, <2>2
  <2>4. \A d \in Calls : vcRoute[d] \in {"routed", "answered"} => vcRoute'[d] \in {"routed", "answered"}
    BY <1>1, <2>1
  <2> QED
    BY <1>1, <2>1, <2>3, <2>4, VoiceQuiet
<1> QED
  BY <1>2, <1>3

\* The webhook creates the call and its job.
LEMMA VoiceRoutes ==
    ASSUME VoiceInv, NEW c \in Calls, NEW b \in BOOLEAN, NEW stores \in BOOLEAN,
           Voice!RouteCommit(c, b, stores)
    PROVE  VoiceStep
<1> USE VoiceAssumption
<1> DEFINE z == Voice!NoCall
           k == IF b THEN "pending" ELSE "not_required"
           n == [z EXCEPT !.status = "routing", !.consent = k, !.keep = Voice!Kept(b, stores)]
           m == [z EXCEPT !.status = "rejected", !.ended = TRUE]
<1>1. /\ vcRoute \in [Calls -> {"none", "free", "full", "refused", "routed", "answered"}]
      /\ vcRoute[c] \in {"free", "full", "refused"} /\ vcRoute' = [vcRoute EXCEPT ![c] = "routed"]
      /\ vcWork \in [Calls -> Voice!Places] /\ vcJob \in [Calls -> Voice!JobRow]
      /\ UNCHANGED <<vcConn, vcLock, vcWork>>
      /\ vcCall[c].segments \in Nat
      /\ \A d \in Calls : JobOK(vcRoute[d], vcJob[d], vcWork[d])
  BY DEF Voice!RouteCommit, VoiceInv, Voice!VoiceTypeOK, CallOK, Voice!CallRow
<1>2. vcRoute' \in [Calls -> {"none", "free", "full", "refused", "routed", "answered"}]
  BY <1>1
<1>3. /\ 0 \in 0 .. MaxSegments /\ 0 \in 0 .. MaxTools /\ 0 \in 0 .. 2
  OBVIOUS
<1>4. z \in Voice!CallRow /\ z.billed = 0 /\ ~z.keep /\ z.segments = 0
  BY <1>3 DEF Voice!NoCall, Voice!CallRow, Voice!CallStatuses, Voice!ConsentStates
<1>5. vcJob[c].attempts = 0 /\ vcJob[c] \in Voice!JobRow
  BY <1>1 DEF JobOK
<1>6. /\ k \in Voice!ConsentStates /\ Voice!Kept(b, stores) \in BOOLEAN
      /\ Voice!Kept(b, stores) => k = "not_required"
  BY DEF Voice!ConsentStates, Voice!Kept
<1>7. CASE vcRoute[c] = "free"
  <2>1. /\ vcCall' = [vcCall EXCEPT ![c] = n]
        /\ vcJob' = [vcJob EXCEPT ![c] = [vcJob[c] EXCEPT !.status = "pending"]]
    BY <1>7 DEF Voice!RouteCommit
  <2> HIDE DEF z, k
  <2>2. /\ n \in Voice!CallRow /\ n.billed = 0 /\ n.consent = k /\ n.segments = 0
        /\ n.keep => Voice!Kept(b, stores)
    BY <1>4, <1>6 DEF Voice!CallRow, Voice!CallStatuses
  <2> HIDE DEF n
  <2>3. CallOK(n)
    BY <1>6, <2>2 DEF CallOK
  <2> DEFINE j == [vcJob[c] EXCEPT !.status = "pending"]
  <2>4. j \in Voice!JobRow /\ j.attempts = 0 /\ j.status = "pending"
    BY <1>5 DEF Voice!JobRow
  <2>5. vcJob' = [vcJob EXCEPT ![c] = j]
    BY <2>1
  <2> HIDE DEF j
  <2>6. JobOK("routed", j, vcWork[c])
    BY <2>4 DEF JobOK
  <2>7. vcJob' \in [Calls -> Voice!JobRow] /\ \A d \in Calls : JobOK(vcRoute'[d], vcJob'[d], vcWork'[d])
    BY <1>1, <2>4, <2>5, <2>6
  <2>8. ~(n.segments > vcCall[c].segments)
    BY <1>1, <2>2
  <2> QED
    BY <1>1, <1>2, <2>1, <2>3, <2>7, <2>8, VoiceCallWritten
<1>8. CASE vcRoute[c] # "free"
  <2>1. vcCall' = [vcCall EXCEPT ![c] = m] /\ UNCHANGED vcJob
    BY <1>8 DEF Voice!RouteCommit
  <2> HIDE DEF z
  <2>2. m \in Voice!CallRow /\ m.billed = 0 /\ ~m.keep /\ m.segments = 0
    BY <1>4 DEF Voice!CallRow, Voice!CallStatuses
  <2> HIDE DEF m
  <2>3. CallOK(m)
    BY <2>2 DEF CallOK
  <2>4. vcJob' \in [Calls -> Voice!JobRow] /\ \A d \in Calls : JobOK(vcRoute'[d], vcJob'[d], vcWork'[d])
    BY <1>1, <2>1 DEF JobOK
  <2>5. ~(m.segments > vcCall[c].segments)
    BY <1>1, <2>2
  <2> QED
    BY <1>1, <1>2, <2>1, <2>3, <2>4, <2>5, VoiceCallWritten
<1> QED
  BY <1>7, <1>8

\* What the webhook, the carrier and the employee write.
LEMMA VoiceCalls ==
    ASSUME VoiceInv, NEW c \in Calls,
           \/ Voice!Accept(c) \/ Voice!AcceptBlocked(c)
           \/ Voice!TakeOver(c) \/ Voice!DeleteTranscript(c)
           \/ \E b \in BOOLEAN : Voice!CarrierStatus(c, b)
    PROVE  VoiceStep
<1> DEFINE r == vcCall[c]
<1>1. /\ CallOK(r) /\ r \in Voice!CallRow /\ r.billed <= 1
      /\ ~r.ended => r.billed = 0
      /\ r.keep => r.consent \in {"not_required", "granted"}
      /\ vcWork \in [Calls -> Voice!Places]
  BY VoiceTyped DEF CallOK
<1>2. ASSUME NEW n, n \in Voice!CallRow, n.billed = r.billed, r.ended => n.ended,
             n.keep => r.keep, n.consent = r.consent
      PROVE  CallOK(n)
  BY <1>1, <1>2 DEF CallOK
<1>3. CASE Voice!Accept(c)
  <2> DEFINE s == IF r.status = "routing" THEN "accepted" ELSE r.status
             n == [r EXCEPT !.status = s]
  <2>1. s \in Voice!CallStatuses
    BY <1>1 DEF Voice!CallRow, Voice!CallStatuses
  <2>2. /\ vcCall' = [vcCall EXCEPT ![c] = n] /\ vcRoute' = [vcRoute EXCEPT ![c] = "answered"]
        /\ UNCHANGED <<vcConn, vcJob, vcLock, vcWork>>
    BY <1>3 DEF Voice!Accept
  <2> HIDE DEF s
  <2>3. /\ n \in Voice!CallRow /\ n.billed = r.billed /\ n.ended = r.ended /\ n.keep = r.keep
        /\ n.consent = r.consent /\ n.segments = r.segments
    BY <1>1, <2>1 DEF Voice!CallRow
  <2> HIDE DEF n
  <2>4. CallOK(n)
    BY <1>2, <2>3
  <2> QED
    BY <1>1, <2>2, <2>3, <2>4, VoiceHandled
<1>4. CASE Voice!AcceptBlocked(c)
  <2> DEFINE n == [r EXCEPT !.status = "rejected", !.ended = TRUE]
  <2>1. /\ vcCall' = [vcCall EXCEPT ![c] = n] /\ vcRoute' = [vcRoute EXCEPT ![c] = "answered"]
        /\ UNCHANGED <<vcConn, vcJob, vcLock, vcWork>>
    BY <1>4 DEF Voice!AcceptBlocked
  <2>2. /\ n \in Voice!CallRow /\ n.billed = r.billed /\ n.ended /\ n.keep = r.keep
        /\ n.consent = r.consent /\ n.segments = r.segments
    BY <1>1 DEF Voice!CallRow, Voice!CallStatuses
  <2> HIDE DEF n
  <2>3. CallOK(n)
    BY <1>2, <2>2
  <2> QED
    BY <1>1, <2>1, <2>2, <2>3, VoiceHandled
<1>5. CASE Voice!TakeOver(c)
  <2> DEFINE n == [r EXCEPT !.ai = FALSE, !.taken = TRUE]
  <2>1. /\ vcCall' = [vcCall EXCEPT ![c] = n]
        /\ UNCHANGED <<vcConn, vcRoute, vcJob, vcLock, vcWork>>
    BY <1>5 DEF Voice!TakeOver
  <2>2. /\ n \in Voice!CallRow /\ n.billed = r.billed /\ n.ended = r.ended /\ n.keep = r.keep
        /\ n.consent = r.consent /\ n.segments = r.segments
    BY <1>1 DEF Voice!CallRow
  <2> HIDE DEF n
  <2>3. CallOK(n)
    BY <1>2, <2>2
  <2> QED
    BY <1>1, <2>1, <2>2, <2>3, VoiceHandled
<1>6. CASE Voice!DeleteTranscript(c)
  <2> DEFINE n == [r EXCEPT !.segments = 0]
  <2>1. /\ vcCall' = [vcCall EXCEPT ![c] = n] /\ r.segments > 0
        /\ UNCHANGED <<vcConn, vcRoute, vcJob, vcLock, vcWork>>
    BY <1>6 DEF Voice!DeleteTranscript
  <2>2. 0 \in 0 .. MaxSegments
    BY VoiceAssumption
  <2>3. /\ n \in Voice!CallRow /\ n.billed = r.billed /\ n.ended = r.ended /\ n.keep = r.keep
        /\ n.consent = r.consent /\ n.segments = 0
    BY <1>1, <2>2 DEF Voice!CallRow
  <2>4. r.segments \in Nat
    BY <1>1, VoiceAssumption DEF Voice!CallRow
  <2> HIDE DEF n
  <2>5. CallOK(n)
    BY <1>2, <2>3
  <2>6. ~(n.segments > vcCall[c].segments)
    BY <2>3, <2>4
  <2>7. /\ vcJob' \in [Calls -> Voice!JobRow] /\ \A d \in Calls : JobOK(vcRoute'[d], vcJob'[d], vcWork'[d])
        /\ vcRoute' \in [Calls -> {"none", "free", "full", "refused", "routed", "answered"}]
    BY <2>1 DEF VoiceInv, Voice!VoiceTypeOK, JobOK
  <2> QED
    BY <1>1, <2>1, <2>5, <2>6, <2>7, VoiceCallWritten
<1>7. ASSUME NEW b \in BOOLEAN, Voice!CarrierStatus(c, b) PROVE VoiceStep
  <2> DEFINE n == Voice!Finalized(r, b)
  <2>1. CallOK(n) /\ n.segments = r.segments
    BY <1>1, CallFinalized
  <2>2. /\ vcCall' = [vcCall EXCEPT ![c] = n]
        /\ UNCHANGED <<vcConn, vcRoute, vcJob, vcLock, vcWork>>
    BY <1>7 DEF Voice!CarrierStatus
  <2> HIDE DEF n
  <2> QED
    BY <1>1, <2>1, <2>2, VoiceHandled
<1> QED
  BY <1>3, <1>4, <1>5, <1>6, <1>7

\* The steps of the worker that write no call.
LEMMA VoiceWorks ==
    ASSUME VoiceInv, NEW c \in Calls,
           \/ Voice!SegmentBegin(c) \/ Voice!Refresh(c) \/ Voice!StreamEnds(c)
           \/ Voice!GatewayDies(c) \/ Voice!LockExpires(c)
           \/ Voice!Claim(c) \/ Voice!Release(c)
    PROVE  VoiceStep
<1>1. /\ vcConn \in Voice!ConnStatuses /\ vcLock \subseteq Calls
      /\ vcRoute \in [Calls -> {"none", "free", "full", "refused", "routed", "answered"}]
      /\ vcWork \in [Calls -> Voice!Places]
      /\ vcJob[c] \in Voice!JobRow /\ JobOK(vcRoute[c], vcJob[c], vcWork[c])
  BY VoiceTyped
<1>2. CASE \/ Voice!SegmentBegin(c) \/ Voice!Refresh(c) \/ Voice!StreamEnds(c)
           \/ Voice!GatewayDies(c) \/ Voice!LockExpires(c)
  <2>1. vcWork' \in [Calls -> Voice!Places]
    BY <1>1, <1>2 DEF Voice!SegmentBegin, Voice!Refresh, Voice!StreamEnds, Voice!GatewayDies,
       Voice!LockExpires, Voice!At, Voice!Places
  <2>2. vcLock' \subseteq Calls /\ UNCHANGED <<vcConn, vcCall, vcRoute, vcJob>>
    BY <1>1, <1>2 DEF Voice!SegmentBegin, Voice!Refresh, Voice!StreamEnds, Voice!GatewayDies,
       Voice!LockExpires
  <2>3. \A d \in Calls : vcWork[d] = "none" => vcWork'[d] = "none"
    BY <1>1, <1>2 DEF Voice!SegmentBegin, Voice!Refresh, Voice!StreamEnds, Voice!GatewayDies,
       Voice!LockExpires, Voice!At
  <2> QED
    BY <1>1, <2>1, <2>2, <2>3, VoiceQuiet
<1>3. ASSUME NEW j, j \in Voice!JobRow, JobOK(vcRoute[c], j, vcWork'[c]),
             vcJob' = [vcJob EXCEPT ![c] = j], NEW p \in Voice!Places,
             vcWork' = [vcWork EXCEPT ![c] = p], vcLock' \subseteq Calls,
             UNCHANGED <<vcConn, vcCall, vcRoute>>
      PROVE  VoiceStep
  <2>1. Voice!VoiceTypeOK'
    BY <1>3 DEF VoiceInv, Voice!VoiceTypeOK
  <2>2. ASSUME NEW d \in Calls
        PROVE  CallOK(vcCall'[d]) /\ JobOK(vcRoute'[d], vcJob'[d], vcWork'[d])
    BY <1>1, <1>3 DEF VoiceInv, Voice!VoiceTypeOK
  <2>3. \A d \in Calls : vcCall[d].segments \in Nat
    BY VoiceAssumption DEF VoiceInv, CallOK, Voice!CallRow
  <2>4. Voice!SegmentsAreAllowed
    BY <1>3, <2>3 DEF Voice!SegmentsAreAllowed
  <2> QED
    BY <2>1, <2>2, <2>4 DEF VoiceStep, VoiceInv
<1>4. CASE Voice!Claim(c)
  <2> DEFINE j == [status |-> "running", attempts |-> vcJob[c].attempts + 1]
  <2>1. /\ vcJob[c].status = "pending" /\ vcJob' = [vcJob EXCEPT ![c] = j]
        /\ vcLock' = vcLock \cup {c} /\ vcWork' = [vcWork EXCEPT ![c] = "claimed"]
        /\ UNCHANGED <<vcConn, vcCall, vcRoute>>
    BY <1>4 DEF Voice!Claim, Voice!At
  <2>2. vcJob[c].attempts < JobAttempts /\ vcJob[c].attempts + 1 \in 0 .. JobAttempts
    BY <1>1, <2>1, VoiceAssumption DEF JobOK, Voice!JobRow
  <2>3. j \in Voice!JobRow /\ j.status = "running"
    BY <2>2 DEF Voice!JobRow
  <2>4. vcRoute[c] \in {"routed", "answered"}
    BY <1>1, <2>1 DEF JobOK
  <2> HIDE DEF j
  <2>5. JobOK(vcRoute[c], j, vcWork'[c])
    BY <2>3, <2>4 DEF JobOK
  <2>6. vcLock' \subseteq Calls /\ "claimed" \in Voice!Places
    BY <1>1, <2>1 DEF Voice!Places
  <2> QED
    BY <1>3, <2>1, <2>3, <2>5, <2>6
<1>5. CASE Voice!Release(c)
  <2> DEFINE s == CASE vcWork[c] = "release"          -> "completed"
                    [] vcJob[c].attempts < JobAttempts -> "pending"
                    [] OTHER                           -> "failed"
             j == [vcJob[c] EXCEPT !.status = s]
  <2>1. /\ vcJob' = [vcJob EXCEPT ![c] = j]
        /\ vcLock' = vcLock \ {c} /\ vcWork' = [vcWork EXCEPT ![c] = "none"]
        /\ UNCHANGED <<vcConn, vcCall, vcRoute>>
    BY <1>5 DEF Voice!Release
  <2>2. s \in {"completed", "pending", "failed"} /\ (s = "pending" => vcJob[c].attempts < JobAttempts)
    OBVIOUS
  <2> HIDE DEF s
  <2>3. j \in Voice!JobRow /\ j.status = s /\ j.attempts = vcJob[c].attempts
    BY <1>1, <2>2 DEF Voice!JobRow
  <2> HIDE DEF j
  <2>4. JobOK(vcRoute[c], j, vcWork'[c])
    BY <1>1, <1>5, <2>2, <2>3 DEF Voice!Release, JobOK
  <2>5. vcLock' \subseteq Calls /\ "none" \in Voice!Places
    BY <1>1, <2>1 DEF Voice!Places
  <2> QED
    BY <1>3, <2>1, <2>3, <2>4, <2>5
<1> QED
  BY <1>2, <1>4, <1>5

\* The handlers of the session.
LEMMA VoiceHandles ==
    ASSUME VoiceInv, NEW c \in Calls,
           \/ Voice!RunBegin(c) \/ Voice!Tool(c) \/ Voice!Transferred(c)
           \/ Voice!TransferFails(c) \/ Voice!TakenByEvent(c)
           \/ \E b, stores \in BOOLEAN : Voice!Consent(c, b, stores)
    PROVE  VoiceStep
<1> DEFINE r == vcCall[c]
<1>1. /\ CallOK(r) /\ r \in Voice!CallRow /\ r.billed <= 1
      /\ ~r.ended => r.billed = 0
      /\ r.keep => r.consent \in {"not_required", "granted"}
      /\ vcWork \in [Calls -> Voice!Places]
  BY VoiceTyped DEF CallOK
<1>2. ASSUME NEW n, n \in Voice!CallRow, n.billed = r.billed, n.ended = r.ended,
             n.keep => n.consent \in {"not_required", "granted"}, n.segments = r.segments,
             vcCall' = [vcCall EXCEPT ![c] = n], NEW p \in Voice!Places,
             vcWork[c] # "none", vcWork' = [vcWork EXCEPT ![c] = p],
             UNCHANGED <<vcConn, vcRoute, vcJob, vcLock>>
      PROVE  VoiceStep
  <2>1. CallOK(n)
    BY <1>1, <1>2 DEF CallOK
  <2>2. vcWork' \in [Calls -> Voice!Places]
    BY <1>1, <1>2
  <2>3. \A d \in Calls : vcWork[d] = "none" => vcWork'[d] = "none"
    BY <1>1, <1>2
  <2> QED
    BY <1>2, <2>1, <2>2, <2>3, VoiceHandled
<1>3. CASE Voice!RunBegin(c)
  <2> DEFINE n == [r EXCEPT !.status = "active"]
  <2>1. /\ vcCall' = [vcCall EXCEPT ![c] = n] /\ "reading" \in Voice!Places
        /\ vcWork[c] # "none" /\ vcWork' = [vcWork EXCEPT ![c] = "reading"]
        /\ UNCHANGED <<vcConn, vcRoute, vcJob, vcLock>>
    BY <1>1, <1>3 DEF Voice!RunBegin, Voice!At, Voice!Places
  <2>2. /\ n \in Voice!CallRow /\ n.billed = r.billed /\ n.ended = r.ended
        /\ n.keep = r.keep /\ n.consent = r.consent /\ n.segments = r.segments
    BY <1>1 DEF Voice!CallRow, Voice!CallStatuses
  <2> HIDE DEF n
  <2> QED
    BY <1>1, <1>2, <2>1, <2>2
<1>4. ASSUME NEW n, Voice!Handles(c, n)
      PROVE  /\ vcCall' = [vcCall EXCEPT ![c] = n] /\ "handled" \in Voice!Places
             /\ vcWork[c] # "none" /\ vcWork' = [vcWork EXCEPT ![c] = "handled"]
             /\ UNCHANGED <<vcConn, vcRoute, vcJob, vcLock>>
  BY <1>1, <1>4 DEF Voice!Handles, Voice!At, Voice!Places
<1>5. CASE Voice!Tool(c)
  <2> DEFINE n == [r EXCEPT !.tools = @ + 1]
  <2>1. Voice!Handles(c, n) /\ r.tools + 1 \in 0 .. MaxTools
    BY <1>1, <1>5, VoiceAssumption DEF Voice!Tool, Voice!CallRow
  <2>2. /\ n \in Voice!CallRow /\ n.billed = r.billed /\ n.ended = r.ended
        /\ n.keep = r.keep /\ n.consent = r.consent /\ n.segments = r.segments
    BY <1>1, <2>1 DEF Voice!CallRow
  <2> HIDE DEF n
  <2> QED
    BY <1>1, <1>2, <1>4, <2>1, <2>2
<1>6. CASE Voice!Transferred(c)
  <2> DEFINE n == [r EXCEPT !.status = "transferred", !.ai = FALSE]
  <2>1. Voice!Handles(c, n)
    BY <1>6 DEF Voice!Transferred
  <2>2. /\ n \in Voice!CallRow /\ n.billed = r.billed /\ n.ended = r.ended
        /\ n.keep = r.keep /\ n.consent = r.consent /\ n.segments = r.segments
    BY <1>1 DEF Voice!CallRow, Voice!CallStatuses
  <2> HIDE DEF n
  <2> QED
    BY <1>1, <1>2, <1>4, <2>1, <2>2
<1>7. CASE Voice!TransferFails(c)
  <2> DEFINE n == [r EXCEPT !.status = "transfer_requested"]
  <2>1. Voice!Handles(c, n)
    BY <1>7 DEF Voice!TransferFails
  <2>2. /\ n \in Voice!CallRow /\ n.billed = r.billed /\ n.ended = r.ended
        /\ n.keep = r.keep /\ n.consent = r.consent /\ n.segments = r.segments
    BY <1>1 DEF Voice!CallRow, Voice!CallStatuses
  <2> HIDE DEF n
  <2> QED
    BY <1>1, <1>2, <1>4, <2>1, <2>2
<1>8. CASE Voice!TakenByEvent(c)
  <2> DEFINE n == [r EXCEPT !.ai = FALSE, !.taken = TRUE]
  <2>1. Voice!Handles(c, n)
    BY <1>8 DEF Voice!TakenByEvent
  <2>2. /\ n \in Voice!CallRow /\ n.billed = r.billed /\ n.ended = r.ended
        /\ n.keep = r.keep /\ n.consent = r.consent /\ n.segments = r.segments
    BY <1>1 DEF Voice!CallRow
  <2> HIDE DEF n
  <2> QED
    BY <1>1, <1>2, <1>4, <2>1, <2>2
<1>9. ASSUME NEW b \in BOOLEAN, NEW stores \in BOOLEAN, Voice!Consent(c, b, stores)
      PROVE  VoiceStep
  <2> DEFINE k == IF b THEN "granted" ELSE "declined"
             p == b /\ stores
             n == [r EXCEPT !.consent = k, !.keep = p]
  <2>1. Voice!Handles(c, n)
    BY <1>9 DEF Voice!Consent
  <2>2. k \in Voice!ConsentStates /\ p \in BOOLEAN /\ (p => k = "granted")
    BY DEF Voice!ConsentStates
  <2> HIDE DEF k, p
  <2>3. /\ n \in Voice!CallRow /\ n.billed = r.billed /\ n.ended = r.ended
        /\ n.keep = p /\ n.consent = k /\ n.segments = r.segments
    BY <1>1, <2>2 DEF Voice!CallRow
  <2> HIDE DEF n
  <2> QED
    BY <1>2, <1>4, <2>1, <2>2, <2>3
<1> QED
  BY <1>3, <1>5, <1>6, <1>7, <1>8, <1>9

\* The steps that may give the call its end.
LEMMA VoiceEnds ==
    ASSUME VoiceInv, NEW c \in Calls,
           \/ Voice!Unclear(c) \/ Voice!Completed(c) \/ Voice!RunEnd(c) \/ Voice!RunFailed(c)
           \/ \E b \in BOOLEAN : Voice!Breaks(c, b)
    PROVE  VoiceStep
<1> DEFINE r == vcCall[c]
<1>1. /\ CallOK(r) /\ vcWork \in [Calls -> Voice!Places] /\ vcLock \subseteq Calls
      /\ vcConn \in Voice!ConnStatuses
      /\ vcRoute \in [Calls -> {"none", "free", "full", "refused", "routed", "answered"}]
  BY VoiceTyped
<1>2. vcWork' \in [Calls -> Voice!Places] /\ UNCHANGED <<vcConn, vcRoute, vcJob, vcLock>>
  BY <1>1 DEF Voice!Unclear, Voice!Completed, Voice!RunEnd, Voice!RunFailed, Voice!Breaks,
     Voice!Handles, Voice!At, Voice!Places
<1>3. \A d \in Calls : vcWork[d] = "none" => vcWork'[d] = "none"
  BY <1>1 DEF Voice!Unclear, Voice!Completed, Voice!RunEnd, Voice!RunFailed, Voice!Breaks,
     Voice!Handles, Voice!At
<1>4. \/ \E e \in BOOLEAN : vcCall' = [vcCall EXCEPT ![c] = Voice!Finalized(r, e)]
      \/ UNCHANGED vcCall
  BY DEF Voice!Unclear, Voice!Completed, Voice!RunEnd, Voice!RunFailed, Voice!Breaks,
     Voice!Handles
<1>5. ASSUME NEW e \in BOOLEAN, vcCall' = [vcCall EXCEPT ![c] = Voice!Finalized(r, e)]
      PROVE  VoiceStep
  <2> DEFINE n == Voice!Finalized(r, e)
  <2>1. CallOK(n) /\ n.segments = r.segments
    BY <1>1, CallFinalized
  <2>2. vcCall' = [vcCall EXCEPT ![c] = n]
    BY <1>5
  <2> HIDE DEF n
  <2> QED
    BY <1>2, <1>3, <2>1, <2>2, VoiceHandled
<1>6. CASE UNCHANGED vcCall
  BY <1>1, <1>2, <1>6, <1>3, VoiceQuiet
<1> QED
  BY <1>4, <1>5, <1>6

\* A segment is stored: the row says that it may be kept.
LEMMA VoiceSegments ==
    ASSUME VoiceInv, NEW c \in Calls, Voice!SegmentEnd(c)
    PROVE  VoiceStep
<1> DEFINE r == vcCall[c]
           x == IF r.keep /\ r.segments < MaxSegments THEN r.segments + 1 ELSE r.segments
           n == [r EXCEPT !.segments = x]
<1>1. /\ CallOK(r) /\ r \in Voice!CallRow /\ vcWork \in [Calls -> Voice!Places]
      /\ r.segments \in 0 .. MaxSegments
  BY VoiceTyped DEF Voice!CallRow
<1>2. x \in 0 .. MaxSegments /\ (x > r.segments => r.keep)
  BY <1>1, VoiceAssumption
<1>3. /\ vcCall' = [vcCall EXCEPT ![c] = n] /\ vcWork' \in [Calls -> Voice!Places]
      /\ UNCHANGED <<vcConn, vcRoute, vcJob, vcLock>>
  BY <1>1 DEF Voice!SegmentEnd, Voice!At, Voice!Places
<1>4. \A d \in Calls : vcWork[d] = "none" => vcWork'[d] = "none"
  BY <1>1 DEF Voice!SegmentEnd, Voice!At
<1> HIDE DEF x
<1>5. /\ n \in Voice!CallRow /\ n.billed = r.billed /\ n.ended = r.ended
      /\ n.keep = r.keep /\ n.consent = r.consent /\ n.segments = x
  BY <1>1, <1>2 DEF Voice!CallRow
<1> HIDE DEF n
<1>6. CallOK(n)
  BY <1>1, <1>5 DEF CallOK
<1>7. /\ vcJob' \in [Calls -> Voice!JobRow]
      /\ \A d \in Calls : JobOK(vcRoute'[d], vcJob'[d], vcWork'[d])
      /\ vcRoute' \in [Calls -> {"none", "free", "full", "refused", "routed", "answered"}]
  BY <1>3, <1>4 DEF VoiceInv, Voice!VoiceTypeOK, JobOK
<1> QED
  BY <1>2, <1>3, <1>5, <1>6, <1>7, VoiceCallWritten

-----------------------------------------------------------------------------
(* The channels together: a step belongs to the part that runs.            *)

\* The invariant of the part that runs.
ChannelsInv ==
    /\ focus \in {"sms", "gmail", "reply", "instagram", "telegram", "web_chat", "voice"}
    /\ focus = "sms" => SmsInv
    /\ focus = "gmail" => GmailInv
    /\ focus = "reply" => ReplyInv
    /\ focus = "instagram" => InstagramInv
    /\ focus = "telegram" => TelegramInv
    /\ focus = "web_chat" => WebChatInv
    /\ focus = "voice" => VoiceInv

\* Nothing changes.
LEMMA ChannelsRest ==
    ASSUME ChannelsInv, UNCHANGED vars
    PROVE  /\ ChannelsInv'
           /\ focus = "sms" => SmsStep
           /\ focus = "gmail" => GmailStep
           /\ focus = "voice" => VoiceStep
<1> USE DEF vars
<1>1. ASSUME SmsInv PROVE SmsStep
  <2>1. SmsOthersOK'
    BY <1>1 DEF SmsInv, Sms!SmsTypeOK, SmsOthersOK
  <2> QED
    BY <1>1, <2>1, SmsRest DEF SmsInv, Reachable
<1>2. ASSUME GmailInv PROVE GmailStep
  <2>1. Gmail!GmailTypeOK' /\ gmHead <= gmHead'
    BY <1>2 DEF GmailInv, Gmail!GmailTypeOK
  <2> QED
    BY <1>2, <2>1, GmailQuiet
<1>3. ASSUME ReplyInv PROVE ReplyInv'
  <2>1. /\ grReady \in BOOLEAN /\ grLock \in BOOLEAN
        /\ grReq \in [Requests -> {"start", "checked", "locked", "calling", "done"}]
    BY <1>3 DEF ReplyInv, Reply!ReplyTypeOK
  <2> QED
    BY <1>3, <2>1, ReplyQuiet
<1>4. ASSUME InstagramInv PROVE InstagramInv'
  BY <1>4 DEF InstagramInv, Instagram!InstagramTypeOK
<1>5. ASSUME TelegramInv PROVE TelegramInv'
  BY <1>5, TelegramQuiet DEF TelegramInv, Telegram!TelegramTypeOK
<1>6. ASSUME WebChatInv PROVE WebChatInv'
  BY <1>6, WebTyped, WebQuiet DEF WebChatInv
<1>7. ASSUME VoiceInv PROVE VoiceStep
  <2>1. /\ vcConn \in Voice!ConnStatuses /\ vcLock \subseteq Calls
        /\ vcRoute \in [Calls -> {"none", "free", "full", "refused", "routed", "answered"}]
        /\ vcWork \in [Calls -> Voice!Places]
    BY <1>7 DEF VoiceInv, Voice!VoiceTypeOK
  <2> QED
    BY <1>7, <2>1, VoiceQuiet
<1> QED
  BY <1>1, <1>2, <1>3, <1>4, <1>5, <1>6, <1>7 DEF ChannelsInv, SmsStep, GmailStep, VoiceStep

\* Every step of the part, by the lemma of its action.
LEMMA SmsPart ==
    ASSUME SmsInv, SmsSteps
    PROVE  SmsStep /\ focus = "sms" /\ UNCHANGED focus
  BY SmsConnection, SmsWebhooks, SmsSends, SmsRetries, SmsConsents, SmsErases
     DEF SmsSteps, Keep8

\* Every step of the part, by the lemma of its action.
LEMMA GmailPart ==
    ASSUME GmailInv, GmailSteps
    PROVE  GmailStep /\ focus = "gmail" /\ UNCHANGED focus
<1>1. ASSUME NEW b \in BOOLEAN, Gmail!SyncCrash(b) PROVE GmailStep
  <2>1. CASE b = TRUE
    BY <1>1, <2>1, GmailIngests
  <2>2. CASE b = FALSE
    BY <1>1, <2>2, GmailSyncs
  <2> QED
    BY <2>1, <2>2
<1>2. ASSUME Gmail!ReconcileHistory PROVE GmailStep
  <2>1. CASE gmConn.cursor = 0
    <3>1. Gmail!ReconcileHistory /\ gmConn.cursor = 0
      BY <1>2, <2>1
    <3> QED
      BY <3>1, GmailSyncs
  <2>2. CASE gmConn.cursor # 0
    BY <1>2, <2>2, GmailReconciles
  <2> QED
    BY <2>1, <2>2
<1> QED
  BY <1>1, <1>2, GmailConnection, GmailSyncs, GmailIngests, GmailNotes, GmailFails, GmailNotified
     DEF GmailSteps, Keep7

\* Every step of the part, by the lemma of its action.
LEMMA ReplyPart ==
    ASSUME ReplyInv, ReplySteps
    PROVE  ReplyInv' /\ focus = "reply" /\ UNCHANGED focus
  BY ReplyMoves, ReplyInserted, ReplyAnswered, ReplyCrashes, ReplyRetries
     DEF ReplySteps, Keep4

\* Every step of the part, by the lemma of its action.
LEMMA InstagramPart ==
    ASSUME InstagramInv, InstagramSteps
    PROVE  InstagramInv' /\ focus = "instagram" /\ UNCHANGED focus
  BY InstagramConnection, InstagramWebhooks, InstagramSends, InstagramRetries
     DEF InstagramSteps, Keep7

\* Every step of the part, by the lemma of its action.
LEMMA TelegramPart ==
    ASSUME TelegramInv, TelegramSteps
    PROVE  TelegramInv' /\ focus = "telegram" /\ UNCHANGED focus
  BY TelegramProvisions, TelegramConnection, TelegramUpdates, TelegramCommands, TelegramSends,
     TelegramRetries
     DEF TelegramSteps, Keep7

\* Every step of the part, by the lemma of its action.
LEMMA WebChatPart ==
    ASSUME WebChatInv, WebChatSteps
    PROVE  WebChatInv' /\ focus = "web_chat" /\ UNCHANGED focus
  BY WebInstallation, WebRequests, WebVisits, WebLocks, WebPosts, WebReplies
     DEF WebChatSteps, Keep9

\* Every step of the part, by the lemma of its action.
LEMMA VoicePart ==
    ASSUME VoiceInv, VoiceSteps
    PROVE  VoiceStep /\ focus = "voice" /\ UNCHANGED focus
  BY VoiceConnection, VoiceRoutes, VoiceCalls, VoiceWorks, VoiceHandles, VoiceEnds,
     VoiceSegments
     DEF VoiceSteps, Keep6

\* Every step keeps the invariant and does what the action properties say.
LEMMA ChannelsStep ==
    ASSUME ChannelsInv, [ChannelsNext]_vars
    PROVE  /\ ChannelsInv'
           /\ focus = "sms" => SmsStep
           /\ focus = "gmail" => GmailStep
           /\ focus = "voice" => VoiceStep
<1>1. CASE SmsSteps
  <2>1. focus = "sms"
    BY <1>1 DEF SmsSteps
  <2> QED
    BY <1>1, <2>1, SmsPart DEF ChannelsInv, SmsStep, GmailStep, VoiceStep
<1>2. CASE GmailSteps
  <2>1. focus = "gmail"
    BY <1>2 DEF GmailSteps
  <2> QED
    BY <1>2, <2>1, GmailPart DEF ChannelsInv, SmsStep, GmailStep, VoiceStep
<1>3. CASE ReplySteps
  <2>1. focus = "reply"
    BY <1>3 DEF ReplySteps
  <2> QED
    BY <1>3, <2>1, ReplyPart DEF ChannelsInv, SmsStep, GmailStep, VoiceStep
<1>4. CASE InstagramSteps
  <2>1. focus = "instagram"
    BY <1>4 DEF InstagramSteps
  <2> QED
    BY <1>4, <2>1, InstagramPart DEF ChannelsInv, SmsStep, GmailStep, VoiceStep
<1>5. CASE TelegramSteps
  <2>1. focus = "telegram"
    BY <1>5 DEF TelegramSteps
  <2> QED
    BY <1>5, <2>1, TelegramPart DEF ChannelsInv, SmsStep, GmailStep, VoiceStep
<1>6. CASE WebChatSteps
  <2>1. focus = "web_chat"
    BY <1>6 DEF WebChatSteps
  <2> QED
    BY <1>6, <2>1, WebChatPart DEF ChannelsInv, SmsStep, GmailStep, VoiceStep
<1>7. CASE VoiceSteps
  <2>1. focus = "voice"
    BY <1>7 DEF VoiceSteps
  <2> QED
    BY <1>7, <2>1, VoicePart DEF ChannelsInv, SmsStep, GmailStep, VoiceStep
<1>8. CASE UNCHANGED vars
  BY <1>8, ChannelsRest
<1> QED
  BY <1>1, <1>2, <1>3, <1>4, <1>5, <1>6, <1>7, <1>8 DEF ChannelsNext

\* The initial states satisfy the invariant.
LEMMA ChannelsStart == ChannelsInit => ChannelsInv
  BY SmsStarts, GmailStarts, ReplyStarts, InstagramStarts, TelegramStarts, WebChatStarts,
     VoiceStarts DEF ChannelsInit, ChannelsInv

\* The invariant holds in every state.
LEMMA ChannelsInvariance == ChannelsSpec => []ChannelsInv
<1>1. ChannelsInv /\ [ChannelsNext]_vars => ChannelsInv'
  BY ChannelsStep
<1> QED
  BY <1>1, ChannelsStart, PTL DEF ChannelsSpec

-----------------------------------------------------------------------------
(* Every channel keeps its rows within what its models allow.              *)
THEOREM ChannelsTyped == ChannelsSpec => []ChannelsTypeOK
<1>1. ChannelsInv => ChannelsTypeOK
  BY DEF ChannelsInv, ChannelsTypeOK, SmsInv, GmailInv, ReplyInv, InstagramInv, TelegramInv,
     WebChatInv, VoiceInv
<1> QED
  BY <1>1, ChannelsInvariance, PTL

(* However requests overlap and processes die, a Gmail reply is handed     *)
(* over once more only after an answer that was lost, and a reply on       *)
(* Instagram that is stored under Meta's id has no copy made by its echo,  *)
(* whichever of the two came first (send_gmail_message,                    *)
(* process_webhook_event).                                                 *)
THEOREM RepliesStaySingle == ChannelsSpec => []RepliesAreSingle
<1>1. ReplyInv => Reply!ReplyHandedOnce
  BY DEF ReplyInv, OutOK, Reply!ReplyHandedOnce
<1>2. InstagramInv => Instagram!ReplyIsOneMessage
  BY DEF InstagramInv, IgMsgOK, Instagram!ReplyIsOneMessage
<1>3. ChannelsInv => RepliesAreSingle
  BY <1>1, <1>2 DEF ChannelsInv, RepliesAreSingle
<1> QED
  BY <1>3, ChannelsInvariance, PTL

(* Repeated deliveries, overlapping synchronisations and dead workers act  *)
(* once: the assistant is asked about a mail once, an update of the bot    *)
(* has one effect, a call is billed once.                                  *)
THEOREM DeliveriesStaySingle == ChannelsSpec => []DeliveriesActOnce
<1>1. GmailInv => Gmail!AskedOnce
  BY DEF GmailInv, Gmail!AskedOnce
<1>2. TelegramInv => Telegram!UpdateHasOneEffect
  <2> SUFFICES ASSUME TelegramInv, NEW u \in Updates
               PROVE  tgUpdate[u].asked <= 1 /\ tgUpdate[u].handed <= 1 + tgUpdate[u].lost
    BY DEF Telegram!UpdateHasOneEffect
  <2>1. CASE tgUpdate[u] = Telegram!NoUpdate
    BY <2>1 DEF Telegram!NoUpdate
  <2>2. CASE UpdateOK(tgUpdate[u])
    BY <2>2 DEF UpdateOK
  <2> QED
    BY <2>1, <2>2 DEF TelegramInv
<1>3. VoiceInv => Voice!CallBilledOnce
  BY DEF VoiceInv, CallOK, Voice!CallBilledOnce
<1>4. ChannelsInv => DeliveriesActOnce
  BY <1>1, <1>2, <1>3 DEF ChannelsInv, DeliveriesActOnce
<1> QED
  BY <1>4, ChannelsInvariance, PTL

(* However posts, replies, requests, pages and retention overlap: a        *)
(* visitor that may still read was given every event its cursor passed,    *)
(* no publication finds its number taken, and no message has two           *)
(* (publish_event, PublicEventsView).                                      *)
THEOREM CursorPassesTheGiven == ChannelsSpec => []CursorSkipsNothing
<1>1. WebChatInv => WebChat!CursorSkipsNothing
  <2> SUFFICES ASSUME WebChatInv PROVE WebChat!CursorSkipsNothing
    OBVIOUS
  <2>1. WebChat!Admitted("read") => WebChat!GivenAll
    BY DEF WebChatInv, CursorOK, Gone, WebChat!Admitted, WebChat!GivenAll
  <2>2. WebChat!NumberedOnce
    BY DEF WebChatInv, EventsOK, WebChat!NumberedOnce
  <2> QED
    BY <2>1, <2>2 DEF WebChatInv, WebChat!CursorSkipsNothing
<1>2. ChannelsInv => CursorSkipsNothing
  BY <1>1 DEF ChannelsInv, CursorSkipsNothing
<1> QED
  BY <1>2, ChannelsInvariance, PTL

(* No step hands a message over while the number is recorded as opted out  *)
(* or never agreed, not even a retry that checked before; a first send     *)
(* hands none over to a blocked one either (send_sms_message,              *)
(* retry_outbound_attempt).                                                *)
THEOREM OptOutStands == ChannelsSpec => OptOutIsHonoured
<1>1. ChannelsInv /\ [ChannelsNext]_vars => (focus = "sms" => Sms!HandedWithConsent)
  BY ChannelsStep DEF SmsStep
<1> QED
  BY <1>1, ChannelsInvariance, PTL DEF ChannelsSpec, OptOutIsHonoured

(* A status callback never takes back what the carrier has finally said.   *)
THEOREM CarrierVerdictStands == ChannelsSpec => CarrierVerdictIsFinal
<1>1. ChannelsInv /\ [ChannelsNext]_vars => (focus = "sms" => Sms!VerdictKept)
  BY ChannelsStep DEF SmsStep
<1> QED
  BY <1>1, ChannelsInvariance, PTL DEF ChannelsSpec, CarrierVerdictIsFinal

(* A synchronisation over the history moves the cursor past the mails      *)
(* within its message bound only when they are stored: a reconciliation    *)
(* when it ends, a notification in each of its steps, also when it fails   *)
(* half way (incremental_sync, process_notification).                      *)
THEOREM CursorPassesTheStored == ChannelsSpec => CursorAfterIngestion
<1>1. ChannelsInv /\ [ChannelsNext]_vars => (focus = "gmail" => Gmail!PassedAreStored)
  BY ChannelsStep DEF GmailStep
<1> QED
  BY <1>1, ChannelsInvariance, PTL DEF ChannelsSpec, CursorAfterIngestion

(* A segment of a transcript is stored only while storing is allowed and   *)
(* the caller agreed, or did not have to (store_final_transcript).         *)
THEOREM TranscriptHasConsent == ChannelsSpec => TranscriptNeedsConsent
<1>1. ChannelsInv /\ [ChannelsNext]_vars => (focus = "voice" => Voice!SegmentsAreAllowed)
  BY ChannelsStep DEF VoiceStep
<1> QED
  BY <1>1, ChannelsInvariance, PTL DEF ChannelsSpec, TranscriptNeedsConsent
=============================================================================
