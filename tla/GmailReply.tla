----------------------------- MODULE GmailReply -----------------------------
(***************************************************************************)
(* One reply sent through a Gmail mailbox (backend/apps/gmail_integration: *)
(* send_gmail_message and retry_gmail_outbound), under one client message  *)
(* id that the client may post again.                                      *)
(*                                                                         *)
(* The rows are committed one by one, outside a transaction: a request     *)
(* stands before each of its steps at a place of grReq, and a process that *)
(* dies leaves what it committed.  The mailbox is seen through             *)
(* conversation_policy: whether it may send and whether the thread has a   *)
(* Gmail record to answer.  A retry is a queued task that asks no policy.  *)
(***************************************************************************)
EXTENDS Naturals

CONSTANTS
    Requests,       \* posts of the same client message id
    MaxSend,        \* GOOGLE_GMAIL_MAX_SEND_ATTEMPTS
    MaxLost         \* bound: how often Google accepts the reply and the answer is lost

VARIABLES grReady, grReq, grLock, grOut

grVars == <<grReady, grReq, grLock, grOut>>

OutRow == [msg: {"none", "queued", "sent", "failed"},
           attempt: {"none", "sending", "queued", "sent", "failed", "dead_letter"},
           count: 0 .. MaxSend, task: BOOLEAN, handed: 0 .. MaxLost + 2, lost: 0 .. MaxLost]

ReplyTypeOK ==
    /\ grReady \in BOOLEAN
    /\ grReq \in [Requests -> {"start", "checked", "locked", "calling", "done"}]
    /\ grLock \in BOOLEAN
    /\ grOut \in OutRow

ReplyInit ==
    /\ grReady = FALSE
    /\ grReq = [r \in Requests |-> "start"]
    /\ grLock = FALSE
    /\ grOut = [msg |-> "none", attempt |-> "none", count |-> 0, task |-> FALSE, handed |-> 0, lost |-> 0]

(* The policy of the conversation changes.                                 *)
PolicyChanges ==
    /\ grReady' = ~grReady
    /\ UNCHANGED <<grReq, grLock, grOut>>

Goes(r, from, to) == grReq[r] = from /\ grReq' = [grReq EXCEPT ![r] = to]

(* No message of this client id yet, and the policy allows it.             *)
Check(r) ==
    /\ Goes(r, "start", "checked")
    /\ grOut.msg = "none"
    /\ grReady
    /\ UNCHANGED <<grReady, grLock, grOut>>

(* The post finds the message of an earlier one, or is refused.            *)
Answered(r) ==
    /\ Goes(r, "start", "done")
    /\ grOut.msg # "none" \/ ~grReady
    /\ UNCHANGED <<grReady, grLock, grOut>>

Lock(r) ==
    /\ Goes(r, "checked", "locked")
    /\ ~grLock
    /\ grLock' = TRUE
    /\ UNCHANGED <<grReady, grOut>>

Busy(r) ==
    /\ Goes(r, "checked", "done")
    /\ grLock
    /\ UNCHANGED <<grReady, grLock, grOut>>

LockExpires ==
    /\ grLock
    /\ grLock' = FALSE
    /\ UNCHANGED <<grReady, grReq, grOut>>

(* The client message id is unique in the conversation.                    *)
Insert(r) ==
    /\ grOut.msg = "none"
    /\ Goes(r, "locked", "calling")
    /\ grOut' = [grOut EXCEPT !.msg = "queued", !.attempt = "sending", !.count = 1]
    /\ UNCHANGED <<grReady, grLock>>

InsertRefused(r) ==
    /\ grOut.msg # "none"
    /\ Goes(r, "locked", "done")
    /\ grLock' = FALSE
    /\ UNCHANGED <<grReady, grOut>>

(* What an answer makes of the message; a lost one counts as transient.    *)
Accept(o) == [o EXCEPT !.msg = "sent", !.attempt = "sent", !.handed = @ + 1, !.task = FALSE]
Transient(o, lost) ==
    [o EXCEPT !.attempt = "queued", !.task = TRUE,
              !.handed = IF lost THEN @ + 1 ELSE @, !.lost = IF lost THEN @ + 1 ELSE @]

SendAnswer(r, outcome) ==
    /\ Goes(r, "calling", "done")
    /\ outcome = "lost" => grOut.lost < MaxLost
    /\ grLock' = FALSE
    /\ grOut' = CASE outcome = "accepted"  -> Accept(grOut)
                  [] outcome = "transient" -> Transient(grOut, FALSE)
                  [] outcome = "lost"      -> Transient(grOut, TRUE)
                  [] OTHER                 -> [grOut EXCEPT !.msg = "failed", !.attempt = "failed"]
    /\ UNCHANGED grReady

(* The process of a request dies; the lock stays until it expires.         *)
Crash(r, handed) ==
    /\ grReq[r] \in {"checked", "locked", "calling"}
    /\ handed => grReq[r] = "calling"
    /\ grReq' = [grReq EXCEPT ![r] = "done"]
    /\ grOut' = IF handed THEN [grOut EXCEPT !.handed = @ + 1] ELSE grOut
    /\ UNCHANGED <<grReady, grLock>>

Retrying ==
    /\ grOut.task
    /\ grOut.attempt = "queued"
    /\ UNCHANGED <<grReady, grReq, grLock>>

(* Refused by Google, by an operational control, or without a thread: the  *)
(* attempt fails and the message stays queued.                             *)
RetryOutbound(outcome) ==
    /\ Retrying
    /\ grOut.count < MaxSend
    /\ outcome = "lost" => grOut.lost < MaxLost
    /\ LET o == [grOut EXCEPT !.count = @ + 1]
       IN  grOut' = CASE outcome = "accepted"  -> Accept(o)
                      [] outcome = "transient" -> Transient(o, FALSE)
                      [] outcome = "lost"      -> Transient(o, TRUE)
                      [] OTHER                 -> [o EXCEPT !.attempt = "failed", !.task = FALSE]

RetryExhausted ==
    /\ Retrying
    /\ grOut.count >= MaxSend
    /\ grOut' = [grOut EXCEPT !.msg = "failed", !.attempt = "dead_letter", !.task = FALSE]

Outcomes == {"accepted", "transient", "lost", "refused"}
ReplyNext ==
    \/ PolicyChanges
    \/ LockExpires
    \/ \E r \in Requests : \/ Check(r) \/ Answered(r) \/ Lock(r) \/ Busy(r) \/ Insert(r) \/ InsertRefused(r)
                           \/ \E b \in BOOLEAN : Crash(r, b)
                           \/ \E o \in Outcomes : SendAnswer(r, o)
    \/ \E o \in Outcomes : RetryOutbound(o)
    \/ RetryExhausted

ReplySpec == ReplyInit /\ [][ReplyNext]_grVars

(* gmail-email-integration.md:69: client ids prevent duplicate sends.  The *)
(* posts of one id, a lock that expired under a slow call and the retries  *)
(* hand Google the reply once, and once more only after a lost answer; a   *)
(* message reported sent was accepted.                                     *)
ReplyHandedOnce ==
    /\ grOut.handed <= 1 + grOut.lost
    /\ grOut.msg = "sent" => grOut.handed >= 1
=============================================================================
