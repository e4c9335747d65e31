------------------------------ MODULE Telegram ------------------------------
(***************************************************************************)
(* The Telegram bot of one organization (backend/apps/telegram): how a     *)
(* managed bot is provisioned, its connection and token, the updates of    *)
(* one private chat and one message sent by an employee.                   *)
(*                                                                         *)
(* Updates of the manager bot and of the bot are processed in transactions *)
(* that lock the event.  rotate_token, connection_health and               *)
(* set_connection_state are not: they read the row, talk to Telegram (the  *)
(* first two) and save fields of the copy they read.  tgWork is the one of *)
(* them under way.                                                         *)
(***************************************************************************)
EXTENDS Naturals

CONSTANTS
    Updates,        \* bound: updates of the chat under way at once
    MaxEvents,      \* TELEGRAM_MAX_EVENT_ATTEMPTS
    MaxSend,        \* TELEGRAM_MAX_SEND_ATTEMPTS
    MaxLost         \* bound: answers to one update that were accepted and then lost

VARIABLES tgReq, tgMgr, tgConn, tgWork, tgUpdate, tgBlocked, tgMsg

tgVars == <<tgReq, tgMgr, tgConn, tgWork, tgUpdate, tgBlocked, tgMsg>>

-----------------------------------------------------------------------------
\* closed: configured, failed, expired or cancelled; nothing looks for it again
RequestStates == {"none", "awaiting", "created", "closed"}
ConnStatuses == {"none", "connected", "degraded", "token_invalid", "paused", "disconnected"}
Tokens == {"none", "current", "revoked"}
ConnRow == [status: ConnStatuses, webhook: {"pending", "verified", "error"}, token: Tokens]
NoWork == [kind |-> "none", token |-> "none"]
WorkRow == [kind: {"rotated", "saved", "health", "pause", "reconnect", "disconnect"}, token: Tokens] \cup {NoWork}

\* reply, tries: the answer to a command and its attempt
Kinds == {"message", "command", "blocked"}
ReplyStates == {"none", "queued", "sent", "failed"}
NoUpdate == [kind |-> "none", state |-> "none", attempts |-> 0, stored |-> FALSE, asked |-> 0, reply |-> "none",
             tries |-> 0, handed |-> 0, lost |-> 0]
UpdateRow == [kind: Kinds, state: {"sent", "received", "failed", "done"}, attempts: 0 .. MaxEvents, stored: BOOLEAN,
              asked: 0 .. 2, reply: ReplyStates, tries: 0 .. MaxSend, handed: 0 .. MaxLost + 1, lost: 0 .. MaxLost] \cup {NoUpdate}
MsgRow == [status: {"none", "queued", "sent", "failed"}, count: 0 .. MaxSend,
           attempt: {"none", "queued", "sent", "failed", "dead_letter"}]

TelegramTypeOK ==
    /\ tgReq \in RequestStates
    /\ tgMgr \in {"none", "received", "failed"}
    /\ tgConn \in ConnRow
    /\ tgWork \in WorkRow
    /\ tgUpdate \in [Updates -> UpdateRow]
    /\ tgBlocked \in BOOLEAN
    /\ tgMsg \in MsgRow

TelegramInit ==
    /\ tgReq = "none"
    /\ tgMgr = "none"
    /\ tgConn = [status |-> "none", webhook |-> "pending", token |-> "none"]
    /\ tgWork = NoWork
    /\ tgUpdate = [u \in Updates |-> NoUpdate]
    /\ tgBlocked = FALSE
    /\ tgMsg = [status |-> "none", count |-> 0, attempt |-> "none"]

Chat == <<tgUpdate, tgBlocked, tgMsg>>

-----------------------------------------------------------------------------
(* Provisioning.  An organization has one bot that is not disconnected.    *)

NoBot == tgConn.status \in {"none", "disconnected"}

(* create_managed_request cancels what it finds awaiting.                  *)
CreateManagedRequest ==
    /\ NoBot
    /\ tgReq' = "awaiting"
    /\ UNCHANGED <<tgMgr, tgConn, tgWork, Chat>>

ExpireRequest ==
    /\ tgReq = "awaiting"
    /\ tgReq' = "closed"
    /\ UNCHANGED <<tgMgr, tgConn, tgWork, Chat>>

(* The owner confirms in Telegram; the manager webhook stores the update.  *)
ReceiveManagerUpdate ==
    /\ tgReq # "none"
    /\ tgMgr = "none"
    /\ tgMgr' = "received"
    /\ UNCHANGED <<tgReq, tgConn, tgWork, Chat>>

(* _complete_managed_event: the new bot is degraded when its webhook could *)
(* not be configured.                                                      *)
CompleteManaged(configured) ==
    /\ tgMgr # "none"
    /\ tgReq = "awaiting"
    /\ NoBot
    /\ tgMgr' = "none"
    /\ tgReq' = "closed"
    /\ tgConn' = [status |-> IF configured THEN "connected" ELSE "degraded",
                  webhook |-> IF configured THEN "verified" ELSE "error", token |-> "current"]
    /\ UNCHANGED <<tgWork, Chat>>

(* Telegram fails after the request was marked created: the error is       *)
(* caught inside the transaction, the mark stays, and the retry looks for  *)
(* an awaiting request.                                                    *)
ManagedFails ==
    /\ tgMgr # "none"
    /\ tgMgr' = "failed"
    /\ tgReq' = IF tgReq = "awaiting" THEN "created" ELSE tgReq
    /\ UNCHANGED <<tgConn, tgWork, Chat>>

ManagerDeadLetter ==
    /\ tgMgr = "failed"
    /\ tgMgr' = "none"
    /\ UNCHANGED <<tgReq, tgConn, tgWork, Chat>>

ConnectExistingBot(configured) ==
    /\ NoBot
    /\ tgConn' = [status |-> IF configured THEN "connected" ELSE "degraded",
                  webhook |-> IF configured THEN "verified" ELSE "error", token |-> "current"]
    /\ UNCHANGED <<tgReq, tgMgr, tgWork, Chat>>

-----------------------------------------------------------------------------
(* The connection.                                                         *)

Works(kind, token) ==
    /\ tgWork = NoWork
    /\ tgWork' = [kind |-> kind, token |-> token]

(* Telegram has replaced the token, the row has the old one.               *)
RotateBegin ==
    /\ tgConn.token = "current"
    /\ Works("rotated", "current")
    /\ tgConn' = [tgConn EXCEPT !.token = "revoked"]
    /\ UNCHANGED <<tgReq, tgMgr, Chat>>

RotateSave ==
    /\ tgWork.kind = "rotated"
    /\ tgWork' = [tgWork EXCEPT !.kind = "saved"]
    /\ tgConn' = [status |-> "degraded", webhook |-> "pending", token |-> "current"]
    /\ UNCHANGED <<tgReq, tgMgr, Chat>>

RotateEnd ==
    /\ tgWork.kind = "saved"
    /\ tgWork' = NoWork
    /\ tgConn' = [tgConn EXCEPT !.status = "connected", !.webhook = "verified"]
    /\ UNCHANGED <<tgReq, tgMgr, Chat>>

(* Telegram fails, or the process dies, in one of the three.               *)
WorkLost ==
    /\ tgWork # NoWork
    /\ tgWork' = NoWork
    /\ UNCHANGED <<tgReq, tgMgr, tgConn, Chat>>

HealthBegin ==
    /\ tgConn.status \in {"connected", "degraded", "token_invalid"}
    /\ Works("health", "none")
    /\ UNCHANGED <<tgReq, tgMgr, tgConn, Chat>>

HealthEnd ==
    /\ tgWork.kind = "health"
    /\ tgWork' = NoWork
    /\ \/ tgConn' = [tgConn EXCEPT !.status = "connected", !.webhook = "verified"]
       \/ \E s \in {"degraded", "token_invalid"} : tgConn' = [tgConn EXCEPT !.status = s]
    /\ UNCHANGED <<tgReq, tgMgr, Chat>>

(* set_connection_state saves the credentials it had read with the status. *)
StateBegin(action) ==
    /\ tgConn.status # "none"
    /\ Works(action, tgConn.token)
    /\ UNCHANGED <<tgReq, tgMgr, tgConn, Chat>>

StateEnd ==
    /\ tgWork.kind \in {"pause", "reconnect", "disconnect"}
    /\ tgWork' = NoWork
    /\ tgConn' = CASE tgWork.kind = "pause"     -> [tgConn EXCEPT !.status = "paused", !.token = tgWork.token]
                   [] tgWork.kind = "reconnect" -> [tgConn EXCEPT !.status = "connected", !.token = tgWork.token]
                   [] OTHER                     -> [tgConn EXCEPT !.status = "disconnected", !.token = "none"]
    /\ UNCHANGED <<tgReq, tgMgr, Chat>>

-----------------------------------------------------------------------------
(* Updates of the chat.  A command is answered inside the transaction that *)
(* processes it, under a client message id made of the event.              *)

Started == \E u \in Updates : tgUpdate[u].stored
CanSend ==
    /\ tgConn.status \in {"connected", "degraded"}
    /\ tgConn.webhook = "verified"
    /\ ~tgBlocked

CustomerDoes(u, kind) ==
    /\ tgUpdate[u] = NoUpdate
    /\ tgUpdate' = [tgUpdate EXCEPT ![u] = [NoUpdate EXCEPT !.kind = kind, !.state = "sent"]]
    /\ UNCHANGED <<tgReq, tgMgr, tgConn, tgWork, tgBlocked, tgMsg>>

(* One row per update id; Telegram repeats an update it saw refused.       *)
ReceiveBotUpdate(u) ==
    /\ tgUpdate[u].state = "sent"
    /\ tgConn.status \in {"connected", "degraded"}
    /\ tgUpdate' = [tgUpdate EXCEPT ![u].state = "received"]
    /\ UNCHANGED <<tgReq, tgMgr, tgConn, tgWork, tgBlocked, tgMsg>>

Queued(u) == tgUpdate[u].state \in {"received", "failed"} /\ UNCHANGED <<tgReq, tgMgr, tgWork, tgMsg>>

\* Mutant: a repeated message is given to the assistant again.
IngestedAgain(row) == [row EXCEPT !.stored = TRUE, !.asked = IF @ < 2 THEN @ + 1 ELSE @]

(* ingest_inbound_message asks the assistant for a message it created.     *)
Ingested(row) == [row EXCEPT !.stored = TRUE, !.asked = IF row.stored THEN @ ELSE @ + 1]

(* The bot was blocked: nothing clears the mark when it is unblocked.      *)
ProcessBlocked(u) ==
    /\ Queued(u)
    /\ tgUpdate[u].kind = "blocked"
    /\ tgBlocked' = (tgBlocked \/ Started)
    /\ tgUpdate' = [tgUpdate EXCEPT ![u].state = "done"]
    /\ UNCHANGED tgConn

ProcessMessage(u) ==
    /\ Queued(u)
    /\ tgUpdate[u].kind = "message"
    /\ tgUpdate' = [tgUpdate EXCEPT ![u] = [Ingested(@) EXCEPT !.state = "done"]]
    /\ UNCHANGED <<tgConn, tgBlocked>>

Outcomes == {"accepted", "transient", "lost", "refused", "blocked", "invalid"}

(* What Telegram makes of an attempt to answer a command.  lost: it has    *)
(* accepted the answer, and says so to nobody.                             *)
Tried(row, outcome) ==
    LET tried == [row EXCEPT !.tries = @ + 1]
    IN  CASE outcome = "accepted"  -> [tried EXCEPT !.reply = "sent", !.handed = @ + 1]
          [] outcome = "transient" -> [tried EXCEPT !.reply = "queued"]
          [] outcome = "lost"      -> [tried EXCEPT !.reply = "queued", !.handed = @ + 1, !.lost = @ + 1]
          [] OTHER                 -> [tried EXCEPT !.reply = "failed"]

(* send_telegram_message, for the command: whatever the answer, the update *)
(* is processed, and retry_telegram_outbound goes on with it.  The answer  *)
(* is committed with the update, so that no earlier one is ever found.     *)
ProcessCommand(u, outcome) ==
    /\ Queued(u)
    /\ tgUpdate[u].kind = "command"
    /\ CanSend
    /\ outcome = "lost" => tgUpdate[u].lost < MaxLost
    /\ tgUpdate' = [tgUpdate EXCEPT ![u] = Tried([Ingested(@) EXCEPT !.state = "done"], outcome)]
    /\ tgBlocked' = (tgBlocked \/ outcome = "blocked")
    /\ tgConn' = IF outcome = "invalid" THEN [tgConn EXCEPT !.status = "token_invalid"] ELSE tgConn

RetryCommand(u, outcome) ==
    /\ tgUpdate[u].reply = "queued"
    /\ outcome = "lost" => tgUpdate[u].lost < MaxLost
    /\ tgUpdate' = [tgUpdate EXCEPT ![u] =
                        IF @.tries >= MaxSend THEN [@ EXCEPT !.reply = "failed"] ELSE Tried(@, outcome)]
    /\ UNCHANGED <<tgReq, tgMgr, tgConn, tgWork, tgBlocked, tgMsg>>

(* The policy refuses the reply: what was stored before stays.             *)
ProcessRefused(u) ==
    LET row == Ingested(tgUpdate[u])
    IN
    /\ Queued(u)
    /\ row.kind = "command"
    /\ row.attempts < MaxEvents
    /\ tgUpdate' = [tgUpdate EXCEPT ![u] =
                        [row EXCEPT !.attempts = @ + 1, !.state = IF row.attempts + 1 < MaxEvents THEN "failed" ELSE "done"]]
    /\ UNCHANGED <<tgConn, tgBlocked>>

(* The process dies between the reply and the commit; the update is        *)
(* delivered to a task again only when something queues it.                *)
ProcessLost(u) ==
    /\ Queued(u)
    /\ tgUpdate[u].kind = "command"
    /\ CanSend
    /\ tgUpdate[u].lost < MaxLost
    /\ tgUpdate' = [tgUpdate EXCEPT ![u].handed = @ + 1, ![u].lost = @ + 1]
    /\ UNCHANGED <<tgConn, tgBlocked>>

(* A finished update gives its place to the next.                          *)
Forget(u) ==
    /\ tgUpdate[u].state = "done" /\ tgUpdate[u].reply # "queued"
    /\ tgUpdate' = [tgUpdate EXCEPT ![u] = NoUpdate]
    /\ UNCHANGED <<tgReq, tgMgr, tgConn, tgWork, tgBlocked, tgMsg>>

-----------------------------------------------------------------------------
(* One message of an employee, under one client message id.                *)

Accepted(o) == [o EXCEPT !.status = "sent", !.attempt = "sent"]

(* send_telegram_message.  blocked: Telegram says the customer blocked the *)
(* bot; invalid: it refuses the token.  An answer that is lost leaves the  *)
(* row as a transient failure does.                                        *)
Send(outcome) ==
    LET o == [tgMsg EXCEPT !.status = "queued", !.attempt = "queued", !.count = 1]
    IN
    /\ tgMsg.status = "none"
    /\ CanSend
    /\ tgMsg' = CASE outcome = "accepted" -> Accepted(o)
                  [] outcome \in {"transient", "lost"} -> o
                  [] OTHER -> [o EXCEPT !.status = "failed", !.attempt = "failed"]
    /\ tgBlocked' = (tgBlocked \/ outcome = "blocked")
    /\ tgConn' = IF outcome = "invalid" THEN [tgConn EXCEPT !.status = "token_invalid"] ELSE tgConn
    /\ UNCHANGED <<tgReq, tgMgr, tgWork, tgUpdate>>

(* retry_telegram_outbound: no policy is asked, a refusal leaves the       *)
(* message queued.                                                         *)
Retry(outcome) ==
    LET o == [tgMsg EXCEPT !.count = @ + 1]
    IN
    /\ tgMsg.attempt = "queued"
    /\ tgMsg' = IF tgMsg.count >= MaxSend THEN [tgMsg EXCEPT !.status = "failed", !.attempt = "dead_letter"]
                ELSE CASE outcome = "accepted" -> Accepted(o)
                       [] outcome \in {"transient", "lost"} -> o
                       [] OTHER -> [o EXCEPT !.attempt = "failed"]
    /\ UNCHANGED <<tgReq, tgMgr, tgConn, tgWork, tgUpdate, tgBlocked>>

TelegramNext ==
    \/ CreateManagedRequest \/ ExpireRequest \/ ReceiveManagerUpdate \/ ManagedFails \/ ManagerDeadLetter
    \/ \E b \in BOOLEAN : CompleteManaged(b) \/ ConnectExistingBot(b)
    \/ RotateBegin \/ RotateSave \/ RotateEnd \/ WorkLost \/ HealthBegin \/ HealthEnd \/ StateEnd
    \/ \E a \in {"pause", "reconnect", "disconnect"} : StateBegin(a)
    \/ \E u \in Updates : \/ \E k \in Kinds : CustomerDoes(u, k)
                          \/ ReceiveBotUpdate(u) \/ ProcessBlocked(u) \/ ProcessMessage(u)
                          \/ \E o \in Outcomes : ProcessCommand(u, o) \/ RetryCommand(u, o)
                          \/ ProcessRefused(u) \/ ProcessLost(u) \/ Forget(u)
    \/ \E o \in Outcomes : Send(o) \/ Retry(o)

TelegramSpec == TelegramInit /\ [][TelegramNext]_tgVars

-----------------------------------------------------------------------------
(* Properties.                                                             *)

(* telegram-managed-bots.md:15: processing is idempotent.  Retries of an   *)
(* update ask the assistant once and answer a command once, and once more  *)
(* only after an answer or a commit that was lost.                         *)
UpdateHasOneEffect ==
    \A u \in Updates : tgUpdate[u].asked <= 1 /\ tgUpdate[u].handed <= 1 + tgUpdate[u].lost

(* A bot the row calls connected with a verified webhook has the token     *)
(* Telegram accepts.                                                       *)
ConnectedTokenIsCurrent ==
    tgConn.status = "connected" /\ tgConn.webhook = "verified" /\ tgWork = NoWork => tgConn.token = "current"
=============================================================================
