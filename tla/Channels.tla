------------------------------- MODULE Channels ------------------------------
(***************************************************************************)
(* The channels of the CRM.  They share no row: the part that runs is      *)
(* chosen at the start, and a behaviour is one of that part.               *)
(***************************************************************************)
EXTENDS Naturals, FiniteSets, Sequences

CONSTANTS
    Parts,                                          \* the parts to explore
    Envelopes, Msgs, Texts, Reports, Choices,       \* SMS
    SmsAttempts, SmsFailures, MaxHanded,
    Last, Automated, Noted,                         \* Gmail
    FullLimit, HistoryLimit, MaxSync,
    Requests, GmailAttempts, GmailLost,             \* the reply through Gmail
    Events, MaxTime, StandardWindow, HumanWindow,   \* Instagram
    InstagramFailures, InstagramAttempts, InstagramLost,
    Updates, UpdateAttempts,                        \* Telegram
    TelegramAttempts, TelegramLost,
    Posts, Replies, MaxEvents, MaxRequests,         \* web chat
    PageSize,
    Calls, MaxConcurrent, JobAttempts,              \* voice
    MaxSegments, MaxTools

ASSUME SmsAssumption ==
    /\ SmsAttempts \in Nat \ {0} /\ SmsFailures \in Nat /\ MaxHanded \in Nat
    /\ Reports \subseteq {"queued", "sent", "delivered", "undelivered", "failed", "read"}
    /\ Choices \subseteq {"opted_in", "blocked", "invalid"}
    /\ "none" \notin Msgs

ASSUME GmailAssumption ==
    /\ Last \in Nat \ {0} /\ FullLimit \in Nat /\ HistoryLimit \in Nat /\ MaxSync \in Nat \ {0}
    /\ Noted \subseteq 2 .. Last

ASSUME ReplyAssumption == GmailAttempts \in Nat \ {0} /\ GmailLost \in Nat

ASSUME InstagramAssumption ==
    /\ MaxTime \in Nat \ {0} /\ StandardWindow \in Nat /\ HumanWindow \in Nat
    /\ InstagramFailures \in Nat /\ InstagramAttempts \in Nat \ {0} /\ InstagramLost \in Nat \ {0}

ASSUME TelegramAssumption ==
    UpdateAttempts \in Nat /\ TelegramAttempts \in Nat \ {0} /\ TelegramLost \in Nat \ {0}

ASSUME WebChatAssumption ==
    /\ MaxEvents \in Nat /\ PageSize \in Nat \ {0}
    /\ Posts \cap Replies = {}
    /\ (Posts \cup Replies) \cap {"nobody", "started", "resumed", "identity", "handoff", "read", "closed"} = {}

ASSUME VoiceAssumption ==
    JobAttempts \in Nat \ {0} /\ MaxSegments \in Nat /\ MaxTools \in Nat

VARIABLES
    focus,              \* the part that runs
    row1, row2, row3, row4, row5, row6, row7, row8, row9     \* its variables

Sms == INSTANCE Sms WITH
    MaxAttempts <- SmsAttempts, BreakerFailures <- SmsFailures,
    smsConn <- row1, smsConsent <- row2, smsEnv <- row3, smsMsg <- row4,
    smsRecent <- row5, smsRetry <- row6, smsControl <- row7, smsAi <- row8

Gmail == INSTANCE Gmail WITH
    gmHead <- row1, gmConn <- row2, gmRow <- row3, gmAsked <- row4,
    gmNote <- row5, gmSync <- row6, gmCheck <- row7

Reply == INSTANCE GmailReply WITH
    MaxSend <- GmailAttempts, MaxLost <- GmailLost,
    grReady <- row1, grReq <- row2, grLock <- row3, grOut <- row4

Instagram == INSTANCE Instagram WITH
    BreakerFailures <- InstagramFailures, MaxSend <- InstagramAttempts, MaxLost <- InstagramLost,
    igNow <- row1, igConn <- row2, igWindow <- row3, igEvent <- row4,
    igMsg <- row5, igCalled <- row6, igOutside <- row7

Telegram == INSTANCE Telegram WITH
    MaxEvents <- UpdateAttempts, MaxSend <- TelegramAttempts, MaxLost <- TelegramLost,
    tgReq <- row1, tgMgr <- row2, tgConn <- row3, tgWork <- row4,
    tgUpdate <- row5, tgBlocked <- row6, tgMsg <- row7

WebChat == INSTANCE WebChat WITH
    wcInst <- row1, wcProof <- row2, wcSess <- row3, wcReq <- row4,
    wcPost <- row5, wcReply <- row6, wcLock <- row7, wcEvents <- row8,
    wcVisitor <- row9

Voice == INSTANCE Voice WITH
    MaxAttempts <- JobAttempts,
    vcConn <- row1, vcCall <- row2, vcRoute <- row3, vcJob <- row4,
    vcLock <- row5, vcWork <- row6

-----------------------------------------------------------------------------
vars == <<focus, row1, row2, row3, row4, row5, row6, row7, row8, row9>>

\* the variables a part with n of its own leaves empty
Empty4 == row5 = <<>> /\ row6 = <<>> /\ row7 = <<>> /\ row8 = <<>> /\ row9 = <<>>
Empty6 == row7 = <<>> /\ row8 = <<>> /\ row9 = <<>>
Empty7 == row8 = <<>> /\ row9 = <<>>
Empty8 == row9 = <<>>

Keep4 == UNCHANGED <<focus, row5, row6, row7, row8, row9>>
Keep6 == UNCHANGED <<focus, row7, row8, row9>>
Keep7 == UNCHANGED <<focus, row8, row9>>
Keep8 == UNCHANGED <<focus, row9>>
Keep9 == UNCHANGED <<focus>>

ChannelsInit ==
    \/ focus = "sms" /\ focus \in Parts /\ Sms!SmsInit /\ Empty8
    \/ focus = "gmail" /\ focus \in Parts /\ Gmail!GmailInit /\ Empty7
    \/ focus = "reply" /\ focus \in Parts /\ Reply!ReplyInit /\ Empty4
    \/ focus = "instagram" /\ focus \in Parts /\ Instagram!InstagramInit /\ Empty7
    \/ focus = "telegram" /\ focus \in Parts /\ Telegram!TelegramInit /\ Empty7
    \/ focus = "web_chat" /\ focus \in Parts /\ WebChat!WebChatInit
    \/ focus = "voice" /\ focus \in Parts /\ Voice!VoiceInit /\ Empty6

SmsSteps ==
    \/ focus = "sms" /\ Sms!CreateConnection /\ Keep8
    \/ focus = "sms" /\ Sms!UpdateConnection /\ Keep8
    \/ focus = "sms" /\ Sms!SetConnectionState /\ Keep8
    \/ focus = "sms" /\ Sms!ToggleControl /\ Keep8
    \/ \E ok \in BOOLEAN : focus = "sms" /\ Sms!Health(ok) /\ Keep8
    \/ \E ok \in BOOLEAN : focus = "sms" /\ Sms!PrivacyErase(ok) /\ Keep8
    \/ \E e \in Envelopes : focus = "sms" /\ Sms!ReceiveInbound(e) /\ Keep8
    \/ \E e \in Envelopes : focus = "sms" /\ Sms!ReceiveStatus(e) /\ Keep8
    \/ \E e \in Envelopes : focus = "sms" /\ Sms!ProcessInbound(e) /\ Keep8
    \/ \E e \in Envelopes : focus = "sms" /\ Sms!FailInbound(e) /\ Keep8
    \/ \E e \in Envelopes : focus = "sms" /\ Sms!ProcessStatus(e) /\ Keep8
    \/ \E m \in Msgs, t \in Texts, b \in BOOLEAN : focus = "sms" /\ Sms!SendAccepted(m, t, b) /\ Keep8
    \/ \E m \in Msgs, t \in Texts, b \in BOOLEAN : focus = "sms" /\ Sms!SendRefused(m, t, b) /\ Keep8
    \/ \E m \in Msgs, t \in Texts, b \in BOOLEAN : focus = "sms" /\ Sms!SendLost(m, t, b) /\ Keep8
    \/ \E m \in Msgs, b \in BOOLEAN : focus = "sms" /\ Sms!RetryRefused(m, b) /\ Keep8
    \/ \E m \in Msgs, t \in Texts : focus = "sms" /\ Sms!SendControlled(m, t) /\ Keep8
    \/ \E t \in Texts : focus = "sms" /\ Sms!ForgetText(t) /\ Keep8
    \/ \E m \in Msgs : focus = "sms" /\ Sms!RetryBegin(m) /\ Keep8
    \/ \E m \in Msgs : focus = "sms" /\ Sms!RetryDropped(m) /\ Keep8
    \/ \E m \in Msgs : focus = "sms" /\ Sms!RetryAccepted(m) /\ Keep8
    \/ \E m \in Msgs : focus = "sms" /\ Sms!RequestRetry(m) /\ Keep8
    \/ \E m \in Msgs : focus = "sms" /\ Sms!NewerMessage(m) /\ Keep8
    \/ \E s \in Choices : focus = "sms" /\ Sms!EmployeeConsent(s) /\ Keep8

GmailSteps ==
    \/ focus = "gmail" /\ Gmail!Arrive /\ Keep7
    \/ \E i \in Noted : focus = "gmail" /\ Gmail!ReceivePubsub(i) /\ Keep7
    \/ \E i \in Noted, b \in BOOLEAN : focus = "gmail" /\ Gmail!ProcessNotification(i, b) /\ Keep7
    \/ \E i \in Noted, b \in BOOLEAN, last \in Gmail!Cursors :
           focus = "gmail" /\ Gmail!NotificationFailed(i, b, last) /\ Keep7
    \/ \E b \in BOOLEAN : focus = "gmail" /\ Gmail!CompleteOAuth(b) /\ Keep7
    \/ \E b \in BOOLEAN : focus = "gmail" /\ Gmail!SyncCrash(b) /\ Keep7
    \/ focus = "gmail" /\ Gmail!Disconnect /\ Keep7
    \/ focus = "gmail" /\ Gmail!RenewEnd /\ Keep7
    \/ focus = "gmail" /\ Gmail!HealthEnd /\ Keep7
    \/ focus = "gmail" /\ Gmail!CheckRefused /\ Keep7
    \/ focus = "gmail" /\ Gmail!InitialStuck /\ Keep7
    \/ focus = "gmail" /\ Gmail!CancelInitialSync /\ Keep7
    \/ \E k \in {"renew", "health"} : focus = "gmail" /\ Gmail!CheckBegin(k) /\ Keep7
    \/ focus = "gmail" /\ Gmail!InitialSync /\ Keep7
    \/ focus = "gmail" /\ Gmail!ManualResync /\ Keep7
    \/ focus = "gmail" /\ Gmail!ReconcileHistory /\ Keep7
    \/ focus = "gmail" /\ Gmail!HistoryExpired /\ Keep7
    \/ focus = "gmail" /\ Gmail!ListRecent /\ Keep7
    \/ focus = "gmail" /\ Gmail!ReadProfile /\ Keep7
    \/ focus = "gmail" /\ Gmail!FromNow /\ Keep7
    \/ focus = "gmail" /\ Gmail!SyncOne /\ Keep7
    \/ focus = "gmail" /\ Gmail!SyncCancelled /\ Keep7
    \/ focus = "gmail" /\ Gmail!FullEnd /\ Keep7
    \/ focus = "gmail" /\ Gmail!IncrementalEnd /\ Keep7
    \/ focus = "gmail" /\ Gmail!SyncFailed /\ Keep7

ReplySteps ==
    \/ focus = "reply" /\ Reply!PolicyChanges /\ Keep4
    \/ focus = "reply" /\ Reply!LockExpires /\ Keep4
    \/ focus = "reply" /\ Reply!RetryExhausted /\ Keep4
    \/ \E r \in Requests : focus = "reply" /\ Reply!Check(r) /\ Keep4
    \/ \E r \in Requests : focus = "reply" /\ Reply!Answered(r) /\ Keep4
    \/ \E r \in Requests : focus = "reply" /\ Reply!Lock(r) /\ Keep4
    \/ \E r \in Requests : focus = "reply" /\ Reply!Busy(r) /\ Keep4
    \/ \E r \in Requests : focus = "reply" /\ Reply!Insert(r) /\ Keep4
    \/ \E r \in Requests : focus = "reply" /\ Reply!InsertRefused(r) /\ Keep4
    \/ \E r \in Requests, b \in BOOLEAN : focus = "reply" /\ Reply!Crash(r, b) /\ Keep4
    \/ \E r \in Requests, o \in Reply!Outcomes :
           focus = "reply" /\ Reply!SendAnswer(r, o) /\ Keep4
    \/ \E o \in Reply!Outcomes : focus = "reply" /\ Reply!RetryOutbound(o) /\ Keep4

InstagramSteps ==
    \/ focus = "instagram" /\ Instagram!Tick /\ Keep7
    \/ focus = "instagram" /\ Instagram!Disconnect /\ Keep7
    \/ focus = "instagram" /\ Instagram!Reconnect /\ Keep7
    \/ focus = "instagram" /\ Instagram!Health /\ Keep7
    \/ focus = "instagram" /\ Instagram!CircuitCloses /\ Keep7
    \/ \E b \in BOOLEAN : focus = "instagram" /\ Instagram!CompleteOAuth(b) /\ Keep7
    \/ \E b \in BOOLEAN : focus = "instagram" /\ Instagram!SendAccepted(b) /\ Keep7
    \/ \E e \in Events, k \in Instagram!Kinds : focus = "instagram" /\ Instagram!Happens(e, k) /\ Keep7
    \/ \E e \in Events : focus = "instagram" /\ Instagram!Receive(e) /\ Keep7
    \/ \E e \in Events : focus = "instagram" /\ Instagram!EventLost(e) /\ Keep7
    \/ \E e \in Events : focus = "instagram" /\ Instagram!ProcessMessage(e) /\ Keep7
    \/ \E e \in Events : focus = "instagram" /\ Instagram!ProcessEcho(e) /\ Keep7
    \/ \E e \in Events : focus = "instagram" /\ Instagram!ProcessRead(e) /\ Keep7
    \/ \E e \in Events : focus = "instagram" /\ Instagram!ProcessFails(e) /\ Keep7
    \/ \E h, tr, lo \in BOOLEAN :
           focus = "instagram" /\ Instagram!SendFails(h, tr, lo) /\ Keep7
    \/ \E tr, lo \in BOOLEAN : focus = "instagram" /\ Instagram!RetryFails(tr, lo) /\ Keep7
    \/ focus = "instagram" /\ Instagram!SendSaved /\ Keep7
    \/ focus = "instagram" /\ Instagram!SendUnsaved /\ Keep7
    \/ focus = "instagram" /\ Instagram!RetryAccepted /\ Keep7
    \/ focus = "instagram" /\ Instagram!RetryExhausted /\ Keep7

TelegramSteps ==
    \/ focus = "telegram" /\ Telegram!CreateManagedRequest /\ Keep7
    \/ focus = "telegram" /\ Telegram!ExpireRequest /\ Keep7
    \/ focus = "telegram" /\ Telegram!ReceiveManagerUpdate /\ Keep7
    \/ focus = "telegram" /\ Telegram!ManagedFails /\ Keep7
    \/ focus = "telegram" /\ Telegram!ManagerDeadLetter /\ Keep7
    \/ \E b \in BOOLEAN : focus = "telegram" /\ Telegram!CompleteManaged(b) /\ Keep7
    \/ \E b \in BOOLEAN : focus = "telegram" /\ Telegram!ConnectExistingBot(b) /\ Keep7
    \/ focus = "telegram" /\ Telegram!RotateBegin /\ Keep7
    \/ focus = "telegram" /\ Telegram!RotateSave /\ Keep7
    \/ focus = "telegram" /\ Telegram!RotateEnd /\ Keep7
    \/ focus = "telegram" /\ Telegram!WorkLost /\ Keep7
    \/ focus = "telegram" /\ Telegram!HealthBegin /\ Keep7
    \/ focus = "telegram" /\ Telegram!HealthEnd /\ Keep7
    \/ focus = "telegram" /\ Telegram!StateEnd /\ Keep7
    \/ \E a \in {"pause", "reconnect", "disconnect"} :
           focus = "telegram" /\ Telegram!StateBegin(a) /\ Keep7
    \/ \E u \in Updates, k \in Telegram!Kinds :
           focus = "telegram" /\ Telegram!CustomerDoes(u, k) /\ Keep7
    \/ \E u \in Updates : focus = "telegram" /\ Telegram!ReceiveBotUpdate(u) /\ Keep7
    \/ \E u \in Updates : focus = "telegram" /\ Telegram!ProcessBlocked(u) /\ Keep7
    \/ \E u \in Updates : focus = "telegram" /\ Telegram!ProcessMessage(u) /\ Keep7
    \/ \E u \in Updates, o \in Telegram!Outcomes :
           focus = "telegram" /\ Telegram!ProcessCommand(u, o) /\ Keep7
    \/ \E u \in Updates, o \in Telegram!Outcomes :
           focus = "telegram" /\ Telegram!RetryCommand(u, o) /\ Keep7
    \/ \E u \in Updates : focus = "telegram" /\ Telegram!ProcessRefused(u) /\ Keep7
    \/ \E u \in Updates : focus = "telegram" /\ Telegram!ProcessLost(u) /\ Keep7
    \/ \E u \in Updates : focus = "telegram" /\ Telegram!Forget(u) /\ Keep7
    \/ \E o \in Telegram!Outcomes : focus = "telegram" /\ Telegram!Send(o) /\ Keep7
    \/ \E o \in Telegram!Outcomes : focus = "telegram" /\ Telegram!Retry(o) /\ Keep7

WebChatSteps ==
    \/ focus = "web_chat" /\ WebChat!Activate /\ Keep9
    \/ focus = "web_chat" /\ WebChat!Pause /\ Keep9
    \/ focus = "web_chat" /\ WebChat!Revoke /\ Keep9
    \/ focus = "web_chat" /\ WebChat!RotateKey /\ Keep9
    \/ focus = "web_chat" /\ WebChat!GetConfig /\ Keep9
    \/ focus = "web_chat" /\ WebChat!CreateSession /\ Keep9
    \/ \E op \in WebChat!Operations : focus = "web_chat" /\ WebChat!Authenticate(op) /\ Keep9
    \/ \E p \in Posts : focus = "web_chat" /\ WebChat!PostBegin(p) /\ Keep9
    \/ \E p \in Posts : focus = "web_chat" /\ WebChat!PostCommit(p) /\ Keep9
    \/ focus = "web_chat" /\ WebChat!PostAnswered /\ Keep9
    \/ focus = "web_chat" /\ WebChat!Handoff /\ Keep9
    \/ focus = "web_chat" /\ WebChat!Resume /\ Keep9
    \/ focus = "web_chat" /\ WebChat!CloseSession /\ Keep9
    \/ focus = "web_chat" /\ WebChat!UpdateIdentity /\ Keep9
    \/ focus = "web_chat" /\ WebChat!MarkRead /\ Keep9
    \/ \E r \in Replies : focus = "web_chat" /\ WebChat!SendReply(r) /\ Keep9
    \/ \E r \in Replies : focus = "web_chat" /\ WebChat!ShowBegin(r) /\ Keep9
    \/ \E r \in Replies : focus = "web_chat" /\ WebChat!ShowCommit(r) /\ Keep9
    \/ \E r \in Replies : focus = "web_chat" /\ WebChat!ShowLost(r) /\ Keep9
    \/ focus = "web_chat" /\ WebChat!Poll /\ Keep9
    \/ focus = "web_chat" /\ WebChat!Expires /\ Keep9
    \/ focus = "web_chat" /\ WebChat!ExpiredSeen /\ Keep9
    \/ focus = "web_chat" /\ WebChat!Cleanup /\ Keep9
    \/ focus = "web_chat" /\ WebChat!Purge /\ Keep9

VoiceSteps ==
    \/ focus = "voice" /\ Voice!CreateConnection /\ Keep6
    \/ \E s \in {"connected", "paused", "disconnected"} :
           focus = "voice" /\ Voice!SetConnectionState(s) /\ Keep6
    \/ \E c \in Calls, b \in BOOLEAN : focus = "voice" /\ Voice!RouteBegin(c, b) /\ Keep6
    \/ \E c \in Calls, b \in BOOLEAN : focus = "voice" /\ Voice!CarrierStatus(c, b) /\ Keep6
    \/ \E c \in Calls, b \in BOOLEAN : focus = "voice" /\ Voice!Breaks(c, b) /\ Keep6
    \/ \E c \in Calls, b, stores \in BOOLEAN :
           focus = "voice" /\ Voice!RouteCommit(c, b, stores) /\ Keep6
    \/ \E c \in Calls, b, stores \in BOOLEAN : focus = "voice" /\ Voice!Consent(c, b, stores) /\ Keep6
    \/ \E c \in Calls : focus = "voice" /\ Voice!Accept(c) /\ Keep6
    \/ \E c \in Calls : focus = "voice" /\ Voice!AcceptBlocked(c) /\ Keep6
    \/ \E c \in Calls : focus = "voice" /\ Voice!TakeOver(c) /\ Keep6
    \/ \E c \in Calls : focus = "voice" /\ Voice!DeleteTranscript(c) /\ Keep6
    \/ \E c \in Calls : focus = "voice" /\ Voice!Claim(c) /\ Keep6
    \/ \E c \in Calls : focus = "voice" /\ Voice!RunBegin(c) /\ Keep6
    \/ \E c \in Calls : focus = "voice" /\ Voice!SegmentBegin(c) /\ Keep6
    \/ \E c \in Calls : focus = "voice" /\ Voice!SegmentEnd(c) /\ Keep6
    \/ \E c \in Calls : focus = "voice" /\ Voice!Tool(c) /\ Keep6
    \/ \E c \in Calls : focus = "voice" /\ Voice!Transferred(c) /\ Keep6
    \/ \E c \in Calls : focus = "voice" /\ Voice!TransferFails(c) /\ Keep6
    \/ \E c \in Calls : focus = "voice" /\ Voice!TakenByEvent(c) /\ Keep6
    \/ \E c \in Calls : focus = "voice" /\ Voice!Unclear(c) /\ Keep6
    \/ \E c \in Calls : focus = "voice" /\ Voice!Completed(c) /\ Keep6
    \/ \E c \in Calls : focus = "voice" /\ Voice!Refresh(c) /\ Keep6
    \/ \E c \in Calls : focus = "voice" /\ Voice!StreamEnds(c) /\ Keep6
    \/ \E c \in Calls : focus = "voice" /\ Voice!RunEnd(c) /\ Keep6
    \/ \E c \in Calls : focus = "voice" /\ Voice!RunFailed(c) /\ Keep6
    \/ \E c \in Calls : focus = "voice" /\ Voice!Release(c) /\ Keep6
    \/ \E c \in Calls : focus = "voice" /\ Voice!GatewayDies(c) /\ Keep6
    \/ \E c \in Calls : focus = "voice" /\ Voice!LockExpires(c) /\ Keep6

ChannelsNext ==
    \/ SmsSteps
    \/ GmailSteps
    \/ ReplySteps
    \/ InstagramSteps
    \/ TelegramSteps
    \/ WebChatSteps
    \/ VoiceSteps

ChannelsSpec == ChannelsInit /\ [][ChannelsNext]_vars

-----------------------------------------------------------------------------
(* Every channel keeps its rows within what its models allow.              *)
ChannelsTypeOK ==
    CASE focus = "sms" -> Sms!SmsTypeOK
      [] focus = "gmail" -> Gmail!GmailTypeOK
      [] focus = "reply" -> Reply!ReplyTypeOK
      [] focus = "instagram" -> Instagram!InstagramTypeOK
      [] focus = "telegram" -> Telegram!TelegramTypeOK
      [] focus = "web_chat" -> WebChat!WebChatTypeOK
      [] focus = "voice" -> Voice!VoiceTypeOK

(* Consent, sends and retries race for the rows of one number: nothing is  *)
(* handed to the carrier while the number is recorded as opted out or gave *)
(* no consent, and by a first send nothing while it is blocked             *)
(* (backend/apps/sms).                                                     *)
OptOutIsHonoured == [][focus = "sms" => Sms!HandedWithConsent]_vars

(* Status callbacks of the SMS carrier come late, twice and out of order;  *)
(* what it has finally said of a message stands (backend/apps/sms).        *)
CarrierVerdictIsFinal == [][focus = "sms" => Sms!VerdictKept]_vars

(* What reads the history of a mailbox moves the cursor past a mail only   *)
(* when the mail is stored (backend/apps/gmail_integration).               *)
CursorAfterIngestion == [][focus = "gmail" => Gmail!PassedAreStored]_vars

(* One message to the customer is one message, whatever requests, crashes *)
(* and echoes there are: a Gmail reply is handed over once; an Instagram   *)
(* reply again only after a lost answer, and the inbox does not hold one   *)
(* of Meta's ids in the reply and in the copy its echo made.               *)
RepliesAreSingle ==
    /\ focus = "reply" => Reply!ReplyHandedOnce
    /\ focus = "instagram" => Instagram!ReplyIsOneMessage

(* Deliveries are repeated, synchronisations overlap and workers die: an   *)
(* update of a Telegram bot has one effect, the assistant is asked about a *)
(* mail once and a phone call is billed once.                              *)
DeliveriesActOnce ==
    /\ focus = "gmail" => Gmail!AskedOnce
    /\ focus = "telegram" => Telegram!UpdateHasOneEffect
    /\ focus = "voice" => Voice!CallBilledOnce

(* Posts, replies and notices are numbered by concurrent transactions and  *)
(* read a page at a time: the cursor of a visitor passes no event it was   *)
(* not given, and no message loses its number to another or has two        *)
(* (backend/apps/web_chat).                                                *)
CursorSkipsNothing == focus = "web_chat" => WebChat!CursorSkipsNothing

(* What a caller says is kept only while there is consent to keep it       *)
(* (backend/apps/voice).                                                   *)
TranscriptNeedsConsent == [][focus = "voice" => Voice!SegmentsAreAllowed]_vars
=============================================================================
