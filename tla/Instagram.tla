------------------------------ MODULE Instagram ------------------------------
(***************************************************************************)
(* One Instagram account and one conversation of it (backend/apps/         *)
(* instagram): the connection, the messaging window a customer opens by    *)
(* writing, the webhook events and one reply under one client message id.  *)
(*                                                                         *)
(* A webhook event is processed in a transaction that locks the event and  *)
(* the connection, a retry in one that locks the attempt, the connection   *)
(* and the conversation.  A first send is not a transaction: igCalled says *)
(* that Meta has accepted the reply and its id is not saved yet.  An echo  *)
(* whose id no row has is stored as a message sent outside (igOutside):    *)
(* the echo of the accepted reply when it is processed before the save,    *)
(* and the echo of a handing over whose answer was lost ("stray").         *)
(*                                                                         *)
(* Time is a clock of ticks; the standard window is StandardWindow ticks   *)
(* long, the human agent window HumanWindow.                               *)
(***************************************************************************)
EXTENDS Naturals

CONSTANTS
    Events,          \* bound: webhook events under way at once
    MaxTime,         \* bound on the clock
    StandardWindow, HumanWindow,
    BreakerFailures, \* failures that open the circuit (3 in the code)
    MaxSend,         \* META_INSTAGRAM_MAX_SEND_ATTEMPTS
    MaxLost          \* bound: answers of Meta that are lost

VARIABLES igNow, igConn, igWindow, igEvent, igMsg, igCalled, igOutside

igVars == <<igNow, igConn, igWindow, igEvent, igMsg, igCalled, igOutside>>

-----------------------------------------------------------------------------
Times == 0 .. MaxTime
ConnStatuses == {"none", "connected", "degraded", "expired", "revoked", "disconnected"}
ConnRow == [status: ConnStatuses, failures: 0 .. BreakerFailures, open: BOOLEAN]

Echoes == {"echo", "stray"}
Kinds == {"message", "read"} \cup Echoes
NoEvent == [kind |-> "none", at |-> 0, state |-> "none"]
EventRow == [kind: Kinds, at: Times, state: {"pending", "received", "failed"}] \cup {NoEvent}

MsgRow == [status: {"none", "queued", "sent", "read", "failed"}, known: BOOLEAN, human: BOOLEAN,
           attempt: {"none", "sending", "queued", "sent", "failed", "dead_letter"},
           count: 0 .. MaxSend, handed: 0 .. MaxLost + 1, lost: 0 .. MaxLost, at: Times]

InstagramTypeOK ==
    /\ igNow \in Times
    /\ igConn \in ConnRow
    /\ igWindow \in Times
    /\ igEvent \in [Events -> EventRow]
    /\ igMsg \in MsgRow
    /\ igCalled \in BOOLEAN
    /\ igOutside \subseteq Echoes

(* A window of time 0 is no window: the customer never wrote.              *)
InstagramInit ==
    /\ igNow = 1
    /\ igConn = [status |-> "none", failures |-> 0, open |-> FALSE]
    /\ igWindow = 0
    /\ igEvent = [e \in Events |-> NoEvent]
    /\ igMsg = [status |-> "none", known |-> FALSE, human |-> FALSE, attempt |-> "none",
                count |-> 0, handed |-> 0, lost |-> 0, at |-> 0]
    /\ igCalled = FALSE
    /\ igOutside = {}

Tick ==
    /\ igNow < MaxTime
    /\ igNow' = igNow + 1
    /\ UNCHANGED <<igConn, igWindow, igEvent, igMsg, igCalled, igOutside>>

-----------------------------------------------------------------------------
(* The connection.                                                         *)

SetConnection(row) ==
    /\ igConn' = row
    /\ UNCHANGED <<igNow, igWindow, igEvent, igMsg, igCalled, igOutside>>

(* A missing permission degrades the new connection.                       *)
CompleteOAuth(permitted) ==
    /\ igConn.status = "none"
    /\ SetConnection([igConn EXCEPT !.status = IF permitted THEN "connected" ELSE "degraded"])

Disconnect ==
    /\ igConn.status # "none"
    /\ SetConnection([igConn EXCEPT !.status = "disconnected"])

Reconnect ==
    /\ igConn.status # "none"
    /\ SetConnection([igConn EXCEPT !.status = "connected"])

(* connection_health: only an answer of Meta clears the failures.          *)
Health ==
    /\ igConn.status \in {"connected", "degraded", "expired"}
    /\ \/ \E s \in {"connected", "degraded", "revoked"} : SetConnection([igConn EXCEPT !.status = s, !.failures = 0])
       \/ \E s \in {"expired", "degraded"} : SetConnection([igConn EXCEPT !.status = s])

(* circuit_open_until has passed.                                          *)
CircuitCloses ==
    /\ igConn.open
    /\ SetConnection([igConn EXCEPT !.open = FALSE])

-----------------------------------------------------------------------------
(* Webhook events.  Meta reports what happened at its own pace; the reply  *)
(* it accepted can be echoed and read (reactions and edits change no state *)
(* kept here).                                                             *)

Happens(e, kind) ==
    /\ igEvent[e] = NoEvent
    /\ kind = "echo" => igMsg.handed > igMsg.lost
    /\ kind = "stray" => igMsg.lost > 0
    /\ kind = "read" => igMsg.handed > 0
    /\ igEvent' = [igEvent EXCEPT ![e] = [kind |-> kind, at |-> IF kind \in Echoes THEN 0 ELSE igNow, state |-> "pending"]]
    /\ UNCHANGED <<igNow, igConn, igWindow, igMsg, igCalled, igOutside>>

(* receive_webhook stores the event once.                                  *)
Receive(e) ==
    /\ igEvent[e].state = "pending"
    /\ igConn.status \in {"connected", "degraded"}
    /\ igEvent' = [igEvent EXCEPT ![e].state = "received"]
    /\ UNCHANGED <<igNow, igConn, igWindow, igMsg, igCalled, igOutside>>

(* Meta gives up, or the event was dead-lettered.                          *)
EventLost(e) ==
    /\ igEvent[e].state \in {"pending", "failed"}
    /\ igEvent' = [igEvent EXCEPT ![e] = NoEvent]
    /\ UNCHANGED <<igNow, igConn, igWindow, igMsg, igCalled, igOutside>>

Processes(e, kind) ==
    /\ igEvent[e].state \in {"received", "failed"}
    /\ igEvent[e].kind = kind
    /\ igEvent' = [igEvent EXCEPT ![e] = NoEvent]
    /\ UNCHANGED <<igNow, igConn, igCalled>>

(* The window follows the message processed last, whenever it was written. *)
ProcessMessage(e) ==
    /\ Processes(e, "message")
    /\ igWindow' = igEvent[e].at
    /\ UNCHANGED <<igMsg, igOutside>>

(* An echo finds the reply by the id Meta gave it, or stores a message     *)
(* "sent outside": the conversation exists, the customer wrote first.      *)
Finds(kind) == kind = "echo" /\ igMsg.known
ProcessEcho(e) ==
    /\ \E kind \in Echoes :
           /\ Processes(e, kind)
           /\ igMsg' = IF Finds(kind) THEN [igMsg EXCEPT !.status = "sent"] ELSE igMsg
           /\ igOutside' = IF Finds(kind) THEN igOutside ELSE igOutside \cup {kind}
    /\ UNCHANGED igWindow

ProcessRead(e) ==
    /\ Processes(e, "read")
    /\ igMsg' = IF igMsg.status = "sent" /\ igMsg.at <= igEvent[e].at THEN [igMsg EXCEPT !.status = "read"] ELSE igMsg
    /\ UNCHANGED <<igWindow, igOutside>>

ProcessFails(e) ==
    /\ igEvent[e].state = "received"
    /\ igEvent' = [igEvent EXCEPT ![e].state = "failed"]
    /\ UNCHANGED <<igNow, igConn, igWindow, igMsg, igCalled, igOutside>>

-----------------------------------------------------------------------------
(* Sending.                                                                *)

Reachable == igConn.status = "connected" /\ ~igConn.open
InWindow == igWindow # 0 /\ igNow < igWindow + StandardWindow
InHumanWindow == igWindow # 0 /\ ~InWindow /\ igNow < igWindow + HumanWindow

(* window_eligibility; only a signed-in employee may use the human agent.  *)
MaySend(human) == Reachable /\ IF human THEN InHumanWindow ELSE InWindow

Handed(o, lost) == [o EXCEPT !.handed = @ + 1, !.lost = IF lost THEN @ + 1 ELSE @]
Failures(n) == [igConn EXCEPT !.failures = IF @ < BreakerFailures THEN @ + 1 ELSE @,
                              !.open = @ \/ igConn.failures + 1 >= BreakerFailures]

First(human) == [igMsg EXCEPT !.status = "queued", !.attempt = "sending", !.count = 1, !.human = human, !.at = igNow]

(* Meta accepts: the id is saved by SendSaved.                             *)
SendAccepted(human) ==
    /\ igMsg.status = "none"
    /\ MaySend(human)
    /\ igMsg' = Handed(First(human), FALSE)
    /\ igCalled' = TRUE
    /\ UNCHANGED <<igNow, igConn, igWindow, igEvent, igOutside>>

(* Meta refuses or does not answer.                                        *)
SendFails(human, transient, lost) ==
    LET o == IF lost THEN Handed(First(human), TRUE) ELSE First(human)
    IN
    /\ igMsg.status = "none"
    /\ MaySend(human)
    /\ lost => transient
    /\ igMsg' = IF transient THEN [o EXCEPT !.attempt = "queued"] ELSE [o EXCEPT !.status = "failed", !.attempt = "failed"]
    /\ igConn' = Failures(1)
    /\ UNCHANGED <<igNow, igWindow, igEvent, igCalled, igOutside>>

\* Mutant: the id of a message sent is not unique.
IdAlwaysFree == TRUE

(* The id is unique in the channel.                                        *)
IdFree == "echo" \notin igOutside

SendSaved ==
    /\ igCalled
    /\ IdFree
    /\ igCalled' = FALSE
    /\ igMsg' = [igMsg EXCEPT !.status = "sent", !.attempt = "sent", !.known = TRUE]
    /\ igConn' = [igConn EXCEPT !.failures = 0, !.open = FALSE]
    /\ UNCHANGED <<igNow, igWindow, igEvent, igOutside>>

(* The id was taken by the echo, or the process dies: the attempt stays    *)
(* "sending" and the message "queued".                                     *)
SendUnsaved ==
    /\ igCalled
    /\ igCalled' = FALSE
    /\ UNCHANGED <<igNow, igConn, igWindow, igEvent, igMsg, igOutside>>

(* retry_instagram_outbound asks for operational controls, not for the     *)
(* window or the connection.                                               *)
Retrying == igMsg.attempt = "queued" /\ UNCHANGED <<igNow, igConn, igWindow, igEvent, igCalled, igOutside>>

RetryAccepted ==
    /\ Retrying
    /\ igMsg.count < MaxSend
    /\ IdFree
    /\ igMsg' = [Handed(igMsg, FALSE) EXCEPT !.count = @ + 1, !.status = "sent", !.attempt = "sent", !.known = TRUE]

(* A refusal leaves the message queued.                                    *)
RetryFails(transient, lost) ==
    LET o == IF lost THEN Handed(igMsg, TRUE) ELSE igMsg
    IN
    /\ Retrying
    /\ igMsg.count < MaxSend
    /\ lost => transient /\ igMsg.lost < MaxLost
    /\ igMsg' = [o EXCEPT !.count = @ + 1, !.attempt = IF transient THEN "queued" ELSE "failed"]

RetryExhausted ==
    /\ Retrying
    /\ igMsg.count >= MaxSend
    /\ igMsg' = [igMsg EXCEPT !.status = "failed", !.attempt = "dead_letter"]

InstagramNext ==
    \/ Tick
    \/ \E b \in BOOLEAN : CompleteOAuth(b) \/ SendAccepted(b)
    \/ Disconnect \/ Reconnect \/ Health \/ CircuitCloses
    \/ \E e \in Events : \/ \E k \in Kinds : Happens(e, k)
                         \/ Receive(e) \/ EventLost(e) \/ ProcessMessage(e) \/ ProcessEcho(e) \/ ProcessRead(e) \/ ProcessFails(e)
    \/ \E h, tr, lo \in BOOLEAN : SendFails(h, tr, lo)
    \/ \E tr, lo \in BOOLEAN : RetryFails(tr, lo)
    \/ SendSaved \/ SendUnsaved \/ RetryAccepted \/ RetryExhausted

InstagramSpec == InstagramInit /\ [][InstagramNext]_igVars

-----------------------------------------------------------------------------
(* Properties.                                                             *)

(* Echo, retry and answer race for one reply: a reply stored under Meta's  *)
(* id has no copy made by the echo of that id, and Meta is handed a reply  *)
(* again only after a lost answer.                                         *)
ReplyIsOneMessage ==
    /\ igMsg.known => "echo" \notin igOutside
    /\ igMsg.handed <= 1 + igMsg.lost

(* instagram-messaging.md:21: the echo of a reply is reconciled with it    *)
(* and no message is stored beside it.                                     *)
EchoFindsReply == igOutside = {}

(* instagram-messaging.md:20: every send re-reads connection and window    *)
(* immediately before the call of Meta.                                    *)
WindowOpenAtSend ==
    [][igMsg'.handed > igMsg.handed => Reachable /\ (InWindow \/ (igMsg'.human /\ InHumanWindow))]_igVars
=============================================================================
