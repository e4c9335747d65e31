------------------------------ MODULE WebChat ------------------------------
(***************************************************************************)
(* The public web chat (backend/apps/web_chat): an installation, one       *)
(* visitor's session, its numbered events, and the replies of the staff    *)
(* and the assistant.                                                      *)
(*                                                                         *)
(* A request authenticates without a lock and then runs a transaction that *)
(* locks the session row; between the two the session may have changed     *)
(* (wcReq).  A reply is published by a transaction of its own, after the   *)
(* one that stored it.  publish_event locks the row, reads the highest     *)
(* number and inserts the next: wcLock is who holds the row.               *)
(*                                                                         *)
(* The visitor polls or streams the events after its cursor, a page at a   *)
(* time; wcVisitor is the cursor and, for the properties alone, what it    *)
(* was given.  Its cursor is the one the API answers: the numbers the      *)
(* widget makes up for what it shows at once are left out.  Retention      *)
(* deletes the events of a session that is over, and the numbers start     *)
(* again.                                                                  *)
(***************************************************************************)
EXTENDS Integers, FiniteSetsExt

CONSTANTS
    Posts,          \* bound: idempotency keys of the visitor
    Replies,        \* bound: replies of staff and assistant
    MaxEvents,      \* bound: events of the session
    PageSize,       \* events of one answer (100 in the code)
    MaxRequests     \* bound: requests of the visitor under way at once

VARIABLES wcInst, wcProof, wcSess, wcReq, wcPost, wcReply, wcLock, wcEvents, wcVisitor

wcVars == <<wcInst, wcProof, wcSess, wcReq, wcPost, wcReply, wcLock, wcEvents, wcVisitor>>

-----------------------------------------------------------------------------
InstallationStatuses == {"draft", "active", "paused", "revoked"}
SessionStatuses == {"none", "active", "handed_off", "closed", "expired", "blocked"}
Operations == {"post", "handoff", "resume", "close", "identity", "read"}
Open == {"active", "handed_off"}

\* token: the visitor holds the token of the row; over: expires_at is past
SessionRow == [status: SessionStatuses, token: BOOLEAN, over: BOOLEAN, conversation: BOOLEAN, contact: BOOLEAN]

\* stored: committed and not yet published; refused: the number was taken
ReplyStates == {"none", "stored", "shown", "lost", "refused"}
NoLock == [by |-> "nobody", number |-> 0]

Numbers == 1 .. MaxEvents
Said == Posts \cup Replies \cup {"started", "resumed", "identity", "handoff", "read", "closed"}
VisitorRow == [after: 0 .. MaxEvents, given: SUBSET (Numbers \X Said)]

WebChatTypeOK ==
    /\ wcInst \in InstallationStatuses
    /\ wcProof \in BOOLEAN
    /\ wcSess \in SessionRow
    /\ wcReq \subseteq Operations
    /\ wcPost \in [Posts -> BOOLEAN]
    /\ wcReply \in [Replies -> ReplyStates]
    /\ wcLock \in [by: Posts \cup Replies, number: Numbers] \cup {NoLock}
    /\ DOMAIN wcEvents \subseteq Numbers
    /\ wcEvents \in [DOMAIN wcEvents -> Said]
    /\ wcVisitor \in VisitorRow

WebChatInit ==
    /\ wcInst = "draft"
    /\ wcProof = FALSE
    /\ wcSess = [status |-> "none", token |-> FALSE, over |-> FALSE, conversation |-> FALSE, contact |-> FALSE]
    /\ wcReq = {}
    /\ wcPost = [p \in Posts |-> FALSE]
    /\ wcReply = [r \in Replies |-> "none"]
    /\ wcLock = NoLock
    /\ wcEvents = <<>>
    /\ wcVisitor = [after |-> 0, given |-> {}]

-----------------------------------------------------------------------------
(* The installation, by its managers.  Nothing asks what it was before.    *)

Activate ==
    /\ wcInst # "active"
    /\ wcInst' = "active"
    /\ UNCHANGED <<wcProof, wcSess, wcReq, wcPost, wcReply, wcLock, wcEvents, wcVisitor>>

Pause ==
    /\ wcInst' = "paused"
    /\ UNCHANGED <<wcProof, wcSess, wcReq, wcPost, wcReply, wcLock, wcEvents, wcVisitor>>

Revoke ==
    /\ wcLock = NoLock
    /\ wcInst' = "revoked"
    /\ wcSess' = IF wcSess.status \in Open THEN [wcSess EXCEPT !.status = "blocked"] ELSE wcSess
    /\ UNCHANGED <<wcProof, wcReq, wcPost, wcReply, wcLock, wcEvents, wcVisitor>>

(* An origin proof names the key it was made for.                          *)
RotateKey ==
    /\ wcProof
    /\ wcProof' = FALSE
    /\ UNCHANGED <<wcInst, wcSess, wcReq, wcPost, wcReply, wcLock, wcEvents, wcVisitor>>

GetConfig ==
    /\ wcInst = "active"
    /\ ~wcProof
    /\ wcProof' = TRUE
    /\ UNCHANGED <<wcInst, wcSess, wcReq, wcPost, wcReply, wcLock, wcEvents, wcVisitor>>

-----------------------------------------------------------------------------
(* publish_event inside a transaction that has the row: the number is the  *)
(* one after the highest, and a key published before is not again.         *)

Free == wcLock = NoLock
NextNumber == Max(DOMAIN wcEvents \cup {0}) + 1
Insert(n, event) == wcEvents' = [i \in DOMAIN wcEvents \cup {n} |-> IF i = n THEN event ELSE wcEvents[i]]
Publish(event) == NextNumber <= MaxEvents /\ Insert(NextNumber, event)
Once(event) ==
    IF \E i \in DOMAIN wcEvents : wcEvents[i] = event THEN UNCHANGED wcEvents ELSE Publish(event)

CreateSession ==
    /\ wcSess.status = "none"
    /\ wcInst = "active"
    /\ wcProof
    /\ wcSess' = [wcSess EXCEPT !.status = "active", !.token = TRUE]
    /\ Publish("started")
    /\ UNCHANGED <<wcInst, wcProof, wcReq, wcPost, wcReply, wcLock, wcVisitor>>

(* authenticate_session; close is the one that passes on a closed session. *)
Admitted(op) ==
    /\ wcSess.token
    /\ wcInst = "active"
    /\ ~wcSess.over
    /\ wcSess.status \in Open \cup (IF op = "close" THEN {"closed"} ELSE {})

Authenticate(op) ==
    /\ op \notin wcReq
    /\ Cardinality(wcReq) < MaxRequests
    /\ Admitted(op)
    /\ wcReq' = wcReq \cup {op}
    /\ UNCHANGED <<wcInst, wcProof, wcSess, wcPost, wcReply, wcLock, wcEvents, wcVisitor>>

\* A transaction of one request; those that take one step hold the row in it.
Runs(op) ==
    /\ op \in wcReq
    /\ wcReq' = wcReq \ {op}
    /\ UNCHANGED <<wcInst, wcProof>>

-----------------------------------------------------------------------------
(* ingest_public_message.  What _moderate saves of a repeated text is      *)
(* undone with the transaction it raises in, so a refusal leaves nothing.  *)

PostBegin(p) ==
    /\ "post" \in wcReq
    /\ Free
    /\ ~wcPost[p]
    /\ wcSess.status \in Open
    /\ NextNumber <= MaxEvents
    /\ wcLock' = [by |-> p, number |-> NextNumber]
    /\ UNCHANGED <<wcInst, wcProof, wcSess, wcReq, wcPost, wcReply, wcEvents, wcVisitor>>

PostCommit(p) ==
    /\ wcLock.by = p
    /\ Runs("post")
    /\ wcLock' = NoLock
    /\ IF wcLock.number \notin DOMAIN wcEvents
       THEN /\ Insert(wcLock.number, p)
            /\ wcPost' = [wcPost EXCEPT ![p] = TRUE]
            /\ wcSess' = [wcSess EXCEPT !.conversation = TRUE, !.contact = TRUE]
       ELSE UNCHANGED <<wcEvents, wcPost, wcSess>>
    /\ UNCHANGED <<wcReply, wcVisitor>>

(* The refused post, or one stored before: nothing changes.                *)
PostAnswered ==
    /\ Runs("post")
    /\ Free
    /\ wcSess.status \notin Open \/ \E p \in Posts : wcPost[p]
    /\ UNCHANGED <<wcSess, wcPost, wcReply, wcLock, wcEvents, wcVisitor>>

(* request_handoff asks for a conversation and not for the status.         *)
Handoff ==
    /\ Runs("handoff")
    /\ Free
    /\ IF wcSess.conversation
       THEN /\ wcSess' = [wcSess EXCEPT !.status = "handed_off"]
            /\ Publish("handoff")
       ELSE UNCHANGED <<wcSess, wcEvents>>
    /\ UNCHANGED <<wcPost, wcReply, wcLock, wcVisitor>>

Resume ==
    /\ Runs("resume")
    /\ Free
    /\ IF wcSess.status \in Open
       THEN /\ wcSess' = [wcSess EXCEPT !.token = TRUE, !.over = FALSE]
            /\ Publish("resumed")
       ELSE UNCHANGED <<wcSess, wcEvents>>
    /\ UNCHANGED <<wcPost, wcReply, wcLock, wcVisitor>>

CloseSession ==
    /\ Runs("close")
    /\ Free
    /\ IF wcSess.status # "closed"
       THEN /\ wcSess' = [wcSess EXCEPT !.status = "closed", !.token = FALSE]
            /\ Publish("closed")
       ELSE UNCHANGED <<wcSess, wcEvents>>
    /\ UNCHANGED <<wcPost, wcReply, wcLock, wcVisitor>>

UpdateIdentity ==
    /\ Runs("identity")
    /\ Free
    /\ wcSess' = [wcSess EXCEPT !.contact = TRUE]
    /\ Publish("identity")
    /\ UNCHANGED <<wcPost, wcReply, wcLock, wcVisitor>>

MarkRead ==
    /\ Runs("read")
    /\ Free
    /\ Once("read")
    /\ UNCHANGED <<wcSess, wcPost, wcReply, wcLock, wcVisitor>>

-----------------------------------------------------------------------------
(* A reply of the staff or the assistant (send_outbound_message,           *)
(* _persist_ai_message) while can_send_public_web_chat says so; it is      *)
(* published after the commit that stored it.                              *)

SendReply(r) ==
    /\ wcReply[r] = "none"
    /\ wcSess.conversation
    /\ wcSess.status \in Open
    /\ wcInst = "active"
    /\ ~wcSess.over
    /\ wcReply' = [wcReply EXCEPT ![r] = "stored"]
    /\ UNCHANGED <<wcInst, wcProof, wcSess, wcReq, wcPost, wcLock, wcEvents, wcVisitor>>

ShowBegin(r) ==
    /\ wcReply[r] = "stored"
    /\ Free
    /\ NextNumber <= MaxEvents
    /\ wcLock' = [by |-> r, number |-> NextNumber]
    /\ UNCHANGED <<wcInst, wcProof, wcSess, wcReq, wcPost, wcReply, wcEvents, wcVisitor>>

ShowCommit(r) ==
    /\ wcLock.by = r
    /\ wcLock' = NoLock
    /\ IF wcLock.number \notin DOMAIN wcEvents
       THEN /\ Insert(wcLock.number, r)
            /\ wcReply' = [wcReply EXCEPT ![r] = "shown"]
       ELSE /\ wcReply' = [wcReply EXCEPT ![r] = "refused"]
            /\ UNCHANGED wcEvents
    /\ UNCHANGED <<wcInst, wcProof, wcSess, wcReq, wcPost, wcVisitor>>

(* The process dies between the two commits.                               *)
ShowLost(r) ==
    /\ wcReply[r] = "stored"
    /\ wcReply' = [wcReply EXCEPT ![r] = "lost"]
    /\ wcLock' = IF wcLock.by = r THEN NoLock ELSE wcLock
    /\ UNCHANGED <<wcInst, wcProof, wcSess, wcReq, wcPost, wcEvents, wcVisitor>>

-----------------------------------------------------------------------------
(* The visitor asks for what comes after its cursor: a page, of which a    *)
(* stream that breaks delivers a beginning.  The cursor is then the last   *)
(* number delivered.                                                       *)

\* Mutant: the cursor answered is the last number of the session.
LastOfSession(shown) == Max(DOMAIN wcEvents)

CursorAfter(shown) == Max(shown)

Unseen == {n \in DOMAIN wcEvents : n > wcVisitor.after}

Poll ==
    /\ Admitted("read")
    /\ \E last \in Unseen :
           LET shown == {n \in Unseen : n <= last}
           IN  /\ Cardinality(shown) <= PageSize
               /\ wcVisitor' = [after |-> CursorAfter(shown),
                                given |-> wcVisitor.given \cup {<<n, wcEvents[n]>> : n \in shown}]
    /\ UNCHANGED <<wcInst, wcProof, wcSess, wcReq, wcPost, wcReply, wcLock, wcEvents>>

Expires ==
    /\ wcSess.status # "none"
    /\ ~wcSess.over
    /\ wcSess' = [wcSess EXCEPT !.over = TRUE]
    /\ UNCHANGED <<wcInst, wcProof, wcReq, wcPost, wcReply, wcLock, wcEvents, wcVisitor>>

(* A request that comes too late marks the session; cleanup also replaces  *)
(* the token.                                                              *)
ExpiredSeen ==
    /\ wcSess.over
    /\ wcSess.status = "active"
    /\ Free
    /\ wcSess' = [wcSess EXCEPT !.status = "expired"]
    /\ UNCHANGED <<wcInst, wcProof, wcReq, wcPost, wcReply, wcLock, wcEvents, wcVisitor>>

Cleanup ==
    /\ wcSess.over
    /\ wcSess.status \in Open
    /\ Free
    /\ wcSess' = [wcSess EXCEPT !.status = "expired", !.token = FALSE]
    /\ UNCHANGED <<wcInst, wcProof, wcReq, wcPost, wcReply, wcLock, wcEvents, wcVisitor>>

(* Retention: days after the end (a request does not last that long), and  *)
(* without the row, so a reply may be published after it.                  *)
Purge ==
    /\ wcSess.over
    /\ wcSess.status \notin Open
    /\ wcReq = {}
    /\ wcEvents' = <<>>
    /\ UNCHANGED <<wcInst, wcProof, wcSess, wcReq, wcPost, wcReply, wcLock, wcVisitor>>

WebChatNext ==
    \/ Activate \/ Pause \/ Revoke \/ RotateKey \/ GetConfig \/ CreateSession
    \/ \E op \in Operations : Authenticate(op)
    \/ \E p \in Posts : PostBegin(p) \/ PostCommit(p)
    \/ PostAnswered \/ Handoff \/ Resume \/ CloseSession \/ UpdateIdentity \/ MarkRead
    \/ \E r \in Replies : SendReply(r) \/ ShowBegin(r) \/ ShowCommit(r) \/ ShowLost(r)
    \/ Poll \/ Expires \/ ExpiredSeen \/ Cleanup \/ Purge

WebChatSpec == WebChatInit /\ [][WebChatNext]_wcVars

-----------------------------------------------------------------------------
(* Properties.                                                             *)

(* public-web-chat.md:11: the sequence is a monotonic per-session          *)
(* reconnect cursor.  However posts, replies, requests, pages and cleanup  *)
(* overlap: a visitor that may still read was given every event its cursor *)
(* has passed, no publication is refused because another took its number,  *)
(* and no message has two numbers.                                         *)
GivenAll == \A n \in DOMAIN wcEvents : n <= wcVisitor.after => <<n, wcEvents[n]>> \in wcVisitor.given
NumberedOnce == \A m \in Posts \cup Replies, i, j \in DOMAIN wcEvents : wcEvents[i] = m /\ wcEvents[j] = m => i = j
CursorSkipsNothing ==
    /\ Admitted("read") => GivenAll
    /\ \A r \in Replies : wcReply[r] # "refused"
    /\ NumberedOnce

(* public-web-chat.md:11: operator and AI messages publish after commit.   *)
(* One whose process dies between the two is never published.              *)
RepliesArePublished == \A r \in Replies : wcReply[r] # "lost"

(* public-web-chat.md:9: session credentials are invalidated on close.     *)
ClosedHasNoCredential ==
    (\E i \in DOMAIN wcEvents : wcEvents[i] = "closed") => ~wcSess.token
=============================================================================
