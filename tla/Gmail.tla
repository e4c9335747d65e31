-------------------------------- MODULE Gmail --------------------------------
(***************************************************************************)
(* One Gmail mailbox: its connection row and the synchronisation of its    *)
(* mail into the CRM (backend/apps/gmail_integration).  GmailReply is the  *)
(* sending of a reply.                                                     *)
(*                                                                         *)
(* Google numbers the changes of a mailbox; a mail is the number of the    *)
(* change that added it, gmHead the latest number and the cursor           *)
(* (history_id) the number up to which the mailbox was read, 0 when empty. *)
(* Mail the parser or the label filter drops leaves no row and is left     *)
(* out, and so are changes of labels, which use up HistoryLimit as well.   *)
(*                                                                         *)
(* process_notification is one transaction that locks the connection.  The *)
(* initial, full and reconciling synchronisations, watch renewal and the   *)
(* health check are not: they read the row, talk to Google and save fields *)
(* of the copy they read.  gmSync is such a synchronisation, gmCheck such  *)
(* a renewal or health check, at most one of each at a time.               *)
(***************************************************************************)
EXTENDS Integers, FiniteSetsExt

CONSTANTS
    Last,           \* bound: the last change of the mailbox; mails are 2 .. Last
    Automated,      \* mails from machines: stored, never given to the assistant
    FullLimit,      \* initial_sync_max_messages
    HistoryLimit,   \* GOOGLE_GMAIL_INCREMENTAL_MAX_MESSAGES
    MaxSync,        \* GOOGLE_GMAIL_MAX_SYNC_ATTEMPTS
    Noted           \* bound: the mails Pub/Sub tells of

VARIABLES gmHead, gmConn, gmRow, gmAsked, gmNote, gmSync, gmCheck

gmVars == <<gmHead, gmConn, gmRow, gmAsked, gmNote, gmSync, gmCheck>>
gmRest == <<gmHead, gmRow, gmAsked, gmNote, gmSync>>

-----------------------------------------------------------------------------
Mails == 2 .. Last
Cursors == 0 .. Last

ConnStatuses == {"syncing", "connected", "degraded", "reauth_required", "disconnected"}
InitialStates == {"pending", "running", "succeeded", "failed", "cancelled"}
ConnRow == [status: ConnStatuses \cup {"none"}, cursor: Cursors, initial: InitialStates]
\* run: the synchronisation that succeeded for it, over the history or the recent mail
NoteRow == [status: {"none", "received", "failed", "done"}, attempts: 0 .. MaxSync,
            run: {"none", "history", "recent"}]

NoSync == [kind |-> "none", phase |-> "none", cursor |-> 0, todo |-> {}, end |-> 0]
Syncs == [kind: {"initial", "full", "incremental"}, phase: {"list", "profile", "ingest"},
          cursor: Cursors, todo: SUBSET Mails, end: Cursors] \cup {NoSync}
NoCheck == [kind |-> "none", cursor |-> 0]

GmailTypeOK ==
    /\ gmHead \in 1 .. Last
    /\ gmConn \in ConnRow
    /\ gmRow \in [Mails -> {"none", "message", "recorded"}]
    /\ gmAsked \in [Mails -> 0 .. 2]
    /\ gmNote \in [Noted -> NoteRow]
    /\ gmSync \in Syncs
    /\ gmCheck \in [kind: {"renew", "health"}, cursor: Cursors] \cup {NoCheck}

GmailInit ==
    /\ gmHead = 1
    /\ gmConn = [status |-> "none", cursor |-> 0, initial |-> "pending"]
    /\ gmRow = [i \in Mails |-> "none"]
    /\ gmAsked = [i \in Mails |-> 0]
    /\ gmNote = [i \in Noted |-> [status |-> "none", attempts |-> 0, run |-> "none"]]
    /\ gmSync = NoSync
    /\ gmCheck = NoCheck

Larger(a, b) == IF a >= b THEN a ELSE b

HasCredentials == gmConn.status \notin {"none", "disconnected"}

-----------------------------------------------------------------------------
(* Google.                                                                 *)

Arrive ==
    /\ gmHead < Last
    /\ gmHead' = gmHead + 1
    /\ UNCHANGED <<gmConn, gmRow, gmAsked, gmNote, gmSync, gmCheck>>

(* receive_pubsub: one row per Pub/Sub message.                            *)
ReceivePubsub(i) ==
    /\ i <= gmHead
    /\ gmConn.status \in {"syncing", "connected", "degraded"}
    /\ gmNote[i].status = "none"
    /\ gmNote' = [gmNote EXCEPT ![i].status = "received"]
    /\ UNCHANGED <<gmHead, gmConn, gmRow, gmAsked, gmSync, gmCheck>>

-----------------------------------------------------------------------------
(* The connection.                                                         *)

(* complete_oauth, first or again: the watch sets the cursor to the latest *)
(* change; when it cannot be started the connection is degraded.           *)
CompleteOAuth(watching) ==
    /\ gmConn' = [status |-> IF watching THEN "connected" ELSE "degraded",
                  cursor |-> IF watching THEN gmHead ELSE gmConn.cursor, initial |-> "pending"]
    /\ UNCHANGED <<gmRest, gmCheck>>

(* disconnect_gmail: stops the watch, drops credentials and cursor.        *)
Disconnect ==
    /\ gmConn.status # "none"
    /\ gmConn' = [gmConn EXCEPT !.status = "disconnected", !.cursor = 0]
    /\ UNCHANGED <<gmRest, gmCheck>>

(* renew_watch and connection_health: read, ask Google, save.              *)
CheckBegin(kind) ==
    /\ gmCheck = NoCheck
    /\ HasCredentials
    /\ kind = "renew" => gmConn.status \in {"connected", "degraded"}
    /\ gmCheck' = [kind |-> kind, cursor |-> IF kind = "renew" THEN gmConn.cursor ELSE 0]
    /\ UNCHANGED <<gmRest, gmConn>>

CheckLive ==
    /\ gmCheck # NoCheck
    /\ gmCheck' = NoCheck

(* The renewal saves the cursor it had read, or the one Google answers.    *)
RenewEnd ==
    /\ CheckLive
    /\ gmCheck.kind = "renew"
    /\ gmConn' = [gmConn EXCEPT !.status = "connected",
                                !.cursor = IF gmCheck.cursor # 0 THEN gmCheck.cursor ELSE gmHead]
    /\ UNCHANGED gmRest

HealthEnd ==
    /\ CheckLive
    /\ gmCheck.kind = "health"
    /\ \E s \in {"connected", "reauth_required"} : gmConn' = [gmConn EXCEPT !.status = s]
    /\ UNCHANGED gmRest

(* Google refuses the renewal or the check.                                *)
CheckRefused ==
    /\ CheckLive
    /\ gmConn' = [gmConn EXCEPT !.status = "degraded"]
    /\ UNCHANGED gmRest

(* check_gmail_connections: an initial synchronisation that runs for an    *)
(* hour is given up.                                                       *)
InitialStuck ==
    /\ gmConn.initial = "running"
    /\ gmConn' = [gmConn EXCEPT !.initial = "failed", !.status = "degraded"]
    /\ UNCHANGED <<gmRest, gmCheck>>

CancelInitialSync ==
    /\ gmConn.initial = "running"
    /\ gmConn' = [gmConn EXCEPT !.initial = "cancelled"]
    /\ UNCHANGED <<gmRest, gmCheck>>

-----------------------------------------------------------------------------
(* Storing one mail (_ingest_provider_message).  The message and its Gmail *)
(* record are two commits outside a transaction; only the call that        *)
(* created the message writes the record and asks the assistant.           *)

AskedFor(i, historical) == ~historical /\ i \notin Automated
Stored(rows, set) == [i \in Mails |-> IF i \in set /\ rows[i] = "none" THEN "recorded" ELSE rows[i]]

\* Mutant: the assistant is asked by every call that saw the mail.
AskedAgain(rows, set, historical) ==
    [i \in Mails |-> IF i \in set /\ AskedFor(i, historical) /\ gmAsked[i] < 2 THEN gmAsked[i] + 1 ELSE gmAsked[i]]

AskedAfter(rows, set, historical) ==
    [i \in Mails |-> IF i \in set /\ rows[i] = "none" /\ AskedFor(i, historical) THEN gmAsked[i] + 1 ELSE gmAsked[i]]

(* What a synchronisation reads that Google answers at change `seen': the  *)
(* newest FullLimit mails, or the oldest HistoryLimit past a cursor.       *)
Recent(seen) == {i \in 2 .. seen : i > seen - FullLimit}

\* Mutant: one mail less than the limit is read.
HistoryShort(c, seen) == {i \in 2 .. seen : i > c /\ i < c + HistoryLimit}

History(c, seen) == {i \in 2 .. seen : i > c /\ i <= c + HistoryLimit}

-----------------------------------------------------------------------------
(* Synchronisation outside a transaction.                                  *)

FullBegin(kind) ==
    /\ gmSync = NoSync
    /\ gmSync' = [NoSync EXCEPT !.kind = kind, !.phase = "list", !.cursor = gmConn.cursor]

InitialSync ==
    /\ gmConn.initial = "pending"
    /\ gmConn.status # "none"
    /\ FullBegin("initial")
    /\ gmConn' = [gmConn EXCEPT !.initial = "running", !.status = "syncing"]
    /\ UNCHANGED <<gmHead, gmRow, gmAsked, gmNote, gmCheck>>

ManualResync ==
    /\ HasCredentials
    /\ FullBegin("full")
    /\ UNCHANGED <<gmHead, gmConn, gmRow, gmAsked, gmNote, gmCheck>>

(* reconcile_gmail_history; without a cursor it is a full synchronisation. *)
ReconcileHistory ==
    /\ gmSync = NoSync
    /\ gmConn.status \in {"connected", "degraded"}
    /\ \/ gmConn.cursor = 0 /\ FullBegin("full")
       \/ /\ gmConn.cursor # 0
          /\ gmSync' = [kind |-> "incremental", phase |-> "ingest", cursor |-> gmConn.cursor,
                        todo |-> History(gmConn.cursor, gmHead), end |-> gmHead]
    /\ UNCHANGED <<gmHead, gmConn, gmRow, gmAsked, gmNote, gmCheck>>

(* The cursor expired at Google.                                           *)
HistoryExpired ==
    /\ gmSync.kind = "incremental"
    /\ gmSync' = [gmSync EXCEPT !.kind = "full", !.phase = "list", !.todo = {}, !.end = 0]
    /\ UNCHANGED <<gmHead, gmConn, gmRow, gmAsked, gmNote, gmCheck>>

(* list_recent lists the messages first and reads the latest change after. *)
ListRecent ==
    /\ gmSync.phase = "list"
    /\ gmSync' = [gmSync EXCEPT !.phase = "profile", !.todo = Recent(gmHead)]
    /\ UNCHANGED <<gmHead, gmConn, gmRow, gmAsked, gmNote, gmCheck>>

ReadProfile ==
    /\ gmSync.phase = "profile"
    /\ gmSync' = [gmSync EXCEPT !.phase = "ingest", !.end = gmHead]
    /\ UNCHANGED <<gmHead, gmConn, gmRow, gmAsked, gmNote, gmCheck>>

(* An initial synchronisation of a mailbox read from now on lists nothing. *)
FromNow ==
    /\ gmSync.kind = "initial"
    /\ gmSync.phase = "list"
    /\ gmSync' = [gmSync EXCEPT !.phase = "ingest", !.end = gmSync.cursor]
    /\ UNCHANGED <<gmHead, gmConn, gmRow, gmAsked, gmNote, gmCheck>>

Cancelled == gmSync.kind = "initial" /\ gmConn.initial = "cancelled"
Ingesting == gmSync.phase = "ingest" /\ gmSync.todo # {}

SyncOne ==
    LET i == Min(gmSync.todo)
        historical == gmSync.kind # "incremental"
    IN
    /\ Ingesting
    /\ ~Cancelled
    /\ gmRow' = Stored(gmRow, {i})
    /\ gmAsked' = AskedAfter(gmRow, {i}, historical)
    /\ gmSync' = [gmSync EXCEPT !.todo = @ \ {i}]
    /\ UNCHANGED <<gmHead, gmConn, gmNote, gmCheck>>

(* The process dies, between the message and its record or elsewhere.      *)
SyncCrash(between) ==
    /\ gmSync # NoSync
    /\ between => Ingesting /\ gmRow[Min(gmSync.todo)] = "none"
    /\ gmRow' = IF between THEN [gmRow EXCEPT ![Min(gmSync.todo)] = "message"] ELSE gmRow
    /\ gmSync' = NoSync
    /\ UNCHANGED <<gmHead, gmConn, gmAsked, gmNote, gmCheck>>

SyncCancelled ==
    /\ Ingesting
    /\ Cancelled
    /\ gmSync' = NoSync
    /\ UNCHANGED <<gmHead, gmConn, gmRow, gmAsked, gmNote, gmCheck>>

FullEnd ==
    LET c == IF gmSync.end # 0 THEN gmSync.end ELSE gmSync.cursor
    IN
    /\ gmSync.phase = "ingest"
    /\ gmSync.kind # "incremental"
    /\ gmSync.todo = {}
    /\ gmSync' = NoSync
    /\ gmConn' = IF gmSync.kind = "initial"
                 THEN [status |-> "connected", cursor |-> c, initial |-> "succeeded"]
                 ELSE [gmConn EXCEPT !.cursor = c]
    /\ UNCHANGED <<gmHead, gmRow, gmAsked, gmNote, gmCheck>>

IncrementalEnd ==
    /\ gmSync.kind = "incremental"
    /\ gmSync.todo = {}
    /\ gmSync' = NoSync
    /\ gmConn' = [gmConn EXCEPT !.cursor = Larger(gmSync.end, gmSync.cursor)]
    /\ UNCHANGED <<gmHead, gmRow, gmAsked, gmNote, gmCheck>>

(* Google fails: only an initial synchronisation changes the connection.   *)
SyncFailed ==
    /\ gmSync # NoSync
    /\ gmSync' = NoSync
    /\ gmConn' = IF gmSync.kind = "initial" THEN [gmConn EXCEPT !.initial = "failed", !.status = "degraded"] ELSE gmConn
    /\ UNCHANGED <<gmHead, gmRow, gmAsked, gmNote, gmCheck>>

-----------------------------------------------------------------------------
(* process_notification, one transaction.  It reads the history, or the    *)
(* recent mail when there is no cursor or Google's has expired; mail goes  *)
(* on arriving after Google has listed (`seen'), and before the recent     *)
(* mail's cursor is read (`next').                                         *)

Pending(i) == gmNote[i].status \in {"received", "failed"}
Reads(full, seen) == IF full THEN Recent(seen) ELSE History(gmConn.cursor, seen)

ProcessNotification(i, expired) ==
    LET full == gmConn.cursor = 0 \/ expired
    IN
    /\ Pending(i)
    /\ gmConn.initial # "running"
    /\ HasCredentials
    /\ \E seen \in Larger(i, gmConn.cursor) .. gmHead : \E next \in seen .. gmHead :
           /\ full \/ next = seen
           /\ gmRow' = Stored(gmRow, Reads(full, seen))
           /\ gmAsked' = AskedAfter(gmRow, Reads(full, seen), full)
           /\ gmConn' = [gmConn EXCEPT !.cursor = next]
    /\ gmNote' = [gmNote EXCEPT ![i] = [status |-> "done", attempts |-> 0, run |-> IF full THEN "recent" ELSE "history"]]
    /\ UNCHANGED <<gmHead, gmSync, gmCheck>>

\* Tried again, or the dead letter after MaxSync attempts.
FailedNote(note) ==
    IF note.attempts + 1 < MaxSync THEN [note EXCEPT !.status = "failed", !.attempts = @ + 1]
                                   ELSE [note EXCEPT !.status = "done", !.attempts = 0]

(* The initial synchronisation runs, the credentials are gone or Google    *)
(* fails.  The error is caught inside the transaction: what was stored up  *)
(* to the mail `last' is committed, and the cursor stays.                  *)
NotificationFailed(i, full, last) ==
    /\ Pending(i)
    /\ gmConn.cursor = 0 => full
    /\ \E seen \in 1 .. gmHead :
           LET set == {j \in Reads(full, seen) : j <= last}
           IN  /\ set # {} => gmConn.initial # "running" /\ HasCredentials
               /\ gmRow' = Stored(gmRow, set)
               /\ gmAsked' = AskedAfter(gmRow, set, full)
    /\ gmNote' = [gmNote EXCEPT ![i] = FailedNote(@)]
    /\ UNCHANGED <<gmHead, gmConn, gmSync, gmCheck>>

-----------------------------------------------------------------------------
GmailNext ==
    \/ Arrive
    \/ \E i \in Noted : \/ ReceivePubsub(i)
                        \/ \E b \in BOOLEAN : ProcessNotification(i, b)
                        \/ \E b \in BOOLEAN, last \in Cursors : NotificationFailed(i, b, last)
    \/ \E b \in BOOLEAN : CompleteOAuth(b) \/ SyncCrash(b)
    \/ Disconnect \/ RenewEnd \/ HealthEnd \/ CheckRefused \/ InitialStuck \/ CancelInitialSync
    \/ \E k \in {"renew", "health"} : CheckBegin(k)
    \/ InitialSync \/ ManualResync \/ ReconcileHistory \/ HistoryExpired \/ ListRecent \/ ReadProfile \/ FromNow
    \/ SyncOne \/ SyncCancelled \/ FullEnd \/ IncrementalEnd \/ SyncFailed

GmailSpec == GmailInit /\ [][GmailNext]_gmVars

-----------------------------------------------------------------------------
(* Properties.                                                             *)

(* A mail reaches the assistant at most once, whatever repeats it: a       *)
(* notification and a reconciliation at once, a cursor that went back, a   *)
(* synchronisation started again after a crash.                            *)
AskedOnce == \A i \in Mails : gmAsked[i] <= 1

(* gmail-email-integration.md:40: a synchronisation over the history moves *)
(* the cursor past the mails within its message bound only when they are   *)
(* stored, whatever failed half way, arrived meanwhile or ran beside it: a *)
(* reconciliation when it ends, a notification in each of its steps.       *)
ReconcileEnds == gmSync.kind = "incremental" /\ gmSync.todo = {} /\ gmSync'.kind = "none"
NotificationMoves == \E i \in Noted : gmNote'[i] # gmNote[i] /\ gmNote'[i].run # "recent"
ReadFrom == IF ReconcileEnds THEN gmSync.cursor ELSE gmConn.cursor
ReadTo == IF ReconcileEnds THEN gmSync.end ELSE gmConn'.cursor
Passed(i) == (ReconcileEnds \/ NotificationMoves) /\ ReadFrom # 0 /\ i > ReadFrom /\ i <= ReadTo
PassedAreStored == \A i \in Mails : Passed(i) /\ i <= ReadFrom + HistoryLimit => gmRow'[i] # "none"
CursorAfterIngestion == [][PassedAreStored]_gmVars

(* The same of every mail the cursor passes, as that line has it: of more  *)
(* new mails than the bound the later ones are passed unread.              *)
EveryPassedIsStored == [][\A i \in Mails : Passed(i) => gmRow'[i] # "none"]_gmVars

(* A disconnected mailbox stays so until someone signs in again.           *)
DisconnectHolds ==
    [][gmConn.status = "disconnected" /\ gmConn'.status # "disconnected" => gmConn'.initial = "pending"]_gmVars
=============================================================================
