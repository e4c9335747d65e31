-------------------------------- MODULE Crm --------------------------------
(***************************************************************************)
(* Contacts, identities, conversations and messages (backend/apps/crm).    *)
(* One customer writes in one thread of one connection: the deliveries of  *)
(* his messages are ingested by concurrent workers while employees create, *)
(* edit and merge contacts and work on the conversation.                   *)
(*                                                                         *)
(* merge_contacts, ConversationMarkReadView and record_delivery_update     *)
(* lock the rows they change.  The two edit forms do not: they read a row  *)
(* into crEdit and write every column of it back.                          *)
(***************************************************************************)
EXTENDS Naturals, FiniteSets

CONSTANTS
    Contacts,           \* bound: contacts that can be created
    Deliveries,         \* bound: provider message ids of the customer
    Workers,            \* bound: workers that ingest at the same time
    Editors,            \* bound: edit forms in flight
    Keys,               \* bound: client message ids of the employees
    Verdicts            \* bound: the delivery statuses told apart, "sent" among them

VARIABLES crContact, crOwner, crConv, crSeen, crWork, crEdit, crOut

crVars == <<crContact, crOwner, crConv, crSeen, crWork, crEdit, crOut>>

Nobody == "nobody"
Someone == Contacts \cup {Nobody}

-----------------------------------------------------------------------------
\* into: merged_into
ContactRow == [status: {"none", "active", "archived"}, into: Someone]
\* ai: whether ai_state lets the assistant answer
ConversationRow == [contact: Someone, status: {"none", "open", "resolved"}, unread: 0 .. Cardinality(Deliveries),
                    ai: {"on", "paused"}]
Idle == [at |-> "idle"]

CrmTypeOK ==
    /\ crContact \in [Contacts -> ContactRow]
    /\ crOwner \in Someone
    /\ crConv \in ConversationRow
    /\ crSeen \subseteq Deliveries
    /\ \A w \in Workers : crWork[w] = Idle \/ crWork[w] \in [at: {"read"}, id: Deliveries, owner: Someone]
    /\ \A e \in Editors : \/ crEdit[e] = Idle
                          \/ crEdit[e] \in [at: {"contact"}, who: Contacts, row: ContactRow]
                          \/ crEdit[e] \in [at: {"settings"}, row: ConversationRow]
    /\ crOut \in [Keys -> Verdicts \cup {"none"}]

CrmInit ==
    /\ crContact = [c \in Contacts |-> [status |-> "none", into |-> Nobody]]
    /\ crOwner = Nobody
    /\ crConv = [contact |-> Nobody, status |-> "none", unread |-> 0, ai |-> "on"]
    /\ crSeen = {}
    /\ crWork = [w \in Workers |-> Idle]
    /\ crEdit = [e \in Editors |-> Idle]
    /\ crOut = [k \in Keys |-> "none"]

Exists(c) == crContact[c].status # "none"

-----------------------------------------------------------------------------
(* ingest_inbound_message.                                                 *)

(* The worker looks for the message and for the identity.                  *)
IngestBegin(w, id) ==
    /\ crWork[w] = Idle
    /\ id \notin crSeen
    /\ crWork' = [crWork EXCEPT ![w] = [at |-> "read", id |-> id, owner |-> crOwner]]
    /\ UNCHANGED <<crContact, crOwner, crConv, crSeen, crEdit, crOut>>

\* Mutant: a delivery is not looked up before its message is stored.
ConflictsOfOwner(job) == job.owner = Nobody /\ crOwner # Nobody

(* unique_org_provider_message, unique_org_identity.                       *)
Conflicts(job) == job.id \in crSeen \/ (job.owner = Nobody /\ crOwner # Nobody)

(* open_or_find_conversation and the update of its counters in place.      *)
Received(conv, contact) ==
    [conv EXCEPT !.contact = IF conv.status = "none" THEN contact ELSE @, !.status = "open", !.unread = @ + 1]

IngestCommit(w, contact) ==
    LET job == crWork[w] IN
    /\ job.at = "read"
    /\ ~Conflicts(job)
    /\ IF job.owner = Nobody
       THEN /\ ~Exists(contact)
            /\ crContact' = [crContact EXCEPT ![contact].status = "active"]
            /\ crOwner' = contact
       ELSE contact = job.owner /\ UNCHANGED <<crContact, crOwner>>
    /\ crConv' = Received(crConv, contact)
    /\ crSeen' = crSeen \cup {job.id}
    /\ crWork' = [crWork EXCEPT ![w] = Idle]
    /\ UNCHANGED <<crEdit, crOut>>

(* The constraint refuses the second row and everything is rolled back.    *)
IngestRefused(w) ==
    /\ crWork[w].at = "read"
    /\ Conflicts(crWork[w])
    /\ crWork' = [crWork EXCEPT ![w] = Idle]
    /\ UNCHANGED <<crContact, crOwner, crConv, crSeen, crEdit, crOut>>

-----------------------------------------------------------------------------
(* Contacts and identities.                                                *)

CreateContact(c) ==
    /\ ~Exists(c)
    /\ crContact' = [crContact EXCEPT ![c].status = "active"]
    /\ UNCHANGED <<crOwner, crConv, crSeen, crWork, crEdit, crOut>>

(* add_identity asks only that the identity is free.                       *)
AddIdentity(c) ==
    /\ Exists(c)
    /\ crOwner = Nobody
    /\ crOwner' = c
    /\ UNCHANGED <<crContact, crConv, crSeen, crWork, crEdit, crOut>>

RemoveIdentity ==
    /\ crOwner # Nobody
    /\ crOwner' = Nobody
    /\ UNCHANGED <<crContact, crConv, crSeen, crWork, crEdit, crOut>>

(* merge_contacts, both rows locked: what the source holds is moved.       *)
Mergeable(source, target) ==
    /\ source # target
    /\ Exists(source) /\ Exists(target)
    /\ crContact[source].into = Nobody
    /\ crContact[target].into = Nobody

Moved(holder, source, target) == IF holder = source THEN target ELSE holder

Merge(source, target) ==
    /\ Mergeable(source, target)
    /\ crContact' = [crContact EXCEPT ![source] = [status |-> "archived", into |-> target]]
    /\ crOwner' = Moved(crOwner, source, target)
    /\ crConv' = [crConv EXCEPT !.contact = Moved(@, source, target)]
    /\ UNCHANGED <<crSeen, crWork, crEdit, crOut>>

(* ContactDetailView.patch: instance.save() writes merged_into too.        *)
EditContactBegin(e, c) ==
    /\ crEdit[e] = Idle
    /\ Exists(c)
    /\ crEdit' = [crEdit EXCEPT ![e] = [at |-> "contact", who |-> c, row |-> crContact[c]]]
    /\ UNCHANGED <<crContact, crOwner, crConv, crSeen, crWork, crOut>>

EditContactSave(e, status) ==
    /\ crEdit[e].at = "contact"
    /\ crContact' = [crContact EXCEPT ![crEdit[e].who] = [crEdit[e].row EXCEPT !.status = status]]
    /\ crEdit' = [crEdit EXCEPT ![e] = Idle]
    /\ UNCHANGED <<crOwner, crConv, crSeen, crWork, crOut>>

-----------------------------------------------------------------------------
(* The conversation.                                                       *)

(* ConversationDetailView.patch: the default update saves the whole row.   *)
EditSettingsBegin(e) ==
    /\ crEdit[e] = Idle
    /\ crConv.status # "none"
    /\ crEdit' = [crEdit EXCEPT ![e] = [at |-> "settings", row |-> crConv]]
    /\ UNCHANGED <<crContact, crOwner, crConv, crSeen, crWork, crOut>>

EditSettingsSave(e) ==
    /\ crEdit[e].at = "settings"
    /\ crConv' = crEdit[e].row
    /\ crEdit' = [crEdit EXCEPT ![e] = Idle]
    /\ UNCHANGED <<crContact, crOwner, crSeen, crWork, crOut>>

MarkRead ==
    /\ crConv.unread > 0
    /\ crConv' = [crConv EXCEPT !.unread = 0]
    /\ UNCHANGED <<crContact, crOwner, crSeen, crWork, crEdit, crOut>>

(* Resolve and reopen save the columns they change, as assigning does.     *)
SetStatus(status) ==
    /\ crConv.status # "none"
    /\ crConv' = [crConv EXCEPT !.status = status]
    /\ UNCHANGED <<crContact, crOwner, crSeen, crWork, crEdit, crOut>>

(* The employee lets the assistant answer again (ai_runtime).              *)
ResumeAI ==
    /\ crConv.ai = "paused"
    /\ crConv' = [crConv EXCEPT !.ai = "on"]
    /\ UNCHANGED <<crContact, crOwner, crSeen, crWork, crEdit, crOut>>

(* send_outbound_message on a connection that stores the reply itself; a   *)
(* client id that is already there returns its message.                    *)
Send(k) ==
    /\ crConv.status # "none"
    /\ crOut[k] = "none"
    /\ crOut' = [crOut EXCEPT ![k] = "sent"]
    /\ crConv' = [crConv EXCEPT !.ai = "paused"]
    /\ UNCHANGED <<crContact, crOwner, crSeen, crWork, crEdit>>

(* record_delivery_update takes the verdicts in the order they arrive.     *)
DeliveryUpdate(k, status) ==
    /\ crOut[k] \notin {"none", status}
    /\ crOut' = [crOut EXCEPT ![k] = status]
    /\ UNCHANGED <<crContact, crOwner, crConv, crSeen, crWork, crEdit>>

CrmNext ==
    \/ \E w \in Workers, id \in Deliveries : IngestBegin(w, id)
    \/ \E w \in Workers, c \in Contacts : IngestCommit(w, c)
    \/ \E w \in Workers : IngestRefused(w)
    \/ \E c \in Contacts : CreateContact(c) \/ AddIdentity(c)
    \/ RemoveIdentity
    \/ \E s, t \in Contacts : Merge(s, t)
    \/ \E e \in Editors, c \in Contacts : EditContactBegin(e, c)
    \/ \E e \in Editors, status \in {"active", "archived"} : EditContactSave(e, status)
    \/ \E e \in Editors : EditSettingsBegin(e) \/ EditSettingsSave(e)
    \/ MarkRead
    \/ \E status \in {"open", "resolved"} : SetStatus(status)
    \/ ResumeAI
    \/ \E k \in Keys : Send(k)
    \/ \E k \in Keys, status \in Verdicts : DeliveryUpdate(k, status)

CrmSpec == CrmInit /\ [][CrmNext]_crVars

-----------------------------------------------------------------------------
(* Of the racing deliveries of one provider message only one is counted:   *)
(* the unread counter never exceeds the customer's stored messages,        *)
(* whatever old row an edit form writes back (crm/services.py:325-331).    *)
UnreadIsStored == crConv.unread <= Cardinality(crSeen)

(* docs/architecture/crm-core.md: the source of a merge is archived as a   *)
(* tombstone with merged_into.  No later step may take the mark away       *)
(* (crm/serializers.py:122-128 writes back what it read before).           *)
TombstoneStays ==
    [][\A c \in Contacts : crContact[c].into # Nobody => crContact'[c].into = crContact[c].into]_crVars

(* A reply of an employee pauses the assistant until somebody resumes it   *)
(* (crm/services.py:470-473).                                              *)
ReplyPausesAI == [][crConv.ai = "paused" /\ crConv'.ai = "on" => ResumeAI]_crVars
=============================================================================
