----------------------------- MODULE IntakeMail -----------------------------
(***************************************************************************)
(* The legacy e-mail webhook (backend/apps/intake/services: email and the  *)
(* parts of classification it calls).  A mail is what the parsers and the  *)
(* classifier say of it: which job fields they find, how much the scope    *)
(* says, who asks.  Contacts are looked up by one key of the mail.         *)
(***************************************************************************)
EXTENDS Naturals, FiniteSets, Sequences

CONSTANTS
    Mails,              \* message ids
    Unnamed,            \* those of them that stand for mails without an id
    Places,             \* the location fields in use, among PlaceFields
    Handlers,           \* bound: webhooks handled at the same time
    MaxRows             \* bound: interactions of one message id

VARIABLES imContact, imRow, imReq

imVars == <<imContact, imRow, imReq>>

-----------------------------------------------------------------------------
PlaceFields == {"builder", "project", "site", "community", "lot_phase"}
Requester == {"name", "email", "phone"}
\* nothing, a word, meaningful (_is_meaningful_scope), substantive (_has_complete_job_info)
Scope == 0..3

Class == {"immediate_resolution", "job_request_intake", "review_required", "escalation"}
Askers == {{}, {"phone"}, {"name", "email"}}

\* places: location fields found; service: a service type found; trade: the body names a
\* trade or an activity; vague: the text is a placeholder phrase; asker: requester fields;
\* class: what classify_text says
Contents == [places: SUBSET Places, service: BOOLEAN, trade: BOOLEAN, scope: Scope, vague: BOOLEAN,
             asker: Askers,
             class: Class]

JobStatus == {"none", "prioritized", "pending_review"}
Row == [category: Class,
        job: JobStatus]
Keys == {"email", "phone", "sender"}
Idle == [at |-> "idle"]

\* imContact: contacts that have the key; imRow: interactions of a mail, in order
MailTypeOK ==
    /\ imContact \in [Keys -> Nat]
    /\ \A m \in Mails : Len(imRow[m]) <= MaxRows /\ \A i \in DOMAIN imRow[m] : imRow[m][i] \in Row
    /\ \A h \in Handlers : imReq[h] = Idle \/ imReq[h].at \in {"lookup", "create", "store"}

MailInit ==
    /\ imContact = [k \in Keys |-> 0]
    /\ imRow = [m \in Mails |-> <<>>]
    /\ imReq = [h \in Handlers |-> Idle]

At(h, stage) == imReq[h].at = stage
Goto(h, row) == imReq' = [imReq EXCEPT ![h] = row]
End(h) == Goto(h, Idle)

-----------------------------------------------------------------------------
(* _has_sufficient_job_info and _has_complete_job_info.                    *)
HasWhat(mail) == mail.service \/ mail.trade
HasWhere(mail) == mail.places # {}
HasScope(mail) == mail.scope >= 2
StructuredRequester(mail) == Cardinality(mail.asker) >= 2

Sufficient(mail) ==
    /\ HasWhat(mail) \/ HasWhere(mail) \/ ~mail.vague
    /\ \/ HasWhat(mail) /\ (HasWhere(mail) \/ HasScope(mail))
       \/ StructuredRequester(mail) /\ HasScope(mail) /\ ~mail.vague

Complete(mail) == mail.service /\ mail.places \cap {"community", "lot_phase", "site"} # {} /\ mail.scope = 3

(* The strong fields found outvote the classifier, the sufficiency gate    *)
(* outvotes both.                                                          *)
Bit(b) == IF b THEN 1 ELSE 0
Filled(mail) == Cardinality(mail.places) + Bit(mail.service) + Bit(mail.scope > 0)
Structured(mail) ==
    \/ Filled(mail) >= 2
    \/ Filled(mail) = 1 /\ mail.asker # {}
    \/ StructuredRequester(mail) /\ HasScope(mail)

Category(mail) ==
    LET class == IF Structured(mail) THEN "job_request_intake" ELSE mail.class
    IN IF class = "job_request_intake" /\ ~Sufficient(mail) THEN "review_required" ELSE class

InitialStatus(mail) == IF Complete(mail) THEN "prioritized" ELSE "pending_review"
RowOf(mail) == LET category == Category(mail) IN
    [category |-> category,
     job |-> IF category = "job_request_intake" THEN InitialStatus(mail) ELSE "none"]

-----------------------------------------------------------------------------
(* process_email_webhook: the body's address, else its phone, else the     *)
(* sender.                                                                 *)
KeyOf(asker) == IF "email" \in asker THEN "email" ELSE IF "phone" \in asker THEN "phone" ELSE "sender"

\* a mail that names neither an asker nor its sender is filed without a contact
Receive(h, m, asker, sender) ==
    /\ imReq[h] = Idle
    /\ Goto(h, [at |-> IF asker = {} /\ ~sender THEN "store" ELSE "lookup", mail |-> m, asker |-> asker])
    /\ UNCHANGED <<imContact, imRow>>

\* get_or_create: two contacts with the key and it raises, this time and ever after
FindContact(h) ==
    LET k == KeyOf(imReq[h].asker) IN
    /\ At(h, "lookup")
    /\ imContact[k] <= 1
    /\ Goto(h, [imReq[h] EXCEPT !.at = IF imContact[k] = 0 THEN "create" ELSE "store"])
    /\ UNCHANGED <<imContact, imRow>>

CreateContact(h) ==
    LET k == KeyOf(imReq[h].asker) IN
    /\ At(h, "create")
    /\ imContact' = [imContact EXCEPT ![k] = @ + 1]
    /\ Goto(h, [imReq[h] EXCEPT !.at = "store"])
    /\ UNCHANGED imRow

(* One transaction: the interaction, its job, and the link; row is one the *)
(* gates make of a mail with the asker.  A named mail is stored once.      *)
Outcomes == [asker \in Askers |-> {RowOf(mail) : mail \in {c \in Contents : c.asker = asker}}]
Refused(m) == m \notin Unnamed /\ imRow[m] # <<>>
Store(h, asker, row) ==
    LET m == imReq[h].mail IN
    /\ At(h, "store")
    /\ imReq[h].asker = asker
    /\ ~Refused(m)
    /\ Len(imRow[m]) < MaxRows
    /\ imRow' = [imRow EXCEPT ![m] = Append(@, row)]
    /\ End(h)
    /\ UNCHANGED imContact

\* any error, a mail stored before among them, is logged and answered with 200
HandlerFails(h) ==
    /\ imReq[h] # Idle
    /\ End(h)
    /\ UNCHANGED <<imContact, imRow>>

MailNext ==
    \/ \E h \in Handlers, m \in Mails, asker \in Askers, sender \in BOOLEAN : Receive(h, m, asker, sender)
    \/ \E h \in Handlers : FindContact(h) \/ CreateContact(h) \/ HandlerFails(h)
    \/ \E h \in Handlers, asker \in Askers : \E row \in Outcomes[asker] : Store(h, asker, row)

MailSpec == MailInit /\ [][MailNext]_imVars

-----------------------------------------------------------------------------
(* A mail delivered twice is one interaction and one job; an interaction   *)
(* filed as a job request has its job, and no other has one.               *)
MailFiledOnce ==
    /\ \A m \in Mails \ Unnamed : Len(imRow[m]) <= 1
    /\ \A m \in Mails : \A i \in DOMAIN imRow[m] :
           imRow[m][i].category = "job_request_intake" <=> imRow[m][i].job # "none"

(* What the gates promise each other, for every mail the parsers can make: *)
(* a job on the board of jobs ready to schedule passed the weaker gate and *)
(* names what and where; a placeholder phrase alone never makes a job.     *)
GatesAgree == \A mail \in Contents :
    /\ RowOf(mail).job = "prioritized" => Sufficient(mail) /\ HasWhat(mail) /\ HasWhere(mail)
    /\ mail.vague /\ ~HasWhat(mail) => RowOf(mail).job = "none"
=============================================================================
