------------------------------ MODULE Payments ------------------------------
(***************************************************************************)
(* Checkout and payment provider events of one invoice                     *)
(* (backend/apps/billing/services.py: checkout_state,                      *)
(* process_verified_event, mark_invoice_paid, payment_failed; the webhook  *)
(* and the staff's invoice actions).  The webhook records the event id     *)
(* first and handles the event in a transaction of its own.                *)
(***************************************************************************)
EXTENDS Naturals, FiniteSets, Sequences

CONSTANTS
    Events,             \* provider event ids
    Handlers,           \* bound: webhooks handled at the same time
    MaxAttempts         \* bound: payment attempts of the invoice

VARIABLES pvInvoice, pvAttempt, pvEvent, pvSub, pvReq

pvVars == <<pvInvoice, pvAttempt, pvEvent, pvSub, pvReq>>

-----------------------------------------------------------------------------
InvoiceStatus == {"draft", "open", "paid", "void"}
EventStatus == {"none", "received", "processed", "ignored", "failed"}
\* another object, or a status nobody handles, is "other"
EventKind == {"succeeded", "failed", "other"}
\* the attempt id of the provider is derived from the amount due
AttemptRow == [status: {"pending", "succeeded", "failed"}, id: {"total", "zero", "event", ""}]
Idle == [at |-> "idle"]

PaymentsTypeOK ==
    /\ pvInvoice.status \in InvoiceStatus /\ pvInvoice.linked \in BOOLEAN
    /\ Len(pvAttempt) <= MaxAttempts /\ \A n \in DOMAIN pvAttempt : pvAttempt[n] \in AttemptRow
    /\ pvEvent \in [Events -> [status: EventStatus, kind: EventKind]]
    /\ pvSub \in {"active", "grace", "paused"}
    /\ \A h \in Handlers : pvReq[h].at \in {"idle", "read", "apply", "fail"}

\* each event id stands for one content: the payload hash refuses another
PaymentsInit ==
    /\ pvInvoice = [status |-> "draft", linked |-> FALSE]
    /\ pvAttempt = <<>>
    /\ pvEvent \in [Events -> [status: {"none"}, kind: EventKind]]
    /\ pvSub = "active"
    /\ pvReq = [h \in Handlers |-> Idle]

At(h, stage) == pvReq[h].at = stage
Kind(h) == pvEvent[pvReq[h].event].kind
Goto(h, req) == pvReq' = [pvReq EXCEPT ![h] = req]
Handled(h, status) ==
    /\ pvEvent' = [pvEvent EXCEPT ![pvReq[h].event].status = status]
    /\ Goto(h, Idle)

Due == IF pvInvoice.status \in {"draft", "open"} THEN "total" ELSE "zero"
Waiting == {n \in DOMAIN pvAttempt : pvAttempt[n].status = "pending"}
First(s) == CHOOSE n \in s : \A m \in s : n <= m

-----------------------------------------------------------------------------
(* checkout_state, with the invoice locked, whatever its status.           *)
CheckoutAgain ==
    /\ \E n \in DOMAIN pvAttempt : pvAttempt[n].id = Due
    /\ pvInvoice' = [pvInvoice EXCEPT !.linked = TRUE]
    /\ UNCHANGED <<pvAttempt, pvEvent, pvSub, pvReq>>

Checkout ==
    /\ \A n \in DOMAIN pvAttempt : pvAttempt[n].id # Due
    /\ Len(pvAttempt) < MaxAttempts
    /\ pvInvoice' = [pvInvoice EXCEPT !.linked = TRUE]
    /\ pvAttempt' = Append(pvAttempt, [status |-> "pending", id |-> Due])
    /\ UNCHANGED <<pvEvent, pvSub, pvReq>>

(* mark_invoice_paid and recover_payment.                                  *)
AlreadyPaid == pvInvoice.status = "paid"
Recovered == IF pvSub \in {"grace", "paused"} THEN "active" ELSE pvSub

PaidAttempts(id) ==
    IF Waiting # {}
    THEN LET n == First(Waiting) IN
         [pvAttempt EXCEPT ![n] = [status |-> "succeeded", id |-> IF id = "" THEN @.id ELSE id]]
    ELSE Append(pvAttempt, [status |-> "succeeded", id |-> id])

MarkPaid(id) ==
    IF AlreadyPaid THEN UNCHANGED <<pvInvoice, pvAttempt, pvSub>>
    ELSE /\ Len(PaidAttempts(id)) <= MaxAttempts
         /\ pvInvoice' = [pvInvoice EXCEPT !.status = "paid"]
         /\ pvAttempt' = PaidAttempts(id)
         /\ pvSub' = Recovered

Payable == pvInvoice.status \in {"open", "paid"}

StaffMarksPaid ==
    /\ Payable
    /\ MarkPaid("")
    /\ UNCHANGED <<pvEvent, pvReq>>

Issue ==
    /\ pvInvoice.status = "draft"
    /\ pvInvoice' = [pvInvoice EXCEPT !.status = "open"]
    /\ UNCHANGED <<pvAttempt, pvEvent, pvSub, pvReq>>

Void ==
    /\ pvInvoice.status \in {"draft", "open"}
    /\ pvInvoice' = [pvInvoice EXCEPT !.status = "void"]
    /\ UNCHANGED <<pvAttempt, pvEvent, pvSub, pvReq>>

-----------------------------------------------------------------------------
(* process_verified_event: an event seen before is answered and left.      *)
Receive(h, e) ==
    /\ pvReq[h] = Idle
    /\ pvEvent[e].status = "none"
    /\ pvEvent' = [pvEvent EXCEPT ![e].status = "received"]
    /\ Goto(h, [at |-> "read", event |-> e])
    /\ UNCHANGED <<pvInvoice, pvAttempt, pvSub>>

\* the invoice is read without a lock: it must be known and due in full
Accepted == pvInvoice.linked /\ Due = "total"

Ignore(h) ==
    /\ At(h, "read")
    /\ Kind(h) = "other"
    /\ Handled(h, "ignored")
    /\ UNCHANGED <<pvInvoice, pvAttempt, pvSub>>

Mismatch(h) ==
    /\ At(h, "read")
    /\ Kind(h) # "other"
    /\ ~Accepted
    /\ Handled(h, "failed")
    /\ UNCHANGED <<pvInvoice, pvAttempt, pvSub>>

ReadInvoice(h) ==
    /\ At(h, "read")
    /\ Kind(h) # "other"
    /\ Accepted
    /\ Goto(h, [pvReq[h] EXCEPT !.at = "apply"])
    /\ UNCHANGED <<pvInvoice, pvAttempt, pvEvent, pvSub>>

ApplyPaid(h) ==
    /\ At(h, "apply") /\ Kind(h) = "succeeded"
    /\ Payable
    /\ MarkPaid("event")
    /\ Handled(h, "processed")

ApplyRefused(h) ==
    /\ At(h, "apply") /\ Kind(h) = "succeeded"
    /\ ~Payable
    /\ Handled(h, "failed")
    /\ UNCHANGED <<pvInvoice, pvAttempt, pvSub>>

\* the attempt is picked without a lock, and its whole verdict written back
PickAttempt(h) ==
    /\ At(h, "apply") /\ Kind(h) = "failed"
    /\ Goto(h, [at |-> "fail", event |-> pvReq[h].event, attempt |-> IF Waiting = {} THEN 0 ELSE First(Waiting)])
    /\ UNCHANGED <<pvInvoice, pvAttempt, pvEvent, pvSub>>

ApplyFailed(h) ==
    LET n == pvReq[h].attempt IN
    /\ At(h, "fail")
    /\ n = 0 => Len(pvAttempt) < MaxAttempts
    /\ pvAttempt' = IF n = 0 THEN Append(pvAttempt, [status |-> "failed", id |-> "event"])
                    ELSE [pvAttempt EXCEPT ![n].status = "failed"]
    /\ pvSub' = "grace"
    /\ Handled(h, "processed")
    /\ UNCHANGED pvInvoice

\* the process dies: the event stays received and is never handled again
HandlerDies(h) ==
    /\ pvReq[h] # Idle
    /\ Goto(h, Idle)
    /\ UNCHANGED <<pvInvoice, pvAttempt, pvEvent, pvSub>>

ExpireGrace ==
    /\ pvSub = "grace"
    /\ pvSub' = "paused"
    /\ UNCHANGED <<pvInvoice, pvAttempt, pvEvent, pvReq>>

PaymentsNext ==
    \/ CheckoutAgain \/ Checkout \/ StaffMarksPaid \/ Issue \/ Void \/ ExpireGrace
    \/ \E h \in Handlers, e \in Events : Receive(h, e)
    \/ \E h \in Handlers : Ignore(h) \/ Mismatch(h) \/ ReadInvoice(h) \/ ApplyPaid(h) \/ ApplyRefused(h)
    \/ \E h \in Handlers : PickAttempt(h) \/ ApplyFailed(h) \/ HandlerDies(h)

PaymentsSpec == PaymentsInit /\ [][PaymentsNext]_pvVars

-----------------------------------------------------------------------------
(* backend/docs/architecture/billing-subscriptions.md: "Provider event IDs *)
(* and financial mutations are idempotent": whatever events, staff and     *)
(* customers do at the same time, an invoice is paid by one attempt, and   *)
(* none succeeds on an invoice that is not paid.                           *)
PaidOnce ==
    LET succeeded == {n \in DOMAIN pvAttempt : pvAttempt[n].status = "succeeded"} IN
    /\ Cardinality(succeeded) <= 1
    /\ succeeded # {} => pvInvoice.status = "paid"
=============================================================================
