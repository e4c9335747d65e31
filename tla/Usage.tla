------------------------------- MODULE Usage --------------------------------
(***************************************************************************)
(* Usage metering (backend/apps/billing/services.py: record_usage,         *)
(* record_message_usage, reconcile_usage, calculate_overage and the usage  *)
(* lines of generate_invoice).  A transaction is a read and a commit; the  *)
(* row of an aggregate is locked between the two.  A message is metered    *)
(* under every meter of Meters, in that order.  Every event counts one up: *)
(* no code but a test records a correction, whose quantity is negative.    *)
(***************************************************************************)
EXTENDS Naturals, FiniteSets, Sequences

CONSTANTS
    Messages,           \* messages to meter
    Meters,             \* sequence of the meters a message counts under
    Requests,           \* bound: transactions at the same time
    Included,           \* what the price includes of each meter
    MaxPeriod,          \* bound: renewals of the subscription
    MaxInvoices         \* bound: invoices prepared

VARIABLES usEvent, usTotal, usPeriod, usInvoice, usReq

usVars == <<usEvent, usTotal, usPeriod, usInvoice, usReq>>

-----------------------------------------------------------------------------
Keys == Messages \X (DOMAIN Meters)
Periods == 0..MaxPeriod
Rows == (DOMAIN Meters) \X Periods
NoEvent == MaxPeriod + 1
Idle == [at |-> "idle"]

\* usEvent: the period a stored event counts in; usTotal: the aggregates
UsageTypeOK ==
    /\ usEvent \in [Keys -> Periods \cup {NoEvent}]
    /\ usTotal \in [Rows -> Nat]
    /\ usPeriod \in Periods
    /\ \A i \in DOMAIN usInvoice : usInvoice[i].period \in Periods /\ usInvoice[i].overage \in [DOMAIN Meters -> Nat]
    /\ \A r \in Requests : usReq[r].at \in {"idle", "insert", "lock", "commit", "reconcile", "invoice"}

UsageInit ==
    /\ usEvent = [k \in Keys |-> NoEvent]
    /\ usTotal = [row \in Rows |-> 0]
    /\ usPeriod = 0
    /\ usInvoice = <<>>
    /\ usReq = [r \in Requests |-> Idle]

At(r, stage) == usReq[r].at = stage
Goto(r, req) == usReq' = [usReq EXCEPT ![r] = req]
End(r) == Goto(r, Idle)

\* keys inserted and rows locked by transactions that have not committed
Inserted == {usReq[r].key : r \in {q \in Requests : usReq[q].at \in {"lock", "commit"}}}
Locked == UNION {usReq[r].locks : r \in {q \in Requests : usReq[q].at \in {"commit", "reconcile"}}}

Counted(meter, period) == Cardinality({m \in Messages : usEvent[<<m, meter>>] = period})

-----------------------------------------------------------------------------
(* record_message_usage: record_usage for one meter after the other.       *)
RecordBegin(r, m) ==
    /\ usReq[r] = Idle
    /\ Goto(r, [at |-> "insert", key |-> <<m, 1>>])
    /\ UNCHANGED <<usEvent, usTotal, usPeriod, usInvoice>>

NextMeter(r) ==
    LET k == usReq[r].key IN
    IF k[2] < Len(Meters) THEN Goto(r, [at |-> "insert", key |-> <<k[1], k[2] + 1>>]) ELSE End(r)

\* Mutant: an event recorded before is counted again.
NeverStored(k) == FALSE

\* get_or_create of the event: an insert of the same key waits for its end
Stored(k) == usEvent[k] # NoEvent

RecordInsert(r) ==
    LET k == usReq[r].key IN
    /\ At(r, "insert")
    /\ k \notin Inserted
    /\ IF Stored(k) THEN NextMeter(r) ELSE Goto(r, [at |-> "lock", key |-> k, period |-> usPeriod])
    /\ UNCHANGED <<usEvent, usTotal, usPeriod, usInvoice>>

RecordLock(r) ==
    LET row == <<usReq[r].key[2], usReq[r].period>> IN
    /\ At(r, "lock")
    /\ row \notin Locked
    /\ Goto(r, [at |-> "commit", key |-> usReq[r].key, period |-> usReq[r].period, locks |-> {row}])
    /\ UNCHANGED <<usEvent, usTotal, usPeriod, usInvoice>>

RecordCommit(r) ==
    LET k == usReq[r].key
        row == <<k[2], usReq[r].period>> IN
    /\ At(r, "commit")
    /\ usEvent' = [usEvent EXCEPT ![k] = usReq[r].period]
    /\ usTotal' = [usTotal EXCEPT ![row] = @ + 1]
    /\ NextMeter(r)
    /\ UNCHANGED <<usPeriod, usInvoice>>

-----------------------------------------------------------------------------
(* reconcile_usage: the sums are read, then the aggregates are set to them *)
(* one by one; a meter without events is set to zero.                      *)
ReconcileBegin(r) ==
    /\ usReq[r] = Idle
    /\ Goto(r, [at |-> "reconcile", period |-> usPeriod, locks |-> {},
                sums |-> [meter \in DOMAIN Meters |-> Counted(meter, usPeriod)]])
    /\ UNCHANGED <<usEvent, usTotal, usPeriod, usInvoice>>

ReconcileLock(r, meter) ==
    LET row == <<meter, usReq[r].period>> IN
    /\ At(r, "reconcile")
    /\ row \notin Locked
    /\ Goto(r, [usReq[r] EXCEPT !.locks = @ \cup {row}])
    /\ UNCHANGED <<usEvent, usTotal, usPeriod, usInvoice>>

ReconcileCommit(r) ==
    /\ At(r, "reconcile")
    /\ usReq[r].locks = (DOMAIN Meters) \X {usReq[r].period}
    /\ usTotal' = [row \in Rows |-> IF row \in usReq[r].locks THEN usReq[r].sums[row[1]] ELSE usTotal[row]]
    /\ End(r)
    /\ UNCHANGED <<usEvent, usPeriod, usInvoice>>

\* the process dies or the database ends a deadlock: nothing of the transaction stays
RequestDies(r) ==
    /\ usReq[r] # Idle
    /\ End(r)
    /\ UNCHANGED <<usEvent, usTotal, usPeriod, usInvoice>>

-----------------------------------------------------------------------------
(* generate_invoice and calculate_overage; the numbers come from a locked  *)
(* sequence and are the places in usInvoice.                               *)
Overage(quantity) == IF quantity > Included THEN quantity - Included ELSE 0

InvoiceBegin(r) ==
    /\ usReq[r] = Idle
    /\ Goto(r, [at |-> "invoice", period |-> usPeriod,
                overage |-> [meter \in DOMAIN Meters |-> Overage(usTotal[<<meter, usPeriod>>])]])
    /\ UNCHANGED <<usEvent, usTotal, usPeriod, usInvoice>>

InvoiceCommit(r) ==
    /\ At(r, "invoice")
    /\ Len(usInvoice) < MaxInvoices
    /\ usInvoice' = Append(usInvoice, [period |-> usReq[r].period, overage |-> usReq[r].overage])
    /\ End(r)
    /\ UNCHANGED <<usEvent, usTotal, usPeriod>>

Renew ==
    /\ usPeriod < MaxPeriod
    /\ usPeriod' = usPeriod + 1
    /\ UNCHANGED <<usEvent, usTotal, usInvoice, usReq>>

UsageNext ==
    \/ \E r \in Requests, m \in Messages : RecordBegin(r, m)
    \/ \E r \in Requests : RecordInsert(r) \/ RecordLock(r) \/ RecordCommit(r) \/ RequestDies(r)
    \/ \E r \in Requests, meter \in DOMAIN Meters : ReconcileLock(r, meter)
    \/ \E r \in Requests : ReconcileBegin(r) \/ ReconcileCommit(r) \/ InvoiceBegin(r) \/ InvoiceCommit(r)
    \/ Renew

UsageSpec == UsageInit /\ [][UsageNext]_usVars

-----------------------------------------------------------------------------
(* Retries, renewals and reconciliations may lose a count (a reconciliation *)
(* overlapping a record), but never invent one: no aggregate and no invoice *)
(* counts a message twice or in two periods.  A correction that is lost in  *)
(* the same way would leave an aggregate above the sum of its events.       *)
UsageNotOverstated ==
    /\ \A row \in Rows : usTotal[row] <= Counted(row[1], row[2])
    /\ \A i \in DOMAIN usInvoice, meter \in DOMAIN Meters :
           usInvoice[i].overage[meter] <= Overage(Counted(meter, usInvoice[i].period))

(* backend/docs/architecture/billing-subscriptions.md: "Rebuildable        *)
(* UsageAggregate rows support reconciliation": once no transaction runs,  *)
(* the aggregates are the sums of the events.                              *)
AggregatesAreSums ==
    (\A r \in Requests : usReq[r] = Idle) => \A row \in Rows : usTotal[row] = Counted(row[1], row[2])
=============================================================================
