------------------------------ MODULE Billing ------------------------------
(***************************************************************************)
(* The billing of one organization: its wallet and ledger                  *)
(* (billing/wallet.py), its invoices, its subscription and the entitlement *)
(* derived from it (billing/services.py), as changed by platform staff     *)
(* (billing/internal_views.py), by the customer (billing/views.py) and by  *)
(* the periodic lifecycle task (billing/tasks.py).                         *)
(*                                                                         *)
(* A handler is one action: each runs in one database transaction that     *)
(* locks the rows it changes before it reads them.  What is not atomic in  *)
(* the code is not atomic here: the retry of due invoices lists them, then *)
(* pays one per transaction, and the lifecycle task lists what is due,     *)
(* then handles each; both are jobs of a worker, which may crash.  A       *)
(* handler that raises BillingError rolls back: it changes nothing.        *)
(*                                                                         *)
(* Time is a number; a billing period, a trial, a grace period and the     *)
(* payment term of a prepared invoice last PeriodLen, TrialLen, GraceLen   *)
(* and DueLen of its units.                                                *)
(***************************************************************************)
EXTENDS LedgerEntries, FiniteSets, Folds

CONSTANTS
    StaffKeys,     \* Idempotency-Key headers staff send
    Amounts,       \* amounts staff credit or debit
    Prices,        \* invoice totals: plan price plus overage
    Workers,       \* processes running retries and lifecycle tasks
    PeriodLen, TrialLen, GraceLen, DueLen,
    UniqueKeys,    \* staff never send one key for two reversals (billing-runbook.md)
    MaxEntries,    \* bound: ledger entries
    MaxInvoices,   \* bound: invoices
    MaxTime        \* bound: time

ASSUME BillingAssumption ==
    /\ Amounts \subseteq Nat \ {0}
    /\ Prices \subseteq Nat
    /\ {PeriodLen, TrialLen, GraceLen, DueLen} \subseteq Nat \ {0}
    /\ UniqueKeys \in BOOLEAN
    /\ {MaxEntries, MaxInvoices, MaxTime} \subseteq Nat

VARIABLES
    now,
    wallet,        \* OrganizationWallet: status, balance, version
    ledger,        \* WalletTransaction rows, in ledger_version order
    invoices,      \* Invoice rows, in created_at order
    sub,           \* the effective Subscription
    entitlement,   \* OrganizationEntitlement
    change,        \* the ScheduledSubscriptionChange
    job            \* what each worker is doing

vars == <<now, wallet, ledger, invoices, sub, entitlement, change, job>>

WalletStatus == {"active", "frozen"}
InvoiceStatus == {"draft", "open", "paid", "void"}
AttemptStatus == {"none", "failed", "succeeded", "refunded"}
SubStatus == {"trialing", "active", "past_due", "grace", "paused",
              "cancelled", "expired", "manual"}
EntitlementStatus == {"trial", "active", "grace", "manual", "suspended"}
JobKind == {"idle", "callback", "retry", "renewal", "trial_failed", "grace"}

\* Keys of staff operations, and the key a wallet payment derives from its invoice.
StaffKey(k) == <<"staff", k>>
PaymentKey(i) == <<"invoice", i>>
Keys == ({"staff"} \X StaffKeys) \cup ({"invoice"} \X Nat)

L == INSTANCE Ledger WITH Key <- Keys,
                          balance <- wallet.balance,
                          version <- wallet.version

Invoice ==
    [status: InvoiceStatus, total: Nat, paid: Nat, due: Nat, start: Nat,
     end: Nat, dueAt: Nat,
     attempt: AttemptStatus,   \* the wallet PaymentAttempt of the invoice
     reviewed: BOOLEAN]        \* a succeeded manual PaymentAttempt exists

Subscription ==
    [status: SubStatus, source: {"wallet", "manual"}, start: Nat, end: Nat,
     trialEnd: Nat, graceEnd: Nat,   \* 0: not set
     cancelAtEnd: BOOLEAN]

TypeOK ==
    /\ now \in Nat
    /\ wallet \in [status: WalletStatus, balance: Nat, version: Nat]
    /\ ledger \in Seq(EntrySet(Keys))
    /\ invoices \in Seq(Invoice)
    /\ sub \in Subscription
    /\ entitlement \in [status: EntitlementStatus, start: Nat, end: Nat]
    /\ change \in [status: {"none", "scheduled", "applied"}, at: Nat]
    /\ job \in [Workers -> [kind: JobKind, queue: SUBSET Nat, at: Nat]]

Idle == [kind |-> "idle", queue |-> {}, at |-> 0]
-----------------------------------------------------------------------------
(* The entitlement a subscription gives (sync_entitlement).                *)

EntitlementStatusOf(status) ==
    CASE status = "trialing" -> "trial"
      [] status = "active" -> "active"
      [] status \in {"past_due", "grace"} -> "grace"
      [] status = "manual" -> "manual"
      [] OTHER -> "suspended"

EntitlementOf(s) ==
    [status |-> EntitlementStatusOf(s.status), start |-> s.start, end |-> s.end]

SyncEntitlement == entitlement' = EntitlementOf(sub')

InGrace(s) == [s EXCEPT !.status = "grace", !.graceEnd = now + GraceLen]

(* What the handlers write into an invoice row v.                          *)

Issued(v) == [v EXCEPT !.status = "open"]
Voided(v) == [v EXCEPT !.status = "void", !.due = 0]
Declined(v) == [v EXCEPT !.attempt = "failed"]
Settled(v) == [v EXCEPT !.status = "paid", !.paid = v.total, !.due = 0]
Charged(v) == [Settled(v) EXCEPT !.attempt = "succeeded"]
Reviewed(v) == [Settled(v) EXCEPT !.reviewed = TRUE]
Reopened(v) == [v EXCEPT !.status = "open", !.paid = 0, !.due = v.total,
                         !.attempt = "refunded"]

Init ==
    /\ now = 1
    /\ wallet = [status |-> "active", balance |-> 0, version |-> 0]
    /\ ledger = <<>>
    /\ invoices = <<>>
    /\ \E source \in {"wallet", "manual"}, trial \in BOOLEAN :
        LET end == now + (IF trial THEN TrialLen ELSE PeriodLen)
        IN sub = [status |-> IF trial THEN "trialing" ELSE "manual",
                  source |-> source, start |-> now, end |-> end,
                  trialEnd |-> IF trial THEN end ELSE 0,
                  graceEnd |-> 0, cancelAtEnd |-> FALSE]
    /\ entitlement = EntitlementOf(sub)
    /\ change = [status |-> "none", at |-> 0]
    /\ job = [w \in Workers |-> Idle]
-----------------------------------------------------------------------------
(* Ledger primitives of wallet.py.                                         *)

Posted(key) == {n \in DOMAIN ledger : ledger[n].key = key}

SameOperation(n, direction, type, amount, invoice) ==
    /\ ledger[n].direction = direction
    /\ ledger[n].type = type
    /\ ledger[n].amount = amount
    /\ ledger[n].invoice = invoice

Write(direction, type, amount, key, invoice, reverses, balance) ==
    /\ Len(ledger) < MaxEntries
    /\ wallet' = [status |-> wallet.status, balance |-> balance,
                  version |-> wallet.version + 1]
    /\ ledger' = Append(ledger, Entry(direction, type, amount, key, invoice,
                                      reverses, balance, wallet.version + 1))

\* Mutants: the balance check is missing; the cached balance is not updated.
PostUnchecked(direction, type, amount, key, invoice, reverses) ==
    Write(direction, type, amount, key, invoice, reverses,
          wallet.balance + Delta(direction, amount))

PostStaleBalance(direction, type, amount, key, invoice, reverses) ==
    /\ wallet.balance + Delta(direction, amount) >= 0
    /\ Write(direction, type, amount, key, invoice, reverses, wallet.balance)

PostEntry(direction, type, amount, key, invoice, reverses) ==
    LET balance == wallet.balance + Delta(direction, amount)
    IN /\ balance >= 0
       /\ Write(direction, type, amount, key, invoice, reverses, balance)

\* Mutant: the key is not looked up.
AppendAlways(direction, type, amount, key, invoice, reverses) ==
    PostEntry(direction, type, amount, key, invoice, reverses)

\* _append_locked: a key already posted for the same operation returns its
\* entry and moves nothing; for another operation it is a conflict (error).
AppendLocked(direction, type, amount, key, invoice, reverses) ==
    IF Posted(key) = {}
    THEN PostEntry(direction, type, amount, key, invoice, reverses)
    ELSE /\ \E n \in Posted(key) : SameOperation(n, direction, type, amount, invoice)
         /\ UNCHANGED <<wallet, ledger>>

Payments(i) ==
    {n \in DOMAIN ledger : /\ ledger[n].type = "subscription_payment"
                           /\ ledger[n].invoice = i}

Reversals(n) == {m \in DOMAIN ledger : ledger[m].reverses = n}
-----------------------------------------------------------------------------
(* Paying an invoice from the wallet (pay_invoice_from_wallet).  invs is    *)
(* the invoice table the handler sees: renewal adds a row before it pays.   *)

AlreadyPaid(invs, i) == invs[i].status = "paid" /\ Payments(i) # {}

\* The conditions under which the handler raises BillingError.
PayRefused(invs, i) ==
    /\ ~AlreadyPaid(invs, i)
    /\ \/ invs[i].status # "open"
       \/ sub.source # "wallet"
       \/ wallet.status # "active"
       \/ invs[i].due = 0

CanPay(invs, i) == ~AlreadyPaid(invs, i) /\ ~PayRefused(invs, i)

Covered(invs, i) == CanPay(invs, i) /\ wallet.balance >= invs[i].due

\* The invoice was settled by an earlier payment: its result is returned.
PayReplay(invs, i) ==
    /\ AlreadyPaid(invs, i)
    /\ invoices' = invs
    /\ UNCHANGED <<wallet, ledger, sub, entitlement>>

\* Payment restores the subscription, and opens the next period when the
\* invoice was for the current one and that is over.
Restored(s) ==
    IF s.status \in {"trialing", "past_due", "grace", "paused"}
    THEN [s EXCEPT !.status = "active", !.graceEnd = 0]
    ELSE s

Advanced(s, invoice) ==
    IF invoice.end >= s.end /\ s.end <= now
    THEN [s EXCEPT !.start = invoice.end, !.end = invoice.end + PeriodLen]
    ELSE s

\* Mutant: the period moves on although the payment failed.
PayLaterAdvance(invs, i) ==
    /\ CanPay(invs, i)
    /\ wallet.balance < invs[i].due
    /\ invoices' = [invs EXCEPT ![i] = Declined(@)]
    /\ sub' = Advanced(InGrace(sub), invs[i])
    /\ SyncEntitlement
    /\ UNCHANGED <<wallet, ledger>>

\* The balance does not cover the invoice: no debit, a failed attempt, grace.
PayInsufficient(invs, i) ==
    /\ CanPay(invs, i)
    /\ wallet.balance < invs[i].due
    /\ invoices' = [invs EXCEPT ![i] = Declined(@)]
    /\ IF sub.status \in {"grace", "paused", "cancelled", "expired"}
       THEN UNCHANGED <<sub, entitlement>>
       ELSE sub' = InGrace(sub) /\ SyncEntitlement
    /\ UNCHANGED <<wallet, ledger>>

\* Mutant: an invoice is settled with whatever the wallet holds.
PayDebitPartial(invs, i) ==
    LET amount == IF wallet.balance < invs[i].due THEN wallet.balance ELSE invs[i].due
    IN /\ CanPay(invs, i)
       /\ amount > 0
       /\ AppendLocked("debit", "subscription_payment", amount, PaymentKey(i), i, 0)
       /\ invoices' = [invs EXCEPT ![i] = Charged(@)]
       /\ sub' = Advanced(Restored(sub), invs[i])
       /\ SyncEntitlement

PayDebit(invs, i) ==
    /\ Covered(invs, i)
    /\ AppendLocked("debit", "subscription_payment", invs[i].due,
                    PaymentKey(i), i, 0)
    /\ invoices' = [invs EXCEPT ![i] = Charged(@)]
    /\ sub' = Advanced(Restored(sub), invs[i])
    /\ SyncEntitlement

PayInvoice(invs, i) ==
    PayReplay(invs, i) \/ PayInsufficient(invs, i) \/ PayDebit(invs, i)

\* generate_invoice for the current period: a draft, payable after `term`.
NewInvoice(total, term) ==
    [status |-> "draft", total |-> total, paid |-> 0, due |-> total,
     start |-> sub.start, end |-> sub.end, dueAt |-> now + term,
     attempt |-> "none", reviewed |-> FALSE]

\* Mutant: only an unsettled invoice of the period is looked for.
PeriodInvoicesDue ==
    {i \in DOMAIN invoices : /\ invoices[i].start = sub.start
                             /\ invoices[i].end = sub.end
                             /\ invoices[i].status \in {"draft", "open"}}

PeriodInvoices ==
    {i \in DOMAIN invoices : invoices[i].start = sub.start /\ invoices[i].end = sub.end}
-----------------------------------------------------------------------------
(* Staff operations on the wallet.                                         *)

Become(w, kind, queue) ==
    job' = [job EXCEPT ![w] = [kind |-> kind, queue |-> queue, at |-> 0]]

Finish(w) == job' = [job EXCEPT ![w] = Idle]

\* A top-up; after it commits the process retries due invoices, unless frozen.
CreditWallet(w, k, amount) ==
    /\ job[w] = Idle
    /\ AppendLocked("credit", "top_up", amount, StaffKey(k), 0, 0)
    /\ IF wallet.status = "active" THEN Become(w, "callback", {}) ELSE UNCHANGED job
    /\ UNCHANGED <<now, invoices, sub, entitlement, change>>

DebitAdjustment(k, amount) ==
    /\ wallet.status = "active"
    /\ AppendLocked("debit", "adjustment", amount, StaffKey(k), 0, 0)
    /\ UNCHANGED <<now, invoices, sub, entitlement, change, job>>

\* What reversing a subscription payment does besides: the invoice is due
\* again and the subscription falls back into grace.
ReopenInvoice(i) ==
    /\ invoices' = [invoices EXCEPT ![i] = Reopened(@)]
    /\ IF sub.status \in {"cancelled", "expired"}
       THEN UNCHANGED <<sub, entitlement>>
       ELSE sub' = InGrace(sub) /\ SyncEntitlement

\* An entry reversed before is returned or refused: nothing changes then.
ReverseTransaction(n, k) ==
    /\ Reversals(n) = {}
    /\ UniqueKeys => \A m \in Posted(StaffKey(k)) : ledger[m].reverses = n
    /\ AppendLocked(Opposite(ledger[n].direction), "reversal", ledger[n].amount,
                    StaffKey(k), 0, n)
    /\ IF ledger[n].type = "subscription_payment"
       THEN ReopenInvoice(ledger[n].invoice)
       ELSE UNCHANGED <<invoices, sub, entitlement>>
    /\ UNCHANGED <<now, change, job>>

SetWalletFrozen(frozen) ==
    /\ wallet' = [wallet EXCEPT !.status = IF frozen THEN "frozen" ELSE "active"]
    /\ UNCHANGED <<now, ledger, invoices, sub, entitlement, change, job>>
-----------------------------------------------------------------------------
(* Retry of due invoices (retry_due_invoices), after a top-up or on demand: *)
(* the due ones are listed once, then paid oldest first, one transaction    *)
(* each, until one is not paid or raises.  (The staff action runs the same  *)
(* steps inside one transaction: the runs in which nobody interferes.)      *)

DueInvoices ==
    {i \in DOMAIN invoices : /\ invoices[i].status = "open"
                             /\ invoices[i].due > 0
                             /\ invoices[i].dueAt <= now
                             /\ sub.source = "wallet"}

Oldest(queue) ==
    {i \in queue : \A j \in queue :
        \/ invoices[i].dueAt < invoices[j].dueAt
        \/ invoices[i].dueAt = invoices[j].dueAt /\ i <= j}

ListDueInvoices(w) ==
    /\ job[w].kind \in {"callback", "idle"}
    /\ IF DueInvoices = {} THEN Finish(w) ELSE Become(w, "retry", DueInvoices)
    /\ UNCHANGED <<now, wallet, ledger, invoices, sub, entitlement, change>>

RetryNext(w) ==
    /\ job[w].kind = "retry"
    /\ \E i \in Oldest(job[w].queue) :
        LET rest == job[w].queue \ {i}
        IN IF PayRefused(invoices, i)
           THEN /\ Finish(w)
                /\ UNCHANGED <<wallet, ledger, invoices, sub, entitlement>>
           ELSE /\ PayInvoice(invoices, i)
                /\ IF invoices'[i].status = "paid" /\ rest # {}
                   THEN Become(w, "retry", rest)
                   ELSE Finish(w)
    /\ UNCHANGED <<now, change>>

\* A worker dies between two transactions: an uncommitted one leaves no trace,
\* and a callback or the rest of a list is lost.
Crash(w) ==
    /\ job[w] # Idle
    /\ Finish(w)
    /\ UNCHANGED <<now, wallet, ledger, invoices, sub, entitlement, change>>
-----------------------------------------------------------------------------
(* The lifecycle task (process_billing_lifecycle): it lists what is due and *)
(* then handles it, so each is listed in one state and handled in a later   *)
(* one.                                                                     *)

TrialOver == sub.status = "trialing" /\ sub.trialEnd # 0 /\ sub.trialEnd <= now

ListTrialEnded(w) ==
    /\ job[w] = Idle
    /\ TrialOver
    /\ Become(w, IF sub.source = "wallet" THEN "renewal" ELSE "trial_failed", {})
    /\ UNCHANGED <<now, wallet, ledger, invoices, sub, entitlement, change>>

ListRenewal(w) ==
    /\ job[w] = Idle
    /\ sub.status = "active" /\ sub.end <= now /\ sub.source = "wallet"
    /\ Become(w, "renewal", {})
    /\ UNCHANGED <<now, wallet, ledger, invoices, sub, entitlement, change>>

ListGraceEnded(w) ==
    /\ job[w] = Idle
    /\ sub.status = "grace" /\ sub.graceEnd # 0 /\ sub.graceEnd <= now
    /\ job' = [job EXCEPT ![w] = [kind |-> "grace", queue |-> {}, at |-> now]]
    /\ UNCHANGED <<now, wallet, ledger, invoices, sub, entitlement, change>>

\* The invoice table a renewal pays from, and the invoice it pays: the newest
\* of the current period (issued now if a draft), or one generated, due at once.
RenewalCases ==
    IF PeriodInvoices # {}
    THEN {[invs |-> IF invoices[i].status = "draft"
                    THEN [invoices EXCEPT ![i] = Issued(@)]
                    ELSE invoices,
           i |-> i] : i \in {i \in PeriodInvoices : \A j \in PeriodInvoices : j <= i}}
    ELSE {[invs |-> Append(invoices, Issued(NewInvoice(total, 0))),
           i |-> Len(invoices) + 1] :
             total \in IF Len(invoices) < MaxInvoices THEN Prices ELSE {}}

\* process_wallet_renewal; when it raises, the invoice it generated is undone too.
RunRenewal(w) ==
    /\ job[w].kind = "renewal"
    /\ Finish(w)
    /\ IF sub.source = "wallet" /\ (TrialOver \/ sub.end <= now)
       THEN \E c \in RenewalCases :
                IF PayRefused(c.invs, c.i)
                THEN UNCHANGED <<wallet, ledger, invoices, sub, entitlement>>
                ELSE PayInvoice(c.invs, c.i)
       ELSE UNCHANGED <<wallet, ledger, invoices, sub, entitlement>>
    /\ UNCHANGED <<now, change>>

\* payment_failed, for a trial that ended without a wallet to charge.
RunTrialFailed(w) ==
    /\ job[w].kind = "trial_failed"
    /\ Finish(w)
    /\ sub' = InGrace(sub)
    /\ SyncEntitlement
    /\ UNCHANGED <<now, wallet, ledger, invoices, change>>

\* Mutant: a listed grace period expires whatever happened since.
ExpireBlindly(w) ==
    /\ job[w].kind = "grace"
    /\ Finish(w)
    /\ sub' = [sub EXCEPT !.status = "paused"]
    /\ SyncEntitlement
    /\ UNCHANGED <<now, wallet, ledger, invoices, change>>

\* expire_grace, at the time the task listed it.
RunExpireGrace(w) ==
    /\ job[w].kind = "grace"
    /\ Finish(w)
    /\ IF sub.status = "grace" /\ sub.graceEnd # 0 /\ sub.graceEnd <= job[w].at
       THEN sub' = [sub EXCEPT !.status = "paused"] /\ SyncEntitlement
       ELSE UNCHANGED <<sub, entitlement>>
    /\ UNCHANGED <<now, wallet, ledger, invoices, change>>

\* Mutant: the entitlement keeps the period of the old plan.
ApplyWithoutSync ==
    /\ change.status = "scheduled" /\ change.at <= now
    /\ sub' = [sub EXCEPT !.start = change.at, !.end = change.at + PeriodLen]
    /\ change' = [change EXCEPT !.status = "applied"]
    /\ UNCHANGED <<now, wallet, ledger, invoices, entitlement, job>>

ApplyScheduledChange ==
    /\ change.status = "scheduled" /\ change.at <= now
    /\ sub' = [sub EXCEPT !.start = change.at, !.end = change.at + PeriodLen]
    /\ SyncEntitlement
    /\ change' = [change EXCEPT !.status = "applied"]
    /\ UNCHANGED <<now, wallet, ledger, invoices, job>>
-----------------------------------------------------------------------------
(* Staff operations on invoices and subscriptions, customer operations.    *)

\* A draft prepared for the current period (the seed commands do it).
PrepareInvoice(total) ==
    /\ ~\E i \in DOMAIN invoices : invoices[i].start = sub.start
    /\ Len(invoices) < MaxInvoices
    /\ invoices' = Append(invoices, NewInvoice(total, DueLen))
    /\ UNCHANGED <<now, wallet, ledger, sub, entitlement, change, job>>

IssueInvoice(i) ==
    /\ invoices[i].status = "draft"
    /\ invoices' = [invoices EXCEPT ![i] = Issued(@)]
    /\ UNCHANGED <<now, wallet, ledger, sub, entitlement, change, job>>

\* Mutant: a settled invoice is voided.
VoidAny(i) ==
    /\ invoices' = [invoices EXCEPT ![i] = Voided(@)]
    /\ UNCHANGED <<now, wallet, ledger, sub, entitlement, change, job>>

VoidInvoice(i) ==
    /\ invoices[i].status \in {"draft", "open"}
    /\ invoices' = [invoices EXCEPT ![i] = Voided(@)]
    /\ UNCHANGED <<now, wallet, ledger, sub, entitlement, change, job>>

\* mark_invoice_paid after a manual review, with the recover_payment it calls.
MarkInvoicePaid(i) ==
    /\ invoices[i].status = "open"
    /\ invoices' = [invoices EXCEPT ![i] = Reviewed(@)]
    /\ IF sub.status \in {"past_due", "grace", "paused"}
       THEN /\ sub' = [sub EXCEPT !.status = "active", !.graceEnd = 0]
            /\ SyncEntitlement
       ELSE UNCHANGED <<sub, entitlement>>
    /\ UNCHANGED <<now, wallet, ledger, change, job>>

GrantSubscription(days) ==
    /\ sub' = [sub EXCEPT !.status = "manual", !.start = now, !.end = now + days,
                          !.graceEnd = 0]
    /\ SyncEntitlement
    /\ UNCHANGED <<now, wallet, ledger, invoices, change, job>>

ExtendGrace(days) ==
    /\ LET base == IF sub.graceEnd > now THEN sub.graceEnd ELSE now
       IN sub' = [sub EXCEPT !.status = "grace", !.graceEnd = base + days]
    /\ sub'.graceEnd <= MaxTime + 1        \* bound: later ends are alike
    /\ SyncEntitlement
    /\ UNCHANGED <<now, wallet, ledger, invoices, change, job>>

CancelSubscription ==
    /\ sub.status \notin {"cancelled", "expired"}
    /\ sub' = [sub EXCEPT !.cancelAtEnd = TRUE]
    /\ UNCHANGED <<now, wallet, ledger, invoices, entitlement, change, job>>

ResumeSubscription ==
    /\ sub.end > now
    /\ sub' = [sub EXCEPT !.cancelAtEnd = FALSE]
    /\ UNCHANGED <<now, wallet, ledger, invoices, entitlement, change, job>>

\* A plan change takes effect at the end of the period; it replaces one scheduled.
ScheduleChange ==
    /\ change' = [status |-> "scheduled", at |-> sub.end]
    /\ UNCHANGED <<now, wallet, ledger, invoices, sub, entitlement, job>>

MigrateToWallet ==
    /\ sub.source # "wallet"
    /\ sub' = [sub EXCEPT !.source = "wallet"]
    /\ UNCHANGED <<now, wallet, ledger, invoices, entitlement, change, job>>

Tick ==
    /\ now < MaxTime
    /\ now' = now + 1
    /\ UNCHANGED <<wallet, ledger, invoices, sub, entitlement, change, job>>
-----------------------------------------------------------------------------
WalletOperation ==
    \/ \E w \in Workers, k \in StaffKeys, amount \in Amounts : CreditWallet(w, k, amount)
    \/ \E k \in StaffKeys, amount \in Amounts : DebitAdjustment(k, amount)
    \/ \E n \in DOMAIN ledger, k \in StaffKeys : ReverseTransaction(n, k)
    \/ \E frozen \in BOOLEAN : SetWalletFrozen(frozen)

WorkerStep(w) ==
    \/ ListDueInvoices(w) \/ RetryNext(w)
    \/ ListTrialEnded(w) \/ ListRenewal(w) \/ ListGraceEnded(w)
    \/ RunRenewal(w) \/ RunTrialFailed(w) \/ RunExpireGrace(w)
    \/ Crash(w)

InvoiceOperation ==
    \/ \E total \in Prices : PrepareInvoice(total)
    \/ \E i \in DOMAIN invoices : IssueInvoice(i) \/ VoidInvoice(i) \/ MarkInvoicePaid(i)

SubscriptionOperation ==
    \/ ApplyScheduledChange \/ ScheduleChange
    \/ GrantSubscription(PeriodLen) \/ ExtendGrace(GraceLen)
    \/ CancelSubscription \/ ResumeSubscription \/ MigrateToWallet

Next ==
    \/ WalletOperation
    \/ \E w \in Workers : WorkerStep(w)
    \/ InvoiceOperation
    \/ SubscriptionOperation
    \/ Tick

Spec == Init /\ [][Next]_vars
-----------------------------------------------------------------------------
(* What reconcile_wallet recomputes: credits minus debits.                 *)

Total(direction) ==
    MapThenFoldSet(LAMBDA x, y : x + y, 0, LAMBDA n : ledger[n].amount,
                   LAMBDA s : CHOOSE n \in s : TRUE,
                   {n \in DOMAIN ledger : ledger[n].direction = direction})

ReconciledBalance == Total("credit") - Total("debit")

\* Reconciliation never finds a mismatch: the cached balance is the sum of the
\* ledger, whatever mix of top-ups, payments and reversals led to it.
ReconciliationMatches == wallet.balance = ReconciledBalance

\* The handlers implement the ledger's promises (module Ledger): non-negative
\* balance, chained versions, one entry per key, one payment per invoice, no
\* double reversal, append only.
ImplementsLedger == L!Spec

\* Every wallet payment is for the full amount of the invoice it names, and an
\* invoice that is paid without a manual review was debited from the wallet.
FullPaymentOnly ==
    /\ \A n \in DOMAIN ledger : ledger[n].type = "subscription_payment" =>
          /\ ledger[n].invoice \in DOMAIN invoices
          /\ ledger[n].amount = invoices[ledger[n].invoice].total
    /\ \A i \in DOMAIN invoices :
          invoices[i].status = "paid" /\ ~invoices[i].reviewed => Payments(i) # {}

\* A payment that stands (nothing reversed it) settled its invoice: money taken
\* for an invoice is never taken while the invoice stays open or is voided.
ChargedInvoiceIsPaid ==
    \A n \in DOMAIN ledger :
        ledger[n].type = "subscription_payment" /\ Reversals(n) = {}
            => invoices[ledger[n].invoice].status = "paid"

\* An invoice paid from the wallet is paid by a debit that stands.
PaidInvoiceIsFunded ==
    \A i \in DOMAIN invoices :
        invoices[i].status = "paid" /\ ~invoices[i].reviewed
            => \E n \in Payments(i) : Reversals(n) = {}

\* There is at most one invoice for a billing period, however many renewals,
\* retries and prepared drafts compete for it.
OneInvoicePerPeriod ==
    \A i, j \in DOMAIN invoices :
        invoices[i].start = invoices[j].start /\ invoices[i].end = invoices[j].end => i = j

\* The entitlement the rest of the product reads is the one of the subscription
\* as it is now, after every handler that moves its status or its period.
EntitlementFollows == entitlement = EntitlementOf(sub)

\* A subscription moves on to a new period only behind a paid invoice that ends
\* where the new period begins; staff grants and plan changes set their own.
PeriodAdvancesOnPayment ==
    [][sub'.start > sub.start /\ sub'.status # "manual" /\ change' = change
          => \E i \in DOMAIN invoices' :
                 invoices'[i].status = "paid" /\ invoices'[i].end = sub'.start]_vars

\* The product is restricted only when a grace period has run out: a payment or
\* an extension between the listing and its handling is honoured.
GraceIsHonoured ==
    [][sub'.status = "paused" /\ sub.status # "paused"
          => sub.status = "grace" /\ sub.graceEnd # 0 /\ sub.graceEnd <= now]_vars

\* A renewal does not carry a subscription cancelled at its period's end into
\* another period.
CancellationTakesEffect ==
    [][sub.cancelAtEnd /\ sub'.cancelAtEnd /\ sub'.status = "active" /\ change' = change
          => sub'.end <= sub.end]_vars
=============================================================================
