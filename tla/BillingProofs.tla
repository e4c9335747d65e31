--------------------------- MODULE BillingProofs ---------------------------
(***************************************************************************)
(* Theorems about module Billing, for every choice of its constants.       *)
(***************************************************************************)
EXTENDS Billing, RowProofs, SumProofs, TLAPS

EntitlementSet == [status: EntitlementStatus, start: Nat, end: Nat]
WalletSet == [status: WalletStatus, balance: Nat, version: Nat]

\* A worker's list holds invoices that exist (they are never deleted), and a
\* grace listing is not from the future.
JobsOK ==
    \A w \in Workers : /\ job[w].queue \subseteq DOMAIN invoices
                       /\ job[w].at <= now

TInv == TypeOK /\ JobsOK
-----------------------------------------------------------------------------
\* Facts about the values the handlers build.

LEMMA Lengths ==
    /\ PeriodLen \in Nat \ {0} /\ TrialLen \in Nat \ {0}
    /\ GraceLen \in Nat \ {0} /\ DueLen \in Nat \ {0}
  BY BillingAssumption

LEMMA EntitlementTyped ==
    ASSUME NEW s \in Subscription
    PROVE  EntitlementOf(s) \in EntitlementSet
<1>1. EntitlementStatusOf(s.status) \in EntitlementStatus
  BY DEF EntitlementStatusOf, EntitlementStatus, Subscription, SubStatus
<1> QED
  BY <1>1 DEF EntitlementOf, EntitlementSet, Subscription

LEMMA KeysTyped ==
    /\ \A k \in StaffKeys : StaffKey(k) \in Keys
    /\ \A i \in Nat : PaymentKey(i) \in Keys
  BY DEF StaffKey, PaymentKey, Keys

\* What a posting does, or that the key was posted before.
LEMMA Posting ==
    ASSUME TypeOK,
           NEW direction \in Direction, NEW type \in TransactionType,
           NEW amount \in Nat \ {0}, NEW key \in Keys,
           NEW invoice \in Nat, NEW reverses \in Nat,
           AppendLocked(direction, type, amount, key, invoice, reverses)
    PROVE  /\ wallet' \in WalletSet
           /\ wallet'.status = wallet.status
           /\ ledger' \in Seq(EntrySet(Keys))
           /\ \/ /\ Posted(key) # {}
                 /\ wallet' = wallet
                 /\ ledger' = ledger
              \/ /\ Posted(key) = {}
                 /\ ledger' = Append(ledger, Entry(direction, type, amount, key, invoice,
                                                   reverses, wallet'.balance, wallet'.version))
                 /\ Entry(direction, type, amount, key, invoice,
                          reverses, wallet'.balance, wallet'.version) \in EntrySet(Keys)
                 /\ wallet'.balance = wallet.balance + Delta(direction, amount)
                 /\ wallet'.version = wallet.version + 1
<1>1. CASE Posted(key) # {}
  BY <1>1 DEF AppendLocked, TypeOK, WalletSet
<1>2. CASE Posted(key) = {}
  <2> DEFINE balance == wallet.balance + Delta(direction, amount)
             row == [status |-> wallet.status, balance |-> balance,
                     version |-> wallet.version + 1]
             e == Entry(direction, type, amount, key, invoice, reverses,
                        balance, wallet.version + 1)
  <2>1. PostEntry(direction, type, amount, key, invoice, reverses)
    BY <1>2 DEF AppendLocked
  <2>2. wallet \in WalletSet
    BY DEF TypeOK, WalletSet
  <2>3. balance \in Nat
    <3>1. balance \in Int
      BY <2>2 DEF WalletSet, Delta, Direction
    <3> QED
      BY <2>1, <3>1 DEF PostEntry
  <2>4. wallet' = row /\ ledger' = Append(ledger, e)
    BY <2>1 DEF PostEntry, Write
  <2>5. /\ row \in WalletSet /\ row.status = wallet.status
        /\ row.balance = balance /\ row.version = wallet.version + 1
    BY <2>2, <2>3 DEF WalletSet
  <2>6. e \in EntrySet(Keys)
    BY <2>2, <2>3 DEF WalletSet, Entry, EntrySet
  <2>7. ledger' \in Seq(EntrySet(Keys))
    BY <2>4, <2>6, Added DEF TypeOK
  <2> QED
    BY <1>2, <2>4, <2>5, <2>6, <2>7
<1> QED
  BY <1>1, <1>2
-----------------------------------------------------------------------------
\* What the handlers write into an invoice row and into the subscription row.

LEMMA RowsTyped ==
    ASSUME NEW v \in Invoice
    PROVE  /\ Issued(v) \in Invoice /\ Voided(v) \in Invoice /\ Declined(v) \in Invoice
           /\ Charged(v) \in Invoice /\ Reviewed(v) \in Invoice /\ Reopened(v) \in Invoice
<1>1. Issued(v) \in Invoice
  BY DEF Issued, Invoice, InvoiceStatus
<1>2. Voided(v) \in Invoice
  BY DEF Voided, Invoice, InvoiceStatus
<1>3. Declined(v) \in Invoice
  BY DEF Declined, Invoice, AttemptStatus
<1>4. v.total \in Nat
  BY DEF Invoice
<1>5. Settled(v) \in Invoice
  BY <1>4 DEF Settled, Invoice, InvoiceStatus
<1>6. Charged(v) \in Invoice /\ Reviewed(v) \in Invoice
  BY <1>5 DEF Charged, Reviewed, Invoice, AttemptStatus
<1>7. Reopened(v) \in Invoice
  BY <1>4 DEF Reopened, Invoice, InvoiceStatus, AttemptStatus
<1> QED
  BY <1>1, <1>2, <1>3, <1>6, <1>7

LEMMA SubscriptionTyped ==
    ASSUME NEW s \in Subscription, now \in Nat
    PROVE  /\ InGrace(s) \in Subscription
           /\ Restored(s) \in Subscription
           /\ \A v \in Invoice : Advanced(s, v) \in Subscription
<1>1. now + GraceLen \in Nat
  BY Lengths
<1>2. InGrace(s) \in Subscription
  BY <1>1 DEF InGrace, Subscription, SubStatus
<1>3. Restored(s) \in Subscription
  BY DEF Restored, Subscription, SubStatus
<1>4. ASSUME NEW v \in Invoice PROVE Advanced(s, v) \in Subscription
  <2>1. v.end \in Nat /\ v.end + PeriodLen \in Nat
    BY Lengths DEF Invoice
  <2> QED
    BY <2>1 DEF Advanced, Subscription
<1> QED
  BY <1>2, <1>3, <1>4
-----------------------------------------------------------------------------
\* Type correctness.

\* The part of the state that money and subscription handlers write.
MoneyOK ==
    /\ wallet \in WalletSet
    /\ ledger \in Seq(EntrySet(Keys))
    /\ invoices \in Seq(Invoice)
    /\ sub \in Subscription
    /\ entitlement \in EntitlementSet

LEMMA Replaying ==
    ASSUME TypeOK, NEW invs \in Seq(Invoice), UNCHANGED <<wallet, ledger, sub, entitlement>>,
           invoices' = invs
    PROVE  MoneyOK'
  BY DEF TypeOK, MoneyOK, WalletSet, EntitlementSet

LEMMA Paying ==
    ASSUME TypeOK, NEW invs \in Seq(Invoice), NEW i \in DOMAIN invs, PayInvoice(invs, i)
    PROVE  MoneyOK' /\ DOMAIN invoices' = DOMAIN invs
<1>1. CASE PayReplay(invs, i)
  BY <1>1, Replaying DEF PayReplay
<1>2. CASE PayInsufficient(invs, i)
  <2>1. invoices' \in Seq(Invoice) /\ DOMAIN invoices' = DOMAIN invs
    BY <1>2, RowsTyped, Replaced DEF PayInsufficient
  <2>2. sub' \in Subscription /\ entitlement' \in EntitlementSet
    BY <1>2, SubscriptionTyped, EntitlementTyped
    DEF PayInsufficient, SyncEntitlement, TypeOK, EntitlementSet
  <2> QED
    BY <1>2, <2>1, <2>2 DEF PayInsufficient, TypeOK, MoneyOK, WalletSet
<1>3. CASE PayDebit(invs, i)
  <2>1. invoices' \in Seq(Invoice) /\ DOMAIN invoices' = DOMAIN invs
    BY <1>3, RowsTyped, Replaced DEF PayDebit
  <2>2. sub' \in Subscription /\ entitlement' \in EntitlementSet
    <3>1. Restored(sub) \in Subscription /\ invs[i] \in Invoice
      BY SubscriptionTyped DEF TypeOK
    <3>2. Advanced(Restored(sub), invs[i]) \in Subscription
      BY <3>1, SubscriptionTyped DEF TypeOK
    <3> QED
      BY <1>3, <3>2, EntitlementTyped DEF PayDebit, SyncEntitlement
  <2>3. wallet' \in WalletSet /\ ledger' \in Seq(EntrySet(Keys))
    <3>1. invs[i].due \in Nat \ {0}
      <4>1. invs[i] \in Invoice /\ invs[i].due # 0
        BY <1>3 DEF PayDebit, Covered, CanPay, PayRefused
      <4> QED
        BY <4>1 DEF Invoice
    <3>2. i \in Nat /\ PaymentKey(i) \in Keys
      BY KeysTyped
    <3>3. AppendLocked("debit", "subscription_payment", invs[i].due, PaymentKey(i), i, 0)
      BY <1>3 DEF PayDebit
    <3> QED
      BY <3>1, <3>2, <3>3, Posting DEF Direction, TransactionType
  <2> QED
    BY <2>1, <2>2, <2>3 DEF MoneyOK
<1> QED
  BY <1>1, <1>2, <1>3 DEF PayInvoice

\* The cases a renewal pays from are invoice tables that contain every old row.
LEMMA Renewing ==
    ASSUME TypeOK, NEW c \in RenewalCases
    PROVE  c.invs \in Seq(Invoice) /\ c.i \in DOMAIN c.invs /\ DOMAIN invoices \subseteq DOMAIN c.invs
<1>1. CASE PeriodInvoices # {}
  <2>1. PICK i \in PeriodInvoices :
            c = [invs |-> IF invoices[i].status = "draft"
                          THEN [invoices EXCEPT ![i] = Issued(@)]
                          ELSE invoices,
                 i |-> i]
    BY <1>1 DEF RenewalCases
  <2>2. i \in DOMAIN invoices /\ invoices \in Seq(Invoice)
    BY DEF PeriodInvoices, TypeOK
  <2>3. Issued(invoices[i]) \in Invoice
    BY <2>2, RowsTyped
  <2> QED
    BY <2>1, <2>2, <2>3, Replaced
<1>2. CASE PeriodInvoices = {}
  <2>1. PICK total \in Prices :
            c = [invs |-> Append(invoices, Issued(NewInvoice(total, 0))),
                 i |-> Len(invoices) + 1]
    BY <1>2 DEF RenewalCases
  <2>2. NewInvoice(total, 0) \in Invoice
    BY BillingAssumption DEF NewInvoice, Invoice, InvoiceStatus, AttemptStatus, TypeOK, Subscription
  <2> QED
    BY <2>1, <2>2, RowsTyped, Added DEF TypeOK
<1> QED
  BY <1>1, <1>2

\* What is left of the state once MoneyOK is known.
RestOK ==
    /\ now \in Nat
    /\ change \in [status: {"none", "scheduled", "applied"}, at: Nat]
    /\ job \in [Workers -> [kind: JobKind, queue: SUBSET Nat, at: Nat]]
    /\ JobsOK

LEMMA Parts ==
    /\ TInv <=> MoneyOK /\ RestOK
    /\ TInv' <=> MoneyOK' /\ RestOK'
  BY DEF TInv, TypeOK, MoneyOK, RestOK, WalletSet, EntitlementSet

\* Invoices are only added and time only grows, so nothing a job holds expires.
LEMMA Idling ==
    ASSUME RestOK, UNCHANGED <<change, job>>, now' \in Nat, now' >= now,
           DOMAIN invoices \subseteq DOMAIN invoices'
    PROVE  RestOK'
<1>1. \A w \in Workers : job[w].at \in Nat
  BY DEF RestOK
<1>2. ASSUME NEW w \in Workers PROVE job'[w].at <= now'
  <2>1. job[w].at \in Nat /\ job[w].at <= now /\ now \in Nat
    BY <1>1 DEF RestOK, JobsOK
  <2> QED
    BY <2>1
<1>3. JobsOK'
  BY <1>2 DEF RestOK, JobsOK
<1> QED
  BY <1>3 DEF RestOK

\* A worker starts a job whose list holds existing invoices, or ends its job.
LEMMA Working ==
    ASSUME RestOK, MoneyOK, NEW w \in Workers, UNCHANGED <<now, change>>,
           DOMAIN invoices \subseteq DOMAIN invoices',
           NEW j \in [kind: JobKind, queue: SUBSET DOMAIN invoices, at: {0, now}],
           job' = [job EXCEPT ![w] = j]
    PROVE  RestOK'
<1>1. DOMAIN invoices \subseteq Nat
  BY DEF MoneyOK
<1>2. j \in [kind: JobKind, queue: SUBSET Nat, at: Nat]
  BY <1>1 DEF RestOK
<1>3. job' \in [Workers -> [kind: JobKind, queue: SUBSET Nat, at: Nat]]
  BY <1>2 DEF RestOK
<1>4. ASSUME NEW v \in Workers
      PROVE  job'[v].queue \subseteq DOMAIN invoices' /\ job'[v].at <= now'
  <2>1. CASE v = w
    <3>1. job'[v] = j /\ j.queue \subseteq DOMAIN invoices /\ j.at \in {0, now}
      BY <2>1 DEF RestOK
    <3>2. now \in Nat
      BY DEF RestOK
    <3>3. j.at <= now
      BY <3>1, <3>2
    <3> QED
      BY <3>1, <3>3
  <2>2. CASE v # w
    BY <2>2 DEF RestOK, JobsOK
  <2> QED
    BY <2>1, <2>2
<1> QED
  BY <1>3, <1>4 DEF RestOK, JobsOK

LEMMA Finishing ==
    ASSUME RestOK, MoneyOK, NEW w \in Workers, UNCHANGED <<now, change>>,
           DOMAIN invoices \subseteq DOMAIN invoices', Finish(w)
    PROVE  RestOK'
  BY Working DEF Finish, Idle, JobKind

LEMMA Becoming ==
    ASSUME RestOK, MoneyOK, NEW w \in Workers, UNCHANGED <<now, change>>,
           DOMAIN invoices \subseteq DOMAIN invoices',
           NEW kind \in JobKind, NEW queue \in SUBSET DOMAIN invoices,
           Become(w, kind, queue)
    PROVE  RestOK'
  BY Working DEF Become

LEMMA Resting ==
    ASSUME RestOK, UNCHANGED <<now, change, job>>,
           DOMAIN invoices \subseteq DOMAIN invoices'
    PROVE  RestOK'
  BY Idling DEF RestOK

LEMMA WalletSteps ==
    ASSUME TInv, WalletOperation
    PROVE  TInv'
<1> USE Parts
<1>1. TypeOK /\ MoneyOK /\ RestOK
  BY DEF TInv
<1>2. ASSUME NEW w \in Workers, NEW k \in StaffKeys, NEW amount \in Amounts,
             CreditWallet(w, k, amount)
      PROVE  TInv'
  <2>1. wallet' \in WalletSet /\ ledger' \in Seq(EntrySet(Keys))
    BY <1>1, <1>2, Posting, KeysTyped, BillingAssumption
    DEF CreditWallet, Direction, TransactionType
  <2>2. MoneyOK'
    BY <1>1, <1>2, <2>1 DEF CreditWallet, MoneyOK
  <2>3. CASE wallet.status = "active"
    BY <1>1, <1>2, <2>2, <2>3, Becoming DEF CreditWallet, JobKind
  <2>4. CASE wallet.status # "active"
    BY <1>1, <1>2, <2>2, <2>4, Resting DEF CreditWallet
  <2> QED
    BY <2>3, <2>4
<1>3. ASSUME NEW k \in StaffKeys, NEW amount \in Amounts, DebitAdjustment(k, amount)
      PROVE  TInv'
  <2>1. wallet' \in WalletSet /\ ledger' \in Seq(EntrySet(Keys))
    BY <1>1, <1>3, Posting, KeysTyped, BillingAssumption
    DEF DebitAdjustment, Direction, TransactionType
  <2> QED
    BY <1>1, <1>3, <2>1, Resting DEF DebitAdjustment, MoneyOK
<1>4. ASSUME NEW n \in DOMAIN ledger, NEW k \in StaffKeys, ReverseTransaction(n, k)
      PROVE  TInv'
  <2> DEFINE i == ledger[n].invoice
  <2>1. ledger[n] \in EntrySet(Keys) /\ n \in Nat
    BY <1>1 DEF MoneyOK
  <2>2. /\ ledger[n].direction \in Direction /\ ledger[n].amount \in Nat \ {0}
        /\ Opposite(ledger[n].direction) \in Direction
    BY <2>1 DEF EntrySet, Opposite, Direction
  <2>3. wallet' \in WalletSet /\ ledger' \in Seq(EntrySet(Keys))
    BY <1>1, <1>4, <2>1, <2>2, Posting, KeysTyped DEF ReverseTransaction, TransactionType
  <2>4. CASE ReopenInvoice(i)
    <3>1. invoices' \in Seq(Invoice) /\ DOMAIN invoices' = DOMAIN invoices
      <4>1. CASE i \in DOMAIN invoices
        BY <1>1, <2>4, <4>1, RowsTyped, Replaced DEF ReopenInvoice, MoneyOK
      <4>2. CASE i \notin DOMAIN invoices
        BY <1>1, <2>4, <4>2, Untouched DEF ReopenInvoice, MoneyOK
      <4> QED
        BY <4>1, <4>2
    <3>2. sub' \in Subscription /\ entitlement' \in EntitlementSet
      BY <1>1, <2>4, SubscriptionTyped, EntitlementTyped
      DEF ReopenInvoice, SyncEntitlement, MoneyOK, RestOK
    <3> QED
      BY <1>1, <1>4, <2>3, <3>1, <3>2, Resting DEF ReverseTransaction, MoneyOK
  <2>5. CASE UNCHANGED <<invoices, sub, entitlement>>
    BY <1>1, <1>4, <2>3, <2>5, Resting DEF ReverseTransaction, MoneyOK
  <2> QED
    BY <1>4, <2>4, <2>5 DEF ReverseTransaction
<1>5. ASSUME NEW frozen \in BOOLEAN, SetWalletFrozen(frozen)
      PROVE  TInv'
  <2>1. wallet' \in WalletSet
    BY <1>1, <1>5 DEF SetWalletFrozen, MoneyOK, WalletSet, WalletStatus
  <2> QED
    BY <1>1, <1>5, <2>1, Resting DEF SetWalletFrozen, MoneyOK
<1> QED
  BY <1>2, <1>3, <1>4, <1>5 DEF WalletOperation

LEMMA WorkerSteps ==
    ASSUME TInv, NEW w \in Workers, WorkerStep(w)
    PROVE  TInv'
<1> USE Parts
<1>1. TypeOK /\ MoneyOK /\ RestOK
  BY DEF TInv
<1>2. CASE ListDueInvoices(w)
  <2>1. MoneyOK' /\ DueInvoices \in SUBSET DOMAIN invoices
    BY <1>1, <1>2 DEF ListDueInvoices, MoneyOK, DueInvoices
  <2>2. CASE DueInvoices = {}
    BY <1>1, <1>2, <2>1, <2>2, Finishing DEF ListDueInvoices
  <2>3. CASE DueInvoices # {}
    BY <1>1, <1>2, <2>1, <2>3, Becoming DEF ListDueInvoices, JobKind
  <2> QED
    BY <2>2, <2>3
<1>3. CASE RetryNext(w)
  <2>1. PICK i \in Oldest(job[w].queue) :
            LET rest == job[w].queue \ {i}
            IN IF PayRefused(invoices, i)
               THEN Finish(w) /\ UNCHANGED <<wallet, ledger, invoices, sub, entitlement>>
               ELSE /\ PayInvoice(invoices, i)
                    /\ IF invoices'[i].status = "paid" /\ rest # {}
                       THEN Become(w, "retry", rest)
                       ELSE Finish(w)
    BY <1>3 DEF RetryNext
  <2>2. /\ i \in DOMAIN invoices /\ invoices \in Seq(Invoice)
        /\ job[w].queue \ {i} \in SUBSET DOMAIN invoices
        /\ UNCHANGED <<now, change>>
    BY <1>1, <1>3 DEF Oldest, RestOK, JobsOK, MoneyOK, RetryNext
  <2>3. CASE PayRefused(invoices, i)
    BY <1>1, <2>1, <2>2, <2>3, Finishing DEF MoneyOK
  <2>4. CASE ~PayRefused(invoices, i)
    <3>1. MoneyOK' /\ DOMAIN invoices' = DOMAIN invoices
      BY <1>1, <2>1, <2>2, <2>4, Paying
    <3>2. CASE Finish(w)
      BY <1>1, <2>2, <3>1, <3>2, Finishing
    <3>3. CASE Become(w, "retry", job[w].queue \ {i})
      BY <1>1, <2>2, <3>1, <3>3, Becoming DEF JobKind
    <3> QED
      BY <2>1, <2>4, <3>2, <3>3
  <2> QED
    BY <2>3, <2>4
<1>4. CASE ListTrialEnded(w)
  <2>1. MoneyOK'
    BY <1>1, <1>4 DEF ListTrialEnded, MoneyOK
  <2> QED
    BY <1>1, <1>4, <2>1, Becoming DEF ListTrialEnded, JobKind
<1>5. CASE ListRenewal(w)
  <2>1. MoneyOK'
    BY <1>1, <1>5 DEF ListRenewal, MoneyOK
  <2> QED
    BY <1>1, <1>5, <2>1, Becoming DEF ListRenewal, JobKind
<1>6. CASE ListGraceEnded(w)
  <2>1. MoneyOK'
    BY <1>1, <1>6 DEF ListGraceEnded, MoneyOK
  <2> QED
    BY <1>1, <1>6, <2>1, Working DEF ListGraceEnded, JobKind
<1>7. CASE RunRenewal(w)
  <2>1. CASE UNCHANGED <<wallet, ledger, invoices, sub, entitlement>>
    BY <1>1, <1>7, <2>1, Finishing DEF RunRenewal, MoneyOK
  <2>2. ASSUME NEW c \in RenewalCases, PayInvoice(c.invs, c.i) PROVE TInv'
    <3>1. MoneyOK' /\ DOMAIN invoices \subseteq DOMAIN invoices'
      BY <1>1, <2>2, Renewing, Paying
    <3> QED
      BY <1>1, <1>7, <3>1, Finishing DEF RunRenewal
  <2> QED
    BY <1>7, <2>1, <2>2 DEF RunRenewal
<1>8. CASE RunTrialFailed(w)
  <2>1. MoneyOK'
    BY <1>1, <1>8, SubscriptionTyped, EntitlementTyped
    DEF RunTrialFailed, SyncEntitlement, MoneyOK, RestOK
  <2> QED
    BY <1>1, <1>8, <2>1, Finishing DEF RunTrialFailed
<1>9. CASE RunExpireGrace(w)
  <2>1. [sub EXCEPT !.status = "paused"] \in Subscription
    BY <1>1 DEF MoneyOK, Subscription, SubStatus
  <2>2. MoneyOK'
    BY <1>1, <1>9, <2>1, EntitlementTyped DEF RunExpireGrace, SyncEntitlement, MoneyOK
  <2> QED
    BY <1>1, <1>9, <2>2, Finishing DEF RunExpireGrace
<1>10. CASE Crash(w)
  BY <1>1, <1>10, Finishing DEF Crash, MoneyOK
<1> QED
  BY <1>2, <1>3, <1>4, <1>5, <1>6, <1>7, <1>8, <1>9, <1>10 DEF WorkerStep

LEMMA InvoiceSteps ==
    ASSUME TInv, InvoiceOperation
    PROVE  TInv'
<1> USE Parts
<1>1. TypeOK /\ MoneyOK /\ RestOK
  BY DEF TInv
<1>2. ASSUME NEW total \in Prices, PrepareInvoice(total)
      PROVE  TInv'
  <2>1. NewInvoice(total, DueLen) \in Invoice
    BY <1>1, BillingAssumption, Lengths
    DEF NewInvoice, Invoice, InvoiceStatus, AttemptStatus, RestOK, MoneyOK, Subscription
  <2>2. invoices' \in Seq(Invoice) /\ DOMAIN invoices \subseteq DOMAIN invoices'
    BY <1>1, <1>2, <2>1, Added DEF PrepareInvoice, MoneyOK
  <2> QED
    BY <1>1, <1>2, <2>2, Resting DEF PrepareInvoice, MoneyOK
<1>3. ASSUME NEW i \in DOMAIN invoices, IssueInvoice(i)
      PROVE  TInv'
  <2>1. invoices' \in Seq(Invoice) /\ DOMAIN invoices' = DOMAIN invoices
    BY <1>1, <1>3, RowsTyped, Replaced DEF IssueInvoice, MoneyOK
  <2> QED
    BY <1>1, <1>3, <2>1, Resting DEF IssueInvoice, MoneyOK
<1>4. ASSUME NEW i \in DOMAIN invoices, VoidInvoice(i)
      PROVE  TInv'
  <2>1. invoices' \in Seq(Invoice) /\ DOMAIN invoices' = DOMAIN invoices
    BY <1>1, <1>4, RowsTyped, Replaced DEF VoidInvoice, MoneyOK
  <2> QED
    BY <1>1, <1>4, <2>1, Resting DEF VoidInvoice, MoneyOK
<1>5. ASSUME NEW i \in DOMAIN invoices, MarkInvoicePaid(i)
      PROVE  TInv'
  <2>1. invoices' \in Seq(Invoice) /\ DOMAIN invoices' = DOMAIN invoices
    BY <1>1, <1>5, RowsTyped, Replaced DEF MarkInvoicePaid, MoneyOK
  <2>2. [sub EXCEPT !.status = "active", !.graceEnd = 0] \in Subscription
    BY <1>1 DEF MoneyOK, Subscription, SubStatus
  <2>3. sub' \in Subscription /\ entitlement' \in EntitlementSet
    BY <1>1, <1>5, <2>2, EntitlementTyped DEF MarkInvoicePaid, SyncEntitlement, MoneyOK
  <2> QED
    BY <1>1, <1>5, <2>1, <2>3, Resting DEF MarkInvoicePaid, MoneyOK
<1> QED
  BY <1>2, <1>3, <1>4, <1>5 DEF InvoiceOperation

\* A handler that writes the subscription only, with or without its entitlement.
LEMMA Subscribing ==
    ASSUME MoneyOK, RestOK, UNCHANGED <<now, wallet, ledger, invoices, change, job>>,
           sub' \in Subscription, SyncEntitlement \/ UNCHANGED entitlement
    PROVE  TInv'
  BY Parts, Resting, EntitlementTyped DEF SyncEntitlement, MoneyOK

LEMMA SubscriptionSteps ==
    ASSUME TInv, SubscriptionOperation
    PROVE  TInv'
<1>1. MoneyOK /\ RestOK
  BY Parts
<1>2. /\ sub \in Subscription /\ now \in Nat /\ sub.graceEnd \in Nat /\ sub.end \in Nat
      /\ change \in [status: {"none", "scheduled", "applied"}, at: Nat]
  BY <1>1 DEF MoneyOK, RestOK, Subscription
<1>3. CASE ApplyScheduledChange
  <2>1. change.at \in Nat /\ change.at + PeriodLen \in Nat
    BY <1>2, Lengths
  <2>2. sub' \in Subscription
    BY <1>2, <1>3, <2>1 DEF ApplyScheduledChange, Subscription
  <2>3. MoneyOK'
    BY <1>1, <1>3, <2>2, EntitlementTyped DEF ApplyScheduledChange, SyncEntitlement, MoneyOK
  <2>4. change' \in [status: {"none", "scheduled", "applied"}, at: Nat]
    BY <1>2, <1>3 DEF ApplyScheduledChange
  <2> QED
    BY <1>1, <1>3, <2>3, <2>4, Parts DEF ApplyScheduledChange, RestOK, JobsOK
<1>4. CASE ScheduleChange
  <2>1. MoneyOK'
    BY <1>1, <1>4 DEF ScheduleChange, MoneyOK
  <2> QED
    BY <1>1, <1>2, <1>4, <2>1, Parts DEF ScheduleChange, RestOK, JobsOK
<1>5. CASE GrantSubscription(PeriodLen)
  <2>1. now + PeriodLen \in Nat
    BY <1>2, Lengths
  <2>2. sub' \in Subscription
    BY <1>2, <1>5, <2>1 DEF GrantSubscription, Subscription, SubStatus
  <2> QED
    BY <1>1, <1>5, <2>2, Subscribing DEF GrantSubscription
<1>6. CASE ExtendGrace(GraceLen)
  <2> DEFINE base == IF sub.graceEnd > now THEN sub.graceEnd ELSE now
  <2>1. base + GraceLen \in Nat
    BY <1>2, Lengths
  <2>2. sub' \in Subscription
    BY <1>2, <1>6, <2>1 DEF ExtendGrace, Subscription, SubStatus
  <2> QED
    BY <1>1, <1>6, <2>2, Subscribing DEF ExtendGrace
<1>7. CASE CancelSubscription
  BY <1>1, <1>2, <1>7, Subscribing DEF CancelSubscription, Subscription
<1>8. CASE ResumeSubscription
  BY <1>1, <1>2, <1>8, Subscribing DEF ResumeSubscription, Subscription
<1>9. CASE MigrateToWallet
  BY <1>1, <1>2, <1>9, Subscribing DEF MigrateToWallet, Subscription
<1> QED
  BY <1>3, <1>4, <1>5, <1>6, <1>7, <1>8, <1>9, <1>1 DEF SubscriptionOperation

LEMMA TypedInit == Init => TInv
<1> SUFFICES ASSUME Init PROVE TInv
  OBVIOUS
<1>1. sub \in Subscription
  BY Lengths DEF Init, Subscription, SubStatus
<1>2. MoneyOK
  BY <1>1, EntitlementTyped DEF Init, MoneyOK, WalletSet, WalletStatus
<1>3. RestOK
  BY DEF Init, RestOK, JobsOK, Idle, JobKind
<1> QED
  BY <1>2, <1>3, Parts

LEMMA TypedNext == TInv /\ [Next]_vars => TInv'
<1> SUFFICES ASSUME TInv, [Next]_vars PROVE TInv'
  OBVIOUS
<1>1. CASE UNCHANGED vars
  BY <1>1 DEF vars, TInv, TypeOK, JobsOK
<1>2. CASE Tick
  <2>1. MoneyOK /\ RestOK /\ MoneyOK'
    BY <1>2, Parts DEF Tick, MoneyOK
  <2> QED
    BY <1>2, <2>1, Idling, Parts DEF Tick, RestOK
<1> QED
  BY <1>1, <1>2, WalletSteps, WorkerSteps, InvoiceSteps, SubscriptionSteps DEF Next

\* Every row keeps its type: in particular the balance is never negative.
THEOREM Typed == Spec => []TypeOK
<1>1. Spec => []TInv
  BY TypedInit, TypedNext, PTL DEF Spec
<1>2. TInv => TypeOK
  BY DEF TInv
<1> QED
  BY <1>1, <1>2, PTL
-----------------------------------------------------------------------------
\* Refinement of module Ledger.

\* An entry that names an invoice is the wallet payment of that invoice, and
\* has the key derived from it.
PaymentKeyed ==
    \A n \in DOMAIN ledger :
        IF ledger[n].type = "subscription_payment"
        THEN ledger[n].invoice # 0 /\ ledger[n].key = PaymentKey(ledger[n].invoice)
        ELSE ledger[n].invoice = 0

RInv == TInv /\ PaymentKeyed

\* A posting is a step of the abstract ledger.
LEMMA Simulated ==
    ASSUME TypeOK, PaymentKeyed,
           NEW direction \in Direction, NEW type \in TransactionType,
           NEW amount \in Nat \ {0}, NEW key \in Keys,
           NEW invoice \in Nat, NEW reverses \in Nat,
           AppendLocked(direction, type, amount, key, invoice, reverses),
           IF type = "reversal"
           THEN /\ reverses \in DOMAIN ledger
                /\ direction = Opposite(ledger[reverses].direction)
                /\ amount = ledger[reverses].amount
                /\ Reversals(reverses) = {}
           ELSE reverses = 0,
           IF type = "subscription_payment"
           THEN direction = "debit" /\ invoice # 0 /\ key = PaymentKey(invoice)
           ELSE invoice = 0
    PROVE  [L!Next]_(L!vars) /\ PaymentKeyed'
<1>1. CASE UNCHANGED <<wallet, ledger>>
  BY <1>1 DEF L!vars, PaymentKeyed
<1>2. CASE Posted(key) = {}
  <2> DEFINE e == Entry(direction, type, amount, key, invoice, reverses,
                        wallet'.balance, wallet'.version)
  <2>1. /\ ledger' = Append(ledger, e) /\ e \in EntrySet(Keys)
        /\ wallet'.balance = wallet.balance + Delta(direction, amount)
        /\ wallet'.version = wallet.version + 1
    BY <1>2, Posting
  <2>2. /\ e.direction = direction /\ e.type = type /\ e.amount = amount
        /\ e.key = key /\ e.invoice = invoice /\ e.reverses = reverses
        /\ e.balanceAfter = wallet'.balance /\ e.version = wallet'.version
    BY DEF Entry
  <2> HIDE DEF e
  <2>3. /\ Len(ledger) \in Nat /\ Len(ledger') = Len(ledger) + 1 /\ ledger' # <<>>
        /\ ledger'[Len(ledger')] = e
        /\ DOMAIN ledger' = DOMAIN ledger \cup {Len(ledger) + 1}
        /\ \A n \in DOMAIN ledger : ledger'[n] = ledger[n]
    <3>1. ledger \in Seq(EntrySet(Keys)) /\ e \in EntrySet(Keys)
      BY <2>1 DEF TypeOK
    <3>2. /\ Len(ledger) \in Nat /\ DOMAIN ledger = 1 .. Len(ledger)
          /\ DOMAIN ledger' = 1 .. (Len(ledger) + 1)
          /\ ledger'[Len(ledger) + 1] = e
          /\ \A n \in DOMAIN ledger : ledger'[n] = ledger[n]
      BY <2>1, <3>1, Added
    <3>3. Len(ledger') = Len(ledger) + 1 /\ ledger' # <<>>
      BY <2>1, <3>1
    <3> QED
      BY <3>2, <3>3
  <2>4. \A n \in DOMAIN ledger : ledger[n].key # key
    BY <1>2 DEF Posted
  <2>5. L!ReversalOK(e)
    BY <2>2 DEF L!ReversalOK, L!Opposite, Opposite, Reversals
  <2>6. L!PaymentOK(e)
    <3>1. CASE type = "subscription_payment"
      <4>1. \A n \in DOMAIN ledger : ledger[n].invoice # invoice
        BY <3>1, <2>4 DEF PaymentKeyed
      <4> QED
        BY <3>1, <4>1, <2>2 DEF L!PaymentOK
    <3>2. CASE type # "subscription_payment"
      BY <3>2, <2>2 DEF L!PaymentOK
    <3> QED
      BY <3>1, <3>2
  <2>7. e \in L!EntrySet(Keys)
    BY <2>1 DEF EntrySet, L!EntrySet, Direction, L!Direction, TransactionType, L!TransactionType
  <2>8. L!Post(e)
    BY <2>1, <2>2, <2>4, <2>5, <2>6, <2>7 DEF L!Post, L!Delta, Delta
  <2>9. L!Next
    BY <2>3, <2>8 DEF L!Next
  <2>10. PaymentKeyed'
    <3>1. ASSUME NEW n \in DOMAIN ledger'
          PROVE  IF ledger'[n].type = "subscription_payment"
                 THEN ledger'[n].invoice # 0 /\ ledger'[n].key = PaymentKey(ledger'[n].invoice)
                 ELSE ledger'[n].invoice = 0
      <4>1. CASE n \in DOMAIN ledger
        BY <4>1, <2>3 DEF PaymentKeyed
      <4>2. CASE n = Len(ledger) + 1
        BY <4>2, <2>2, <2>3
      <4> QED
        BY <2>3, <4>1, <4>2
    <3> QED
      BY <3>1 DEF PaymentKeyed, PaymentKey
  <2> QED
    BY <2>9, <2>10
<1> QED
  BY <1>1, <1>2, Posting

LEMMA PayingSimulated ==
    ASSUME TypeOK, PaymentKeyed, NEW invs \in Seq(Invoice), NEW i \in DOMAIN invs,
           PayInvoice(invs, i)
    PROVE  [L!Next]_(L!vars) /\ PaymentKeyed'
<1>1. CASE UNCHANGED <<wallet, ledger>>
  BY <1>1 DEF L!vars, PaymentKeyed
<1>2. CASE PayDebit(invs, i)
  <2>1. invs[i] \in Invoice /\ invs[i].due # 0
    BY <1>2 DEF PayDebit, Covered, CanPay, PayRefused
  <2>2. invs[i].due \in Nat \ {0}
    BY <2>1 DEF Invoice
  <2>3. i \in Nat /\ i # 0 /\ PaymentKey(i) \in Keys
    BY KeysTyped
  <2>4. AppendLocked("debit", "subscription_payment", invs[i].due, PaymentKey(i), i, 0)
    BY <1>2 DEF PayDebit
  <2> QED
    BY <2>2, <2>3, <2>4, Simulated DEF Direction, TransactionType
<1> QED
  BY <1>1, <1>2 DEF PayInvoice, PayReplay, PayInsufficient

LEMMA StepSimulated ==
    ASSUME TInv, PaymentKeyed, [Next]_vars
    PROVE  [L!Next]_(L!vars) /\ PaymentKeyed'
<1>1. TypeOK
  BY DEF TInv
<1>2. CASE UNCHANGED <<wallet, ledger>>
  BY <1>2 DEF L!vars, PaymentKeyed
<1>3. ASSUME NEW w \in Workers, NEW k \in StaffKeys, NEW amount \in Amounts,
             CreditWallet(w, k, amount)
      PROVE  [L!Next]_(L!vars) /\ PaymentKeyed'
  BY <1>1, <1>3, Simulated, KeysTyped, BillingAssumption
  DEF CreditWallet, Direction, TransactionType
<1>4. ASSUME NEW k \in StaffKeys, NEW amount \in Amounts, DebitAdjustment(k, amount)
      PROVE  [L!Next]_(L!vars) /\ PaymentKeyed'
  BY <1>1, <1>4, Simulated, KeysTyped, BillingAssumption
  DEF DebitAdjustment, Direction, TransactionType
<1>5. ASSUME NEW n \in DOMAIN ledger, NEW k \in StaffKeys, ReverseTransaction(n, k)
      PROVE  [L!Next]_(L!vars) /\ PaymentKeyed'
  <2>1. ledger[n] \in EntrySet(Keys) /\ n \in Nat
    BY <1>1 DEF TypeOK
  <2>2. /\ ledger[n].amount \in Nat \ {0}
        /\ Opposite(ledger[n].direction) \in Direction
    BY <2>1 DEF EntrySet, Opposite, Direction
  <2> QED
    BY <1>1, <1>5, <2>1, <2>2, Simulated, KeysTyped DEF ReverseTransaction, TransactionType
<1>6. ASSUME NEW frozen \in BOOLEAN, SetWalletFrozen(frozen)
      PROVE  [L!Next]_(L!vars) /\ PaymentKeyed'
  <2>1. wallet'.balance = wallet.balance /\ wallet'.version = wallet.version
    BY <1>1, <1>6 DEF SetWalletFrozen, TypeOK
  <2> QED
    BY <1>6, <2>1 DEF SetWalletFrozen, L!vars, PaymentKeyed
<1>7. ASSUME NEW w \in Workers, RetryNext(w)
      PROVE  [L!Next]_(L!vars) /\ PaymentKeyed'
  <2>1. PICK i \in Oldest(job[w].queue) :
            IF PayRefused(invoices, i) THEN UNCHANGED <<wallet, ledger>>
                                       ELSE PayInvoice(invoices, i)
    BY <1>7 DEF RetryNext
  <2>2. i \in DOMAIN invoices /\ invoices \in Seq(Invoice)
    BY DEF Oldest, TInv, JobsOK, TypeOK
  <2> QED
    BY <1>1, <1>2, <2>1, <2>2, PayingSimulated
<1>8. ASSUME NEW w \in Workers, RunRenewal(w)
      PROVE  [L!Next]_(L!vars) /\ PaymentKeyed'
  <2>1. ASSUME NEW c \in RenewalCases, PayInvoice(c.invs, c.i)
        PROVE  [L!Next]_(L!vars) /\ PaymentKeyed'
    BY <1>1, <2>1, Renewing, PayingSimulated
  <2> QED
    BY <1>2, <1>8, <2>1 DEF RunRenewal
<1> QED
  <2>1. CASE WalletOperation
    BY <2>1, <1>3, <1>4, <1>5, <1>6 DEF WalletOperation
  <2>2. ASSUME NEW w \in Workers, WorkerStep(w)
        PROVE  [L!Next]_(L!vars) /\ PaymentKeyed'
    BY <2>2, <1>2, <1>7, <1>8
    DEF WorkerStep, ListDueInvoices, ListTrialEnded, ListRenewal, ListGraceEnded,
        RunTrialFailed, RunExpireGrace, Crash
  <2>3. CASE InvoiceOperation
    BY <2>3, <1>2 DEF InvoiceOperation, PrepareInvoice, IssueInvoice, VoidInvoice, MarkInvoicePaid
  <2>4. CASE SubscriptionOperation
    BY <2>4, <1>2 DEF SubscriptionOperation, ApplyScheduledChange, ScheduleChange,
        GrantSubscription, ExtendGrace, CancelSubscription, ResumeSubscription, MigrateToWallet
  <2>5. CASE Tick
    BY <2>5, <1>2 DEF Tick
  <2>6. CASE UNCHANGED vars
    BY <2>6, <1>2 DEF vars
  <2> QED
    BY <2>1, <2>2, <2>3, <2>4, <2>5, <2>6 DEF Next

\* Whatever handlers, retries and crashes happen, the wallet behaves as module
\* Ledger says, so everything proved there of the ledger holds of the code's.
THEOREM LedgerImplemented == Spec => ImplementsLedger
<1>1. Init => RInv /\ L!Init
  <2> SUFFICES ASSUME Init PROVE RInv /\ L!Init
    OBVIOUS
  <2>1. wallet.balance = 0 /\ wallet.version = 0 /\ ledger = <<>>
    BY DEF Init
  <2> QED
    BY <2>1, TypedInit DEF RInv, PaymentKeyed, L!Init
<1>2. RInv /\ [Next]_vars => RInv' /\ [L!Next]_(L!vars)
  BY TypedNext, StepSimulated DEF RInv
<1> QED
  BY <1>1, <1>2, PTL DEF Spec, ImplementsLedger, L!Spec
-----------------------------------------------------------------------------
\* The entitlement other components read is the subscription's.

LEMMA EntitlementStep == TInv /\ EntitlementFollows /\ [Next]_vars => EntitlementFollows'
<1> SUFFICES ASSUME TInv, EntitlementFollows, [Next]_vars PROVE EntitlementFollows'
  OBVIOUS
<1>1. CASE SyncEntitlement
  BY <1>1 DEF SyncEntitlement, EntitlementFollows
<1>2. CASE UNCHANGED <<sub, entitlement>>
  BY <1>2 DEF EntitlementFollows
<1>3. ASSUME NEW invs, NEW i, PayInvoice(invs, i)
      PROVE  EntitlementFollows'
  BY <1>1, <1>2, <1>3 DEF PayInvoice, PayReplay, PayInsufficient, PayDebit
<1>4. CASE WalletOperation
  BY <1>1, <1>2, <1>4 DEF WalletOperation, CreditWallet, DebitAdjustment, ReverseTransaction,
     ReopenInvoice, SetWalletFrozen
<1>5. ASSUME NEW w \in Workers, WorkerStep(w)
      PROVE  EntitlementFollows'
  <2>1. CASE RetryNext(w) \/ RunRenewal(w)
    BY <2>1, <1>2, <1>3 DEF RetryNext, RunRenewal
  <2>2. CASE RunTrialFailed(w) \/ RunExpireGrace(w)
    BY <2>2, <1>1, <1>2 DEF RunTrialFailed, RunExpireGrace
  <2>3. CASE ListDueInvoices(w) \/ ListTrialEnded(w) \/ ListRenewal(w)
             \/ ListGraceEnded(w) \/ Crash(w)
    BY <2>3, <1>2 DEF ListDueInvoices, ListTrialEnded, ListRenewal, ListGraceEnded, Crash
  <2> QED
    BY <1>5, <2>1, <2>2, <2>3 DEF WorkerStep
<1>6. CASE InvoiceOperation
  BY <1>1, <1>2, <1>6 DEF InvoiceOperation, PrepareInvoice, IssueInvoice, VoidInvoice,
     MarkInvoicePaid
<1>7. CASE SubscriptionOperation
  <2>1. CASE CancelSubscription \/ ResumeSubscription \/ MigrateToWallet
    <3>1. /\ sub'.status = sub.status /\ sub'.start = sub.start /\ sub'.end = sub.end
          /\ entitlement' = entitlement
      BY <2>1 DEF CancelSubscription, ResumeSubscription, MigrateToWallet, TInv, TypeOK,
         Subscription
    <3> QED
      BY <3>1 DEF EntitlementFollows, EntitlementOf
  <2> QED
    BY <1>7, <1>1, <1>2, <2>1 DEF SubscriptionOperation, ApplyScheduledChange, ScheduleChange,
       GrantSubscription, ExtendGrace
<1>8. CASE Tick \/ UNCHANGED vars
  BY <1>8, <1>2 DEF Tick, vars
<1> QED
  BY <1>4, <1>5, <1>6, <1>7, <1>8 DEF Next

\* After every handler the entitlement is the one of the current subscription.
THEOREM EntitlementCurrent == Spec => []EntitlementFollows
<1>1. Init => TInv /\ EntitlementFollows
  BY TypedInit DEF Init, EntitlementFollows
<1>2. TInv /\ EntitlementFollows /\ [Next]_vars => (TInv /\ EntitlementFollows)'
  BY TypedNext, EntitlementStep
<1> QED
  BY <1>1, <1>2, PTL DEF Spec

\* Access is restricted by a grace period that ran out, and by nothing else.
THEOREM GraceHonoured == Spec => GraceIsHonoured
<1>1. TInv /\ [Next]_vars =>
        [sub'.status = "paused" /\ sub.status # "paused"
           => sub.status = "grace" /\ sub.graceEnd # 0 /\ sub.graceEnd <= now]_vars
  <2> SUFFICES ASSUME TInv, Next, sub'.status = "paused", sub.status # "paused"
               PROVE  sub.status = "grace" /\ sub.graceEnd # 0 /\ sub.graceEnd <= now
    OBVIOUS
  <2>1. sub \in Subscription /\ now \in Nat /\ sub.graceEnd \in Nat
    BY DEF TInv, TypeOK, Subscription
  <2>2. InGrace(sub).status # "paused" /\ sub' # sub
    BY <2>1 DEF InGrace, Subscription
  <2>3. ASSUME NEW invs, NEW i, PayInvoice(invs, i)
        PROVE  FALSE
    <3>1. Restored(sub).status # "paused" /\ Restored(sub) \in Subscription
      BY <2>1, SubscriptionTyped DEF Restored, Subscription
    <3>2. Advanced(Restored(sub), invs[i]).status # "paused"
      BY <3>1 DEF Advanced, Subscription
    <3> QED
      BY <2>2, <2>3, <3>2 DEF PayInvoice, PayReplay, PayInsufficient, PayDebit
  <2>4. CASE WalletOperation
    BY <2>2, <2>4 DEF WalletOperation, CreditWallet, DebitAdjustment, ReverseTransaction,
       ReopenInvoice, SetWalletFrozen
  <2>5. ASSUME NEW w \in Workers, WorkerStep(w)
        PROVE  sub.status = "grace" /\ sub.graceEnd # 0 /\ sub.graceEnd <= now
    <3>1. CASE RunExpireGrace(w)
      <4>1. job[w].at \in Nat /\ job[w].at <= now
        BY DEF TInv, TypeOK, JobsOK
      <4>2. sub.status = "grace" /\ sub.graceEnd # 0 /\ sub.graceEnd <= job[w].at
        BY <2>2, <3>1 DEF RunExpireGrace
      <4> QED
        BY <2>1, <4>1, <4>2
    <3>2. CASE RetryNext(w) \/ RunRenewal(w)
      BY <2>2, <2>3, <3>2 DEF RetryNext, RunRenewal
    <3> QED
      BY <2>2, <2>5, <3>1, <3>2 DEF WorkerStep, ListDueInvoices, ListTrialEnded, ListRenewal,
         ListGraceEnded, RunTrialFailed, Crash
  <2>6. CASE InvoiceOperation
    <3>1. [sub EXCEPT !.status = "active", !.graceEnd = 0].status = "active"
      BY <2>1 DEF Subscription
    <3> QED
      BY <2>2, <2>6, <3>1 DEF InvoiceOperation, PrepareInvoice, IssueInvoice, VoidInvoice,
         MarkInvoicePaid
  <2>7. CASE SubscriptionOperation
    BY <2>1, <2>2, <2>7 DEF SubscriptionOperation, ApplyScheduledChange, ScheduleChange,
       GrantSubscription, ExtendGrace, CancelSubscription, ResumeSubscription,
       MigrateToWallet, Subscription
  <2>8. CASE Tick
    BY <2>2, <2>8 DEF Tick
  <2> QED
    BY <2>4, <2>5, <2>6, <2>7, <2>8 DEF Next
<1>2. Spec => []TInv
  BY TypedInit, TypedNext, PTL DEF Spec
<1> QED
  BY <1>1, <1>2, PTL DEF Spec, GraceIsHonoured
-----------------------------------------------------------------------------
\* What module LedgerProofs proves of the abstract ledger, for this wallet.
P == INSTANCE LedgerProofs WITH Key <- Keys,
                                balance <- wallet.balance,
                                version <- wallet.version

\* The wallet balance is what its ledger adds up to, entry by entry; no key
\* posts twice, no invoice is debited twice, no entry is reversed twice.
THEOREM WalletPromises == Spec => [](P!Chained /\ P!Promises)
<1>1. Spec => P!Spec
  <2>1. L!Init => P!Init
    BY DEF L!Init, P!Init
  <2>2. [L!Next]_(L!vars) => [P!Next]_(P!vars)
    BY DEF L!Next, P!Next, L!vars, P!vars, L!Post, P!Post, L!EntrySet, P!EntrySet,
       L!Direction, P!Direction, L!TransactionType, P!TransactionType,
       L!ReversalOK, P!ReversalOK, L!PaymentOK, P!PaymentOK, L!Opposite, P!Opposite,
       L!Delta, P!Delta
  <2> QED
    BY <2>1, <2>2, LedgerImplemented, PTL DEF ImplementsLedger, L!Spec, P!Spec
<1> QED
  BY <1>1, P!AlwaysChained, P!PromisesKept, PTL
-----------------------------------------------------------------------------
(* What reconcile_wallet recomputes is a sum over the ledger, in no order. *)
LEMMA TotalIsSum ==
    ASSUME NEW direction
    PROVE  Total(direction) = SumOf(ledger, {n \in DOMAIN ledger : ledger[n].direction = direction})
  BY DEF Total, SumOf

\* Replaying the chain entry by entry adds up the two directions.
LEMMA Reconciled ==
    ASSUME TypeOK, P!Chained PROVE ReconciliationMatches
<1> DEFINE N == Len(ledger)
           after == [n \in 0 .. N |-> IF n = 0 THEN 0 ELSE ledger[n].balanceAfter]
<1>1. N \in Nat /\ DOMAIN ledger = 1 .. N
  BY DEF TypeOK
<1>2. \A n \in 1 .. N : ledger[n].amount \in Int /\ ledger[n].direction \in {"credit", "debit"}
  <2>1. \A n \in 1 .. N : ledger[n] \in EntrySet(Keys)
    BY DEF TypeOK
  <2> QED
    BY <2>1 DEF EntrySet, Direction
<1>3. after[0] = 0
  BY <1>1
<1>4. ASSUME NEW n \in 1 .. N
      PROVE  after[n] = after[n - 1]
                + (IF ledger[n].direction = "credit" THEN ledger[n].amount ELSE - ledger[n].amount)
  <2>1. after[n] = ledger[n].balanceAfter /\ after[n - 1] = IF n = 1 THEN 0 ELSE ledger[n - 1].balanceAfter
    BY <1>1
  <2>2. ledger[n].balanceAfter =
            (IF n = 1 THEN 0 ELSE ledger[n - 1].balanceAfter)
                + (IF ledger[n].direction = "credit" THEN ledger[n].amount ELSE - ledger[n].amount)
    BY <1>1 DEF P!Chained, P!Delta
  <2> QED
    BY <2>1, <2>2
<1>5. wallet.balance = after[N]
  <2>1. ledger = <<>> <=> N = 0
    BY DEF TypeOK
  <2> QED
    BY <1>1, <2>1 DEF P!Chained
<1> HIDE DEF after
<1>6. SumOf(ledger, Upto(ledger, "credit", N)) - SumOf(ledger, Upto(ledger, "debit", N)) = after[N]
  BY <1>1, <1>2, <1>3, <1>4, Replayed
<1>7. /\ Total("credit") = SumOf(ledger, Upto(ledger, "credit", N))
      /\ Total("debit") = SumOf(ledger, Upto(ledger, "debit", N))
  BY <1>1, TotalIsSum DEF Upto
<1> QED
  BY <1>5, <1>6, <1>7 DEF ReconciliationMatches, ReconciledBalance

\* A reconciliation always finds the cached balance equal to the credits minus
\* the debits of the ledger, whatever was topped up, paid and reversed.
THEOREM ReconciliationHolds == Spec => []ReconciliationMatches
<1>1. TypeOK /\ P!Chained => ReconciliationMatches
  BY Reconciled
<1> QED
  BY <1>1, Typed, WalletPromises, PTL
-----------------------------------------------------------------------------
\* Money and invoices.

\* Every payment names an invoice, which is paid as long as the payment stands.
ChargesOK ==
    \A n \in DOMAIN ledger : ledger[n].type = "subscription_payment" =>
        /\ ledger[n].invoice \in DOMAIN invoices
        /\ Reversals(n) = {} => invoices[ledger[n].invoice].status = "paid"

\* A step that keeps settled invoices settled and posts, at most, an entry that
\* is no payment or is the payment of an invoice it settles.
LEMMA ChargesKept ==
    ASSUME TypeOK, ChargesOK, DOMAIN invoices \subseteq DOMAIN invoices',
           \A i \in DOMAIN invoices : invoices[i].status = "paid" => invoices'[i].status = "paid",
           \/ ledger' = ledger
           \/ \E e \in EntrySet(Keys) :
                 /\ ledger' = Append(ledger, e)
                 /\ e.type = "subscription_payment" =>
                       e.invoice \in DOMAIN invoices' /\ invoices'[e.invoice].status = "paid"
    PROVE  ChargesOK'
<1>1. CASE ledger' = ledger
  BY <1>1 DEF ChargesOK, Reversals
<1>2. ASSUME NEW e \in EntrySet(Keys), ledger' = Append(ledger, e),
             e.type = "subscription_payment" =>
                 e.invoice \in DOMAIN invoices' /\ invoices'[e.invoice].status = "paid"
      PROVE  ChargesOK'
  <2>1. /\ DOMAIN ledger' = DOMAIN ledger \cup {Len(ledger) + 1}
        /\ ledger'[Len(ledger) + 1] = e
        /\ \A n \in DOMAIN ledger : ledger'[n] = ledger[n]
    <3>1. ledger \in Seq(EntrySet(Keys))
      BY DEF TypeOK
    <3> QED
      BY <1>2, <3>1, Added
  <2>2. ASSUME NEW n \in DOMAIN ledger', ledger'[n].type = "subscription_payment"
        PROVE  /\ ledger'[n].invoice \in DOMAIN invoices'
               /\ Reversals(n)' = {} => invoices'[ledger'[n].invoice].status = "paid"
    <3>1. CASE n \in DOMAIN ledger
      <4>1. Reversals(n) \subseteq Reversals(n)'
        BY <2>1 DEF Reversals
      <4> QED
        BY <2>1, <2>2, <3>1, <4>1 DEF ChargesOK
    <3>2. CASE n = Len(ledger) + 1
      BY <1>2, <2>1, <2>2, <3>2
    <3> QED
      BY <2>1, <3>1, <3>2
  <2> QED
    BY <2>2 DEF ChargesOK
<1> QED
  BY <1>1, <1>2

LEMMA ChargingKept ==
    ASSUME TypeOK, ChargesOK, NEW invs \in Seq(Invoice), NEW i \in DOMAIN invs,
           DOMAIN invoices \subseteq DOMAIN invs,
           \A j \in DOMAIN invoices : invoices[j].status = "paid" => invs[j].status = "paid",
           PayInvoice(invs, i)
    PROVE  ChargesOK'
<1>1. invs[i] \in Invoice
  OBVIOUS
<1>2. CASE PayReplay(invs, i)
  BY <1>2, ChargesKept DEF PayReplay
<1>3. CASE PayInsufficient(invs, i)
  <2>1. Declined(invs[i]).status = invs[i].status /\ Declined(invs[i]) \in Invoice
    BY <1>1, RowsTyped DEF Declined, Invoice
  <2>2. /\ DOMAIN invoices' = DOMAIN invs
        /\ \A j \in DOMAIN invs : invoices'[j].status = invs[j].status
    BY <1>3, <2>1, Replaced DEF PayInsufficient
  <2> QED
    BY <1>3, <2>2, ChargesKept DEF PayInsufficient
<1>4. CASE PayDebit(invs, i)
  <2>1. Charged(invs[i]).status = "paid" /\ Charged(invs[i]) \in Invoice
    <3>1. Settled(invs[i]).status = "paid" /\ Settled(invs[i]) \in Invoice
      <4>1. invs[i].total \in Nat
        BY <1>1 DEF Invoice
      <4> QED
        BY <1>1, <4>1 DEF Settled, Invoice, InvoiceStatus
    <3> QED
      BY <1>1, <3>1, RowsTyped DEF Charged, Invoice
  <2>2. /\ DOMAIN invoices' = DOMAIN invs
        /\ invoices'[i].status = "paid"
        /\ \A j \in DOMAIN invs : invs[j].status = "paid" => invoices'[j].status = "paid"
    BY <1>4, <2>1, Replaced DEF PayDebit
  <2>3. \/ ledger' = ledger
        \/ \E e \in EntrySet(Keys) : ledger' = Append(ledger, e) /\ e.invoice = i
    <3>1. invs[i].due \in Nat \ {0}
      <4>1. invs[i].due # 0
        BY <1>4 DEF PayDebit, Covered, CanPay, PayRefused
      <4> QED
        BY <1>1, <4>1 DEF Invoice
    <3>2. i \in Nat /\ PaymentKey(i) \in Keys
      BY KeysTyped
    <3>3. AppendLocked("debit", "subscription_payment", invs[i].due, PaymentKey(i), i, 0)
      BY <1>4 DEF PayDebit
    <3>4. \/ ledger' = ledger
          \/ LET e == Entry("debit", "subscription_payment", invs[i].due, PaymentKey(i), i, 0,
                            wallet'.balance, wallet'.version)
             IN ledger' = Append(ledger, e) /\ e \in EntrySet(Keys)
      BY <3>1, <3>2, <3>3, Posting DEF Direction, TransactionType
    <3> QED
      BY <3>4 DEF Entry
  <2> QED
    BY <2>2, <2>3, ChargesKept
<1> QED
  BY <1>2, <1>3, <1>4 DEF PayInvoice

\* A reversal sent under a key of its own is posted, so the reopened invoice is
\* the one whose payment no longer stands.
LEMMA ReversingKept ==
    ASSUME TypeOK, ChargesOK, UniqueKeys, P!OnePaymentPerInvoice,
           NEW n \in DOMAIN ledger, NEW k \in StaffKeys, ReverseTransaction(n, k)
    PROVE  ChargesOK'
<1> DEFINE i == ledger[n].invoice
<1>1. ledger[n] \in EntrySet(Keys) /\ n \in Nat /\ n # 0
  BY DEF TypeOK
<1>2. /\ ledger[n].amount \in Nat \ {0}
      /\ Opposite(ledger[n].direction) \in Direction
  BY <1>1 DEF EntrySet, Opposite, Direction
<1>3. Posted(StaffKey(k)) = {}
  BY DEF ReverseTransaction, Reversals, Posted
<1>4. PICK e \in EntrySet(Keys) :
          ledger' = Append(ledger, e) /\ e.type = "reversal" /\ e.reverses = n
  <2>1. LET e == Entry(Opposite(ledger[n].direction), "reversal", ledger[n].amount,
                       StaffKey(k), 0, n, wallet'.balance, wallet'.version)
        IN ledger' = Append(ledger, e) /\ e \in EntrySet(Keys)
    BY <1>1, <1>2, <1>3, Posting, KeysTyped DEF ReverseTransaction, TransactionType
  <2> QED
    BY <2>1 DEF Entry
<1>5. CASE ledger[n].type # "subscription_payment"
  BY <1>4, <1>5, ChargesKept DEF ReverseTransaction
<1>6. CASE ledger[n].type = "subscription_payment"
  <2>1. invoices' = [invoices EXCEPT ![i] = Reopened(@)] /\ i \in DOMAIN invoices
    BY <1>6 DEF ReverseTransaction, ReopenInvoice, ChargesOK
  <2>2. /\ DOMAIN invoices' = DOMAIN invoices
        /\ \A j \in DOMAIN invoices : j # i => invoices'[j] = invoices[j]
    <3>1. invoices \in Seq(Invoice) /\ Reopened(invoices[i]) \in Invoice
      BY <2>1, RowsTyped DEF TypeOK
    <3> QED
      BY <2>1, <3>1, Replaced
  <2>3. /\ DOMAIN ledger' = DOMAIN ledger \cup {Len(ledger) + 1}
        /\ ledger'[Len(ledger) + 1] = e
        /\ \A m \in DOMAIN ledger : ledger'[m] = ledger[m]
    <3>1. ledger \in Seq(EntrySet(Keys))
      BY DEF TypeOK
    <3> QED
      BY <1>4, <3>1, Added
  <2>4. ASSUME NEW m \in DOMAIN ledger', ledger'[m].type = "subscription_payment"
        PROVE  /\ ledger'[m].invoice \in DOMAIN invoices'
               /\ Reversals(m)' = {} => invoices'[ledger'[m].invoice].status = "paid"
    <3>1. m \in DOMAIN ledger
      BY <1>4, <2>3, <2>4
    <3>2. Reversals(m) \subseteq Reversals(m)'
      BY <2>3 DEF Reversals
    <3>3. CASE m = n
      <4>1. Len(ledger) + 1 \in Reversals(n)'
        BY <1>4, <2>3 DEF Reversals
      <4> QED
        BY <2>1, <2>2, <2>3, <3>3, <4>1
    <3>4. CASE m # n
      <4>1. ledger[m].invoice # i
        BY <1>6, <2>3, <2>4, <3>1, <3>4 DEF P!OnePaymentPerInvoice
      <4> QED
        BY <2>2, <2>3, <2>4, <3>1, <3>2, <4>1 DEF ChargesOK
    <3> QED
      BY <3>3, <3>4
  <2> QED
    BY <2>4 DEF ChargesOK
<1> QED
  BY <1>5, <1>6

LEMMA ChargesStep ==
    ASSUME TInv, ChargesOK, UniqueKeys, P!OnePaymentPerInvoice, [Next]_vars
    PROVE  ChargesOK'
<1>1. TypeOK /\ invoices \in Seq(Invoice)
  BY DEF TInv, TypeOK
<1>2. CASE UNCHANGED <<ledger, invoices>>
  BY <1>2, <1>1, ChargesKept
<1>3. ASSUME NEW w \in Workers, NEW k \in StaffKeys, NEW amount \in Amounts,
             CreditWallet(w, k, amount)
      PROVE  ChargesOK'
  <2>1. \/ ledger' = ledger
        \/ LET e == Entry("credit", "top_up", amount, StaffKey(k), 0, 0,
                          wallet'.balance, wallet'.version)
           IN ledger' = Append(ledger, e) /\ e \in EntrySet(Keys)
    BY <1>1, <1>3, Posting, KeysTyped, BillingAssumption
    DEF CreditWallet, Direction, TransactionType
  <2>2. ledger' = ledger \/ \E e \in EntrySet(Keys) : ledger' = Append(ledger, e)
                                                  /\ e.type = "top_up"
    BY <2>1 DEF Entry
  <2> QED
    BY <1>1, <1>3, <2>2, ChargesKept DEF CreditWallet
<1>4. ASSUME NEW k \in StaffKeys, NEW amount \in Amounts, DebitAdjustment(k, amount)
      PROVE  ChargesOK'
  <2>1. \/ ledger' = ledger
        \/ LET e == Entry("debit", "adjustment", amount, StaffKey(k), 0, 0,
                          wallet'.balance, wallet'.version)
           IN ledger' = Append(ledger, e) /\ e \in EntrySet(Keys)
    BY <1>1, <1>4, Posting, KeysTyped, BillingAssumption
    DEF DebitAdjustment, Direction, TransactionType
  <2>2. ledger' = ledger \/ \E e \in EntrySet(Keys) : ledger' = Append(ledger, e)
                                                  /\ e.type = "adjustment"
    BY <2>1 DEF Entry
  <2> QED
    BY <1>1, <1>4, <2>2, ChargesKept DEF DebitAdjustment
<1>5. ASSUME NEW w \in Workers, RetryNext(w)
      PROVE  ChargesOK'
  <2>1. PICK i \in Oldest(job[w].queue) :
            IF PayRefused(invoices, i) THEN UNCHANGED <<ledger, invoices>>
                                       ELSE PayInvoice(invoices, i)
    BY <1>5 DEF RetryNext
  <2>2. i \in DOMAIN invoices
    BY DEF Oldest, TInv, JobsOK
  <2> QED
    BY <1>1, <1>2, <2>1, <2>2, ChargingKept
<1>6. ASSUME NEW w \in Workers, RunRenewal(w)
      PROVE  ChargesOK'
  <2>1. ASSUME NEW c \in RenewalCases, PayInvoice(c.invs, c.i)
        PROVE  ChargesOK'
    <3>1. /\ c.invs \in Seq(Invoice) /\ c.i \in DOMAIN c.invs
          /\ DOMAIN invoices \subseteq DOMAIN c.invs
      BY <1>1, Renewing
    <3>2. \A j \in DOMAIN invoices : invoices[j].status = "paid" => c.invs[j] = invoices[j]
      <4>1. CASE PeriodInvoices # {}
        <5>1. PICK i \in PeriodInvoices :
                  c = [invs |-> IF invoices[i].status = "draft"
                                THEN [invoices EXCEPT ![i] = Issued(@)]
                                ELSE invoices,
                       i |-> i]
          BY <4>1 DEF RenewalCases
        <5>2. i \in DOMAIN invoices
          BY DEF PeriodInvoices
        <5> QED
          BY <1>1, <5>1, <5>2
      <4>2. CASE PeriodInvoices = {}
        <5>1. PICK total \in Prices :
                  c = [invs |-> Append(invoices, Issued(NewInvoice(total, 0))),
                       i |-> Len(invoices) + 1]
          BY <4>2 DEF RenewalCases
        <5> QED
          BY <1>1, <5>1
      <4> QED
        BY <4>1, <4>2
    <3> QED
      BY <1>1, <2>1, <3>1, <3>2, ChargingKept
  <2> QED
    BY <1>2, <1>6, <2>1 DEF RunRenewal
<1>7. CASE InvoiceOperation
  <2>1. ASSUME NEW total \in Prices, PrepareInvoice(total) PROVE ChargesOK'
    <3>1. /\ DOMAIN invoices \subseteq DOMAIN invoices'
          /\ \A j \in DOMAIN invoices : invoices'[j] = invoices[j]
      BY <1>1, <2>1 DEF PrepareInvoice
    <3> QED
      BY <1>1, <2>1, <3>1, ChargesKept DEF PrepareInvoice
  <2>2. ASSUME NEW i \in DOMAIN invoices, IssueInvoice(i) \/ VoidInvoice(i) PROVE ChargesOK'
    <3>1. invoices[i].status # "paid" /\ ledger' = ledger
      BY <2>2 DEF IssueInvoice, VoidInvoice
    <3>2. /\ DOMAIN invoices' = DOMAIN invoices
          /\ \A j \in DOMAIN invoices : j # i => invoices'[j] = invoices[j]
      BY <1>1, <2>2 DEF IssueInvoice, VoidInvoice
    <3> QED
      BY <1>1, <3>1, <3>2, ChargesKept
  <2>3. ASSUME NEW i \in DOMAIN invoices, MarkInvoicePaid(i) PROVE ChargesOK'
    <3>1. invoices[i].status = "open" /\ ledger' = ledger
      BY <2>3 DEF MarkInvoicePaid
    <3>2. /\ DOMAIN invoices' = DOMAIN invoices
          /\ \A j \in DOMAIN invoices : j # i => invoices'[j] = invoices[j]
      BY <1>1, <2>3 DEF MarkInvoicePaid
    <3> QED
      BY <1>1, <3>1, <3>2, ChargesKept
  <2> QED
    BY <1>7, <2>1, <2>2, <2>3 DEF InvoiceOperation
<1> QED
  <2>1. CASE WalletOperation
    BY <2>1, <1>1, <1>2, <1>3, <1>4, ReversingKept DEF WalletOperation, SetWalletFrozen
  <2>2. ASSUME NEW w \in Workers, WorkerStep(w)
        PROVE  ChargesOK'
    BY <2>2, <1>2, <1>5, <1>6
    DEF WorkerStep, ListDueInvoices, ListTrialEnded, ListRenewal, ListGraceEnded,
        RunTrialFailed, RunExpireGrace, Crash
  <2>3. CASE SubscriptionOperation
    BY <2>3, <1>2 DEF SubscriptionOperation, ApplyScheduledChange, ScheduleChange,
        GrantSubscription, ExtendGrace, CancelSubscription, ResumeSubscription, MigrateToWallet
  <2>4. CASE Tick \/ UNCHANGED vars
    BY <2>4, <1>2 DEF Tick, vars
  <2> QED
    BY <1>7, <2>1, <2>2, <2>3, <2>4 DEF Next

\* While staff follow the runbook and send no key for two reversals, money taken
\* for an invoice is never held against an invoice that is open or void.
THEOREM ChargesHonoured == UniqueKeys => (Spec => []ChargedInvoiceIsPaid)
<1> SUFFICES ASSUME UniqueKeys PROVE Spec => []ChargedInvoiceIsPaid
  OBVIOUS
<1>1. Init => TInv /\ ChargesOK
  <2> SUFFICES ASSUME Init PROVE TInv /\ ChargesOK
    OBVIOUS
  <2>1. ledger = <<>>
    BY DEF Init
  <2> QED
    BY <2>1, TypedInit DEF ChargesOK
<1>2. TInv /\ ChargesOK /\ P!Promises /\ [Next]_vars => (TInv /\ ChargesOK)'
  BY TypedNext, ChargesStep DEF P!Promises
<1>3. TInv /\ ChargesOK => ChargedInvoiceIsPaid
  BY DEF ChargesOK, ChargedInvoiceIsPaid
<1> QED
  BY <1>1, <1>2, <1>3, WalletPromises, PTL DEF Spec
-----------------------------------------------------------------------------
\* Periods and totals of invoices.

\* No handler changes the period or the total an invoice was generated with.
SameInvoice(v, r) == r.start = v.start /\ r.end = v.end /\ r.total = v.total

LEMMA RowsKeep ==
    ASSUME NEW v \in Invoice
    PROVE  /\ SameInvoice(v, Issued(v)) /\ SameInvoice(v, Voided(v))
           /\ SameInvoice(v, Declined(v)) /\ SameInvoice(v, Charged(v))
           /\ SameInvoice(v, Reviewed(v)) /\ SameInvoice(v, Reopened(v))
<1>1. SameInvoice(v, Issued(v)) /\ SameInvoice(v, Voided(v)) /\ SameInvoice(v, Declined(v))
  BY DEF SameInvoice, Issued, Voided, Declined, Invoice
<1>2. SameInvoice(v, Charged(v)) /\ SameInvoice(v, Reviewed(v))
  BY DEF SameInvoice, Charged, Reviewed, Settled, Invoice
<1>3. SameInvoice(v, Reopened(v))
  BY DEF SameInvoice, Reopened, Invoice
<1> QED
  BY <1>1, <1>2, <1>3

\* What a step may do to the table: rows keep their period and total, and a row
\* that is added is for the current period, which has no invoice yet.
NewPeriod(i, invs) ==
    /\ i = Len(invoices) + 1
    /\ invs[i].start = sub.start
    /\ invs[i].end = sub.end
    /\ PeriodInvoices = {}

Extends(invs) ==
    /\ invs \in Seq(Invoice)
    /\ DOMAIN invoices \subseteq DOMAIN invs
    /\ \A i \in DOMAIN invoices : SameInvoice(invoices[i], invs[i])
    /\ \A i \in DOMAIN invs \ DOMAIN invoices : NewPeriod(i, invs)

\* One row is rewritten, the others stay.
LEMMA RowWritten ==
    ASSUME TypeOK, NEW invs, Extends(invs), NEW i \in DOMAIN invs,
           NEW r \in Invoice, SameInvoice(invs[i], r)
    PROVE  Extends([invs EXCEPT ![i] = r])
<1> DEFINE to == [invs EXCEPT ![i] = r]
<1>1. /\ to \in Seq(Invoice)
      /\ DOMAIN to = DOMAIN invs
      /\ to[i] = r
      /\ \A j \in DOMAIN invs : j # i => to[j] = invs[j]
  BY Replaced DEF Extends
<1> HIDE DEF to
<1>2. \A j \in DOMAIN invs : SameInvoice(invs[j], to[j])
  BY <1>1 DEF SameInvoice
<1>3. ASSUME NEW j \in DOMAIN invoices PROVE SameInvoice(invoices[j], to[j])
  BY <1>2 DEF Extends, SameInvoice
<1>4. ASSUME NEW j \in DOMAIN to \ DOMAIN invoices PROVE NewPeriod(j, to)
  BY <1>1, <1>2 DEF Extends, SameInvoice, NewPeriod
<1> QED
  BY <1>1, <1>3, <1>4 DEF Extends, to

\* One row is added for the current period.
LEMMA RowAdded ==
    ASSUME TypeOK, PeriodInvoices = {}, NEW r \in Invoice,
           r.start = sub.start, r.end = sub.end
    PROVE  Extends(Append(invoices, r))
<1> DEFINE to == Append(invoices, r)
<1>1. /\ to \in Seq(Invoice)
      /\ DOMAIN to = DOMAIN invoices \cup {Len(invoices) + 1}
      /\ to[Len(invoices) + 1] = r
      /\ \A j \in DOMAIN invoices : to[j] = invoices[j]
  BY Added DEF TypeOK
<1> HIDE DEF to
<1> QED
  BY <1>1 DEF Extends, NewPeriod, SameInvoice, to

LEMMA NewInvoiceTyped ==
    ASSUME TypeOK, NEW total \in Prices, NEW term \in Nat
    PROVE  LET v == NewInvoice(total, term)
           IN  /\ v \in Invoice /\ Issued(v) \in Invoice
               /\ v.start = sub.start /\ v.end = sub.end
               /\ Issued(v).start = sub.start /\ Issued(v).end = sub.end
<1>1. NewInvoice(total, term) \in Invoice
  <2>1. now + term \in Nat /\ total \in Nat
    BY BillingAssumption DEF TypeOK
  <2>2. sub.start \in Nat /\ sub.end \in Nat
    BY DEF TypeOK, Subscription
  <2> QED
    BY <2>1, <2>2 DEF NewInvoice, Invoice, InvoiceStatus, AttemptStatus
<1>2. /\ NewInvoice(total, term).start = sub.start
      /\ NewInvoice(total, term).end = sub.end
  BY DEF NewInvoice
<1> QED
  BY <1>1, <1>2, RowsTyped, RowsKeep DEF SameInvoice

LEMMA RenewalExtends ==
    ASSUME TypeOK, NEW c \in RenewalCases
    PROVE  Extends(c.invs)
<1>0. Extends(invoices)
  BY DEF Extends, TypeOK, SameInvoice
<1>1. CASE PeriodInvoices # {}
  <2>1. PICK i \in PeriodInvoices :
            c = [invs |-> IF invoices[i].status = "draft"
                          THEN [invoices EXCEPT ![i] = Issued(@)]
                          ELSE invoices,
                 i |-> i]
    BY <1>1 DEF RenewalCases
  <2>2. i \in DOMAIN invoices /\ invoices[i] \in Invoice
    BY DEF PeriodInvoices, TypeOK
  <2>3. Extends([invoices EXCEPT ![i] = Issued(@)])
    BY <1>0, <2>2, RowWritten, RowsTyped, RowsKeep
  <2> QED
    BY <1>0, <2>1, <2>3
<1>2. CASE PeriodInvoices = {}
  <2>1. PICK total \in Prices :
            c = [invs |-> Append(invoices, Issued(NewInvoice(total, 0))),
                 i |-> Len(invoices) + 1]
    BY <1>2 DEF RenewalCases
  <2> QED
    BY <1>2, <2>1, NewInvoiceTyped, RowAdded
<1> QED
  BY <1>1, <1>2

LEMMA PayingExtends ==
    ASSUME TypeOK, NEW invs, Extends(invs), NEW i \in DOMAIN invs, PayInvoice(invs, i)
    PROVE  Extends(invoices')
<1>1. invs[i] \in Invoice
  BY DEF Extends
<1>2. \/ invoices' = invs
      \/ invoices' = [invs EXCEPT ![i] = Declined(@)]
      \/ invoices' = [invs EXCEPT ![i] = Charged(@)]
  BY DEF PayInvoice, PayReplay, PayInsufficient, PayDebit
<1> QED
  BY <1>1, <1>2, RowWritten, RowsTyped, RowsKeep

LEMMA InvoicesExtend ==
    ASSUME TInv, [Next]_vars
    PROVE  Extends(invoices')
<1>1. TypeOK
  BY DEF TInv
<1>2. Extends(invoices)
  BY <1>1 DEF Extends, TypeOK, SameInvoice
<1>3. ASSUME NEW n \in DOMAIN ledger, NEW k \in StaffKeys, ReverseTransaction(n, k)
      PROVE  Extends(invoices')
  <2> DEFINE i == ledger[n].invoice
  <2>1. invoices' = invoices \/ invoices' = [invoices EXCEPT ![i] = Reopened(@)]
    BY <1>3 DEF ReverseTransaction, ReopenInvoice
  <2>2. CASE i \in DOMAIN invoices
    <3>1. invoices[i] \in Invoice
      BY <1>1, <2>2 DEF TypeOK
    <3> QED
      BY <1>1, <1>2, <2>1, <2>2, <3>1, RowWritten, RowsTyped, RowsKeep
  <2>3. CASE i \notin DOMAIN invoices
    BY <1>1, <1>2, <2>1, <2>3, Untouched DEF TypeOK
  <2> QED
    BY <2>2, <2>3
<1>4. ASSUME NEW w \in Workers, RetryNext(w)
      PROVE  Extends(invoices')
  <2>1. PICK i \in Oldest(job[w].queue) :
            IF PayRefused(invoices, i) THEN UNCHANGED invoices ELSE PayInvoice(invoices, i)
    BY <1>4 DEF RetryNext
  <2>2. i \in DOMAIN invoices
    BY DEF Oldest, TInv, JobsOK
  <2> QED
    BY <1>1, <1>2, <2>1, <2>2, PayingExtends
<1>5. ASSUME NEW w \in Workers, RunRenewal(w)
      PROVE  Extends(invoices')
  <2>1. ASSUME NEW c \in RenewalCases, PayInvoice(c.invs, c.i)
        PROVE  Extends(invoices')
    BY <1>1, <2>1, Renewing, RenewalExtends, PayingExtends
  <2> QED
    BY <1>2, <1>5, <2>1 DEF RunRenewal
<1>6. CASE InvoiceOperation
  <2>1. ASSUME NEW total \in Prices, PrepareInvoice(total) PROVE Extends(invoices')
    <3>1. DueLen \in Nat /\ PeriodInvoices = {}
      BY <2>1, Lengths DEF PrepareInvoice, PeriodInvoices
    <3> QED
      BY <1>1, <2>1, <3>1, NewInvoiceTyped, RowAdded DEF PrepareInvoice
  <2>2. ASSUME NEW i \in DOMAIN invoices,
               IssueInvoice(i) \/ VoidInvoice(i) \/ MarkInvoicePaid(i)
        PROVE  Extends(invoices')
    <3>1. invoices[i] \in Invoice
      BY <1>1 DEF TypeOK
    <3>2. \/ invoices' = [invoices EXCEPT ![i] = Issued(@)]
          \/ invoices' = [invoices EXCEPT ![i] = Voided(@)]
          \/ invoices' = [invoices EXCEPT ![i] = Reviewed(@)]
      BY <2>2 DEF IssueInvoice, VoidInvoice, MarkInvoicePaid
    <3> QED
      BY <1>1, <1>2, <3>1, <3>2, RowWritten, RowsTyped, RowsKeep
  <2> QED
    BY <1>6, <2>1, <2>2 DEF InvoiceOperation
<1>7. CASE UNCHANGED invoices
  BY <1>2, <1>7
<1> QED
  <2>1. CASE WalletOperation
    BY <2>1, <1>3, <1>7 DEF WalletOperation, CreditWallet, DebitAdjustment, SetWalletFrozen
  <2>2. ASSUME NEW w \in Workers, WorkerStep(w)
        PROVE  Extends(invoices')
    BY <2>2, <1>4, <1>5, <1>7
    DEF WorkerStep, ListDueInvoices, ListTrialEnded, ListRenewal, ListGraceEnded,
        RunTrialFailed, RunExpireGrace, Crash
  <2>3. CASE SubscriptionOperation
    BY <2>3, <1>7 DEF SubscriptionOperation, ApplyScheduledChange, ScheduleChange,
        GrantSubscription, ExtendGrace, CancelSubscription, ResumeSubscription, MigrateToWallet
  <2>4. CASE Tick \/ UNCHANGED vars
    BY <2>4, <1>7 DEF Tick, vars
  <2> QED
    BY <1>6, <2>1, <2>2, <2>3, <2>4 DEF Next

\* There is one invoice for a period, whatever renewals, retries and prepared
\* drafts compete for it: each looks at the table its transaction changes.
THEOREM PeriodsInvoicedOnce == Spec => []OneInvoicePerPeriod
<1>1. Init => OneInvoicePerPeriod
  BY DEF Init, OneInvoicePerPeriod
<1>2. TInv /\ OneInvoicePerPeriod /\ [Next]_vars => OneInvoicePerPeriod'
  <2> SUFFICES ASSUME TInv, OneInvoicePerPeriod, [Next]_vars,
                      NEW i \in DOMAIN invoices', NEW j \in DOMAIN invoices',
                      invoices'[i].start = invoices'[j].start,
                      invoices'[i].end = invoices'[j].end
               PROVE  i = j
    BY DEF OneInvoicePerPeriod
  <2>1. Extends(invoices')
    BY InvoicesExtend
  <2>2. CASE i \in DOMAIN invoices /\ j \in DOMAIN invoices
    BY <2>1, <2>2 DEF Extends, SameInvoice, OneInvoicePerPeriod
  <2>3. ASSUME NEW a \in DOMAIN invoices, NEW b \in DOMAIN invoices' \ DOMAIN invoices,
               invoices'[a].start = invoices'[b].start, invoices'[a].end = invoices'[b].end
        PROVE  FALSE
    BY <2>1, <2>3 DEF Extends, SameInvoice, NewPeriod, PeriodInvoices
  <2>4. CASE i \notin DOMAIN invoices /\ j \notin DOMAIN invoices
    BY <2>1, <2>4 DEF Extends, NewPeriod
  <2> QED
    BY <2>2, <2>3, <2>4
<1> QED
  BY <1>1, <1>2, TypedInit, TypedNext, PTL DEF Spec
-----------------------------------------------------------------------------
\* How the subscription moves on.

\* An invoice of table invs is paid for the period that ends at `start`.
PaidUpTo(invs, start) ==
    \E i \in DOMAIN invs : invs[i].status = "paid" /\ invs[i].end = start

LEMMA GraceKeepsPeriod ==
    ASSUME NEW s \in Subscription, now \in Nat
    PROVE  InGrace(s).start = s.start /\ Restored(s).start = s.start
  BY DEF InGrace, Restored, Subscription

LEMMA ChargedIsPaid ==
    ASSUME NEW v \in Invoice
    PROVE  Charged(v).status = "paid" /\ Charged(v).end = v.end
<1>1. v.total \in Nat
  BY DEF Invoice
<1>2. Settled(v) \in Invoice /\ Settled(v).status = "paid" /\ Settled(v).end = v.end
  BY <1>1 DEF Settled, Invoice, InvoiceStatus
<1> QED
  BY <1>2 DEF Charged, Invoice

LEMMA PayingAdvances ==
    ASSUME TypeOK, NEW invs \in Seq(Invoice), NEW i \in DOMAIN invs, PayInvoice(invs, i)
    PROVE  sub'.start = sub.start \/ PaidUpTo(invoices', sub'.start)
<1>1. sub \in Subscription /\ now \in Nat /\ invs[i] \in Invoice
  BY DEF TypeOK
<1>2. CASE PayReplay(invs, i)
  BY <1>2 DEF PayReplay
<1>3. CASE PayInsufficient(invs, i)
  BY <1>1, <1>3, GraceKeepsPeriod DEF PayInsufficient
<1>4. CASE PayDebit(invs, i)
  <2> DEFINE s == Restored(sub)
  <2>1. s \in Subscription /\ s.start = sub.start
    BY <1>1, GraceKeepsPeriod, SubscriptionTyped
  <2>2. sub' = Advanced(s, invs[i])
    BY <1>4 DEF PayDebit
  <2>3. DOMAIN invoices' = DOMAIN invs /\ invoices'[i] = Charged(invs[i])
    BY <1>1, <1>4, RowsTyped, Replaced DEF PayDebit
  <2> HIDE DEF s
  <2>4. sub' = s \/ sub'.start = invs[i].end
    BY <2>1, <2>2 DEF Advanced, Subscription
  <2> QED
    BY <1>1, <2>1, <2>3, <2>4, ChargedIsPaid DEF PaidUpTo
<1> QED
  BY <1>2, <1>3, <1>4 DEF PayInvoice

LEMMA PeriodStep ==
    ASSUME TInv, Next, sub'.status # "manual", change' = change
    PROVE  sub'.start = sub.start \/ PaidUpTo(invoices', sub'.start)
<1>1. TypeOK /\ sub \in Subscription /\ now \in Nat /\ invoices \in Seq(Invoice)
  BY DEF TInv, TypeOK
<1>2. CASE UNCHANGED sub
  BY <1>2
<1>3. ASSUME NEW n \in DOMAIN ledger, NEW k \in StaffKeys, ReverseTransaction(n, k)
      PROVE  sub'.start = sub.start
  BY <1>1, <1>3, GraceKeepsPeriod DEF ReverseTransaction, ReopenInvoice
<1>4. ASSUME NEW w \in Workers, RetryNext(w)
      PROVE  sub'.start = sub.start \/ PaidUpTo(invoices', sub'.start)
  <2>1. PICK i \in Oldest(job[w].queue) :
            IF PayRefused(invoices, i) THEN UNCHANGED sub ELSE PayInvoice(invoices, i)
    BY <1>4 DEF RetryNext
  <2>2. i \in DOMAIN invoices
    BY DEF Oldest, TInv, JobsOK
  <2> QED
    BY <1>1, <2>1, <2>2, PayingAdvances
<1>5. ASSUME NEW w \in Workers, RunRenewal(w)
      PROVE  sub'.start = sub.start \/ PaidUpTo(invoices', sub'.start)
  <2>1. ASSUME NEW c \in RenewalCases, PayInvoice(c.invs, c.i)
        PROVE  sub'.start = sub.start \/ PaidUpTo(invoices', sub'.start)
    BY <1>1, <2>1, Renewing, PayingAdvances
  <2> QED
    BY <1>5, <2>1 DEF RunRenewal
<1>6. ASSUME NEW w \in Workers, RunTrialFailed(w) \/ RunExpireGrace(w)
      PROVE  sub'.start = sub.start
  <2>1. [sub EXCEPT !.status = "paused"].start = sub.start
    BY <1>1 DEF Subscription
  <2> QED
    BY <1>1, <1>6, <2>1, GraceKeepsPeriod DEF RunTrialFailed, RunExpireGrace
<1>7. ASSUME NEW i \in DOMAIN invoices, MarkInvoicePaid(i)
      PROVE  sub'.start = sub.start
  <2>1. [sub EXCEPT !.status = "active", !.graceEnd = 0].start = sub.start
    BY <1>1 DEF Subscription
  <2> QED
    BY <1>7, <2>1 DEF MarkInvoicePaid
<1>8. CASE SubscriptionOperation
  <2>1. ~ApplyScheduledChange
    <3> SUFFICES ASSUME ApplyScheduledChange PROVE FALSE
      OBVIOUS
    <3>1. change'.status = "applied"
      BY <1>1 DEF ApplyScheduledChange, TypeOK
    <3> QED
      BY <3>1 DEF ApplyScheduledChange
  <2>2. ~GrantSubscription(PeriodLen)
    BY <1>1 DEF GrantSubscription, Subscription
  <2>3. CASE ExtendGrace(GraceLen)
    BY <1>1, <2>3 DEF ExtendGrace, Subscription
  <2>4. CASE CancelSubscription \/ ResumeSubscription \/ MigrateToWallet
    BY <1>1, <2>4 DEF CancelSubscription, ResumeSubscription, MigrateToWallet, Subscription
  <2> QED
    BY <1>8, <2>1, <2>2, <2>3, <2>4 DEF SubscriptionOperation, ScheduleChange
<1> QED
  <2>1. CASE WalletOperation
    BY <2>1, <1>2, <1>3 DEF WalletOperation, CreditWallet, DebitAdjustment, SetWalletFrozen
  <2>2. ASSUME NEW w \in Workers, WorkerStep(w)
        PROVE  sub'.start = sub.start \/ PaidUpTo(invoices', sub'.start)
    BY <2>2, <1>2, <1>4, <1>5, <1>6
    DEF WorkerStep, ListDueInvoices, ListTrialEnded, ListRenewal, ListGraceEnded, Crash
  <2>3. CASE InvoiceOperation
    BY <2>3, <1>2, <1>7 DEF InvoiceOperation, PrepareInvoice, IssueInvoice, VoidInvoice
  <2>4. CASE Tick
    BY <2>4, <1>2 DEF Tick
  <2> QED
    BY <1>8, <2>1, <2>2, <2>3, <2>4 DEF Next

\* A customer gets a new period only for money: the step that opens one leaves a
\* paid invoice that ends where the period begins.
THEOREM PeriodsArePaidFor == Spec => PeriodAdvancesOnPayment
<1>1. TInv /\ [Next]_vars =>
        [sub'.start > sub.start /\ sub'.status # "manual" /\ change' = change
             => \E i \in DOMAIN invoices' :
                    invoices'[i].status = "paid" /\ invoices'[i].end = sub'.start]_vars
  <2> SUFFICES ASSUME TInv, Next, sub'.start > sub.start, sub'.status # "manual",
                      change' = change
               PROVE  PaidUpTo(invoices', sub'.start)
    BY DEF PaidUpTo
  <2>1. sub.start \in Nat
    BY DEF TInv, TypeOK, Subscription
  <2> QED
    BY <2>1, PeriodStep
<1>2. Spec => []TInv
  BY TypedInit, TypedNext, PTL DEF Spec
<1> QED
  BY <1>1, <1>2, PTL DEF Spec, PeriodAdvancesOnPayment
-----------------------------------------------------------------------------
\* Invoices are paid in full.

\* What is due of an invoice that can still be paid is its total; an invoice
\* marked paid that no review settled was debited.
Whole(v) == v.status \in {"draft", "open"} => v.due = v.total

Debited(v) == v.status = "paid" /\ ~v.reviewed

PaymentsOK ==
    /\ FullPaymentOnly
    /\ \A i \in DOMAIN invoices : Whole(invoices[i])

LEMMA RowsWhole ==
    ASSUME NEW v \in Invoice, Whole(v)
    PROVE  /\ v.status = "draft" => Whole(Issued(v)) /\ ~Debited(Issued(v))
           /\ Whole(Voided(v)) /\ ~Debited(Voided(v))
           /\ Whole(Declined(v)) /\ (Debited(Declined(v)) => Debited(v))
           /\ Whole(Charged(v))
           /\ Whole(Reviewed(v)) /\ ~Debited(Reviewed(v))
           /\ Whole(Reopened(v)) /\ ~Debited(Reopened(v))
<1>1. v.status = "draft" => Whole(Issued(v)) /\ ~Debited(Issued(v))
  BY DEF Issued, Whole, Debited, Invoice
<1>2. Whole(Voided(v)) /\ ~Debited(Voided(v))
  BY DEF Voided, Whole, Debited, Invoice
<1>3. Whole(Declined(v)) /\ (Debited(Declined(v)) => Debited(v))
  <2>1. /\ Declined(v).status = v.status /\ Declined(v).due = v.due
        /\ Declined(v).total = v.total /\ Declined(v).reviewed = v.reviewed
    BY DEF Declined, Invoice
  <2> QED
    BY <2>1 DEF Whole, Debited
<1>4. Settled(v) \in Invoice /\ Settled(v).status = "paid"
  <2>1. v.total \in Nat
    BY DEF Invoice
  <2> QED
    BY <2>1 DEF Settled, Invoice, InvoiceStatus
<1>5. Charged(v).status = "paid" /\ Reviewed(v).status = "paid" /\ Reviewed(v).reviewed
  BY <1>4 DEF Charged, Reviewed, Invoice
<1>6. Reopened(v).status = "open" /\ Reopened(v).due = Reopened(v).total
  BY DEF Reopened, Invoice
<1> QED
  BY <1>1, <1>2, <1>3, <1>5, <1>6 DEF Whole, Debited

\* A step that charges nobody for part of an invoice: every row stays whole, a
\* payment posted is for the total of its invoice, and a row becomes paid
\* without a review only with a payment.
LEMMA PaymentsKept ==
    ASSUME TypeOK, PaymentsOK, Extends(invoices'),
           \A i \in DOMAIN invoices' : Whole(invoices'[i]),
           \A i \in DOMAIN invoices' : Debited(invoices'[i]) =>
               \/ i \in DOMAIN invoices /\ Debited(invoices[i])
               \/ Payments(i) # {}
               \/ Payments(i)' # {},
           \/ ledger' = ledger
           \/ \E e \in EntrySet(Keys) :
                 /\ ledger' = Append(ledger, e)
                 /\ e.type = "subscription_payment" =>
                       /\ e.invoice \in DOMAIN invoices'
                       /\ e.amount = invoices'[e.invoice].total
    PROVE  PaymentsOK'
<1>1. ASSUME NEW n \in DOMAIN ledger, ledger[n].type = "subscription_payment"
      PROVE  /\ ledger[n].invoice \in DOMAIN invoices'
             /\ ledger[n].amount = invoices'[ledger[n].invoice].total
  <2>1. /\ ledger[n].invoice \in DOMAIN invoices
        /\ ledger[n].amount = invoices[ledger[n].invoice].total
    BY <1>1 DEF PaymentsOK, FullPaymentOnly
  <2> QED
    BY <2>1 DEF Extends, SameInvoice
<1>2. /\ \A n \in DOMAIN ledger : n \in DOMAIN ledger' /\ ledger'[n] = ledger[n]
      /\ \A n \in DOMAIN ledger' \ DOMAIN ledger :
            ledger'[n].type = "subscription_payment" =>
                /\ ledger'[n].invoice \in DOMAIN invoices'
                /\ ledger'[n].amount = invoices'[ledger'[n].invoice].total
  <2>1. CASE ledger' = ledger
    BY <2>1
  <2>2. ASSUME NEW e \in EntrySet(Keys), ledger' = Append(ledger, e)
        PROVE  /\ DOMAIN ledger' = DOMAIN ledger \cup {Len(ledger) + 1}
               /\ ledger'[Len(ledger) + 1] = e
               /\ \A n \in DOMAIN ledger : ledger'[n] = ledger[n]
    <3>1. ledger \in Seq(EntrySet(Keys))
      BY DEF TypeOK
    <3> QED
      BY <2>2, <3>1, Added
  <2> QED
    BY <2>1, <2>2
<1>3. \A i : Payments(i) \subseteq Payments(i)'
  BY <1>2 DEF Payments
<1>4. ASSUME NEW i \in DOMAIN invoices', Debited(invoices'[i])
      PROVE  Payments(i)' # {}
  <2>1. CASE i \in DOMAIN invoices /\ Debited(invoices[i])
    <3>1. Payments(i) # {}
      BY <2>1 DEF PaymentsOK, FullPaymentOnly, Debited
    <3> QED
      BY <1>3, <3>1
  <2> QED
    BY <1>3, <1>4, <2>1
<1>5. FullPaymentOnly'
  <2>1. \A n \in DOMAIN ledger' : ledger'[n].type = "subscription_payment" =>
            /\ ledger'[n].invoice \in DOMAIN invoices'
            /\ ledger'[n].amount = invoices'[ledger'[n].invoice].total
    BY <1>1, <1>2
  <2> QED
    BY <1>4, <2>1 DEF FullPaymentOnly, Debited
<1> QED
  BY <1>5 DEF PaymentsOK

\* The invoice table a payment runs on: its rows are whole, and it marks none
\* paid that is not paid in the stored table.
Payable(invs) ==
    /\ Extends(invs)
    /\ \A j \in DOMAIN invs : Whole(invs[j])
    /\ \A j \in DOMAIN invs : Debited(invs[j]) =>
          j \in DOMAIN invoices /\ Debited(invoices[j])

LEMMA PayingInFull ==
    ASSUME TypeOK, PaymentsOK, NEW invs, Payable(invs), NEW i \in DOMAIN invs,
           PayInvoice(invs, i)
    PROVE  PaymentsOK'
<1>1. /\ invs \in Seq(Invoice) /\ invs[i] \in Invoice /\ Whole(invs[i])
      /\ Extends(invs) /\ Extends(invoices')
  BY PayingExtends DEF Payable, Extends
<1>2. CASE PayReplay(invs, i)
  BY <1>1, <1>2, PaymentsKept DEF PayReplay, Payable
<1>3. CASE PayInsufficient(invs, i)
  <2>1. /\ DOMAIN invoices' = DOMAIN invs
        /\ invoices'[i] = Declined(invs[i])
        /\ \A j \in DOMAIN invs : j # i => invoices'[j] = invs[j]
    BY <1>1, <1>3, RowsTyped, Replaced DEF PayInsufficient
  <2>2. \A j \in DOMAIN invs : Whole(invoices'[j])
                               /\ (Debited(invoices'[j]) => Debited(invs[j]))
    BY <1>1, <2>1, RowsWhole DEF Payable
  <2> QED
    BY <1>1, <1>3, <2>1, <2>2, PaymentsKept DEF PayInsufficient, Payable
<1>4. CASE PayDebit(invs, i)
  <2>1. /\ DOMAIN invoices' = DOMAIN invs
        /\ invoices'[i] = Charged(invs[i])
        /\ \A j \in DOMAIN invs : j # i => invoices'[j] = invs[j]
    BY <1>1, <1>4, RowsTyped, Replaced DEF PayDebit
  <2>2. \A j \in DOMAIN invs : /\ Whole(invoices'[j])
                               /\ j # i => (Debited(invoices'[j]) => Debited(invs[j]))
    BY <1>1, <2>1, RowsWhole DEF Payable
  <2>3. invs[i].due \in Nat \ {0} /\ invs[i].due = invs[i].total
    <3>1. invs[i].due # 0 /\ invs[i].status \in {"open"}
      BY <1>4 DEF PayDebit, Covered, CanPay, PayRefused
    <3> QED
      BY <1>1, <3>1 DEF Invoice, Whole
  <2>4. invoices'[i].total = invs[i].due
    BY <1>1, <2>1, <2>3, RowsKeep DEF SameInvoice
  <2> DEFINE key == PaymentKey(i)
             e == Entry("debit", "subscription_payment", invs[i].due, key, i, 0,
                        wallet'.balance, wallet'.version)
  <2>5. /\ i \in Nat /\ key \in Keys
        /\ AppendLocked("debit", "subscription_payment", invs[i].due, key, i, 0)
    <3>1. i \in Nat
      BY <1>1
    <3>2. PaymentKey(i) \in Keys
      BY <3>1, KeysTyped
    <3>3. AppendLocked("debit", "subscription_payment", invs[i].due, PaymentKey(i), i, 0)
      BY <1>4 DEF PayDebit
    <3> QED
      BY <3>1, <3>2, <3>3
  <2>6. /\ e.type = "subscription_payment" /\ e.invoice = i /\ e.amount = invs[i].due
    BY DEF Entry
  <2>7. \/ Posted(key) # {} /\ ledger' = ledger
        \/ Posted(key) = {} /\ ledger' = Append(ledger, e) /\ e \in EntrySet(Keys)
    BY <2>3, <2>5, Posting DEF Direction, TransactionType
  <2> HIDE DEF e
  <2>8. Payments(i) # {} \/ Payments(i)' # {}
    <3>1. CASE Posted(key) # {}
      <4>1. \E n \in Posted(key) :
               SameOperation(n, "debit", "subscription_payment", invs[i].due, i)
        BY <2>5, <3>1 DEF AppendLocked
      <4> QED
        BY <4>1 DEF SameOperation, Posted, Payments
    <3>2. CASE Posted(key) = {}
      <4>1. ledger' = Append(ledger, e) /\ e \in EntrySet(Keys)
        BY <2>7, <3>2
      <4>2. Len(ledger) + 1 \in DOMAIN ledger' /\ ledger'[Len(ledger) + 1] = e
        <5>1. ledger \in Seq(EntrySet(Keys))
          BY DEF TypeOK
        <5> QED
          BY <4>1, <5>1, Added
      <4>3. Len(ledger) + 1 \in Payments(i)'
        BY <2>6, <4>2 DEF Payments
      <4> QED
        BY <4>3
    <3> QED
      BY <3>1, <3>2
  <2>9. \/ ledger' = ledger
        \/ \E x \in EntrySet(Keys) :
              /\ ledger' = Append(ledger, x)
              /\ x.type = "subscription_payment" =>
                    x.invoice \in DOMAIN invoices' /\ x.amount = invoices'[x.invoice].total
    BY <2>1, <2>4, <2>6, <2>7
  <2> QED
    BY <1>1, <2>1, <2>2, <2>8, <2>9, PaymentsKept DEF Payable
<1> QED
  BY <1>2, <1>3, <1>4 DEF PayInvoice

LEMMA RenewalPayable ==
    ASSUME TypeOK, PaymentsOK, NEW c \in RenewalCases
    PROVE  Payable(c.invs)
<1>1. Extends(c.invs) /\ invoices \in Seq(Invoice)
  BY RenewalExtends DEF TypeOK
<1>2. CASE PeriodInvoices # {}
  <2>1. PICK i \in PeriodInvoices :
            c = [invs |-> IF invoices[i].status = "draft"
                          THEN [invoices EXCEPT ![i] = Issued(@)]
                          ELSE invoices,
                 i |-> i]
    BY <1>2 DEF RenewalCases
  <2>2. i \in DOMAIN invoices /\ invoices[i] \in Invoice /\ Whole(invoices[i])
    BY <1>1 DEF PeriodInvoices, PaymentsOK
  <2>3. CASE invoices[i].status = "draft"
    <3>1. c.invs = [invoices EXCEPT ![i] = Issued(@)]
      BY <2>1, <2>3
    <3>2. Whole(Issued(invoices[i])) /\ ~Debited(Issued(invoices[i]))
      BY <2>2, <2>3, RowsWhole
    <3>3. /\ DOMAIN c.invs = DOMAIN invoices
          /\ c.invs[i] = Issued(invoices[i])
          /\ \A j \in DOMAIN invoices : j # i => c.invs[j] = invoices[j]
      BY <1>1, <2>2, <3>1, RowsTyped, Replaced
    <3> QED
      BY <1>1, <3>2, <3>3 DEF Payable, PaymentsOK
  <2>4. CASE invoices[i].status # "draft"
    BY <1>1, <2>1, <2>4 DEF Payable, PaymentsOK
  <2> QED
    BY <2>3, <2>4
<1>3. CASE PeriodInvoices = {}
  <2>1. PICK total \in Prices :
            c = [invs |-> Append(invoices, Issued(NewInvoice(total, 0))),
                 i |-> Len(invoices) + 1]
    BY <1>3 DEF RenewalCases
  <2> DEFINE v == NewInvoice(total, 0)
  <2>2. v \in Invoice /\ Issued(v) \in Invoice /\ v.status = "draft" /\ v.due = v.total
    BY NewInvoiceTyped DEF NewInvoice
  <2> HIDE DEF v
  <2>3. Whole(Issued(v)) /\ ~Debited(Issued(v))
    BY <2>2, RowsWhole DEF Whole
  <2>4. /\ DOMAIN c.invs = DOMAIN invoices \cup {Len(invoices) + 1}
        /\ c.invs[Len(invoices) + 1] = Issued(v)
        /\ \A j \in DOMAIN invoices : c.invs[j] = invoices[j]
    BY <1>1, <2>1, <2>2, Added DEF v
  <2> QED
    BY <1>1, <2>3, <2>4 DEF Payable, PaymentsOK
<1> QED
  BY <1>2, <1>3

LEMMA PaymentsStep ==
    ASSUME TInv, PaymentsOK, [Next]_vars
    PROVE  PaymentsOK'
<1>1. TypeOK /\ invoices \in Seq(Invoice) /\ Extends(invoices')
  BY InvoicesExtend DEF TInv, TypeOK
<1>2. ASSUME invoices' = invoices,
             \/ ledger' = ledger
             \/ \E e \in EntrySet(Keys) :
                   ledger' = Append(ledger, e) /\ e.type # "subscription_payment"
      PROVE  PaymentsOK'
  BY <1>1, <1>2, PaymentsKept DEF PaymentsOK
<1>3. ASSUME NEW i \in DOMAIN invoices, NEW r \in Invoice,
             invoices' = [invoices EXCEPT ![i] = r], Whole(r), ~Debited(r),
             \/ ledger' = ledger
             \/ \E e \in EntrySet(Keys) :
                   ledger' = Append(ledger, e) /\ e.type # "subscription_payment"
      PROVE  PaymentsOK'
  <2>1. /\ DOMAIN invoices' = DOMAIN invoices /\ invoices'[i] = r
        /\ \A j \in DOMAIN invoices : j # i => invoices'[j] = invoices[j]
    BY <1>1, <1>3, Replaced
  <2> QED
    BY <1>1, <1>3, <2>1, PaymentsKept DEF PaymentsOK
<1>4. ASSUME NEW w \in Workers, NEW k \in StaffKeys, NEW amount \in Amounts,
             CreditWallet(w, k, amount)
      PROVE  PaymentsOK'
  <2>1. \/ ledger' = ledger
        \/ LET e == Entry("credit", "top_up", amount, StaffKey(k), 0, 0,
                          wallet'.balance, wallet'.version)
           IN ledger' = Append(ledger, e) /\ e \in EntrySet(Keys)
    BY <1>1, <1>4, Posting, KeysTyped, BillingAssumption
    DEF CreditWallet, Direction, TransactionType
  <2>2. ledger' = ledger \/ \E e \in EntrySet(Keys) : ledger' = Append(ledger, e)
                                                  /\ e.type = "top_up"
    BY <2>1 DEF Entry
  <2> QED
    BY <1>2, <1>4, <2>2 DEF CreditWallet
<1>5. ASSUME NEW k \in StaffKeys, NEW amount \in Amounts, DebitAdjustment(k, amount)
      PROVE  PaymentsOK'
  <2>1. \/ ledger' = ledger
        \/ LET e == Entry("debit", "adjustment", amount, StaffKey(k), 0, 0,
                          wallet'.balance, wallet'.version)
           IN ledger' = Append(ledger, e) /\ e \in EntrySet(Keys)
    BY <1>1, <1>5, Posting, KeysTyped, BillingAssumption
    DEF DebitAdjustment, Direction, TransactionType
  <2>2. ledger' = ledger \/ \E e \in EntrySet(Keys) : ledger' = Append(ledger, e)
                                                  /\ e.type = "adjustment"
    BY <2>1 DEF Entry
  <2> QED
    BY <1>2, <1>5, <2>2 DEF DebitAdjustment
<1>6. ASSUME NEW n \in DOMAIN ledger, NEW k \in StaffKeys, ReverseTransaction(n, k)
      PROVE  PaymentsOK'
  <2> DEFINE i == ledger[n].invoice
  <2>1. ledger[n] \in EntrySet(Keys) /\ n \in Nat
    BY <1>1 DEF TypeOK
  <2>2. /\ ledger[n].amount \in Nat \ {0}
        /\ Opposite(ledger[n].direction) \in Direction
    BY <2>1 DEF EntrySet, Opposite, Direction
  <2>3. \/ ledger' = ledger
        \/ LET e == Entry(Opposite(ledger[n].direction), "reversal", ledger[n].amount,
                          StaffKey(k), 0, n, wallet'.balance, wallet'.version)
           IN ledger' = Append(ledger, e) /\ e \in EntrySet(Keys)
    BY <1>1, <1>6, <2>1, <2>2, Posting, KeysTyped DEF ReverseTransaction, TransactionType
  <2>4. ledger' = ledger \/ \E e \in EntrySet(Keys) : ledger' = Append(ledger, e)
                                                  /\ e.type = "reversal"
    BY <2>3 DEF Entry
  <2>5. CASE ledger[n].type = "subscription_payment"
    <3>1. i \in DOMAIN invoices /\ invoices' = [invoices EXCEPT ![i] = Reopened(@)]
      BY <1>6, <2>5 DEF ReverseTransaction, ReopenInvoice, PaymentsOK, FullPaymentOnly
    <3>2. invoices[i] \in Invoice /\ Whole(invoices[i])
      BY <1>1, <3>1 DEF PaymentsOK
    <3> QED
      BY <1>3, <2>4, <3>1, <3>2, RowsTyped, RowsWhole
  <2>6. CASE ledger[n].type # "subscription_payment"
    BY <1>2, <1>6, <2>4, <2>6 DEF ReverseTransaction
  <2> QED
    BY <2>5, <2>6
<1>7. ASSUME NEW w \in Workers, RetryNext(w)
      PROVE  PaymentsOK'
  <2>1. PICK i \in Oldest(job[w].queue) :
            IF PayRefused(invoices, i) THEN UNCHANGED <<ledger, invoices>>
                                       ELSE PayInvoice(invoices, i)
    BY <1>7 DEF RetryNext
  <2>2. i \in DOMAIN invoices
    BY DEF Oldest, TInv, JobsOK
  <2>3. Payable(invoices)
    BY <1>1 DEF Payable, Extends, SameInvoice, PaymentsOK
  <2> QED
    BY <1>1, <1>2, <2>1, <2>2, <2>3, PayingInFull
<1>8. ASSUME NEW w \in Workers, RunRenewal(w)
      PROVE  PaymentsOK'
  <2>1. ASSUME NEW c \in RenewalCases, PayInvoice(c.invs, c.i)
        PROVE  PaymentsOK'
    BY <1>1, <2>1, Renewing, RenewalPayable, PayingInFull
  <2> QED
    BY <1>2, <1>8, <2>1 DEF RunRenewal
<1>9. CASE InvoiceOperation
  <2>1. ASSUME NEW total \in Prices, PrepareInvoice(total) PROVE PaymentsOK'
    <3> DEFINE v == NewInvoice(total, DueLen)
    <3>1. /\ v \in Invoice /\ v.status = "draft" /\ v.due = v.total
          /\ invoices' = Append(invoices, v) /\ ledger' = ledger
      BY <1>1, <2>1, Lengths, NewInvoiceTyped DEF PrepareInvoice, NewInvoice
    <3> HIDE DEF v
    <3>2. /\ DOMAIN invoices' = DOMAIN invoices \cup {Len(invoices) + 1}
          /\ invoices'[Len(invoices) + 1] = v
          /\ \A j \in DOMAIN invoices : invoices'[j] = invoices[j]
      BY <1>1, <3>1, Added
    <3>3. Whole(v) /\ ~Debited(v)
      BY <3>1 DEF Whole, Debited
    <3> QED
      BY <1>1, <3>1, <3>2, <3>3, PaymentsKept DEF PaymentsOK
  <2>2. ASSUME NEW i \in DOMAIN invoices,
               IssueInvoice(i) \/ VoidInvoice(i) \/ MarkInvoicePaid(i)
        PROVE  PaymentsOK'
    <3>1. invoices[i] \in Invoice /\ Whole(invoices[i]) /\ ledger' = ledger
      BY <1>1, <2>2 DEF PaymentsOK, IssueInvoice, VoidInvoice, MarkInvoicePaid
    <3>2. \/ /\ invoices[i].status = "draft"
             /\ invoices' = [invoices EXCEPT ![i] = Issued(@)]
          \/ invoices' = [invoices EXCEPT ![i] = Voided(@)]
          \/ invoices' = [invoices EXCEPT ![i] = Reviewed(@)]
      BY <2>2 DEF IssueInvoice, VoidInvoice, MarkInvoicePaid
    <3> QED
      BY <1>3, <3>1, <3>2, RowsTyped, RowsWhole
  <2> QED
    BY <1>9, <2>1, <2>2 DEF InvoiceOperation
<1> QED
  <2>1. CASE WalletOperation
    BY <2>1, <1>2, <1>4, <1>5, <1>6 DEF WalletOperation, SetWalletFrozen
  <2>2. ASSUME NEW w \in Workers, WorkerStep(w)
        PROVE  PaymentsOK'
    BY <2>2, <1>2, <1>7, <1>8
    DEF WorkerStep, ListDueInvoices, ListTrialEnded, ListRenewal, ListGraceEnded,
        RunTrialFailed, RunExpireGrace, Crash
  <2>3. CASE SubscriptionOperation
    BY <2>3, <1>2 DEF SubscriptionOperation, ApplyScheduledChange, ScheduleChange,
        GrantSubscription, ExtendGrace, CancelSubscription, ResumeSubscription, MigrateToWallet
  <2>4. CASE Tick \/ UNCHANGED vars
    BY <2>4, <1>2 DEF Tick, vars
  <2> QED
    BY <1>9, <2>1, <2>2, <2>3, <2>4 DEF Next

\* A wallet payment is for the whole invoice it names, and an invoice is paid by
\* a debit or by a review, whatever keys staff use and however retries compete.
THEOREM PaymentsAreFull == Spec => []FullPaymentOnly
<1>1. Init => PaymentsOK
  BY DEF Init, PaymentsOK, FullPaymentOnly
<1>2. TInv /\ PaymentsOK /\ [Next]_vars => PaymentsOK'
  BY PaymentsStep
<1>3. PaymentsOK => FullPaymentOnly
  BY DEF PaymentsOK
<1> QED
  BY <1>1, <1>2, <1>3, TypedInit, TypedNext, PTL DEF Spec
=============================================================================
