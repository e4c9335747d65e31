------------------------------- MODULE Ledger -------------------------------
(***************************************************************************)
(* What a wallet promises, whoever uses it: an append-only ledger whose     *)
(* every entry is chained to the one before it, a balance that is never     *)
(* negative, one entry per idempotency key, at most one payment per         *)
(* invoice, and at most one reversal per entry, opposite to it.  Module     *)
(* Billing, the code's handlers, is shown to implement this specification.  *)
(***************************************************************************)
EXTENDS LedgerEntries

CONSTANT Key              \* idempotency keys

VARIABLES balance,        \* available_balance_minor
          version,        \* ledger_version
          ledger          \* the WalletTransaction rows, oldest first

vars == <<balance, version, ledger>>

LedgerOK ==
    /\ balance \in Nat
    /\ version \in Nat
    /\ ledger \in Seq(EntrySet(Key))

Init ==
    /\ balance = 0
    /\ version = 0
    /\ ledger = <<>>

\* A reversal undoes one earlier entry that nothing has reversed; no other
\* entry reverses anything.
ReversalOK(e) ==
    IF e.type = "reversal"
    THEN /\ e.reverses \in DOMAIN ledger
         /\ e.direction = Opposite(ledger[e.reverses].direction)
         /\ e.amount = ledger[e.reverses].amount
         /\ \A n \in DOMAIN ledger : ledger[n].reverses # e.reverses
    ELSE e.reverses = 0

\* A payment is a debit for one invoice that no earlier entry paid.
PaymentOK(e) ==
    IF e.type = "subscription_payment"
    THEN /\ e.direction = "debit"
         /\ e.invoice # 0
         /\ \A n \in DOMAIN ledger : ledger[n].invoice # e.invoice
    ELSE e.invoice = 0

Post(e) ==
    /\ e \in EntrySet(Key)
    /\ \A n \in DOMAIN ledger : ledger[n].key # e.key
    /\ ReversalOK(e)
    /\ PaymentOK(e)
    /\ e.version = version + 1
    /\ e.balanceAfter = balance + Delta(e.direction, e.amount)
    /\ balance' = e.balanceAfter
    /\ version' = e.version
    /\ ledger' = Append(ledger, e)

\* Some entry is posted: the last one of the new ledger.
Next ==
    /\ ledger' # <<>>
    /\ Post(ledger'[Len(ledger')])

Spec == Init /\ [][Next]_vars
-----------------------------------------------------------------------------
\* The wallet row agrees with its ledger: the version counts the entries, each
\* entry records the balance it left behind, starting from an empty wallet,
\* and the wallet shows the last one.  Together: cached balance = credits - debits.
Chained ==
    /\ version = Len(ledger)
    /\ balance = IF ledger = <<>> THEN 0 ELSE ledger[Len(ledger)].balanceAfter
    /\ \A n \in DOMAIN ledger :
        /\ ledger[n].version = n
        /\ ledger[n].balanceAfter =
              (IF n = 1 THEN 0 ELSE ledger[n - 1].balanceAfter)
                  + Delta(ledger[n].direction, ledger[n].amount)

\* An idempotency key never produced two entries.
KeyPostsOnce ==
    \A m, n \in DOMAIN ledger : ledger[m].key = ledger[n].key => m = n

\* An invoice is debited at most once.
OnePaymentPerInvoice ==
    \A m, n \in DOMAIN ledger :
        /\ ledger[m].type = "subscription_payment"
        /\ ledger[n].type = "subscription_payment"
        /\ ledger[m].invoice = ledger[n].invoice
        => m = n

\* A reversal follows the entry it reverses, moves the same amount the other
\* way, and no entry is reversed twice: a refund is never paid out twice.
ReversedOnce ==
    \A n \in DOMAIN ledger : ledger[n].reverses # 0 =>
        /\ ledger[n].reverses < n
        /\ ledger[n].amount = ledger[ledger[n].reverses].amount
        /\ ledger[n].direction = Opposite(ledger[ledger[n].reverses].direction)
        /\ \A m \in DOMAIN ledger : ledger[m].reverses = ledger[n].reverses => m = n

\* Completed entries are never edited, removed or reordered.
AppendOnly ==
    [][/\ Len(ledger') >= Len(ledger)
       /\ \A n \in DOMAIN ledger : ledger'[n] = ledger[n]]_ledger
=============================================================================
