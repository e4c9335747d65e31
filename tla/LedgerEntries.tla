--------------------------- MODULE LedgerEntries ---------------------------
(***************************************************************************)
(* The vocabulary of the wallet ledger (billing/models.py WalletTransaction *)
(* and billing/wallet.py): what an entry is, what it does to the balance    *)
(* and which entry undoes it.  A missing foreign key (no invoice, nothing   *)
(* reversed) is 0; invoices and entries are numbered from 1.                *)
(***************************************************************************)
EXTENDS Integers, Sequences

Direction == {"credit", "debit"}

TransactionType ==
    {"top_up", "subscription_payment", "adjustment", "reversal"}

\* The change of the balance an entry makes.
Delta(direction, amount) == IF direction = "credit" THEN amount ELSE -amount

\* The direction of the entry that reverses an entry.
Opposite(direction) == IF direction = "credit" THEN "debit" ELSE "credit"

\* The columns of a WalletTransaction that decide anything.
Entry(direction, type, amount, key, invoice, reverses, balanceAfter, version) ==
    [direction |-> direction, type |-> type, amount |-> amount, key |-> key,
     invoice |-> invoice, reverses |-> reverses,
     balanceAfter |-> balanceAfter, version |-> version]

EntrySet(Key) ==
    [direction: Direction, type: TransactionType, amount: Nat \ {0}, key: Key,
     invoice: Nat, reverses: Nat, balanceAfter: Nat, version: Nat \ {0}]
=============================================================================
