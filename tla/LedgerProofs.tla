---------------------------- MODULE LedgerProofs ----------------------------
(***************************************************************************)
(* What every wallet that follows module Ledger satisfies, for every set of *)
(* keys.  The invariants are inductive as they stand once typing is known:  *)
(* a posted entry is compared with all earlier ones by Post's guards.       *)
(***************************************************************************)
EXTENDS Ledger, TLAPS

\* The ledger after a posted entry, position by position.
LEMMA Appended ==
    ASSUME LedgerOK, NEW e, Post(e)
    PROVE  /\ Len(ledger') = Len(ledger) + 1
           /\ DOMAIN ledger' = DOMAIN ledger \cup {Len(ledger) + 1}
           /\ \A n \in DOMAIN ledger : ledger'[n] = ledger[n]
           /\ ledger'[Len(ledger) + 1] = e
           /\ ledger' \in Seq(EntrySet(Key))
           /\ e \in EntrySet(Key)
           /\ DOMAIN ledger = 1 .. Len(ledger)
           /\ Len(ledger) \in Nat
  BY DEF LedgerOK, Post

\* The types of the wallet row and of its ledger are kept.
THEOREM Typed == Spec => []LedgerOK
<1>1. Init => LedgerOK
  BY DEF Init, LedgerOK
<1>2. LedgerOK /\ [Next]_vars => LedgerOK'
  <2> SUFFICES ASSUME LedgerOK, [Next]_vars PROVE LedgerOK'
    OBVIOUS
  <2>1. CASE UNCHANGED vars
    BY <2>1 DEF vars, LedgerOK
  <2>2. CASE Next
    <3>1. Post(ledger'[Len(ledger')])
      BY <2>2 DEF Next
    <3> QED
      BY <3>1, Appended DEF Post, LedgerOK, EntrySet
  <2> QED
    BY <2>1, <2>2
<1> QED
  BY <1>1, <1>2, PTL DEF Spec

\* The wallet row is the last link of a chain of entries: the cached balance
\* always is what replaying the ledger gives.
THEOREM AlwaysChained == Spec => []Chained
<1>1. Init => Chained
  BY DEF Init, Chained
<1>2. LedgerOK /\ Chained /\ [Next]_vars => Chained'
  <2> SUFFICES ASSUME LedgerOK, Chained, [Next]_vars PROVE Chained'
    OBVIOUS
  <2>1. CASE UNCHANGED vars
    BY <2>1 DEF vars, Chained
  <2>2. CASE Next
    <3> DEFINE e == ledger'[Len(ledger')]
    <3>1. Post(e)
      BY <2>2 DEF Next
    <3>2. version' = Len(ledger') /\ balance' = e.balanceAfter /\ ledger' # <<>>
      BY <3>1, Appended DEF Post, Chained
    <3>3. e.version = Len(ledger) + 1 /\ e.balanceAfter = balance + Delta(e.direction, e.amount)
      BY <3>1 DEF Post, Chained
    <3>4. ASSUME NEW n \in DOMAIN ledger'
          PROVE  /\ ledger'[n].version = n
                 /\ ledger'[n].balanceAfter =
                       (IF n = 1 THEN 0 ELSE ledger'[n - 1].balanceAfter)
                           + Delta(ledger'[n].direction, ledger'[n].amount)
      <4>1. CASE n \in DOMAIN ledger
        <5>1. n # 1 => n - 1 \in DOMAIN ledger
          BY <4>1, <3>1, Appended
        <5> QED
          BY <4>1, <5>1, <3>1, Appended DEF Chained
      <4>2. CASE n = Len(ledger) + 1
        <5>1. ledger'[n] = e
          BY <4>2, <3>1, Appended
        <5>2. n = 1 <=> ledger = <<>>
          BY <4>2 DEF LedgerOK
        <5>3. n # 1 => ledger'[n - 1] = ledger[Len(ledger)]
          BY <4>2, <3>1, Appended
        <5> QED
          BY <4>2, <5>1, <5>2, <5>3, <3>3 DEF Chained
      <4> QED
        BY <4>1, <4>2, <3>1, Appended
    <3> QED
      BY <3>2, <3>4 DEF Chained
  <2> QED
    BY <2>1, <2>2
<1> QED
  BY <1>1, <1>2, Typed, PTL DEF Spec

\* The promises that compare entries with one another.
Promises == KeyPostsOnce /\ OnePaymentPerInvoice /\ ReversedOnce

\* No key posts twice, no invoice is debited twice, no entry is reversed twice.
THEOREM PromisesKept == Spec => []Promises
<1>1. Init => Promises
  BY DEF Init, Promises, KeyPostsOnce, OnePaymentPerInvoice, ReversedOnce
<1>2. LedgerOK /\ Promises /\ [Next]_vars => Promises'
  <2> SUFFICES ASSUME LedgerOK, Promises, [Next]_vars PROVE Promises'
    OBVIOUS
  <2>1. CASE UNCHANGED vars
    BY <2>1 DEF vars, Promises, KeyPostsOnce, OnePaymentPerInvoice, ReversedOnce
  <2>2. CASE Next
    <3> DEFINE e == ledger'[Len(ledger')]
    <3>1. Post(e)
      BY <2>2 DEF Next
    <3>2. KeyPostsOnce'
      BY <3>1, Appended DEF Post, Promises, KeyPostsOnce
    <3>3. OnePaymentPerInvoice'
      BY <3>1, Appended DEF Post, PaymentOK, Promises, OnePaymentPerInvoice
    <3>4. ASSUME NEW n \in DOMAIN ledger', ledger'[n].reverses # 0
          PROVE  /\ ledger'[n].reverses < n
                 /\ ledger'[n].reverses \in DOMAIN ledger
                 /\ ledger'[n].amount = ledger'[ledger'[n].reverses].amount
                 /\ ledger'[n].direction = Opposite(ledger'[ledger'[n].reverses].direction)
      <4>1. CASE n \in DOMAIN ledger
        <5>1. ledger[n].reverses \in DOMAIN ledger
          <6>1. ledger[n].reverses \in Nat /\ ledger[n].reverses < n /\ ledger[n].reverses # 0
            <7>1. ledger[n] \in EntrySet(Key) /\ ledger'[n] = ledger[n]
              BY <4>1, <3>1, Appended DEF LedgerOK
            <7>2. ledger[n].reverses \in Nat
              BY <7>1 DEF EntrySet
            <7> QED
              BY <4>1, <7>1, <7>2, <3>4 DEF Promises, ReversedOnce
          <6> QED
            BY <6>1, <4>1, <3>1, Appended
        <5> QED
          BY <4>1, <5>1, <3>4, <3>1, Appended DEF Promises, ReversedOnce
      <4>2. CASE n = Len(ledger) + 1
        <5>1. ledger'[n] = e /\ e.reverses \in DOMAIN ledger
          BY <4>2, <3>4, <3>1, Appended DEF Post, ReversalOK
        <5> QED
          BY <4>2, <5>1, <3>4, <3>1, Appended DEF Post, ReversalOK
      <4> QED
        BY <4>1, <4>2, <3>1, Appended
    <3>5. ASSUME NEW n \in DOMAIN ledger', ledger'[n].reverses # 0,
                 NEW k \in DOMAIN ledger', ledger'[k].reverses = ledger'[n].reverses
          PROVE  k = n
      <4>1. \A j \in DOMAIN ledger : ledger[j].reverses # 0 => ledger[j].reverses # e.reverses
        BY <3>1 DEF Post, ReversalOK
      <4> QED
        BY <4>1, <3>5, <3>1, Appended DEF Promises, ReversedOnce
    <3>6. ReversedOnce'
      BY <3>4, <3>5 DEF ReversedOnce
    <3> QED
      BY <3>2, <3>3, <3>6 DEF Promises
  <2> QED
    BY <2>1, <2>2
<1> QED
  BY <1>1, <1>2, Typed, PTL DEF Spec

\* Completed entries stay as they are.
THEOREM NeverRewritten == Spec => AppendOnly
<1>1. LedgerOK /\ [Next]_vars =>
        [/\ Len(ledger') >= Len(ledger)
         /\ \A n \in DOMAIN ledger : ledger'[n] = ledger[n]]_ledger
  <2> SUFFICES ASSUME LedgerOK, Next
               PROVE  /\ Len(ledger') >= Len(ledger)
                      /\ \A n \in DOMAIN ledger : ledger'[n] = ledger[n]
    BY DEF vars
  <2>1. Post(ledger'[Len(ledger')])
    BY DEF Next
  <2> QED
    BY <2>1, Appended
<1> QED
  BY <1>1, Typed, PTL DEF Spec, AppendOnly
=============================================================================
