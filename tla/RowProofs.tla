----------------------------- MODULE RowProofs -----------------------------
(***************************************************************************)
(* Tables are sequences of rows.  What a handler that writes or appends    *)
(* one row leaves of the others.                                           *)
(***************************************************************************)
EXTENDS Integers, Sequences, TLAPS

\* A row is written.
LEMMA Replaced ==
    ASSUME NEW S, NEW s \in Seq(S), NEW i \in DOMAIN s, NEW x \in S
    PROVE  /\ [s EXCEPT ![i] = x] \in Seq(S)
           /\ DOMAIN [s EXCEPT ![i] = x] = DOMAIN s
           /\ [s EXCEPT ![i] = x][i] = x
           /\ \A j \in DOMAIN s : j # i => [s EXCEPT ![i] = x][j] = s[j]
  OBVIOUS

\* A row that does not exist is not written.
LEMMA Untouched ==
    ASSUME NEW S, NEW s \in Seq(S), NEW i, i \notin DOMAIN s, NEW x
    PROVE  [s EXCEPT ![i] = x] = s
  OBVIOUS

\* A row is appended.
LEMMA Added ==
    ASSUME NEW S, NEW s \in Seq(S), NEW x \in S
    PROVE  /\ Append(s, x) \in Seq(S)
           /\ Len(s) \in Nat
           /\ DOMAIN s = 1 .. Len(s)
           /\ DOMAIN Append(s, x) = 1 .. (Len(s) + 1)
           /\ Append(s, x)[Len(s) + 1] = x
           /\ \A j \in DOMAIN s : Append(s, x)[j] = s[j]
  OBVIOUS
=============================================================================
