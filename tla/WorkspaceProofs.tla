---------------------------- MODULE WorkspaceProofs ---------------------------
(***************************************************************************)
(* Theorems about module Workspace, for every choice of its constants: an  *)
(* inductive invariant for each part, and what follows for the             *)
(* specification that runs one of them.                                    *)
(***************************************************************************)
EXTENDS Workspace, FiniteSetTheorems, WellFoundedInduction, TLAPS

-----------------------------------------------------------------------------
(* What the steps do to a sequence: a row is added or rewritten.           *)
LEMMA Appended ==
    ASSUME NEW S, NEW s \in Seq(S), NEW e \in S
    PROVE  /\ Append(s, e) \in Seq(S) /\ Len(Append(s, e)) = Len(s) + 1 /\ Len(s) \in Nat
           /\ \A n \in 1 .. Len(s) : Append(s, e)[n] = s[n]
           /\ Append(s, e)[Len(s) + 1] = e
  OBVIOUS

LEMMA Rewritten ==
    ASSUME NEW S, NEW s \in Seq(S), NEW n \in 1 .. Len(s), NEW e \in S
    PROVE  /\ [s EXCEPT ![n] = e] \in Seq(S) /\ Len([s EXCEPT ![n] = e]) = Len(s) /\ Len(s) \in Nat
           /\ [s EXCEPT ![n] = e][n] = e
           /\ \A m \in 1 .. Len(s) : m # n => [s EXCEPT ![n] = e][m] = s[m]
  OBVIOUS

\* A set of numbers has a least one, and a bounded one a greatest.
LEMMA LeastNumber ==
    ASSUME NEW S, S \subseteq Nat, S # {}
    PROVE  \E n \in S : \A m \in S : n <= m
<1> DEFINE R == OpToRel(<, Nat)
<1>1. PICK n \in S : \A m \in S : ~ (<<m, n>> \in R)
  BY NatLessThanWellFounded, WFMin
<1>2. R = {p \in Nat \X Nat : p[1] < p[2]}
  BY DEF OpToRel
<1> HIDE DEF R
<1>3. ASSUME NEW m \in S PROVE n <= m
  <2>1. <<m, n>> \in Nat \X Nat /\ <<m, n>> \notin R
    BY <1>1, <1>3
  <2>2. ~ (m < n)
    BY <1>2, <2>1
  <2> QED
    BY <2>1, <2>2
<1> QED
  BY <1>3

LEMMA GreatestNumber ==
    ASSUME NEW N \in Nat, NEW S, S \subseteq 0 .. N, S # {}
    PROVE  \E n \in S : \A m \in S : m <= n
<1> DEFINE T == {N - m : m \in S}
<1>1. T \subseteq Nat /\ T # {}
  <2>1. \A m \in S : N - m \in Nat
    OBVIOUS
  <2> QED
    BY <2>1
<1> HIDE DEF T
<1>2. PICK t \in T : \A u \in T : t <= u
  BY <1>1, LeastNumber
<1>3. PICK n \in S : t = N - n
  BY <1>2 DEF T
<1>4. ASSUME NEW m \in S PROVE m <= n
  <2>1. N - m \in T
    BY DEF T
  <2>2. N - n <= N - m
    BY <1>2, <1>3, <2>1
  <2> QED
    BY <2>2
<1> QED
  BY <1>4

-----------------------------------------------------------------------------
(* The CRM.  The rows by the names module Crm gives them.                  *)
crContact == row1
crOwner == row2
crConv == row3
crSeen == row4
crWork == row5
crEdit == row6
crOut == row7

USE DEF crContact, crOwner, crConv, crSeen, crWork, crEdit, crOut

\* A conversation, and a form that holds one: what is unread is stored.
ConvOK(conv) == conv \in Crm!ConversationRow /\ conv.unread <= Crm!Cardinality(crSeen)

CrmWorkOK(job) == job = Crm!Idle \/ job \in [at: {"read"}, id: Deliveries, owner: Crm!Someone]

FormOK(form) ==
    \/ form = Crm!Idle
    \/ form \in [at: {"contact"}, who: Contacts, row: Crm!ContactRow]
    \/ form \in [at: {"settings"}, row: Crm!ConversationRow] /\ form.row.unread <= Crm!Cardinality(crSeen)

ContactsOK == crContact \in [Contacts -> Crm!ContactRow] /\ crOwner \in Crm!Someone

CrmInv ==
    /\ ContactsOK
    /\ ConvOK(crConv)
    /\ crSeen \subseteq Deliveries
    /\ DOMAIN crWork = Actors /\ \A w \in Actors : CrmWorkOK(crWork[w])
    /\ DOMAIN crEdit = Editors /\ \A e \in Editors : FormOK(crEdit[e])
    /\ crOut \in [ClientKeys -> Verdicts \cup {"none"}]

\* The cardinality module Crm extends is the one of this module.
LEMMA CrmCounts == \A S : Crm!Cardinality(S) = Cardinality(S)
  BY DEF Crm!Cardinality, Cardinality

\* A counter of a conversation takes any value of its type.
LEMMA ConversationRows ==
    ASSUME NEW c \in Crm!Someone, NEW n \in 0 .. Crm!Cardinality(Deliveries)
    PROVE  /\ [contact |-> c, status |-> "none", unread |-> n, ai |-> "on"] \in Crm!ConversationRow
           /\ \A conv \in Crm!ConversationRow : [conv EXCEPT !.unread = n] \in Crm!ConversationRow
           /\ \A conv \in Crm!ConversationRow :
                  [conv EXCEPT !.contact = c, !.status = "open", !.unread = n] \in Crm!ConversationRow
  BY DEF Crm!ConversationRow

\* The initial states satisfy the invariant.
LEMMA CrmStarts == Crm!CrmInit => CrmInv
<1> SUFFICES ASSUME Crm!CrmInit PROVE CrmInv
  OBVIOUS
<1> USE CrmAssumption DEF Crm!CrmInit
<1>1. ContactsOK
  BY DEF ContactsOK, Crm!ContactRow, Crm!Someone, Crm!Nobody
<1>2. Crm!Cardinality(Deliveries) \in Nat /\ Crm!Cardinality({}) = 0 /\ 0 \in 0 .. Crm!Cardinality(Deliveries)
  <2>1. Crm!Cardinality(Deliveries) \in Nat /\ Crm!Cardinality({}) = 0
    BY FS_CardinalityType, CrmCounts, FS_EmptySet
  <2> QED
    BY <2>1
<1>3. ConvOK(crConv)
  <2>1. crConv \in Crm!ConversationRow
    BY <1>2, ConversationRows DEF Crm!Someone, Crm!Nobody
  <2> QED
    BY <1>2, <2>1 DEF ConvOK
<1> QED
  BY <1>1, <1>3 DEF CrmInv, CrmWorkOK, FormOK

\* Nothing but contacts, a worker and a form changes.
LEMMA CrmQuiet ==
    ASSUME CrmInv, ContactsOK', UNCHANGED <<crConv, crSeen, crOut>>,
           DOMAIN crWork' = Actors, \A w \in Actors : CrmWorkOK(crWork'[w]),
           DOMAIN crEdit' = Editors, \A e \in Editors : FormOK(crEdit'[e])
    PROVE  CrmInv'
  BY DEF CrmInv, ConvOK, FormOK, CrmWorkOK

\* The conversation changes and counts no more than it did.
LEMMA CrmConversed ==
    ASSUME CrmInv, UNCHANGED <<crContact, crSeen, crWork>>, crOwner' \in Crm!Someone,
           crConv' \in Crm!ConversationRow, crConv'.unread <= Crm!Cardinality(crSeen),
           DOMAIN crEdit' = Editors, \A e \in Editors : FormOK(crEdit'[e]),
           crOut' \in [ClientKeys -> Verdicts \cup {"none"}]
    PROVE  CrmInv'
  BY DEF CrmInv, ContactsOK, ConvOK, FormOK, CrmWorkOK

\* A message is stored: a new delivery, counted once.
LEMMA CrmStored ==
    ASSUME CrmInv, NEW w \in Actors, NEW c \in Contacts, Crm!IngestCommit(w, c)
    PROVE  CrmInv'
<1> USE CrmAssumption
<1> DEFINE job == crWork[w]
<1>1. /\ job \in [at: {"read"}, id: Deliveries, owner: Crm!Someone]
      /\ job.id \in Deliveries /\ job.id \notin crSeen
  BY DEF CrmInv, CrmWorkOK, Crm!IngestCommit, Crm!Conflicts, Crm!Idle
<1>2. IsFiniteSet(crSeen) /\ IsFiniteSet(crSeen \cup {job.id})
  BY <1>1, FS_Subset, FS_AddElement DEF CrmInv
<1>3. /\ Crm!Cardinality(crSeen) \in Nat /\ Crm!Cardinality(Deliveries) \in Nat
      /\ Crm!Cardinality(crSeen') = Crm!Cardinality(crSeen) + 1
      /\ Crm!Cardinality(crSeen') <= Crm!Cardinality(Deliveries)
      /\ crSeen' \subseteq Deliveries
  <2>1. crSeen' = crSeen \cup {job.id}
    BY DEF Crm!IngestCommit
  <2>2. Crm!Cardinality(crSeen \cup {job.id}) = Crm!Cardinality(crSeen) + 1
    BY <1>1, <1>2, FS_AddElement, CrmCounts
  <2>3. crSeen \cup {job.id} \subseteq Deliveries
    BY <1>1 DEF CrmInv
  <2> QED
    BY <1>2, <2>1, <2>2, <2>3, FS_CardinalityType, CrmCounts, FS_Subset
<1>4. ConvOK(crConv)'
  <2>1. /\ crConv \in Crm!ConversationRow /\ crConv.unread \in Nat
        /\ crConv.unread <= Crm!Cardinality(crSeen)
    BY <1>3 DEF CrmInv, ConvOK, Crm!ConversationRow
  <2>2. crConv.unread + 1 \in 0 .. Crm!Cardinality(Deliveries)
    BY <1>3, <2>1
  <2>3. crConv' = Crm!Received(crConv, c) /\ c \in Crm!Someone
    BY DEF Crm!IngestCommit, Crm!Someone
  <2>4. crConv' \in Crm!ConversationRow /\ crConv'.unread = crConv.unread + 1
    <3>1. crConv' = [crConv EXCEPT !.contact = IF crConv.status = "none" THEN c ELSE crConv.contact,
                                   !.status = "open", !.unread = crConv.unread + 1]
      BY <2>3 DEF Crm!Received
    <3>2. (IF crConv.status = "none" THEN c ELSE crConv.contact) \in Crm!Someone
      BY <2>1, <2>3 DEF Crm!ConversationRow
    <3> HIDE DEF job
    <3>3. crConv' \in Crm!ConversationRow
      BY <2>1, <2>2, <3>1, <3>2, ConversationRows
    <3> QED
      BY <2>1, <3>1, <3>3 DEF Crm!ConversationRow
  <2> QED
    BY <1>3, <2>1, <2>4 DEF ConvOK
<1>5. ContactsOK'
  BY DEF CrmInv, ContactsOK, Crm!IngestCommit, Crm!Someone, Crm!ContactRow
<1>6. DOMAIN crWork' = Actors /\ \A u \in Actors : CrmWorkOK(crWork'[u])
  BY DEF CrmInv, CrmWorkOK, Crm!IngestCommit
<1>7. DOMAIN crEdit' = Editors /\ \A e \in Editors : FormOK(crEdit[e])'
  <2> SUFFICES ASSUME NEW e \in Editors PROVE FormOK(crEdit[e])'
    BY DEF CrmInv, Crm!IngestCommit
  <2>1. crEdit' = crEdit /\ FormOK(crEdit[e])
    BY DEF CrmInv, Crm!IngestCommit
  <2>2. crEdit[e] \in [at: {"settings"}, row: Crm!ConversationRow] => crEdit[e].row.unread \in Nat
    BY <1>3 DEF Crm!ConversationRow
  <2> QED
    BY <1>3, <2>1, <2>2 DEF FormOK
<1>8. crOut' \in [ClientKeys -> Verdicts \cup {"none"}]
  BY DEF CrmInv, Crm!IngestCommit
<1> QED
  BY <1>3, <1>4, <1>5, <1>6, <1>7, <1>8 DEF CrmInv, ConvOK

\* A worker looks for the message, and is refused by a constraint.
LEMMA CrmWorks ==
    ASSUME CrmInv, NEW w \in Actors
    PROVE  /\ \A d \in Deliveries : Crm!IngestBegin(w, d) => CrmInv'
           /\ Crm!IngestRefused(w) => CrmInv'
<1>1. ASSUME NEW d \in Deliveries, Crm!IngestBegin(w, d) PROVE CrmInv'
  <2>1. ContactsOK' /\ UNCHANGED <<crConv, crSeen, crOut, crEdit>>
    BY <1>1 DEF Crm!IngestBegin, CrmInv, ContactsOK
  <2>2. DOMAIN crWork' = Actors /\ \A u \in Actors : CrmWorkOK(crWork'[u])
    BY <1>1 DEF Crm!IngestBegin, CrmInv, CrmWorkOK, ContactsOK
  <2> QED
    BY <2>1, <2>2, CrmQuiet DEF CrmInv
<1>2. ASSUME Crm!IngestRefused(w) PROVE CrmInv'
  <2>1. ContactsOK' /\ UNCHANGED <<crConv, crSeen, crOut, crEdit>>
    BY <1>2 DEF Crm!IngestRefused, CrmInv, ContactsOK
  <2>2. DOMAIN crWork' = Actors /\ \A u \in Actors : CrmWorkOK(crWork'[u])
    BY <1>2 DEF Crm!IngestRefused, CrmInv, CrmWorkOK
  <2> QED
    BY <2>1, <2>2, CrmQuiet DEF CrmInv
<1> QED
  BY <1>1, <1>2

\* Contacts and identities.
LEMMA CrmContacts ==
    ASSUME CrmInv
    PROVE  /\ \A c \in Contacts : Crm!CreateContact(c) \/ Crm!AddIdentity(c) => CrmInv'
           /\ Crm!RemoveIdentity => CrmInv'
           /\ \A e \in Editors, c \in Contacts : Crm!EditContactBegin(e, c) => CrmInv'
           /\ \A e \in Editors, status \in {"active", "archived"} :
                  Crm!EditContactSave(e, status) => CrmInv'
<1>1. ASSUME NEW c \in Contacts, Crm!CreateContact(c) \/ Crm!AddIdentity(c) PROVE CrmInv'
  <2>1. ContactsOK'
    BY <1>1 DEF Crm!CreateContact, Crm!AddIdentity, CrmInv, ContactsOK, Crm!ContactRow, Crm!Someone
  <2>2. UNCHANGED <<crConv, crSeen, crOut, crEdit, crWork>>
    BY <1>1 DEF Crm!CreateContact, Crm!AddIdentity
  <2> QED
    BY <2>1, <2>2, CrmQuiet DEF CrmInv
<1>2. ASSUME Crm!RemoveIdentity PROVE CrmInv'
  <2>1. ContactsOK' /\ UNCHANGED <<crConv, crSeen, crOut, crEdit, crWork>>
    BY <1>2 DEF Crm!RemoveIdentity, CrmInv, ContactsOK, Crm!Someone
  <2> QED
    BY <2>1, CrmQuiet DEF CrmInv
<1>3. ASSUME NEW e \in Editors, NEW c \in Contacts, Crm!EditContactBegin(e, c) PROVE CrmInv'
  <2>1. ContactsOK' /\ UNCHANGED <<crConv, crSeen, crOut, crWork>>
    BY <1>3 DEF Crm!EditContactBegin, CrmInv, ContactsOK
  <2>2. crContact[c] \in Crm!ContactRow
    BY DEF CrmInv, ContactsOK
  <2>3. DOMAIN crEdit' = Editors /\ \A f \in Editors : FormOK(crEdit'[f])
    BY <1>3, <2>2 DEF Crm!EditContactBegin, CrmInv, FormOK
  <2> QED
    BY <2>1, <2>3, CrmQuiet DEF CrmInv
<1>4. ASSUME NEW e \in Editors, NEW status \in {"active", "archived"}, Crm!EditContactSave(e, status)
      PROVE  CrmInv'
  <2>1. UNCHANGED <<crOwner, crConv, crSeen, crOut, crWork>>
    BY <1>4 DEF Crm!EditContactSave
  <2>2. crEdit[e] \in [at: {"contact"}, who: Contacts, row: Crm!ContactRow]
    BY <1>4 DEF Crm!EditContactSave, CrmInv, FormOK, Crm!Idle
  <2>3. [crEdit[e].row EXCEPT !.status = status] \in Crm!ContactRow
    BY <2>2 DEF Crm!ContactRow
  <2>4. ContactsOK'
    BY <1>4, <2>1, <2>2, <2>3 DEF Crm!EditContactSave, CrmInv, ContactsOK
  <2>5. DOMAIN crEdit' = Editors /\ \A f \in Editors : FormOK(crEdit'[f])
    BY <1>4 DEF Crm!EditContactSave, CrmInv, FormOK
  <2> QED
    BY <2>1, <2>4, <2>5, CrmQuiet DEF CrmInv
<1> QED
  BY <1>1, <1>2, <1>3, <1>4

\* A merge moves the conversation to the contact that stays.
LEMMA CrmMerges ==
    ASSUME CrmInv, NEW s \in Contacts, NEW t \in Contacts, Crm!Merge(s, t)
    PROVE  CrmInv'
<1>1. ContactsOK'
  BY DEF Crm!Merge, CrmInv, ContactsOK, Crm!Moved, Crm!Someone, Crm!ContactRow
<1>2. crConv \in Crm!ConversationRow /\ crConv.unread <= Crm!Cardinality(crSeen)
  BY DEF CrmInv, ConvOK
<1>3. Crm!Moved(crConv.contact, s, t) \in Crm!Someone
  BY <1>2 DEF Crm!Moved, Crm!Someone, Crm!ConversationRow
<1>4. crConv' \in Crm!ConversationRow /\ crConv'.unread = crConv.unread
  BY <1>2, <1>3 DEF Crm!Merge, Crm!ConversationRow
<1>5. UNCHANGED <<crSeen, crWork, crEdit, crOut>>
  BY DEF Crm!Merge
<1> QED
  BY <1>1, <1>2, <1>4, <1>5 DEF CrmInv, ConvOK, CrmWorkOK, FormOK

\* The employees work on the conversation.
LEMMA CrmConversation ==
    ASSUME CrmInv
    PROVE  /\ Crm!MarkRead => CrmInv'
           /\ Crm!ResumeAI => CrmInv'
           /\ \A status \in {"open", "resolved"} : Crm!SetStatus(status) => CrmInv'
           /\ \A e \in Editors : Crm!EditSettingsBegin(e) \/ Crm!EditSettingsSave(e) => CrmInv'
           /\ \A k \in ClientKeys : Crm!Send(k) => CrmInv'
           /\ \A k \in ClientKeys, status \in Verdicts : Crm!DeliveryUpdate(k, status) => CrmInv'
<1> USE CrmAssumption
<1>1. /\ crConv \in Crm!ConversationRow /\ crConv.unread <= Crm!Cardinality(crSeen)
      /\ Crm!Cardinality(crSeen) \in Nat /\ Crm!Cardinality(Deliveries) \in Nat
      /\ crOwner \in Crm!Someone /\ crOut \in [ClientKeys -> Verdicts \cup {"none"}]
  <2>1. IsFiniteSet(crSeen)
    BY FS_Subset DEF CrmInv
  <2> QED
    BY <2>1, FS_CardinalityType, CrmCounts DEF CrmInv, ConvOK, ContactsOK
<1>2. DOMAIN crEdit = Editors /\ \A e \in Editors : FormOK(crEdit[e])
  BY DEF CrmInv
<1>3. ASSUME Crm!MarkRead PROVE CrmInv'
  <2>1. crConv' = [crConv EXCEPT !.unread = 0] /\ UNCHANGED <<crContact, crOwner, crSeen, crWork, crEdit, crOut>>
    BY <1>3 DEF Crm!MarkRead
  <2>2. crConv' \in Crm!ConversationRow /\ crConv'.unread = 0
    <3>1. 0 \in 0 .. Crm!Cardinality(Deliveries)
      BY <1>1
    <3>2. crConv' \in Crm!ConversationRow
      BY <1>1, <2>1, <3>1, ConversationRows
    <3> QED
      BY <1>1, <2>1, <3>2 DEF Crm!ConversationRow
  <2> QED
    BY <1>1, <1>2, <2>1, <2>2, CrmConversed
<1>4. ASSUME Crm!ResumeAI PROVE CrmInv'
  <2>1. crConv' = [crConv EXCEPT !.ai = "on"] /\ UNCHANGED <<crContact, crOwner, crSeen, crWork, crEdit, crOut>>
    BY <1>4 DEF Crm!ResumeAI
  <2>2. crConv' \in Crm!ConversationRow /\ crConv'.unread = crConv.unread
    BY <1>1, <2>1 DEF Crm!ConversationRow
  <2> QED
    BY <1>1, <1>2, <2>1, <2>2, CrmConversed
<1>5. ASSUME NEW status \in {"open", "resolved"}, Crm!SetStatus(status) PROVE CrmInv'
  <2>1. crConv' = [crConv EXCEPT !.status = status] /\ UNCHANGED <<crContact, crOwner, crSeen, crWork, crEdit, crOut>>
    BY <1>5 DEF Crm!SetStatus
  <2>2. crConv' \in Crm!ConversationRow /\ crConv'.unread = crConv.unread
    BY <1>1, <2>1 DEF Crm!ConversationRow
  <2> QED
    BY <1>1, <1>2, <2>1, <2>2, CrmConversed
<1>6. ASSUME NEW e \in Editors, Crm!EditSettingsBegin(e) PROVE CrmInv'
  <2>1. /\ crEdit' = [crEdit EXCEPT ![e] = [at |-> "settings", row |-> crConv]]
        /\ UNCHANGED <<crContact, crOwner, crConv, crSeen, crWork, crOut>>
    BY <1>6 DEF Crm!EditSettingsBegin
  <2>2. FormOK([at |-> "settings", row |-> crConv])
    BY <1>1 DEF FormOK
  <2>3. DOMAIN crEdit' = Editors /\ \A f \in Editors : FormOK(crEdit'[f])
    BY <1>2, <2>1, <2>2
  <2> QED
    BY <1>1, <2>1, <2>3, CrmConversed
<1>7. ASSUME NEW e \in Editors, Crm!EditSettingsSave(e) PROVE CrmInv'
  <2>1. /\ crEdit' = [crEdit EXCEPT ![e] = Crm!Idle] /\ crConv' = crEdit[e].row
        /\ UNCHANGED <<crContact, crOwner, crSeen, crWork, crOut>>
    BY <1>7 DEF Crm!EditSettingsSave
  <2>2. crConv' \in Crm!ConversationRow /\ crConv'.unread <= Crm!Cardinality(crSeen)
    BY <1>2, <1>7, <2>1 DEF Crm!EditSettingsSave, FormOK, Crm!Idle
  <2>3. DOMAIN crEdit' = Editors /\ \A f \in Editors : FormOK(crEdit'[f])
    BY <1>2, <2>1 DEF FormOK
  <2> QED
    BY <1>1, <2>1, <2>2, <2>3, CrmConversed
<1>8. ASSUME NEW k \in ClientKeys, Crm!Send(k) PROVE CrmInv'
  <2>1. /\ crConv' = [crConv EXCEPT !.ai = "paused"] /\ crOut' = [crOut EXCEPT ![k] = "sent"]
        /\ UNCHANGED <<crContact, crOwner, crSeen, crWork, crEdit>>
    BY <1>8 DEF Crm!Send
  <2>2. crConv' \in Crm!ConversationRow /\ crConv'.unread = crConv.unread
    BY <1>1, <2>1 DEF Crm!ConversationRow
  <2>3. crOut' \in [ClientKeys -> Verdicts \cup {"none"}]
    BY <1>1, <2>1
  <2> QED
    BY <1>1, <1>2, <2>1, <2>2, <2>3, CrmConversed
<1>9. ASSUME NEW k \in ClientKeys, NEW status \in Verdicts, Crm!DeliveryUpdate(k, status) PROVE CrmInv'
  <2>1. /\ crOut' = [crOut EXCEPT ![k] = status]
        /\ UNCHANGED <<crContact, crOwner, crConv, crSeen, crWork, crEdit>>
    BY <1>9 DEF Crm!DeliveryUpdate
  <2>2. crOut' \in [ClientKeys -> Verdicts \cup {"none"}]
    BY <1>1, <2>1
  <2> QED
    BY <1>1, <1>2, <2>1, <2>2, CrmConversed
<1> QED
  BY <1>3, <1>4, <1>5, <1>6, <1>7, <1>8, <1>9

\* Every step of the part, by the lemma of its action.
LEMMA CrmPart ==
    ASSUME CrmInv, CrmSteps
    PROVE  CrmInv' /\ focus = "crm" /\ UNCHANGED focus
  BY CrmStored, CrmWorks, CrmContacts, CrmMerges, CrmConversation DEF CrmSteps, Keep7

\* The invariant is what the run checks of the part, and more.
LEMMA CrmHolds == CrmInv => Crm!UnreadIsStored /\ Crm!CrmTypeOK
<1>1. CrmInv => Crm!UnreadIsStored
  BY DEF CrmInv, ConvOK, Crm!UnreadIsStored
<1>2. CrmInv => Crm!CrmTypeOK
  BY DEF CrmInv, ContactsOK, ConvOK, CrmWorkOK, FormOK, Crm!CrmTypeOK
<1> QED
  BY <1>1, <1>2

-----------------------------------------------------------------------------
(* Leads and tasks.  The rows by the names module CrmLeads gives them.     *)
ldPipelines == row1
ldType == row2
ldLead == row3
ldTask == row4
ldRead == row5

USE DEF ldPipelines, ldType, ldLead, ldTask, ldRead

\* A lead, stored or read, has the dates of its status; a task likewise.
LeadOK(lead) ==
    /\ lead \in Leads!LeadRow
    /\ lead.won <=> lead.status = "won"
    /\ lead.lost <=> lead.status = "lost"

TaskOK(task) ==
    /\ task \in Leads!TaskRow
    /\ task.completed <=> task.status = "completed"

LeadReadOK(read) ==
    \/ read = Leads!Idle
    \/ read \in [at: {"default", "create"}]
    \/ read \in [at: {"lead", "lose"}, lead: LeadRows, row: Leads!LeadRow] /\ LeadOK(read.row)
    \/ read \in [at: {"task"}, row: Leads!TaskRow] /\ TaskOK(read.row)

LeadsInv ==
    /\ ldPipelines \in 0 .. 1
    /\ ldType \in [Stages -> Leads!StageTypes]
    /\ ldLead \in [LeadRows -> Leads!LeadRow] /\ \A l \in LeadRows : LeadOK(ldLead[l])
    /\ TaskOK(ldTask)
    /\ DOMAIN ldRead = Actors /\ \A r \in Actors : LeadReadOK(ldRead[r])

\* The initial states satisfy the invariant.
LEMMA LeadsStarts == Leads!LeadsInit => LeadsInv
<1> SUFFICES ASSUME Leads!LeadsInit PROVE LeadsInv
  OBVIOUS
<1> USE DEF Leads!LeadsInit
<1>1. LeadOK(Leads!NoLead) /\ ldLead = [l \in LeadRows |-> Leads!NoLead]
  BY DEF LeadOK, Leads!NoLead, Leads!LeadRow, Leads!StageTypes
<1>2. ldLead \in [LeadRows -> Leads!LeadRow] /\ \A l \in LeadRows : LeadOK(ldLead[l])
  BY <1>1 DEF LeadOK
<1>3. TaskOK(ldTask)
  BY DEF TaskOK, Leads!TaskRow
<1>4. DOMAIN ldRead = Actors /\ \A r \in Actors : LeadReadOK(ldRead[r])
  BY DEF LeadReadOK
<1> QED
  BY <1>2, <1>3, <1>4 DEF LeadsInv

\* A lead may be written, and a request answered.
LEMMA LeadWritten ==
    ASSUME LeadsInv, NEW r \in Actors, NEW l \in LeadRows, NEW lead, LeadOK(lead),
           ldLead' = [ldLead EXCEPT ![l] = lead], Leads!Done(r), UNCHANGED <<ldPipelines, ldType, ldTask>>
    PROVE  LeadsInv'
<1>1. ldLead' \in [LeadRows -> Leads!LeadRow] /\ \A k \in LeadRows : LeadOK(ldLead'[k])
  BY DEF LeadsInv, LeadOK
<1>2. DOMAIN ldRead' = Actors /\ \A s \in Actors : LeadReadOK(ldRead'[s])
  BY DEF LeadsInv, LeadReadOK, Leads!Done
<1> QED
  BY <1>1, <1>2 DEF LeadsInv

\* A request reads what is stored, and holds it.
LEMMA LeadsRead ==
    ASSUME LeadsInv, NEW r \in Actors
    PROVE  /\ Leads!DefaultPipelineBegin(r) => LeadsInv'
           /\ Leads!DefaultPipelineCreate(r) => LeadsInv'
           /\ \A b \in BOOLEAN : Leads!CreateBegin(r, b) => LeadsInv'
           /\ \A l \in LeadRows : Leads!ReadLead(r, l) => LeadsInv'
           /\ Leads!ReadTask(r) => LeadsInv'
<1>1. ASSUME NEW what, LeadReadOK(what), Leads!Reads(r, what), UNCHANGED <<ldPipelines, ldType, ldLead, ldTask>>
      PROVE  LeadsInv'
  <2>1. DOMAIN ldRead' = Actors /\ \A s \in Actors : LeadReadOK(ldRead'[s])
    BY <1>1 DEF LeadsInv, Leads!Reads
  <2> QED
    BY <1>1, <2>1 DEF LeadsInv
<1>2. ASSUME Leads!DefaultPipelineBegin(r) PROVE LeadsInv'
  <2>1. LeadReadOK([at |-> "default"])
    BY DEF LeadReadOK
  <2> QED
    BY <1>1, <1>2, <2>1 DEF Leads!DefaultPipelineBegin
<1>3. ASSUME Leads!DefaultPipelineCreate(r) PROVE LeadsInv'
  <2>1. ldPipelines' \in 0 .. 1
    BY <1>3 DEF LeadsInv, Leads!DefaultPipelineCreate, Leads!DefaultFree
  <2>2. DOMAIN ldRead' = Actors /\ \A s \in Actors : LeadReadOK(ldRead'[s])
    BY <1>3 DEF LeadsInv, Leads!Done, Leads!DefaultPipelineCreate, LeadReadOK
  <2> QED
    BY <1>3, <2>1, <2>2 DEF LeadsInv, Leads!DefaultPipelineCreate
<1>4. ASSUME NEW b \in BOOLEAN, Leads!CreateBegin(r, b) PROVE LeadsInv'
  <2>1. LeadReadOK([at |-> "create"])
    BY DEF LeadReadOK
  <2> QED
    BY <1>1, <1>4, <2>1 DEF Leads!CreateBegin
<1>5. ASSUME NEW l \in LeadRows, Leads!ReadLead(r, l) PROVE LeadsInv'
  <2>1. LeadReadOK([at |-> "lead", lead |-> l, row |-> ldLead[l]])
    BY DEF LeadReadOK, LeadsInv
  <2> QED
    BY <1>1, <1>5, <2>1 DEF Leads!ReadLead
<1>6. ASSUME Leads!ReadTask(r) PROVE LeadsInv'
  <2>1. LeadReadOK([at |-> "task", row |-> ldTask])
    BY DEF LeadReadOK, LeadsInv, TaskOK
  <2> QED
    BY <1>1, <1>6, <2>1 DEF Leads!ReadTask
<1> QED
  BY <1>2, <1>3, <1>4, <1>5, <1>6

\* What is saved is what was read, moved or edited.
LEMMA LeadsSaved ==
    ASSUME LeadsInv, NEW r \in Actors
    PROVE  /\ \A l \in LeadRows, s \in Stages : Leads!CreateSave(r, l, s) => LeadsInv'
           /\ \A s \in Stages, b \in BOOLEAN : Leads!SaveForm(r, s, b) => LeadsInv'
           /\ \A s \in Stages : Leads!Move(r, s) \/ Leads!Win(r, s) \/ Leads!LoseMove(r, s) => LeadsInv'
<1>1. ASSUME NEW l \in LeadRows, NEW s \in Stages, Leads!CreateSave(r, l, s) PROVE LeadsInv'
  <2>1. LeadOK([Leads!NoLead EXCEPT !.status = "open", !.stage = s])
    BY DEF LeadOK, Leads!NoLead, Leads!LeadRow, Leads!StageTypes
  <2> QED
    BY <1>1, <2>1, LeadWritten DEF Leads!CreateSave
<1>2. ASSUME ldRead[r].at \in {"lead", "lose"}
      PROVE  ldRead[r].lead \in LeadRows /\ LeadOK(ldRead[r].row)
  BY <1>2 DEF LeadsInv, LeadReadOK, Leads!Idle
<1>3. ASSUME NEW s \in Stages, NEW b \in BOOLEAN, Leads!SaveForm(r, s, b) PROVE LeadsInv'
  <2> DEFINE old == ldRead[r].row
  <2>1. ldRead[r].lead \in LeadRows /\ LeadOK(old)
    BY <1>2, <1>3 DEF Leads!SaveForm
  <2>2. LeadOK([old EXCEPT !.stage = s, !.reason = b])
    <3> HIDE DEF old
    <3> QED
      BY <2>1 DEF LeadOK, Leads!LeadRow
  <2> QED
    BY <1>3, <2>1, <2>2, LeadWritten DEF Leads!SaveForm
<1>4. ASSUME NEW s \in Stages, Leads!Move(r, s) \/ Leads!LoseMove(r, s) PROVE LeadsInv'
  <2> DEFINE old == ldRead[r].row
  <2>1. ldRead[r].lead \in LeadRows /\ LeadOK(old)
    BY <1>2, <1>4 DEF Leads!Move, Leads!LoseMove
  <2>2. ldType[s] \in Leads!StageTypes
    BY DEF LeadsInv
  <2>3. LeadOK(Leads!MovedTo(old, s, ldType[s]))
    <3> HIDE DEF old
    <3>1. old.reason \in BOOLEAN
      BY <2>1 DEF LeadOK, Leads!LeadRow
    <3> QED
      BY <2>2, <3>1 DEF LeadOK, Leads!LeadRow, Leads!MovedTo, Leads!StageTypes
  <2> QED
    BY <1>4, <2>1, <2>3, LeadWritten DEF Leads!Move, Leads!LoseMove
<1> QED
  BY <1>1, <1>3, <1>4 DEF Leads!Win

\* The reason of a loss is saved by itself, in the row and in what was read.
LEMMA LeadsReasoned ==
    ASSUME LeadsInv, NEW r \in Actors, Leads!LoseReason(r)
    PROVE  LeadsInv'
<1> DEFINE read == ldRead[r]
<1>1. read \in [at: {"lead", "lose"}, lead: LeadRows, row: Leads!LeadRow] /\ LeadOK(read.row)
  BY DEF Leads!LoseReason, LeadsInv, LeadReadOK, Leads!Idle
<1>2. LeadOK([ldLead[read.lead] EXCEPT !.reason = TRUE])
  <2>1. LeadOK(ldLead[read.lead])
    BY <1>1 DEF LeadsInv
  <2> QED
    BY <2>1 DEF LeadOK, Leads!LeadRow
<1>3. LeadReadOK([read EXCEPT !.at = "lose", !.row.reason = TRUE])
  <2> HIDE DEF read
  <2>1. LeadOK([read.row EXCEPT !.reason = TRUE])
    BY <1>1 DEF LeadOK, Leads!LeadRow
  <2> DEFINE new == [read EXCEPT !.at = "lose", !.row.reason = TRUE]
  <2>2. new.row = [read.row EXCEPT !.reason = TRUE]
    BY <1>1
  <2>3. new \in [at: {"lead", "lose"}, lead: LeadRows, row: Leads!LeadRow]
    <3>1. [read.row EXCEPT !.reason = TRUE] \in Leads!LeadRow
      BY <2>1 DEF LeadOK
    <3> QED
      BY <1>1, <3>1
  <2>4. LeadReadOK(new)
    <3> HIDE DEF new
    <3> QED
      BY <2>1, <2>2, <2>3 DEF LeadReadOK
  <2> QED
    BY <2>4
<1>4. /\ ldLead' = [ldLead EXCEPT ![read.lead] = [ldLead[read.lead] EXCEPT !.reason = TRUE]]
      /\ ldRead' = [ldRead EXCEPT ![r] = [read EXCEPT !.at = "lose", !.row.reason = TRUE]]
      /\ UNCHANGED <<ldPipelines, ldType, ldTask>>
  BY DEF Leads!LoseReason, LeadsInv
<1>5. ldLead' \in [LeadRows -> Leads!LeadRow] /\ \A k \in LeadRows : LeadOK(ldLead'[k])
  BY <1>1, <1>2, <1>4 DEF LeadsInv, LeadOK
<1>6. DOMAIN ldRead' = Actors /\ \A s \in Actors : LeadReadOK(ldRead'[s])
  BY <1>3, <1>4 DEF LeadsInv
<1> QED
  BY <1>4, <1>5, <1>6 DEF LeadsInv

\* A stage changes its type, tasks are created and saved.
LEMMA LeadsOthers ==
    ASSUME LeadsInv
    PROVE  /\ \A s \in Stages, type \in Leads!StageTypes : Leads!ChangeStageType(s, type) => LeadsInv'
           /\ Leads!CreateTask => LeadsInv'
           /\ \A r \in Actors, status \in {"open", "completed", "cancelled"} :
                  Leads!SaveTask(r, status) => LeadsInv'
<1>1. ASSUME NEW s \in Stages, NEW type \in Leads!StageTypes, Leads!ChangeStageType(s, type) PROVE LeadsInv'
  <2>1. ldType' \in [Stages -> Leads!StageTypes]
    BY <1>1 DEF LeadsInv, Leads!ChangeStageType
  <2> QED
    BY <1>1, <2>1 DEF LeadsInv, Leads!ChangeStageType
<1>2. ASSUME Leads!CreateTask PROVE LeadsInv'
  <2>1. TaskOK(ldTask')
    BY <1>2 DEF LeadsInv, Leads!CreateTask, TaskOK, Leads!TaskRow
  <2> QED
    BY <1>2, <2>1 DEF LeadsInv, Leads!CreateTask
<1>3. ASSUME NEW r \in Actors, NEW status \in {"open", "completed", "cancelled"}, Leads!SaveTask(r, status)
      PROVE  LeadsInv'
  <2> DEFINE old == ldRead[r].row
  <2>1. TaskOK(old)
    BY <1>3 DEF LeadsInv, LeadReadOK, Leads!SaveTask, Leads!Idle
  <2>2. ~ (old.completed /\ old.status # "completed")
    BY <2>1 DEF TaskOK
  <2>3. ldTask' = [status |-> status, completed |-> (status = "completed")]
    BY <1>3, <2>2 DEF Leads!SaveTask
  <2>4. TaskOK(ldTask')
    BY <2>3 DEF TaskOK, Leads!TaskRow
  <2>5. DOMAIN ldRead' = Actors /\ \A s \in Actors : LeadReadOK(ldRead'[s])
    BY <1>3 DEF LeadsInv, Leads!Done, Leads!SaveTask, LeadReadOK
  <2> QED
    BY <1>3, <2>4, <2>5 DEF LeadsInv, Leads!SaveTask
<1> QED
  BY <1>1, <1>2, <1>3

\* Every step of the part, by the lemma of its action.
LEMMA LeadsPart ==
    ASSUME LeadsInv, LeadsSteps
    PROVE  LeadsInv' /\ focus = "leads" /\ UNCHANGED focus
  BY LeadsRead, LeadsSaved, LeadsReasoned, LeadsOthers DEF LeadsSteps, Keep5

\* The invariant is what the run checks of the part, and more.
LEMMA LeadsHolds == LeadsInv => Leads!DatesFitStatus /\ Leads!LeadsTypeOK
<1>1. LeadsInv => Leads!DatesFitStatus
  BY DEF LeadsInv, LeadOK, TaskOK, Leads!DatesFitStatus
<1>2. LeadsInv => Leads!LeadsTypeOK
  BY DEF LeadsInv, TaskOK, LeadReadOK, Leads!LeadsTypeOK
<1> QED
  BY <1>1, <1>2

-----------------------------------------------------------------------------
(* Members.  The rows by the names module Organizations gives them.        *)
orMember == row1
orInvite == row2
orReq == row3

USE DEF orMember, orInvite, orReq

\* An invitation that may still be accepted was not; none is accepted twice.
InviteOK(invitation) ==
    /\ invitation \in Members!InviteRow
    /\ invitation.accepts <= 1
    /\ invitation.status \in {"none", "pending"} => invitation.accepts = 0

MembersReqOK(job) ==
    \/ job = Members!Idle
    \/ job \in Members!Changes
    \/ job \in [at: {"invite"}, email: Users, role: Members!Invitable]
    \/ job \in [at: {"revoke"}, invitation: Invitations]

MembersInv ==
    /\ orMember \in [Users -> Members!MemberRow]
    /\ DOMAIN orInvite = Invitations /\ orInvite \in [Invitations -> Members!InviteRow]
    /\ \A i \in Invitations : InviteOK(orInvite[i])
    /\ DOMAIN orReq = Actors /\ \A r \in Actors : MembersReqOK(orReq[r])

\* The initial states satisfy the invariant.
LEMMA MembersStarts == Members!MembersInit => MembersInv
<1> SUFFICES ASSUME Members!MembersInit PROVE MembersInv
  OBVIOUS
<1> USE MembersAssumption DEF Members!MembersInit
<1>1. orMember \in [Users -> Members!MemberRow]
  BY DEF Members!MemberRow, Members!Roles
<1>2. InviteOK([status |-> "none", email |-> Creator, role |-> "agent", accepts |-> 0])
  BY DEF InviteOK, Members!InviteRow, Members!Invitable
<1>3. orInvite \in [Invitations -> Members!InviteRow] /\ \A i \in Invitations : InviteOK(orInvite[i])
  BY <1>2 DEF InviteOK
<1>4. DOMAIN orReq = Actors /\ \A r \in Actors : MembersReqOK(orReq[r])
  BY DEF MembersReqOK
<1> QED
  BY <1>1, <1>3, <1>4 DEF MembersInv

\* An invitation may be written as it is allowed to be.
LEMMA InviteWritten ==
    ASSUME MembersInv, NEW i \in Invitations, NEW invitation, InviteOK(invitation),
           orInvite' = [orInvite EXCEPT ![i] = invitation],
           orMember' \in [Users -> Members!MemberRow],
           DOMAIN orReq' = Actors, \A r \in Actors : MembersReqOK(orReq'[r])
    PROVE  MembersInv'
<1>1. orInvite' \in [Invitations -> Members!InviteRow] /\ \A k \in Invitations : InviteOK(orInvite'[k])
  BY DEF MembersInv, InviteOK
<1> QED
  BY <1>1 DEF MembersInv

\* A request asks, is answered or goes on.
LEMMA MembersAsked ==
    ASSUME MembersInv, NEW r \in Actors, NEW job, MembersReqOK(job),
           orReq' = [orReq EXCEPT ![r] = job]
    PROVE  DOMAIN orReq' = Actors /\ \A q \in Actors : MembersReqOK(orReq'[q])
  BY DEF MembersInv

\* Requests about members and about invitations begin.
LEMMA MembersAsks ==
    ASSUME MembersInv, NEW r \in Actors
    PROVE  /\ \A a, u \in Users, role \in Members!Roles \cup {Members!Same},
                 status \in {"active", "suspended", Members!Same} :
                  Members!AskChange(r, a, u, role, status) => MembersInv'
           /\ \A a, u \in Users : Members!AskSuspend(r, a, u) => MembersInv'
           /\ \A a, u \in Users, role \in Members!Invitable : Members!InviteBegin(r, a, u, role) => MembersInv'
           /\ \A a \in Users, i \in Invitations : Members!RevokeBegin(r, a, i) => MembersInv'
           /\ Members!CountOwners(r) => MembersInv'
<1>1. ASSUME NEW job, MembersReqOK(job), orReq' = [orReq EXCEPT ![r] = job], UNCHANGED <<orMember, orInvite>>
      PROVE  MembersInv'
  BY <1>1, MembersAsked DEF MembersInv
<1>2. ASSUME NEW a \in Users, NEW u \in Users, NEW role \in Members!Roles \cup {Members!Same},
             NEW status \in {"active", "suspended", Members!Same},
             Members!AskChange(r, a, u, role, status)
      PROVE  MembersInv'
  <2>1. MembersReqOK([at |-> "asked", who |-> u, role |-> role, status |-> status])
    BY DEF MembersReqOK, Members!Changes
  <2> QED
    BY <1>1, <1>2, <2>1 DEF Members!AskChange, Members!Ask
<1>3. ASSUME NEW a \in Users, NEW u \in Users, Members!AskSuspend(r, a, u) PROVE MembersInv'
  <2>1. MembersReqOK([at |-> "asked", who |-> u, role |-> Members!Same, status |-> "suspended"])
    BY DEF MembersReqOK, Members!Changes
  <2> QED
    BY <1>1, <1>3, <2>1 DEF Members!AskSuspend, Members!Ask
<1>4. ASSUME NEW a \in Users, NEW u \in Users, NEW role \in Members!Invitable,
             Members!InviteBegin(r, a, u, role)
      PROVE  MembersInv'
  <2>1. MembersReqOK([at |-> "invite", email |-> u, role |-> role])
    BY DEF MembersReqOK
  <2> QED
    BY <1>1, <1>4, <2>1 DEF Members!InviteBegin, Members!Ask
<1>5. ASSUME NEW a \in Users, NEW i \in Invitations, Members!RevokeBegin(r, a, i) PROVE MembersInv'
  <2>1. MembersReqOK([at |-> "revoke", invitation |-> i])
    BY DEF MembersReqOK
  <2> QED
    BY <1>1, <1>5, <2>1 DEF Members!RevokeBegin, Members!Ask
<1>6. ASSUME Members!CountOwners(r) PROVE MembersInv'
  <2>1. orReq[r] \in Members!Changes
    BY <1>6 DEF Members!CountOwners, MembersInv, MembersReqOK, Members!Idle
  <2>2. MembersReqOK([orReq[r] EXCEPT !.at = "counted"]) /\ MembersReqOK(Members!Idle)
    BY <2>1 DEF MembersReqOK, Members!Changes
  <2> QED
    BY <1>1, <1>6, <2>2 DEF Members!CountOwners
<1> QED
  BY <1>2, <1>3, <1>4, <1>5, <1>6

\* Members are saved and created.
LEMMA MembersSaved ==
    ASSUME MembersInv
    PROVE  /\ \A r \in Actors : Members!SaveMember(r) => MembersInv'
           /\ \A a, u \in Users, role \in Members!Roles : Members!CreateMember(a, u, role) => MembersInv'
<1>1. ASSUME NEW r \in Actors, Members!SaveMember(r) PROVE MembersInv'
  <2> DEFINE job == orReq[r]
  <2>1. job \in Members!Changes
    BY <1>1 DEF Members!SaveMember, MembersInv, MembersReqOK, Members!Idle
  <2>2. MembersReqOK(Members!Idle)
    BY DEF MembersReqOK
  <2>3. \A u \in Users : /\ Members!Changed(orMember[u].role, job.role) \in Members!Roles
                         /\ Members!Changed(orMember[u].status, job.status) \in {"none", "active", "suspended"}
    <3> HIDE DEF job
    <3> QED
      BY <2>1 DEF MembersInv, Members!MemberRow, Members!Changed, Members!Changes, Members!Same
  <2>4. orMember' \in [Users -> Members!MemberRow]
    BY <1>1, <2>1, <2>3 DEF Members!SaveMember, MembersInv, Members!MemberRow, Members!Changes
  <2> QED
    BY <1>1, <2>2, <2>4, MembersAsked DEF Members!SaveMember, Members!Answer, MembersInv
<1>2. ASSUME NEW a \in Users, NEW u \in Users, NEW role \in Members!Roles, Members!CreateMember(a, u, role)
      PROVE  MembersInv'
  <2>1. orMember' \in [Users -> Members!MemberRow]
    BY <1>2 DEF Members!CreateMember, MembersInv, Members!MemberRow
  <2> QED
    BY <1>2, <2>1 DEF Members!CreateMember, MembersInv
<1> QED
  BY <1>1, <1>2

\* Invitations are stored, revoked, accepted and expire.
LEMMA MembersInvited ==
    ASSUME MembersInv, NEW i \in Invitations
    PROVE  /\ \A r \in Actors : Members!InviteSave(r, i) => MembersInv'
           /\ Members!Accept(i) => MembersInv'
           /\ Members!Expire(i) => MembersInv'
<1>1. InviteOK(orInvite[i]) /\ orMember \in [Users -> Members!MemberRow] /\ MembersReqOK(Members!Idle)
  BY DEF MembersInv, MembersReqOK
<1>2. DOMAIN orReq = Actors /\ \A r \in Actors : MembersReqOK(orReq[r])
  BY DEF MembersInv
<1>3. ASSUME NEW r \in Actors, Members!InviteSave(r, i) PROVE MembersInv'
  <2> DEFINE new == [orInvite[i] EXCEPT !.status = "pending", !.email = orReq[r].email, !.role = orReq[r].role]
  <2>1. orReq[r].email \in Users /\ orReq[r].role \in Members!Invitable
    BY <1>3 DEF Members!InviteSave, MembersInv, MembersReqOK, Members!Idle, Members!Changes
  <2>2. InviteOK(new)
    BY <1>1, <1>3, <2>1 DEF InviteOK, Members!InviteRow, Members!InviteSave
  <2>3. orInvite' = [orInvite EXCEPT ![i] = new]
    BY <1>3 DEF Members!InviteSave, MembersInv
  <2>4. DOMAIN orReq' = Actors /\ \A q \in Actors : MembersReqOK(orReq'[q])
    BY <1>1, <1>3, MembersAsked DEF Members!InviteSave, Members!Answer
  <2> QED
    BY <1>1, <1>3, <2>2, <2>3, <2>4, InviteWritten DEF Members!InviteSave
<1>4. ASSUME Members!Accept(i) PROVE MembersInv'
  <2> DEFINE count == IF orInvite[i].accepts < 2 THEN orInvite[i].accepts + 1 ELSE orInvite[i].accepts
             new == [orInvite[i] EXCEPT !.status = "accepted", !.accepts = count]
  <2>1. orInvite[i].accepts = 0 /\ orInvite[i].status = "pending"
    BY <1>1, <1>4 DEF Members!Accept, Members!Acceptable, InviteOK
  <2>2. InviteOK(new)
    <3>1. count = 1 /\ count \in 0 .. 2
      BY <2>1
    <3> HIDE DEF count
    <3>2. new \in Members!InviteRow
      BY <1>1, <3>1 DEF InviteOK, Members!InviteRow
    <3>3. new.accepts = count /\ new.status = "accepted"
      BY <1>1 DEF InviteOK, Members!InviteRow
    <3> QED
      BY <3>1, <3>2, <3>3 DEF InviteOK
  <2>3. orInvite' = [orInvite EXCEPT ![i] = new]
    BY <1>4 DEF Members!Accept, MembersInv
  <2>4. orMember' \in [Users -> Members!MemberRow]
    BY <1>1, <1>4 DEF Members!Accept, InviteOK, Members!InviteRow, Members!MemberRow, Members!Invitable,
                      Members!Roles
  <2> QED
    BY <1>2, <1>4, <2>2, <2>3, <2>4, InviteWritten DEF Members!Accept
<1>5. ASSUME Members!Expire(i) PROVE MembersInv'
  <2> DEFINE new == [orInvite[i] EXCEPT !.status = "expired"]
  <2>1. InviteOK(new)
    BY <1>1 DEF InviteOK, Members!InviteRow
  <2>2. orInvite' = [orInvite EXCEPT ![i] = new]
    BY <1>5 DEF Members!Expire, MembersInv
  <2> QED
    BY <1>1, <1>2, <1>5, <2>1, <2>2, InviteWritten DEF Members!Expire
<1> QED
  BY <1>3, <1>4, <1>5

\* A revocation is saved, whatever was done to the invitation meanwhile.
LEMMA MembersRevoked ==
    ASSUME MembersInv, NEW r \in Actors, Members!RevokeSave(r)
    PROVE  MembersInv'
<1> DEFINE i == orReq[r].invitation
           new == [orInvite[i] EXCEPT !.status = "revoked"]
<1>1. i \in Invitations
  BY DEF Members!RevokeSave, MembersInv, MembersReqOK, Members!Idle, Members!Changes
<1>2. InviteOK(new)
  BY <1>1 DEF InviteOK, Members!InviteRow, MembersInv
<1>3. orInvite' = [orInvite EXCEPT ![i] = new]
  BY DEF Members!RevokeSave
<1>4. DOMAIN orReq' = Actors /\ \A q \in Actors : MembersReqOK(orReq'[q])
  <2>1. MembersReqOK(Members!Idle)
    BY DEF MembersReqOK
  <2> QED
    BY <2>1, MembersAsked DEF Members!RevokeSave, Members!Answer
<1> QED
  BY <1>1, <1>2, <1>3, <1>4, InviteWritten DEF Members!RevokeSave, MembersInv

\* Every step of the part, by the lemma of its action.
LEMMA MembersPart ==
    ASSUME MembersInv, MembersSteps
    PROVE  MembersInv' /\ focus = "members" /\ UNCHANGED focus
<1>1. ASSUME NEW r \in Actors, NEW a \in Users, NEW u \in Users, NEW role \in Members!Roles,
             Members!AskChange(r, a, u, role, Members!Same)
      PROVE  MembersInv'
  BY <1>1, MembersAsks
<1>2. ASSUME NEW r \in Actors, NEW a \in Users, NEW u \in Users, NEW status \in {"active", "suspended"},
             Members!AskChange(r, a, u, Members!Same, status)
      PROVE  MembersInv'
  BY <1>2, MembersAsks
<1> QED
  BY <1>1, <1>2, MembersAsks, MembersSaved, MembersInvited, MembersRevoked DEF MembersSteps, Keep3

\* The invariant is what the run checks of the part, and more.
LEMMA MembersHolds == MembersInv => Members!InvitedOnce /\ Members!MembersTypeOK
  BY DEF MembersInv, InviteOK, MembersReqOK, Members!InvitedOnce, Members!MembersTypeOK

-----------------------------------------------------------------------------
(* Accounts.  The rows by the names module Accounts gives them.            *)
acUser == row1
acToken == row2
acReset == row3
acReq == row4

USE DEF acUser, acToken, acReset, acReq

\* No reset link was used twice.
ResetOK(reset) == reset \in Accounts!ResetRow /\ reset.used <= 1

AccountsReqOK(req) == req = Accounts!Idle \/ req \in [at: {"login", "refresh", "change"}]

AccountsInv ==
    /\ acUser \in Accounts!UserRow
    /\ acToken \in [Tokens -> Accounts!TokenRow]
    /\ acReset \in [Resets -> Accounts!ResetRow] /\ \A l \in Resets : ResetOK(acReset[l])
    /\ DOMAIN acReq = Actors /\ \A r \in Actors : AccountsReqOK(acReq[r])

\* The initial states satisfy the invariant.
LEMMA AccountsStarts == Accounts!AccountsInit => AccountsInv
<1> SUFFICES ASSUME Accounts!AccountsInit PROVE AccountsInv
  OBVIOUS
<1> USE AccountsAssumption DEF Accounts!AccountsInit
<1>1. acUser \in Accounts!UserRow
  <2>1. 0 \in 0 .. MaxPasswords
    OBVIOUS
  <2> QED
    BY <2>1 DEF Accounts!UserRow
<1>2. acToken \in [Tokens -> Accounts!TokenRow]
  BY DEF Accounts!TokenRow
<1>3. acReset \in [Resets -> Accounts!ResetRow] /\ \A l \in Resets : ResetOK(acReset[l])
  BY DEF ResetOK, Accounts!ResetRow
<1>4. DOMAIN acReq = Actors /\ \A r \in Actors : AccountsReqOK(acReq[r])
  BY DEF AccountsReqOK
<1> QED
  BY <1>1, <1>2, <1>3, <1>4 DEF AccountsInv

\* What is done to the tokens leaves tokens.
LEMMA TokensTyped ==
    ASSUME NEW tokens \in [Tokens -> Accounts!TokenRow], NEW t \in Tokens
    PROVE  /\ Accounts!Issued(tokens, t) \in [Tokens -> Accounts!TokenRow]
           /\ Accounts!Blacklisted(tokens, t) \in [Tokens -> Accounts!TokenRow]
           /\ Accounts!Forgotten(tokens) \in [Tokens -> Accounts!TokenRow]
  BY DEF Accounts!TokenRow, Accounts!Issued, Accounts!Blacklisted, Accounts!Forgotten

\* A request begins and ends.
LEMMA AccountsAsked ==
    ASSUME AccountsInv, NEW r \in Actors, NEW place \in {"login", "refresh", "change"},
           Accounts!Begin(r, place) \/ Accounts!End(r, place)
    PROVE  DOMAIN acReq' = Actors /\ \A q \in Actors : AccountsReqOK(acReq'[q])
  BY DEF AccountsInv, AccountsReqOK, Accounts!Begin, Accounts!End

\* The account is made, blocked and its password changed.
LEMMA AccountsUser ==
    ASSUME AccountsInv
    PROVE  /\ \A t \in Tokens : Accounts!Register(t) => AccountsInv'
           /\ Accounts!CreatedByManager => AccountsInv'
           /\ Accounts!SetActive => AccountsInv'
           /\ Accounts!SetBlocked => AccountsInv'
           /\ \A r \in Actors : Accounts!ChangeBegin(r) => AccountsInv'
           /\ \A r \in Actors : Accounts!ChangeEnd(r) => AccountsInv'
<1> USE AccountsAssumption
<1>1. /\ acUser \in Accounts!UserRow
      /\ [acUser EXCEPT !.made = TRUE] \in Accounts!UserRow
      /\ [acUser EXCEPT !.made = TRUE, !.mustChange = TRUE] \in Accounts!UserRow
      /\ [acUser EXCEPT !.active = ~acUser.active] \in Accounts!UserRow
      /\ [acUser EXCEPT !.blocked = ~acUser.blocked] \in Accounts!UserRow
  BY DEF AccountsInv, Accounts!UserRow
<1>2. ASSUME NEW t \in Tokens, Accounts!Register(t) PROVE AccountsInv'
  BY <1>1, <1>2, TokensTyped DEF AccountsInv, Accounts!Register
<1>3. ASSUME Accounts!CreatedByManager \/ Accounts!SetActive \/ Accounts!SetBlocked PROVE AccountsInv'
  BY <1>1, <1>3 DEF AccountsInv, Accounts!CreatedByManager, Accounts!SetActive, Accounts!SetBlocked
<1>4. ASSUME NEW r \in Actors, Accounts!ChangeBegin(r) PROVE AccountsInv'
  BY <1>4, AccountsAsked DEF AccountsInv, Accounts!ChangeBegin
<1>5. ASSUME NEW r \in Actors, Accounts!ChangeEnd(r) PROVE AccountsInv'
  <2>1. acUser.password + 1 \in 0 .. MaxPasswords
    BY <1>1, <1>5 DEF Accounts!UserRow, Accounts!ChangeEnd
  <2>2. acUser' \in Accounts!UserRow
    BY <1>1, <1>5, <2>1 DEF Accounts!UserRow, Accounts!ChangeEnd, Accounts!NewPassword
  <2> QED
    BY <1>5, <2>2, AccountsAsked DEF AccountsInv, Accounts!ChangeEnd
<1> QED
  BY <1>2, <1>3, <1>4, <1>5

\* Tokens are issued, refreshed and blacklisted.
LEMMA AccountsTokens ==
    ASSUME AccountsInv
    PROVE  /\ \A r \in Actors : Accounts!LoginBegin(r) => AccountsInv'
           /\ \A r \in Actors, t \in Tokens : Accounts!LoginEnd(r, t) => AccountsInv'
           /\ \A r \in Actors, t \in Tokens : Accounts!RefreshBegin(r, t) => AccountsInv'
           /\ \A r \in Actors, t \in Tokens : Accounts!RefreshEnd(r, t) => AccountsInv'
           /\ \A t \in Tokens, all \in BOOLEAN : Accounts!Logout(t, all) => AccountsInv'
<1>1. acToken \in [Tokens -> Accounts!TokenRow]
  BY DEF AccountsInv
<1>2. ASSUME NEW r \in Actors, Accounts!LoginBegin(r) PROVE AccountsInv'
  BY <1>2, AccountsAsked DEF AccountsInv, Accounts!LoginBegin
<1>3. ASSUME NEW r \in Actors, NEW t \in Tokens, Accounts!LoginEnd(r, t) PROVE AccountsInv'
  BY <1>1, <1>3, AccountsAsked, TokensTyped DEF AccountsInv, Accounts!LoginEnd
<1>4. ASSUME NEW r \in Actors, NEW t \in Tokens, Accounts!RefreshBegin(r, t) PROVE AccountsInv'
  BY <1>1, <1>4, AccountsAsked, TokensTyped DEF AccountsInv, Accounts!RefreshBegin
<1>5. ASSUME NEW r \in Actors, NEW t \in Tokens, Accounts!RefreshEnd(r, t) PROVE AccountsInv'
  BY <1>1, <1>5, AccountsAsked, TokensTyped DEF AccountsInv, Accounts!RefreshEnd
<1>6. ASSUME NEW t \in Tokens, NEW all \in BOOLEAN, Accounts!Logout(t, all) PROVE AccountsInv'
  <2> DEFINE left == IF Accounts!Accepted(t) THEN Accounts!Blacklisted(acToken, t) ELSE acToken
  <2>1. left \in [Tokens -> Accounts!TokenRow]
    BY <1>1, TokensTyped
  <2>2. acToken' \in [Tokens -> Accounts!TokenRow]
    BY <1>6, <2>1, TokensTyped DEF Accounts!Logout
  <2> QED
    BY <1>6, <2>2 DEF AccountsInv, Accounts!Logout
<1> QED
  BY <1>2, <1>3, <1>4, <1>5, <1>6

\* A reset link is made, expires, and is used once.
LEMMA AccountsResets ==
    ASSUME AccountsInv, NEW l \in Resets
    PROVE  /\ Accounts!RequestReset(l) => AccountsInv'
           /\ Accounts!ResetExpires(l) => AccountsInv'
           /\ Accounts!ConfirmReset(l) => AccountsInv'
<1> USE AccountsAssumption
<1>1. ResetOK(acReset[l]) /\ acToken \in [Tokens -> Accounts!TokenRow] /\ acUser \in Accounts!UserRow
  BY DEF AccountsInv
<1>2. ASSUME NEW reset, ResetOK(reset), acReset' = [acReset EXCEPT ![l] = reset]
      PROVE  acReset' \in [Resets -> Accounts!ResetRow] /\ \A k \in Resets : ResetOK(acReset'[k])
  BY <1>2 DEF AccountsInv, ResetOK
<1>3. ASSUME Accounts!RequestReset(l) PROVE AccountsInv'
  <2>1. ResetOK([acReset[l] EXCEPT !.made = TRUE])
    BY <1>1 DEF ResetOK, Accounts!ResetRow
  <2>2. acReset' = [acReset EXCEPT ![l] = [acReset[l] EXCEPT !.made = TRUE]]
    BY <1>3 DEF Accounts!RequestReset, AccountsInv
  <2> QED
    BY <1>2, <1>3, <2>1, <2>2 DEF Accounts!RequestReset, AccountsInv
<1>4. ASSUME Accounts!ResetExpires(l) PROVE AccountsInv'
  <2>1. ResetOK([acReset[l] EXCEPT !.expired = TRUE])
    BY <1>1 DEF ResetOK, Accounts!ResetRow
  <2>2. acReset' = [acReset EXCEPT ![l] = [acReset[l] EXCEPT !.expired = TRUE]]
    BY <1>4 DEF Accounts!ResetExpires, AccountsInv
  <2> QED
    BY <1>2, <1>4, <2>1, <2>2 DEF Accounts!ResetExpires, AccountsInv
<1>5. ASSUME Accounts!ConfirmReset(l) PROVE AccountsInv'
  <2>1. acReset[l].used = 0
    BY <1>5 DEF Accounts!ConfirmReset, Accounts!Usable
  <2>2. ResetOK([acReset[l] EXCEPT !.used = 1])
    BY <1>1 DEF ResetOK, Accounts!ResetRow
  <2>3. acReset' = [acReset EXCEPT ![l] = [acReset[l] EXCEPT !.used = 1]]
    BY <1>5, <2>1 DEF Accounts!ConfirmReset, AccountsInv
  <2>4. acUser.password + 1 \in 0 .. MaxPasswords
    BY <1>1, <1>5 DEF Accounts!UserRow, Accounts!ConfirmReset
  <2>5. acUser' \in Accounts!UserRow
    BY <1>1, <1>5, <2>4 DEF Accounts!UserRow, Accounts!ConfirmReset, Accounts!NewPassword
  <2>6. acToken' \in [Tokens -> Accounts!TokenRow]
    BY <1>1, <1>5 DEF Accounts!ConfirmReset, Accounts!Forgotten, Accounts!TokenRow
  <2> QED
    BY <1>2, <1>5, <2>2, <2>3, <2>5, <2>6 DEF Accounts!ConfirmReset, AccountsInv
<1> QED
  BY <1>3, <1>4, <1>5

\* Every step of the part, by the lemma of its action.
LEMMA AccountsPart ==
    ASSUME AccountsInv, AccountsSteps
    PROVE  AccountsInv' /\ focus = "accounts" /\ UNCHANGED focus
  BY AccountsUser, AccountsTokens, AccountsResets DEF AccountsSteps, Keep4

\* The invariant is what the run checks of the part, and more.
LEMMA AccountsHolds == AccountsInv => Accounts!ResetOnce /\ Accounts!AccountsTypeOK
  BY DEF AccountsInv, ResetOK, AccountsReqOK, Accounts!ResetOnce, Accounts!AccountsTypeOK

-----------------------------------------------------------------------------
(* The assistant's profile.  The rows by the names of AssistantContext.    *)
asProfile == row1
asRevision == row2
asSteps == row3
asBranch == row4
asRead == row5

USE DEF asProfile, asRevision, asSteps, asBranch, asRead

\* A profile, stored or read, answers from the revision it names.
ProfileOK(row) ==
    /\ row \in Context!ProfileRow
    /\ row.version > 0 => row.snapshot = asRevision[row.version]

ProfileReadOK(read) ==
    \/ read = Context!Idle
    \/ read \in [at: {"edit"}, row: Context!ProfileRow] /\ ProfileOK(read.row)
    \/ read \in [at: {"onboarding"}, row: Context!ProfileRow, steps: Context!Onboarding] /\ ProfileOK(read.row)

ContextInv ==
    /\ ProfileOK(asProfile)
    /\ asRevision \in [1 .. MaxVersion -> Texts \cup {Context!NoRevision}]
    /\ asSteps \in Context!Onboarding
    /\ asBranch \in BOOLEAN
    /\ DOMAIN asRead = Actors /\ \A r \in Actors : ProfileReadOK(asRead[r])

\* The initial states satisfy the invariant.
LEMMA ContextStarts == Context!ContextInit => ContextInv
<1> SUFFICES ASSUME Context!ContextInit PROVE ContextInv
  OBVIOUS
<1> USE ContextAssumption DEF Context!ContextInit
<1>1. ProfileOK(asProfile)
  <2>1. 0 \in 0 .. MaxVersion
    OBVIOUS
  <2> QED
    BY <2>1 DEF ProfileOK, Context!ProfileRow
<1>2. asSteps \in Context!Onboarding
  BY DEF Context!Onboarding
<1> QED
  BY <1>1, <1>2 DEF ContextInv, ProfileReadOK

\* A form saves what it read, edited.
LEMMA ProfileSaved ==
    ASSUME ContextInv, NEW r \in Actors, NEW text \in Texts, asRead[r] # Context!Idle,
           asProfile' = Context!Edited(asRead[r].row, text), asRead' = [asRead EXCEPT ![r] = Context!Idle],
           UNCHANGED asRevision, asSteps' \in Context!Onboarding, asBranch' \in BOOLEAN
    PROVE  ContextInv'
<1> DEFINE old == asRead[r].row
<1>1. ProfileOK(old)
  BY DEF ContextInv, ProfileReadOK
<1>2. asProfile' \in Context!ProfileRow /\ asProfile'.version = old.version /\ asProfile'.snapshot = old.snapshot
  <2> HIDE DEF old
  <2>1. asProfile' = [old EXCEPT !.text = text, !.status = "draft"]
    BY DEF Context!Edited, old
  <2> QED
    BY <1>1, <2>1 DEF ProfileOK, Context!ProfileRow
<1>3. ProfileOK(asProfile)'
  BY <1>1, <1>2 DEF ProfileOK
<1>4. DOMAIN asRead' = Actors /\ \A q \in Actors : ProfileReadOK(asRead[q])'
  BY DEF ContextInv, ProfileReadOK, ProfileOK
<1> QED
  BY <1>3, <1>4 DEF ContextInv

\* Forms are opened and saved.
LEMMA ContextForms ==
    ASSUME ContextInv, NEW r \in Actors
    PROVE  /\ Context!EditBegin(r) => ContextInv'
           /\ Context!OnboardingBegin(r) => ContextInv'
           /\ \A text \in Texts : Context!EditSave(r, text) => ContextInv'
           /\ \A text \in Texts, step \in Steps, b \in BOOLEAN :
                  Context!OnboardingSave(r, text, step, b) => ContextInv'
           /\ \A text \in Texts, b \in BOOLEAN : Context!OnboardingComplete(r, text, b) => ContextInv'
<1>1. ASSUME NEW read, ProfileReadOK(read), asRead' = [asRead EXCEPT ![r] = read],
             UNCHANGED <<asProfile, asRevision, asSteps, asBranch>>
      PROVE  ContextInv'
  <2>1. DOMAIN asRead' = Actors /\ \A q \in Actors : ProfileReadOK(asRead[q])'
    BY <1>1 DEF ContextInv, ProfileReadOK, ProfileOK
  <2>2. ProfileOK(asProfile)'
    BY <1>1 DEF ContextInv, ProfileOK
  <2> QED
    BY <1>1, <2>1, <2>2 DEF ContextInv
<1>2. ASSUME Context!EditBegin(r) PROVE ContextInv'
  <2>1. ProfileReadOK([at |-> "edit", row |-> asProfile])
    BY DEF ProfileReadOK, ContextInv, ProfileOK
  <2> QED
    BY <1>1, <1>2, <2>1 DEF Context!EditBegin
<1>3. ASSUME Context!OnboardingBegin(r) PROVE ContextInv'
  <2>1. ProfileReadOK([at |-> "onboarding", row |-> asProfile, steps |-> asSteps])
    BY DEF ProfileReadOK, ContextInv, ProfileOK
  <2> QED
    BY <1>1, <1>3, <2>1 DEF Context!OnboardingBegin
<1>4. ASSUME NEW text \in Texts, Context!EditSave(r, text) PROVE ContextInv'
  <2>1. asRead[r] # Context!Idle
    BY <1>4 DEF Context!EditSave, Context!Idle
  <2>2. /\ asProfile' = Context!Edited(asRead[r].row, text)
        /\ asRead' = [asRead EXCEPT ![r] = Context!Idle]
        /\ asRevision' = asRevision /\ asSteps' = asSteps /\ asBranch' = asBranch
    BY <1>4 DEF Context!EditSave
  <2>3. asSteps \in Context!Onboarding /\ asBranch \in BOOLEAN
    BY DEF ContextInv
  <2>4. asSteps' \in Context!Onboarding /\ asBranch' \in BOOLEAN
    BY <2>2, <2>3
  <2> QED
    BY <2>1, <2>2, <2>4, ProfileSaved
<1>5. ASSUME NEW text \in Texts, NEW step \in Steps, NEW b \in BOOLEAN,
             Context!OnboardingSave(r, text, step, b)
      PROVE  ContextInv'
  <2>1. asRead[r].steps \in Context!Onboarding /\ asRead[r] # Context!Idle
    BY <1>5 DEF Context!OnboardingSave, ContextInv, ProfileReadOK, Context!Idle
  <2>2. asSteps' \in Context!Onboarding
    BY <1>5, <2>1 DEF Context!OnboardingSave, Context!StepDone, Context!Onboarding
  <2> QED
    BY <1>5, <2>1, <2>2, ProfileSaved DEF Context!OnboardingSave, ContextInv
<1>6. ASSUME NEW text \in Texts, NEW b \in BOOLEAN, Context!OnboardingComplete(r, text, b) PROVE ContextInv'
  <2>1. asRead[r] # Context!Idle
    BY <1>6 DEF Context!OnboardingComplete, Context!Idle
  <2>2. CASE text # Empty /\ (asBranch \/ b)
    <3>1. /\ asProfile' = Context!Edited(asRead[r].row, text)
          /\ asBranch' = TRUE
          /\ asSteps' = [done |-> Steps, complete |-> TRUE]
          /\ asRead' = [asRead EXCEPT ![r] = Context!Idle]
          /\ asRevision' = asRevision
      BY <1>6, <2>2 DEF Context!OnboardingComplete
    <3>2. asSteps' \in Context!Onboarding
      <4>1. Steps \in SUBSET Steps /\ TRUE \in BOOLEAN
        OBVIOUS
      <4>2. [done |-> Steps, complete |-> TRUE] \in Context!Onboarding
        BY <4>1 DEF Context!Onboarding
      <4> QED
        BY <3>1, <4>2
    <3> QED
      BY <2>1, <3>1, <3>2, ProfileSaved
  <2>3. CASE ~(text # Empty /\ (asBranch \/ b))
    <3>1. ProfileReadOK(Context!Idle)
      BY DEF ProfileReadOK
    <3>2. asRead' = [asRead EXCEPT ![r] = Context!Idle] /\ UNCHANGED <<asProfile, asRevision, asSteps, asBranch>>
      BY <1>6, <2>3 DEF Context!OnboardingComplete
    <3> QED
      BY <1>1, <3>1, <3>2
  <2> QED
    BY <2>2, <2>3
<1> QED
  BY <1>2, <1>3, <1>4, <1>5, <1>6

\* A revision is stored under a number no row has.
LEMMA ContextPublishes ==
    ASSUME ContextInv, Context!Publish
    PROVE  ContextInv'
<1> USE ContextAssumption
<1> DEFINE version == asProfile.version + 1
<1>1. /\ version \in 1 .. MaxVersion /\ version \in 0 .. MaxVersion
      /\ asRevision[version] = Context!NoRevision
      /\ asRevision' = [asRevision EXCEPT ![version] = asProfile.text]
      /\ asProfile' = [asProfile EXCEPT !.version = version, !.status = "published",
                                        !.snapshot = asProfile.text]
      /\ UNCHANGED <<asSteps, asBranch, asRead>>
  BY DEF Context!Publish, Context!NextVersion, ContextInv, ProfileOK, Context!ProfileRow
<1>2. asProfile.text \in Texts
  BY DEF ContextInv, ProfileOK, Context!ProfileRow
<1> HIDE DEF version
<1>3. asRevision' \in [1 .. MaxVersion -> Texts \cup {Context!NoRevision}]
  BY <1>1, <1>2 DEF ContextInv
<1>4. ProfileOK(asProfile)'
  <2>1. asProfile' \in Context!ProfileRow /\ asProfile'.version = version /\ asProfile'.snapshot = asProfile.text
    BY <1>1, <1>2 DEF ContextInv, ProfileOK, Context!ProfileRow
  <2>2. asRevision'[version] = asProfile.text
    BY <1>1 DEF ContextInv
  <2> QED
    BY <2>1, <2>2 DEF ProfileOK
<1>5. ASSUME NEW row, ProfileOK(row) PROVE ProfileOK(row)'
  <2>1. CASE row.version > 0
    <3>1. row.version \in 1 .. MaxVersion /\ row.snapshot \in Texts /\ row.snapshot = asRevision[row.version]
      BY <1>5, <2>1 DEF ProfileOK, Context!ProfileRow
    <3>2. row.version # version
      BY <1>1, <3>1 DEF Context!NoRevision
    <3>3. asRevision'[row.version] = asRevision[row.version]
      BY <1>1, <3>1, <3>2 DEF ContextInv
    <3> QED
      BY <1>5, <3>1, <3>3 DEF ProfileOK
  <2>2. CASE ~(row.version > 0)
    BY <1>5, <2>2 DEF ProfileOK
  <2> QED
    BY <2>1, <2>2
<1>6. \A r \in Actors : ProfileReadOK(asRead[r])'
  BY <1>1, <1>5 DEF ContextInv, ProfileReadOK
<1> QED
  BY <1>1, <1>3, <1>4, <1>6 DEF ContextInv

\* Every step of the part, by the lemma of its action.
LEMMA ContextPart ==
    ASSUME ContextInv, ContextSteps
    PROVE  ContextInv' /\ focus = "context" /\ UNCHANGED focus
  BY ContextForms, ContextPublishes DEF ContextSteps, Keep5

\* The invariant is what the run checks of the part, and more.
LEMMA ContextHolds == ContextInv => Context!SnapshotIsRevision /\ Context!ContextTypeOK
  BY DEF ContextInv, ProfileOK, ProfileReadOK, Context!SnapshotIsRevision, Context!ContextTypeOK

-----------------------------------------------------------------------------
(* Platform access.  The rows by the names of module PlatformAccess.       *)
paStaff == row1
paSession == row2
paDevice == row3
paNow == row4
paUsed == row5
paReq == row6

USE DEF paStaff, paSession, paDevice, paNow, paUsed, paReq

AccessReqOK(req) ==
    \/ req = Access!Idle
    \/ req \in [at: {"login"}, who: Staff]
    \/ req \in [at: {"api"}, session: Sessions, who: Staff, role: Access!PlatformRole, fresh: BOOLEAN]
    \/ req \in [at: {"update"}, target: Staff, row: Access!StaffRow]
    \/ req \in [at: {"setup"}]
    \/ req \in [at: {"verify"}, session: Sessions, code: Access!Codes, enabled: BOOLEAN]
    \/ req \in [at: {"verified"}, session: Sessions, enabled: BOOLEAN]

\* A code that was accepted is behind the device: of an earlier secret, or
\* of no later step than the last one accepted, or a recovery code spent.
Spent(code, device) ==
    /\ code.secret <= device.secret
    /\ code.secret = device.secret => IF code.step = Access!Recovery THEN ~device.recovery
                                      ELSE code.step <= device.last

CodeOK(code, used, device) == used[code] <= 1 /\ (used[code] > 0 => Spent(code, device))

AccessInv ==
    /\ paStaff \in [Staff -> Access!StaffRow]
    /\ paSession \in [Sessions -> Access!SessionRow]
    /\ paDevice \in Access!DeviceRow
    /\ paNow \in 0 .. MaxTime
    /\ paUsed \in [Access!Codes -> 0 .. 2]
    /\ \A c \in Access!Codes : CodeOK(c, paUsed, paDevice)
    /\ DOMAIN paReq = Actors /\ \A r \in Actors : AccessReqOK(paReq[r])

LEMMA AccessIdle == AccessReqOK(Access!Idle)
  BY DEF AccessReqOK

LEMMA AccessEnded == Access!Ended \in Access!SessionRow
  BY AccessAssumption DEF Access!Ended, Access!SessionRow

\* A request that is at a place has the row of that place.
LEMMA AccessPlaces ==
    ASSUME AccessInv, NEW r \in Actors
    PROVE  /\ paReq[r].at = "login" => paReq[r] \in [at: {"login"}, who: Staff]
           /\ paReq[r].at = "api" =>
                  paReq[r] \in [at: {"api"}, session: Sessions, who: Staff, role: Access!PlatformRole, fresh: BOOLEAN]
           /\ paReq[r].at = "update" => paReq[r] \in [at: {"update"}, target: Staff, row: Access!StaffRow]
           /\ paReq[r].at = "verify" =>
                  paReq[r] \in [at: {"verify"}, session: Sessions, code: Access!Codes, enabled: BOOLEAN]
           /\ paReq[r].at = "verified" => paReq[r] \in [at: {"verified"}, session: Sessions, enabled: BOOLEAN]
<1>1. AccessReqOK(paReq[r])
  BY DEF AccessInv
<1> QED
  BY <1>1 DEF AccessReqOK, Access!Idle

\* The initial states satisfy the invariant.
LEMMA AccessStarts == Access!PlatformInit => AccessInv
<1> SUFFICES ASSUME Access!PlatformInit PROVE AccessInv
  OBVIOUS
<1> USE AccessAssumption DEF Access!PlatformInit
<1>1. paStaff \in [Staff -> Access!StaffRow]
  BY DEF Access!StaffRow, Access!PlatformRole, Access!PlatformAccessStatus
<1>2. paSession \in [Sessions -> Access!SessionRow]
  BY AccessEnded
<1>3. paDevice \in Access!DeviceRow
  BY DEF Access!DeviceRow
<1>4. paUsed \in [Access!Codes -> 0 .. 2] /\ \A c \in Access!Codes : CodeOK(c, paUsed, paDevice)
  BY DEF CodeOK
<1> QED
  BY <1>1, <1>2, <1>3, <1>4, AccessIdle DEF AccessInv

\* A step that leaves the device and its codes alone.
LEMMA AccessApart ==
    ASSUME AccessInv, NEW r \in Actors, NEW row, AccessReqOK(row),
           paReq' = paReq \/ paReq' = [paReq EXCEPT ![r] = row],
           paStaff' \in [Staff -> Access!StaffRow], paSession' \in [Sessions -> Access!SessionRow],
           paDevice' = paDevice, paUsed' = paUsed, paNow' \in 0 .. MaxTime
    PROVE  AccessInv'
<1>1. DOMAIN paReq' = Actors /\ \A q \in Actors : AccessReqOK(paReq'[q])
  BY DEF AccessInv
<1>2. \A c \in Access!Codes : CodeOK(c, paUsed', paDevice')
  BY DEF AccessInv
<1> QED
  BY <1>1, <1>2 DEF AccessInv

\* Sessions open and end.
LEMMA AccessSessions ==
    ASSUME AccessInv
    PROVE  /\ \A r \in Actors, s \in Staff : Access!LoginBegin(r, s) => AccessInv'
           /\ \A r \in Actors, x \in Sessions : Access!LoginEnd(r, x) => AccessInv'
           /\ \A r \in Actors, x \in Sessions : Access!Authenticate(r, x) => AccessInv'
           /\ \A r \in Actors, x \in Sessions : Access!SessionRevoke(r, x) => AccessInv'
           /\ \A x \in Sessions :
                  Access!AuthenticationEnds(x) \/ Access!SessionEnds(x) \/ Access!MfaStale(x) => AccessInv'
           /\ \A r \in Actors : Access!Done(r) => AccessInv'
           /\ Access!Tick => AccessInv'
<1> USE DEF Access!At, Access!Goto, Access!UnchangedDevice
<1>0. /\ paStaff \in [Staff -> Access!StaffRow] /\ paSession \in [Sessions -> Access!SessionRow]
      /\ paNow \in 0 .. MaxTime
  BY DEF AccessInv
<1>1. ASSUME NEW r \in Actors, NEW s \in Staff, Access!LoginBegin(r, s) PROVE AccessInv'
  <2>1. AccessReqOK([at |-> "login", who |-> s])
    BY DEF AccessReqOK
  <2> QED
    BY <1>0, <1>1, <2>1, AccessApart DEF Access!LoginBegin
<1>2. ASSUME NEW r \in Actors, NEW x \in Sessions, Access!LoginEnd(r, x) PROVE AccessInv'
  <2>1. paReq[r].who \in Staff
    BY <1>2, AccessPlaces DEF Access!LoginEnd
  <2>2. paSession' = [paSession EXCEPT ![x] = [[paSession[x] EXCEPT !.of = paReq[r].who] EXCEPT !.live = TRUE]]
    BY <1>0, <1>2 DEF Access!LoginEnd, Access!SessionRow
  <2>3. [[paSession[x] EXCEPT !.of = paReq[r].who] EXCEPT !.live = TRUE] \in Access!SessionRow
    BY <1>0, <2>1 DEF Access!SessionRow
  <2>4. paSession' \in [Sessions -> Access!SessionRow]
    BY <1>0, <2>2, <2>3
  <2> QED
    BY <1>0, <1>2, <2>4, AccessApart, AccessIdle DEF Access!LoginEnd
<1>3. ASSUME NEW r \in Actors, NEW x \in Sessions, Access!Authenticate(r, x) PROVE AccessInv'
  <2>1. paSession[x].of \in Staff /\ paSession[x].fresh \in BOOLEAN
    BY <1>0 DEF Access!SessionRow
  <2>2. paStaff[paSession[x].of].role \in Access!PlatformRole
    BY <1>0, <2>1 DEF Access!StaffRow
  <2>3. AccessReqOK([at |-> "api", session |-> x, who |-> paSession[x].of,
                     role |-> paStaff[paSession[x].of].role, fresh |-> paSession[x].fresh])
    BY <2>1, <2>2 DEF AccessReqOK
  <2> QED
    BY <1>0, <1>3, <2>3, AccessApart DEF Access!Authenticate
<1>4. ASSUME NEW x \in Sessions PROVE [paSession EXCEPT ![x] = Access!Ended] \in [Sessions -> Access!SessionRow]
  BY <1>0, AccessEnded
<1>5. ASSUME NEW r \in Actors, NEW x \in Sessions, Access!SessionRevoke(r, x) PROVE AccessInv'
  BY <1>0, <1>4, <1>5, AccessApart, AccessIdle DEF Access!SessionRevoke
<1>6. ASSUME paSession' \in [Sessions -> Access!SessionRow], paNow' \in 0 .. MaxTime,
             paStaff' = paStaff, paDevice' = paDevice, paUsed' = paUsed, paReq' = paReq
      PROVE  AccessInv'
  BY <1>6 DEF AccessInv
<1>7. ASSUME NEW x \in Sessions, Access!AuthenticationEnds(x) \/ Access!SessionEnds(x) \/ Access!MfaStale(x)
      PROVE  AccessInv'
  <2>1. paSession' \in [Sessions -> Access!SessionRow]
    <3>1. CASE Access!MfaStale(x)
      <4>1. [paSession[x] EXCEPT !.fresh = FALSE] \in Access!SessionRow
        BY <1>0 DEF Access!SessionRow
      <4> QED
        BY <1>0, <3>1, <4>1 DEF Access!MfaStale
    <3> QED
      BY <1>4, <1>7, <3>1 DEF Access!AuthenticationEnds, Access!SessionEnds
  <2> QED
    BY <1>0, <1>6, <1>7, <2>1 DEF Access!AuthenticationEnds, Access!SessionEnds, Access!MfaStale
<1>8. ASSUME NEW r \in Actors, Access!Done(r) PROVE AccessInv'
  BY <1>0, <1>8, AccessApart, AccessIdle DEF Access!Done
<1>9. ASSUME Access!Tick PROVE AccessInv'
  <2>1. paNow' \in 0 .. MaxTime
    BY <1>0, <1>9, AccessAssumption DEF Access!Tick
  <2> QED
    BY <1>0, <1>6, <1>9, <2>1 DEF Access!Tick
<1> QED
  BY <1>1, <1>2, <1>3, <1>5, <1>7, <1>8, <1>9

\* The staff is changed.
LEMMA AccessStaff ==
    ASSUME AccessInv, NEW r \in Actors
    PROVE  /\ \A s \in Staff, role \in Access!PlatformRole : Access!StaffCreate(r, s, role) => AccessInv'
           /\ \A s \in Staff, row \in Access!StaffRow : Access!UpdateBegin(r, s, row) => AccessInv'
           /\ Access!UpdateCommit(r) => AccessInv'
<1> USE DEF Access!At, Access!Goto, Access!UnchangedDevice
<1>0. /\ paStaff \in [Staff -> Access!StaffRow] /\ paSession \in [Sessions -> Access!SessionRow]
      /\ paNow \in 0 .. MaxTime
  BY DEF AccessInv
<1>1. ASSUME NEW s \in Staff, NEW role \in Access!PlatformRole, Access!StaffCreate(r, s, role) PROVE AccessInv'
  <2>1. [role |-> role, status |-> "inactive"] \in Access!StaffRow
    BY DEF Access!StaffRow, Access!PlatformAccessStatus
  <2>2. paStaff' \in [Staff -> Access!StaffRow]
    BY <1>0, <1>1, <2>1 DEF Access!StaffCreate
  <2> QED
    BY <1>0, <1>1, <2>2, AccessApart, AccessIdle DEF Access!StaffCreate
<1>2. ASSUME NEW s \in Staff, NEW row \in Access!StaffRow, Access!UpdateBegin(r, s, row) PROVE AccessInv'
  <2>1. AccessReqOK([at |-> "update", target |-> s, row |-> row])
    BY DEF AccessReqOK
  <2> QED
    BY <1>0, <1>2, <2>1, AccessApart DEF Access!UpdateBegin
<1>3. ASSUME Access!UpdateCommit(r) PROVE AccessInv'
  <2>1. paReq[r].target \in Staff /\ paReq[r].row \in Access!StaffRow
    BY <1>3, AccessPlaces DEF Access!UpdateCommit
  <2>2. paStaff' \in [Staff -> Access!StaffRow]
    BY <1>0, <1>3, <2>1 DEF Access!UpdateCommit
  <2>3. paSession' \in [Sessions -> Access!SessionRow]
    BY <1>0, <1>3, AccessEnded DEF Access!UpdateCommit, Access!EndedOf
  <2> QED
    BY <1>0, <1>3, <2>2, <2>3, AccessApart, AccessIdle DEF Access!UpdateCommit
<1> QED
  BY <1>1, <1>2, <1>3

\* The authenticator is set up and its codes are verified.
LEMMA AccessDevice ==
    ASSUME AccessInv, NEW r \in Actors
    PROVE  /\ Access!SetupBegin(r) => AccessInv'
           /\ Access!SetupEnd(r) => AccessInv'
           /\ \A code \in Access!Codes : Access!VerifyBegin(r, code) => AccessInv'
           /\ Access!VerifyCode(r) => AccessInv'
           /\ Access!VerifyEnd(r) => AccessInv'
<1> USE AccessAssumption DEF Access!At, Access!Goto, Access!UnchangedDevice
<1>0. /\ paStaff \in [Staff -> Access!StaffRow] /\ paSession \in [Sessions -> Access!SessionRow]
      /\ paNow \in 0 .. MaxTime /\ paDevice \in Access!DeviceRow
      /\ paUsed \in [Access!Codes -> 0 .. 2]
      /\ \A c \in Access!Codes : CodeOK(c, paUsed, paDevice)
  BY DEF AccessInv
<1>1. ASSUME Access!SetupBegin(r) PROVE AccessInv'
  <2>1. AccessReqOK([at |-> "setup"])
    BY DEF AccessReqOK
  <2> QED
    BY <1>0, <1>1, <2>1, AccessApart DEF Access!SetupBegin
<1>2. ASSUME NEW code \in Access!Codes, Access!VerifyBegin(r, code) PROVE AccessInv'
  <2>1. paReq[r].session \in Sessions /\ paDevice.enabled \in BOOLEAN
    BY <1>0, <1>2, AccessPlaces DEF Access!VerifyBegin, Access!DeviceRow
  <2>2. AccessReqOK([at |-> "verify", session |-> paReq[r].session, code |-> code, enabled |-> paDevice.enabled])
    BY <2>1 DEF AccessReqOK
  <2> QED
    BY <1>0, <1>2, <2>2, AccessApart DEF Access!VerifyBegin
<1>3. ASSUME NEW row, AccessReqOK(row), paReq' = [paReq EXCEPT ![r] = row], paStaff' = paStaff,
             paSession' \in [Sessions -> Access!SessionRow], paNow' = paNow,
             paDevice' \in Access!DeviceRow, paUsed' \in [Access!Codes -> 0 .. 2],
             \A c \in Access!Codes : CodeOK(c, paUsed', paDevice')
      PROVE  AccessInv'
  <2>1. DOMAIN paReq' = Actors /\ \A q \in Actors : AccessReqOK(paReq'[q])
    BY <1>3 DEF AccessInv
  <2> QED
    BY <1>0, <1>3, <2>1 DEF AccessInv
<1>4. ASSUME Access!SetupEnd(r) PROVE AccessInv'
  <2> DEFINE next == paDevice.secret + 1
  <2>1. paDevice.secret \in 0 .. MaxSecret /\ next \in 0 .. MaxSecret /\ paDevice.secret < next
    BY <1>0, <1>4 DEF Access!SetupEnd, Access!DeviceRow
  <2>2. paDevice' = [secret |-> next, last |-> -1, recovery |-> TRUE, enabled |-> FALSE]
    BY <1>4 DEF Access!SetupEnd
  <2> HIDE DEF next
  <2>3. paDevice' \in Access!DeviceRow /\ paDevice'.secret = next
    BY <2>1, <2>2 DEF Access!DeviceRow
  <2>4. ASSUME NEW c \in Access!Codes PROVE CodeOK(c, paUsed', paDevice')
    <3>1. c.secret \in Nat
      BY DEF Access!Codes
    <3>2. CodeOK(c, paUsed, paDevice) /\ paUsed' = paUsed
      BY <1>0, <1>4 DEF Access!SetupEnd
    <3> QED
      BY <2>1, <2>3, <3>1, <3>2 DEF CodeOK, Spent
  <2> QED
    BY <1>0, <1>3, <1>4, <2>3, <2>4, AccessIdle DEF Access!SetupEnd
<1>5. ASSUME Access!VerifyCode(r) PROVE AccessInv'
  <2> DEFINE code == paReq[r].code
  <2>1. code \in Access!Codes /\ paReq[r].session \in Sessions /\ paReq[r].enabled \in BOOLEAN
    BY <1>5, AccessPlaces DEF Access!VerifyCode
  <2>2. CASE ~Access!Matches(paDevice, code)
    BY <1>0, <1>5, <2>2, AccessApart, AccessIdle DEF Access!VerifyCode
  <2>3. CASE Access!Matches(paDevice, code)
    <3>1. /\ paDevice' = Access!Consumed(paDevice, code)
          /\ paUsed' = [paUsed EXCEPT ![code] = @ + 1]
          /\ paReq' = [paReq EXCEPT ![r] = [at |-> "verified", session |-> paReq[r].session, enabled |-> paReq[r].enabled]]
          /\ UNCHANGED <<paStaff, paSession, paNow>>
      BY <1>5, <2>3 DEF Access!VerifyCode
    <3>2. AccessReqOK([at |-> "verified", session |-> paReq[r].session, enabled |-> paReq[r].enabled])
      BY <2>1 DEF AccessReqOK
    <3> HIDE DEF code
    <3>3. /\ code.secret = paDevice.secret
          /\ code.step = Access!Recovery => paDevice.recovery
          /\ code.step # Access!Recovery => code.step > paDevice.last
      BY <2>3 DEF Access!Matches
    <3>4. code.step \in -1 .. MaxTime + 1 /\ Access!Recovery = -1
      BY <2>1 DEF Access!Codes, Access!Recovery
    <3>5. /\ paDevice' \in Access!DeviceRow /\ paDevice'.secret = paDevice.secret
          /\ code.step = Access!Recovery => ~paDevice'.recovery /\ paDevice'.last = paDevice.last
          /\ code.step # Access!Recovery => paDevice'.recovery = paDevice.recovery /\ paDevice'.last = code.step
      BY <1>0, <3>1, <3>4 DEF Access!Consumed, Access!DeviceRow
    <3>6. paUsed[code] = 0
      <4>1. ~Spent(code, paDevice)
        BY <1>0, <3>3, <3>4 DEF Spent, Access!DeviceRow
      <4>2. paUsed[code] \in 0 .. 2 /\ CodeOK(code, paUsed, paDevice)
        BY <1>0, <2>1
      <4> QED
        BY <4>1, <4>2 DEF CodeOK
    <3>7. paUsed' \in [Access!Codes -> 0 .. 2] /\ paUsed'[code] = 1
      BY <1>0, <2>1, <3>1, <3>6
    <3>8. Spent(code, paDevice')
      BY <1>0, <3>3, <3>4, <3>5 DEF Spent, Access!DeviceRow
    <3>9. ASSUME NEW c \in Access!Codes PROVE CodeOK(c, paUsed', paDevice')
      <4>1. CASE c = code
        BY <3>7, <3>8, <4>1 DEF CodeOK
      <4>2. CASE c # code
        <5>1. paUsed'[c] = paUsed[c] /\ CodeOK(c, paUsed, paDevice)
          BY <1>0, <3>1, <4>2
        <5>2. ASSUME Spent(c, paDevice) PROVE Spent(c, paDevice')
          <6>1. c.step \in -1 .. MaxTime + 1 /\ c.secret \in Nat
            BY DEF Access!Codes, Access!Recovery
          <6>2. paDevice.last \in Int
            BY <1>0 DEF Access!DeviceRow
          <6> QED
            BY <3>3, <3>4, <3>5, <5>2, <6>1, <6>2 DEF Spent
        <5> QED
          BY <5>1, <5>2 DEF CodeOK
      <4> QED
        BY <4>1, <4>2
    <3> QED
      BY <1>0, <1>3, <3>1, <3>2, <3>5, <3>7, <3>9
  <2> QED
    BY <2>2, <2>3
<1>6. ASSUME Access!VerifyEnd(r) PROVE AccessInv'
  <2>1. paReq[r].session \in Sessions /\ paReq[r].enabled \in BOOLEAN
    BY <1>6, AccessPlaces DEF Access!VerifyEnd
  <2> DEFINE enabled == paDevice.enabled \/ ~paReq[r].enabled
             fresh == Access!Live(paReq[r].session)
  <2>2. fresh \in BOOLEAN /\ enabled \in BOOLEAN
    BY <1>0, <2>1 DEF Access!Live, Access!SessionRow
  <2>3. /\ paDevice' = [paDevice EXCEPT !.enabled = enabled]
        /\ paSession' = [paSession EXCEPT ![paReq[r].session].fresh = fresh]
    BY <1>6 DEF Access!VerifyEnd
  <2> HIDE DEF enabled, fresh
  <2>4. /\ paDevice' \in Access!DeviceRow /\ paDevice'.secret = paDevice.secret
        /\ paDevice'.last = paDevice.last /\ paDevice'.recovery = paDevice.recovery
    BY <1>0, <2>2, <2>3 DEF Access!DeviceRow
  <2>5. paSession' \in [Sessions -> Access!SessionRow]
    <3>1. [paSession[paReq[r].session] EXCEPT !.fresh = fresh] \in Access!SessionRow
      BY <1>0, <2>1, <2>2 DEF Access!SessionRow
    <3> QED
      BY <1>0, <2>1, <2>3, <3>1
  <2>6. \A c \in Access!Codes : CodeOK(c, paUsed', paDevice')
    BY <1>0, <1>6, <2>4 DEF CodeOK, Spent, Access!VerifyEnd
  <2> QED
    BY <1>0, <1>3, <1>6, <2>4, <2>5, <2>6, AccessIdle DEF Access!VerifyEnd
<1> QED
  BY <1>1, <1>2, <1>4, <1>5, <1>6

\* Every step of the part, by the lemma of its action.
LEMMA AccessPart ==
    ASSUME AccessInv, AccessSteps
    PROVE  AccessInv' /\ focus = "access" /\ UNCHANGED focus
  BY AccessSessions, AccessStaff, AccessDevice DEF AccessSteps, Keep6

\* The invariant is what the run checks of the part, and more.
LEMMA AccessHolds == AccessInv => Access!CodeOnce /\ Access!PlatformTypeOK
<1>1. AccessInv => Access!CodeOnce
  BY DEF AccessInv, CodeOK, Access!CodeOnce
<1>2. AccessInv => Access!PlatformTypeOK
  <2>1. \A req : AccessReqOK(req) =>
            req = Access!Idle \/ req.at \in {"login", "api", "update", "setup", "verify", "verified"}
    BY DEF AccessReqOK
  <2> QED
    BY <2>1 DEF AccessInv, Access!PlatformTypeOK
<1> QED
  BY <1>1, <1>2

-----------------------------------------------------------------------------
(* Controls.  The rows by the names module ControlPlane gives them.        *)
cpOrg == row1
cpControl == row2
cpRun == row3
cpJob == row4
cpReq == row5

USE DEF cpOrg, cpControl, cpRun, cpJob, cpReq

\* A suspended organization has what it was recorded.
OrgOK(org) ==
    /\ org \in Controls!OrgRow
    /\ org.status \in {org.was, "suspended"}
    /\ org.status = "suspended" => org.previous = org.was

ControlsReqOK(req) ==
    \/ req = Controls!Idle
    \/ req \in [at: {"activate"}, kind: Kinds]
    \/ req \in [at: {"queue"}]

RunsOK == cpRun \in {"none", "queued", "running", "waiting", "done", "superseded"} /\ cpJob \in Controls!JobStatus

ControlsInv ==
    /\ OrgOK(cpOrg)
    /\ cpControl \in [ControlRows -> Controls!ControlRow]
    /\ RunsOK
    /\ DOMAIN cpReq = Actors /\ \A r \in Actors : ControlsReqOK(cpReq[r])

\* The initial states satisfy the invariant.
LEMMA ControlsStarts == Controls!ControlInit => ControlsInv
<1> SUFFICES ASSUME Controls!ControlInit PROVE ControlsInv
  OBVIOUS
<1> USE DEF Controls!ControlInit
<1>1. OrgOK(cpOrg)
  <2>1. PICK status \in {"trial", "active"} :
            cpOrg = [was |-> status, had |-> {}, status |-> status, previous |-> "", disabled |-> {}]
    OBVIOUS
  <2>2. status \in {"trial", "active", "suspended"} /\ status # "suspended"
    OBVIOUS
  <2>3. cpOrg \in Controls!OrgRow
    BY <2>1, <2>2 DEF Controls!OrgRow
  <2> QED
    BY <2>1, <2>2, <2>3 DEF OrgOK
<1> QED
  BY <1>1 DEF ControlsInv, Controls!ControlRow, RunsOK, Controls!JobStatus, ControlsReqOK

\* The lifecycle of the organization.
LEMMA ControlsLifecycle ==
    ASSUME ControlsInv
    PROVE  /\ Controls!Suspend => ControlsInv'
           /\ Controls!Reactivate => ControlsInv'
           /\ \A flag \in Controls!Flags : Controls!Disable(flag) => ControlsInv'
<1>1. OrgOK(cpOrg)
  BY DEF ControlsInv
<1>2. ASSUME OrgOK(cpOrg'), UNCHANGED <<cpControl, cpRun, cpJob, cpReq>> PROVE ControlsInv'
  BY <1>2 DEF ControlsInv, RunsOK
<1>3. ASSUME Controls!Suspend PROVE ControlsInv'
  <2>1. Controls!Recorded(cpOrg) = cpOrg.was /\ cpOrg.was \in {"trial", "active"}
    BY <1>1 DEF OrgOK, Controls!OrgRow, Controls!Recorded
  <2>2. PICK had \in SUBSET Controls!Flags :
           cpOrg' = [cpOrg EXCEPT !.status = "suspended", !.previous = cpOrg.was,
                                  !.had = had, !.disabled = Controls!Flags]
    <3>1. Controls!Had(cpOrg) \in SUBSET Controls!Flags
      BY <1>1 DEF OrgOK, Controls!OrgRow, Controls!Had
    <3> QED
      BY <1>3, <2>1, <3>1 DEF Controls!Suspend
  <2>3. OrgOK(cpOrg')
    BY <1>1, <2>1, <2>2 DEF OrgOK, Controls!OrgRow
  <2> QED
    BY <1>2, <1>3, <2>3 DEF Controls!Suspend
<1>4. ASSUME Controls!Reactivate PROVE ControlsInv'
  <2>1. Controls!Restored(cpOrg) = cpOrg.was /\ cpOrg.was \in {"trial", "active"}
    BY <1>1 DEF OrgOK, Controls!OrgRow, Controls!Restored
  <2>2. cpOrg' = [cpOrg EXCEPT !.status = cpOrg.was, !.disabled = {}]
    BY <1>4, <2>1 DEF Controls!Reactivate
  <2>3. OrgOK(cpOrg')
    BY <1>1, <2>1, <2>2 DEF OrgOK, Controls!OrgRow
  <2> QED
    BY <1>2, <1>4, <2>3 DEF Controls!Reactivate
<1>5. ASSUME NEW flag \in Controls!Flags, Controls!Disable(flag) PROVE ControlsInv'
  <2>1. cpOrg.disabled \cup {flag} \in SUBSET Controls!Flags
    BY <1>1 DEF OrgOK, Controls!OrgRow
  <2>2. cpOrg' = [cpOrg EXCEPT !.disabled = @ \cup {flag}]
    BY <1>5 DEF Controls!Disable
  <2>3. OrgOK(cpOrg')
    BY <1>1, <2>1, <2>2 DEF OrgOK, Controls!OrgRow
  <2> QED
    BY <1>2, <1>5, <2>3 DEF Controls!Disable
<1> QED
  BY <1>3, <1>4, <1>5

\* Controls are activated, expire and are restored.
LEMMA ControlsActivated ==
    ASSUME ControlsInv
    PROVE  /\ \A r \in Actors, kind \in Kinds : Controls!ActivateBegin(r, kind) => ControlsInv'
           /\ \A r \in Actors, c \in ControlRows : Controls!ActivateEnd(r, c) => ControlsInv'
           /\ \A c \in ControlRows : Controls!ControlExpires(c) => ControlsInv'
           /\ \A c \in ControlRows : Controls!RestoreControl(c) => ControlsInv'
<1>1. ASSUME NEW r \in Actors, NEW kind \in Kinds, Controls!ActivateBegin(r, kind) PROVE ControlsInv'
  <2>1. ControlsReqOK([at |-> "activate", kind |-> kind])
    BY DEF ControlsReqOK
  <2> QED
    BY <1>1, <2>1 DEF ControlsInv, RunsOK, Controls!ActivateBegin, Controls!Begin
<1>2. ASSUME NEW r \in Actors, NEW c \in ControlRows, Controls!ActivateEnd(r, c) PROVE ControlsInv'
  <2>1. cpReq[r].kind \in Controls!ControlKind
    BY <1>2, ControlsAssumption DEF ControlsInv, ControlsReqOK, Controls!ActivateEnd, Controls!End, Controls!Idle
  <2>2. cpControl' \in [ControlRows -> Controls!ControlRow]
    BY <1>2, <2>1 DEF ControlsInv, Controls!ActivateEnd, Controls!ControlRow
  <2>3. RunsOK'
    BY <1>2 DEF ControlsInv, RunsOK, Controls!ActivateEnd, Controls!Stopped, Controls!Cancelled,
                Controls!JobStatus
  <2>4. DOMAIN cpReq' = Actors /\ \A q \in Actors : ControlsReqOK(cpReq'[q])
    BY <1>2 DEF ControlsInv, ControlsReqOK, Controls!ActivateEnd, Controls!End
  <2> QED
    BY <1>2, <2>2, <2>3, <2>4 DEF ControlsInv, Controls!ActivateEnd
<1>3. ASSUME NEW c \in ControlRows, Controls!ControlExpires(c) PROVE ControlsInv'
  <2>1. cpControl[c] \in [kind: Controls!ControlKind, active: BOOLEAN, expired: BOOLEAN]
    <3>1. cpControl[c].active
      BY <1>3 DEF Controls!ControlExpires
    <3>2. cpControl[c] # Controls!NoControl
      <4>1. ~Controls!NoControl.active
        BY Zenon DEF Controls!NoControl
      <4> QED
        BY <3>1, <4>1
    <3>3. cpControl[c] \in Controls!ControlRow
      BY DEF ControlsInv
    <3> QED
      BY <3>2, <3>3 DEF Controls!ControlRow
  <2>2. [cpControl[c] EXCEPT !.expired = TRUE] \in Controls!ControlRow
    BY <2>1 DEF Controls!ControlRow
  <2>3. cpControl' \in [ControlRows -> Controls!ControlRow]
    BY <1>3, <2>2 DEF ControlsInv, Controls!ControlExpires
  <2> QED
    BY <1>3, <2>3 DEF ControlsInv, RunsOK, Controls!ControlExpires
<1>4. ASSUME NEW c \in ControlRows, Controls!RestoreControl(c) PROVE ControlsInv'
  <2>1. cpControl' \in [ControlRows -> Controls!ControlRow]
    BY <1>4 DEF ControlsInv, Controls!RestoreControl, Controls!ControlRow
  <2> QED
    BY <1>4, <2>1 DEF ControlsInv, RunsOK, Controls!RestoreControl
<1> QED
  BY <1>1, <1>2, <1>3, <1>4

\* Runs are queued, executed and finished; jobs move.
LEMMA ControlsRuns ==
    ASSUME ControlsInv
    PROVE  /\ \A r \in Actors : Controls!QueueBegin(r) \/ Controls!QueueEnd(r) => ControlsInv'
           /\ Controls!Execute => ControlsInv'
           /\ \A status \in {"waiting", "done"} : Controls!Finish(status) => ControlsInv'
           /\ Controls!RetryJob \/ Controls!CancelJob \/ Controls!AcknowledgeJob => ControlsInv'
           /\ \A status \in {"failed", "dead_letter"} : Controls!JobFails(status) => ControlsInv'
<1>1. ASSUME NEW r \in Actors, Controls!QueueBegin(r) \/ Controls!QueueEnd(r) PROVE ControlsInv'
  <2>1. DOMAIN cpReq' = Actors /\ \A q \in Actors : ControlsReqOK(cpReq'[q])
    BY <1>1 DEF ControlsInv, ControlsReqOK, Controls!QueueBegin, Controls!QueueEnd, Controls!Begin, Controls!End
  <2>2. RunsOK' /\ UNCHANGED <<cpOrg, cpControl>>
    BY <1>1 DEF ControlsInv, RunsOK, Controls!QueueBegin, Controls!QueueEnd
  <2> QED
    BY <2>1, <2>2 DEF ControlsInv
<1>2. ASSUME RunsOK', UNCHANGED <<cpOrg, cpControl, cpReq>> PROVE ControlsInv'
  BY <1>2 DEF ControlsInv
<1>3. ASSUME Controls!Execute PROVE ControlsInv'
  BY <1>2, <1>3 DEF ControlsInv, RunsOK, Controls!Execute
<1>4. ASSUME NEW status \in {"waiting", "done"}, Controls!Finish(status) PROVE ControlsInv'
  BY <1>2, <1>4 DEF ControlsInv, RunsOK, Controls!Finish
<1>5. ASSUME NEW status \in {"failed", "dead_letter"},
             \/ Controls!RetryJob \/ Controls!CancelJob \/ Controls!AcknowledgeJob
             \/ Controls!JobFails(status)
      PROVE  ControlsInv'
  BY <1>2, <1>5 DEF ControlsInv, RunsOK, Controls!JobMoves, Controls!RetryJob, Controls!CancelJob,
                    Controls!AcknowledgeJob, Controls!JobFails, Controls!JobStatus
<1> QED
  BY <1>1, <1>3, <1>4, <1>5

\* Every step of the part, by the lemma of its action.
LEMMA ControlsPart ==
    ASSUME ControlsInv, ControlsSteps
    PROVE  ControlsInv' /\ focus = "controls" /\ UNCHANGED focus
  BY ControlsLifecycle, ControlsActivated, ControlsRuns DEF ControlsSteps, Keep5

\* The invariant is what the run checks of the part, and more.
LEMMA ControlsHolds == ControlsInv => Controls!ReactivationRestores /\ Controls!ControlTypeOK
  BY DEF ControlsInv, OrgOK, RunsOK, ControlsReqOK, Controls!ReactivationRestores, Controls!ControlTypeOK

-----------------------------------------------------------------------------
(* Requests to the platform.  The rows by the names of PlatformRequests.   *)
rqPrivacy == row1
rqJob == row2
rqIncident == row3
rqReq == row4

USE DEF rqPrivacy, rqJob, rqIncident, rqReq

\* Who approves something destructive is an owner; two have, once it is approved.
PrivacyOK(row) ==
    /\ row \in DataRequests!PrivacyRow
    /\ row.status = "none" => row.approvedBy = {}
    /\ row.type \in DataRequests!Destructive => row.approvedBy \subseteq OwnerStaff
    /\ row.status \in {"approved", "running"} /\ row.type \in DataRequests!Destructive
           => row.verified /\ DataRequests!Cardinality(row.approvedBy \cap OwnerStaff) >= 2

DataReqOK(req) ==
    \/ req = DataRequests!Idle
    \/ req \in [at: {"create"}, type: DataRequests!DataRequestType]
    \/ req \in [at: {"incident"}, row: DataRequests!IncidentRow]

DataInv ==
    /\ PrivacyOK(rqPrivacy)
    /\ rqJob \in {"none", "queued", "completed"}
    /\ rqIncident \in DataRequests!IncidentRow
    /\ DOMAIN rqReq = Actors /\ \A r \in Actors : DataReqOK(rqReq[r])

\* The initial states satisfy the invariant.
LEMMA DataStarts == DataRequests!RequestsInit => DataInv
<1> SUFFICES ASSUME DataRequests!RequestsInit PROVE DataInv
  OBVIOUS
<1> USE DEF DataRequests!RequestsInit
<1>1. PrivacyOK(rqPrivacy)
  BY DEF PrivacyOK, DataRequests!PrivacyRow, DataRequests!DataRequestType, DataRequests!DataRequestStatus,
         DataRequests!Destructive
<1>2. rqIncident \in DataRequests!IncidentRow
  BY DEF DataRequests!IncidentRow
<1> QED
  BY <1>1, <1>2 DEF DataInv, DataReqOK

\* The row of a request to the platform is written.
LEMMA DataWritten ==
    ASSUME DataInv, NEW row, PrivacyOK(row), DataRequests!PrivacyStep(row),
           rqJob' \in {"none", "queued", "completed"},
           DOMAIN rqReq' = Actors, \A r \in Actors : DataReqOK(rqReq'[r])
    PROVE  DataInv'
  BY DEF DataInv, DataRequests!PrivacyStep

\* A request is created under its key.
LEMMA DataCreated ==
    ASSUME DataInv, NEW r \in Actors
    PROVE  /\ \A type \in DataRequests!DataRequestType : DataRequests!CreateBegin(r, type) => DataInv'
           /\ DataRequests!CreateEnd(r) => DataInv'
<1>1. PrivacyOK(rqPrivacy) /\ rqJob \in {"none", "queued", "completed"}
  BY DEF DataInv
<1>2. ASSUME NEW type \in DataRequests!DataRequestType, DataRequests!CreateBegin(r, type) PROVE DataInv'
  <2>1. DataReqOK([at |-> "create", type |-> type])
    BY DEF DataReqOK
  <2>2. DOMAIN rqReq' = Actors /\ \A q \in Actors : DataReqOK(rqReq'[q])
    BY <1>2, <2>1 DEF DataInv, DataRequests!CreateBegin, DataRequests!Begin
  <2> QED
    BY <1>1, <1>2, <2>2, DataWritten DEF DataRequests!CreateBegin
<1>3. ASSUME DataRequests!CreateEnd(r) PROVE DataInv'
  <2> DEFINE type == rqReq[r].type
  <2>1. type \in DataRequests!DataRequestType
    BY <1>3 DEF DataRequests!CreateEnd, DataRequests!End, DataInv, DataReqOK, DataRequests!Idle
  <2>2. DOMAIN rqReq' = Actors /\ \A q \in Actors : DataReqOK(rqReq'[q])
    BY <1>3 DEF DataInv, DataRequests!CreateEnd, DataRequests!End, DataReqOK
  <2>3. CASE rqPrivacy.status = "none"
    <3> DEFINE new == [rqPrivacy EXCEPT !.type = type, !.status = "identity_verification"]
    <3>1. PrivacyOK(new)
      <4> HIDE DEF type
      <4> QED
        BY <1>1, <2>1, <2>3 DEF PrivacyOK, DataRequests!PrivacyRow, DataRequests!DataRequestStatus
    <3>2. DataRequests!PrivacyStep(new)
      BY <1>3, <2>3 DEF DataRequests!CreateEnd
    <3> QED
      BY <1>1, <1>3, <2>2, <3>1, <3>2, DataWritten DEF DataRequests!CreateEnd
  <2>4. CASE rqPrivacy.status # "none"
    BY <1>1, <1>3, <2>2, <2>4, DataWritten DEF DataRequests!CreateEnd
  <2> QED
    BY <2>3, <2>4
<1> QED
  BY <1>2, <1>3

\* It is verified, approved, rejected and run.
LEMMA DataDecided ==
    ASSUME DataInv
    PROVE  /\ DataRequests!VerifyIdentity => DataInv'
           /\ \A s \in Approvers : DataRequests!Approve(s) => DataInv'
           /\ DataRequests!Reject => DataInv'
           /\ DataRequests!RunApproved => DataInv'
           /\ DataRequests!LinkExpires => DataInv'
<1>1. PrivacyOK(rqPrivacy) /\ rqJob \in {"none", "queued", "completed"}
  BY DEF DataInv
<1>2. DOMAIN rqReq = Actors /\ \A r \in Actors : DataReqOK(rqReq[r])
  BY DEF DataInv
<1>3. ASSUME DataRequests!VerifyIdentity PROVE DataInv'
  <2>1. PrivacyOK([rqPrivacy EXCEPT !.verified = TRUE])
    BY <1>1, <1>3 DEF PrivacyOK, DataRequests!PrivacyRow, DataRequests!VerifyIdentity
  <2> QED
    BY <1>1, <1>2, <1>3, <2>1, DataWritten DEF DataRequests!VerifyIdentity
<1>4. ASSUME NEW s \in Approvers, DataRequests!Approve(s) PROVE DataInv'
  <2> DEFINE enough == DataRequests!Enough(rqPrivacy, s)
             all == rqPrivacy.approvedBy \cup {s}
             status == IF enough THEN "approved" ELSE rqPrivacy.status
             new == [rqPrivacy EXCEPT !.approvedBy = all, !.status = status]
  <2>1. /\ DataRequests!MayApprove(rqPrivacy, s) /\ DataRequests!PrivacyStep(new)
        /\ rqJob' \in {"none", "queued", "completed"} /\ UNCHANGED rqReq
    BY <1>1, <1>4 DEF DataRequests!Approve
  <2>2. /\ rqPrivacy.status = "identity_verification" /\ rqPrivacy.verified
        /\ rqPrivacy.type \in DataRequests!Destructive => all \subseteq OwnerStaff
        /\ all \subseteq Approvers
    BY <1>1, <2>1 DEF DataRequests!MayApprove, PrivacyOK, DataRequests!PrivacyRow
  <2>3. ASSUME status = "approved", rqPrivacy.type \in DataRequests!Destructive
        PROVE  DataRequests!Cardinality(all \cap OwnerStaff) >= 2
    <3>1. all \cap OwnerStaff = all
      BY <2>2, <2>3
    <3>2. enough
      BY <2>2, <2>3
    <3>3. DataRequests!Required(rqPrivacy.type) = 2
      BY <2>3 DEF DataRequests!Required
    <3> QED
      BY <3>1, <3>2, <3>3 DEF DataRequests!Enough
  <2>4. status \in {"approved", "identity_verification"}
    BY <2>2
  <2>5. PrivacyOK(new)
    <3> HIDE DEF all, status
    <3>1. /\ new \in DataRequests!PrivacyRow /\ new.status = status /\ new.approvedBy = all
          /\ new.type = rqPrivacy.type
      BY <1>1, <2>2, <2>4 DEF PrivacyOK, DataRequests!PrivacyRow, DataRequests!DataRequestStatus
    <3>2. new.verified
      BY <1>1, <2>2 DEF PrivacyOK, DataRequests!PrivacyRow
    <3> QED
      BY <2>2, <2>3, <2>4, <3>1, <3>2 DEF PrivacyOK
  <2> QED
    BY <1>2, <2>1, <2>5, DataWritten
<1>5. ASSUME DataRequests!Reject PROVE DataInv'
  <2>1. PrivacyOK([rqPrivacy EXCEPT !.status = "rejected"])
    BY <1>1, <1>5 DEF PrivacyOK, DataRequests!PrivacyRow, DataRequests!DataRequestStatus, DataRequests!Reject
  <2> QED
    BY <1>1, <1>2, <1>5, <2>1, DataWritten DEF DataRequests!Reject
<1>6. ASSUME DataRequests!RunApproved PROVE DataInv'
  <2>1. CASE rqPrivacy.type = "export"
    <3>1. PrivacyOK([rqPrivacy EXCEPT !.status = "completed", !.link = TRUE])
      BY <1>1, <2>1 DEF PrivacyOK, DataRequests!PrivacyRow, DataRequests!DataRequestStatus
    <3> QED
      BY <1>1, <1>2, <1>6, <2>1, <3>1, DataWritten DEF DataRequests!RunApproved
  <2>2. CASE rqPrivacy.type # "export"
    <3>1. PrivacyOK([rqPrivacy EXCEPT !.status = "running"])
      BY <1>1, <1>6, <2>2 DEF PrivacyOK, DataRequests!PrivacyRow, DataRequests!DataRequestStatus,
                              DataRequests!RunApproved
    <3> QED
      BY <1>1, <1>2, <1>6, <2>2, <3>1, DataWritten DEF DataRequests!RunApproved
  <2> QED
    BY <2>1, <2>2
<1>7. ASSUME DataRequests!LinkExpires PROVE DataInv'
  <2>1. PrivacyOK([rqPrivacy EXCEPT !.link = FALSE])
    BY <1>1 DEF PrivacyOK, DataRequests!PrivacyRow
  <2> QED
    BY <1>1, <1>2, <1>7, <2>1, DataWritten DEF DataRequests!LinkExpires
<1> QED
  BY <1>3, <1>4, <1>5, <1>6, <1>7

\* Incidents are opened and edited.
LEMMA DataIncidents ==
    ASSUME DataInv
    PROVE  /\ \A severity \in {"low", "critical"} : DataRequests!IncidentCreate(severity) => DataInv'
           /\ \A r \in Actors, role \in {"operations", "admin"}, severity \in {"low", "critical"},
                 status \in {"open", "resolved"} :
                  DataRequests!IncidentBegin(r, role, severity, status) => DataInv'
           /\ \A r \in Actors : DataRequests!IncidentEnd(r) => DataInv'
<1>1. ASSUME NEW row \in DataRequests!IncidentRow, DataRequests!IncidentStep(row),
             DOMAIN rqReq' = Actors, \A r \in Actors : DataReqOK(rqReq'[r])
      PROVE  DataInv'
  BY <1>1 DEF DataInv, DataRequests!IncidentStep
<1>2. ASSUME NEW severity \in {"low", "critical"}, DataRequests!IncidentCreate(severity) PROVE DataInv'
  <2>1. [severity |-> severity, status |-> "open", by |-> ""] \in DataRequests!IncidentRow
    BY DEF DataRequests!IncidentRow
  <2> QED
    BY <1>1, <1>2, <2>1 DEF DataRequests!IncidentCreate, DataInv
<1>3. ASSUME NEW r \in Actors, NEW role \in {"operations", "admin"}, NEW severity \in {"low", "critical"},
             NEW status \in {"open", "resolved"}, DataRequests!IncidentBegin(r, role, severity, status)
      PROVE  DataInv'
  <2> DEFINE by == IF status = "resolved" THEN role ELSE ""
             row == [severity |-> severity, status |-> status, by |-> by]
  <2>1. DataReqOK([at |-> "incident", row |-> row])
    BY DEF DataReqOK, DataRequests!IncidentRow
  <2>2. DOMAIN rqReq' = Actors /\ \A q \in Actors : DataReqOK(rqReq'[q])
    BY <1>3, <2>1 DEF DataInv, DataRequests!IncidentBegin, DataRequests!Begin
  <2> QED
    BY <1>1, <1>3, <2>2 DEF DataRequests!IncidentBegin, DataInv
<1>4. ASSUME NEW r \in Actors, DataRequests!IncidentEnd(r) PROVE DataInv'
  <2>1. rqReq[r].row \in DataRequests!IncidentRow
    BY <1>4 DEF DataRequests!IncidentEnd, DataRequests!End, DataInv, DataReqOK, DataRequests!Idle
  <2>2. DOMAIN rqReq' = Actors /\ \A q \in Actors : DataReqOK(rqReq'[q])
    BY <1>4 DEF DataInv, DataReqOK, DataRequests!IncidentEnd, DataRequests!End
  <2> QED
    BY <1>1, <1>4, <2>1, <2>2 DEF DataRequests!IncidentEnd
<1> QED
  BY <1>2, <1>3, <1>4

\* Every step of the part, by the lemma of its action.
LEMMA DataPart ==
    ASSUME DataInv, DataRequestsSteps
    PROVE  DataInv' /\ focus = "data_requests" /\ UNCHANGED focus
  BY DataCreated, DataDecided, DataIncidents DEF DataRequestsSteps, Keep4

\* The invariant is what the run checks of the part, and more.
LEMMA DataHolds == DataInv => DataRequests!DestructiveNeedsTwo /\ DataRequests!RequestsTypeOK
  BY DEF DataInv, PrivacyOK, DataReqOK, DataRequests!DestructiveNeedsTwo, DataRequests!RequestsTypeOK

-----------------------------------------------------------------------------
(* The legacy jobs.  The rows by the names module Jobs gives them.         *)
jbJob == row1
jbCounter == row2
jbLead == row3
jbReq == row4
jbEdits == row5

USE DEF jbJob, jbCounter, jbLead, jbReq, jbEdits

\* A job, stored or read.
JobOK(job) ==
    /\ job \in Jobs!JobRow
    /\ job.number > 0
    /\ job.time => job.date

JobReqOK(r) ==
    \/ jbReq[r] = Jobs!Idle
    \/ /\ jbReq[r] \in [at: {"create"}, number: Nat]
       /\ jbCounter.lock = r /\ jbReq[r].number = jbCounter.last + 1
    \/ /\ jbReq[r] \in [at: {"edit"}, job: JobRows, copy: Jobs!JobRow]
       /\ JobOK(jbReq[r].copy) /\ jbReq[r].job \in Jobs!Stored

\* The counter is at least the number of every job, and no number is given twice.
NumbersOK ==
    /\ \A j \in Jobs!Stored : jbJob[j].number <= jbCounter.last
    /\ Jobs!NumbersDistinct

JobsInv ==
    /\ DOMAIN jbJob = JobRows /\ \A j \in JobRows : jbJob[j] = Jobs!NoJob \/ JobOK(jbJob[j])
    /\ jbCounter \in [last: Nat, lock: Actors \cup {""}]
    /\ NumbersOK
    /\ jbLead \in Jobs!LeadNames
    /\ jbEdits \in 0 .. MaxEdits
    /\ DOMAIN jbReq = Actors /\ \A r \in Actors : JobReqOK(r)

LEMMA JobIsStored ==
    ASSUME NEW job, JobOK(job)
    PROVE  job # Jobs!NoJob
  BY DEF JobOK, Jobs!NoJob

\* The initial states satisfy the invariant.
LEMMA JobsStarts == Jobs!JobsInit => JobsInv
<1> SUFFICES ASSUME Jobs!JobsInit PROVE JobsInv
  OBVIOUS
<1>7. 0 \in 0 .. MaxEdits
  BY JobsAssumption
<1> USE DEF Jobs!JobsInit
<1>1. Jobs!Stored = {}
  BY DEF Jobs!Stored
<1>2. NumbersOK
  BY <1>1 DEF NumbersOK, Jobs!NumbersDistinct
<1>3. jbCounter \in [last: Nat, lock: Actors \cup {""}]
  <2>1. 0 \in Nat
    OBVIOUS
  <2> QED
    BY <2>1, Zenon
<1>6. jbEdits \in 0 .. MaxEdits
  BY <1>7
<1>4. jbLead \in Jobs!LeadNames
  BY DEF Jobs!LeadNames
<1>5. \A r \in Actors : JobReqOK(r)
  BY DEF JobReqOK
<1> QED
  BY <1>2, <1>3, <1>4, <1>5, <1>6 DEF JobsInv

-----------------------------------------------------------------------------
\* The rule for purchase orders keeps a row a row, and touches nothing else.
LEMMA PolicyKeeps ==
    ASSUME NEW job \in Jobs!JobRow
    PROVE  /\ Jobs!ApplyPoPolicy(job) \in Jobs!JobRow
           /\ Jobs!ApplyPoPolicy(job).number = job.number
           /\ Jobs!ApplyPoPolicy(job).date = job.date
           /\ Jobs!ApplyPoPolicy(job).time = job.time
<1>1. CASE ~job.builder
  BY <1>1 DEF Jobs!ApplyPoPolicy
<1>2. CASE job.builder
  <2> DEFINE po == IF job.po \notin {"not_required", "missing"} THEN job.po
                   ELSE IF job.note THEN "received" ELSE "missing"
  <2>1. po \in Jobs!PoRecStatus
    BY DEF Jobs!JobRow, Jobs!PoRecStatus
  <2>2. Jobs!ApplyPoPolicy(job) = [job EXCEPT !.required = TRUE, !.po = po]
    BY <1>2 DEF Jobs!ApplyPoPolicy, Jobs!JobRow
  <2> HIDE DEF po
  <2> QED
    BY <2>1, <2>2 DEF Jobs!JobRow
<1> QED
  BY <1>1, <1>2

\* The columns a save may write: never the number, the date with its time.
Columns(fields) == "number" \notin fields /\ ("date" \in fields <=> "time" \in fields)

\* Whatever the row became meanwhile, the saved columns of a good copy leave
\* it good, under its number.
LEMMA SaveKeeps ==
    ASSUME NEW row, JobOK(row), NEW edited \in Jobs!JobRow, edited.time => edited.date,
           NEW fields, Columns(fields)
    PROVE  JobOK(Jobs!Save(row, edited, fields)) /\ Jobs!Save(row, edited, fields).number = row.number
<1> DEFINE kept == Jobs!ApplyPoPolicy(edited)
           saved == IF kept = edited THEN fields ELSE fields \cup {"required", "po"}
           new == [f \in DOMAIN row |-> IF f \in saved THEN kept[f] ELSE row[f]]
<1>1. kept \in Jobs!JobRow /\ (kept.time => kept.date)
  BY PolicyKeeps
<1>2. "number" \notin saved /\ ("date" \in saved <=> "time" \in saved)
  BY DEF Columns
<1>3. Jobs!Save(row, edited, fields) = new
  BY DEF Jobs!Save
<1>4. row \in Jobs!JobRow /\ row.number > 0 /\ (row.time => row.date)
  BY DEF JobOK
<1> HIDE DEF kept, saved
<1>5. new.number = row.number
  BY <1>2, <1>4 DEF Jobs!JobRow
<1>6. new.time => new.date
  BY <1>1, <1>2, <1>4 DEF Jobs!JobRow
<1>7. new \in Jobs!JobRow
  <2>1. \A f \in DOMAIN row : new[f] = kept[f] \/ new[f] = row[f]
    OBVIOUS
  <2>2. DOMAIN new = DOMAIN row /\ new = [f \in DOMAIN row |-> new[f]]
    OBVIOUS
  <2> HIDE DEF new
  <2>3. DOMAIN row = {"number", "status", "urgent", "seen", "date", "time", "crew", "user", "reopened",
                      "builder", "note", "required", "po"}
    BY <1>4 DEF Jobs!JobRow
  <2>4. /\ new.number \in Nat /\ new.status \in Jobs!JobStatus /\ new.urgent \in BOOLEAN
        /\ new.seen \in BOOLEAN /\ new.date \in BOOLEAN /\ new.time \in BOOLEAN
        /\ new.crew \in Jobs!LeadNames \cup {""} /\ new.user \in BOOLEAN /\ new.reopened \in Nat
        /\ new.builder \in BOOLEAN /\ new.note \in BOOLEAN /\ new.required \in BOOLEAN
        /\ new.po \in Jobs!PoRecStatus
    BY <1>1, <1>4, <2>1, <2>3 DEF Jobs!JobRow
  <2> QED
    BY <2>2, <2>3, <2>4 DEF Jobs!JobRow
<1> QED
  BY <1>3, <1>4, <1>5, <1>6, <1>7 DEF JobOK

-----------------------------------------------------------------------------
\* Rows change, but none is added or renumbered.
LEMMA JobsRewritten ==
    ASSUME JobsInv, DOMAIN jbJob' = JobRows,
           \A j \in JobRows : \/ jbJob'[j] = jbJob[j]
                              \/ j \in Jobs!Stored /\ JobOK(jbJob'[j]) /\ jbJob'[j].number = jbJob[j].number,
           jbCounter' = jbCounter, jbLead' \in Jobs!LeadNames, jbEdits' = jbEdits,
           DOMAIN jbReq' = Actors, \A r \in Actors : jbReq'[r] = jbReq[r] \/ jbReq'[r] = Jobs!Idle
    PROVE  JobsInv'
<1>1. Jobs!Stored' = Jobs!Stored
  BY JobIsStored DEF Jobs!Stored, JobsInv
<1>2. \A j \in Jobs!Stored : jbJob'[j].number = jbJob[j].number
  BY DEF Jobs!Stored
<1>3. NumbersOK'
  <2>1. NumbersOK
    BY DEF JobsInv
  <2>2. \A j \in Jobs!Stored' : jbJob'[j].number <= jbCounter'.last
    BY <1>1, <1>2, <2>1 DEF NumbersOK
  <2>3. Jobs!NumbersDistinct'
    BY <1>1, <1>2, <2>1 DEF NumbersOK, Jobs!NumbersDistinct
  <2> QED
    BY <2>2, <2>3 DEF NumbersOK
<1>4. \A r \in Actors : JobReqOK(r)'
  BY <1>1 DEF JobsInv, JobReqOK, JobOK
<1>5. \A j \in JobRows : jbJob'[j] = Jobs!NoJob \/ JobOK(jbJob'[j])
  BY DEF JobsInv, Jobs!Stored
<1> QED
  BY <1>3, <1>4, <1>5 DEF JobsInv, JobOK

\* A request edits the copy it read.
LEMMA JobEdits ==
    ASSUME JobsInv, NEW r \in Actors, Jobs!Editing(r)
    PROVE  /\ jbReq[r].copy \in Jobs!JobRow /\ jbReq[r].job \in JobRows
           /\ jbReq[r].copy.time => jbReq[r].copy.date
           /\ jbReq[r].job \in Jobs!Stored
<1>1. JobReqOK(r) /\ jbReq[r].at = "edit"
  BY DEF JobsInv, Jobs!Editing
<1>2. jbReq[r] \in [at: {"edit"}, job: JobRows, copy: Jobs!JobRow] /\ JobOK(jbReq[r].copy)
      /\ jbReq[r].job \in Jobs!Stored
  BY <1>1 DEF JobReqOK, Jobs!Idle
<1>3. jbReq[r].copy.time => jbReq[r].copy.date
  BY <1>2 DEF JobOK
<1> QED
  BY <1>2, <1>3

\* A request that creates a job holds the lock and the next number.
LEMMA JobNumbered ==
    ASSUME JobsInv, NEW r \in Actors, jbReq[r].at = "create"
    PROVE  /\ jbReq[r] \in [at: {"create"}, number: Nat]
           /\ jbCounter.lock = r /\ jbReq[r].number = jbCounter.last + 1
<1>1. JobReqOK(r)
  BY DEF JobsInv
<1> QED
  BY <1>1 DEF JobReqOK, Jobs!Idle

\* An edit is saved.
LEMMA JobSaved ==
    ASSUME JobsInv, NEW r \in Actors, Jobs!Editing(r), NEW edited \in Jobs!JobRow,
           edited.time => edited.date, NEW fields, Columns(fields), Jobs!EditEnd(r, edited, fields)
    PROVE  JobsInv'
<1> DEFINE j == jbReq[r].job
<1>1. j \in JobRows /\ j \in Jobs!Stored /\ JobOK(jbJob[j])
  BY JobEdits DEF JobsInv, Jobs!Stored
<1>2. jbJob' = [jbJob EXCEPT ![j] = Jobs!Save(jbJob[j], edited, fields)]
  BY <1>1 DEF Jobs!EditEnd, JobsInv
<1>3. /\ JobOK(Jobs!Save(jbJob[j], edited, fields))
      /\ Jobs!Save(jbJob[j], edited, fields).number = jbJob[j].number
  BY <1>1, SaveKeeps
<1> HIDE DEF j
<1>4. /\ DOMAIN jbJob' = JobRows
      /\ \A i \in JobRows : \/ jbJob'[i] = jbJob[i]
                            \/ i \in Jobs!Stored /\ JobOK(jbJob'[i]) /\ jbJob'[i].number = jbJob[i].number
  BY <1>1, <1>2, <1>3 DEF JobsInv
<1>5. /\ UNCHANGED <<jbCounter, jbLead, jbEdits>>
      /\ DOMAIN jbReq' = Actors /\ \A q \in Actors : jbReq'[q] = jbReq[q] \/ jbReq'[q] = Jobs!Idle
  BY DEF Jobs!EditEnd, JobsInv
<1> QED
  BY <1>4, <1>5, JobsRewritten DEF JobsInv

\* The edits of a status or a flag.
LEMMA JobFlags ==
    ASSUME JobsInv, NEW r \in Actors
    PROVE  /\ \A status \in Statuses : Jobs!UpdateStatus(r, status) => JobsInv'
           /\ Jobs!UpdatePriority(r) \/ Jobs!SetSeen(r) \/ Jobs!ReopenJob(r) => JobsInv'
           /\ \A user \in BOOLEAN : Jobs!Assign(r, user) => JobsInv'
           /\ Jobs!EditDropped(r) => JobsInv'
<1> DEFINE copy == jbReq[r].copy
<1>0. ASSUME Jobs!Editing(r) PROVE copy \in Jobs!JobRow /\ (copy.time => copy.date)
  BY <1>0, JobEdits
<1>1. ASSUME NEW status \in Statuses, Jobs!UpdateStatus(r, status) PROVE JobsInv'
  <2> DEFINE edited == [copy EXCEPT !.status = status]
  <2>1. Jobs!Editing(r) /\ Jobs!EditEnd(r, edited, {"status"})
    BY <1>1 DEF Jobs!UpdateStatus
  <2>2. edited \in Jobs!JobRow /\ (edited.time => edited.date)
    BY <1>0, <2>1, JobsAssumption DEF Jobs!JobRow
  <2>3. Columns({"status"})
    BY DEF Columns
  <2> QED
    BY <2>1, <2>2, <2>3, JobSaved
<1>2. ASSUME Jobs!UpdatePriority(r) PROVE JobsInv'
  <2> DEFINE edited == [copy EXCEPT !.urgent = ~@]
  <2>1. Jobs!Editing(r) /\ Jobs!EditEnd(r, edited, {"urgent"})
    BY <1>2 DEF Jobs!UpdatePriority
  <2>2. edited \in Jobs!JobRow /\ (edited.time => edited.date)
    BY <1>0, <2>1 DEF Jobs!JobRow
  <2>3. Columns({"urgent"})
    BY DEF Columns
  <2> QED
    BY <2>1, <2>2, <2>3, JobSaved
<1>3. ASSUME Jobs!SetSeen(r) PROVE JobsInv'
  <2> DEFINE edited == [copy EXCEPT !.seen = ~@]
  <2>1. Jobs!Editing(r) /\ Jobs!EditEnd(r, edited, {"seen"})
    BY <1>3 DEF Jobs!SetSeen
  <2>2. edited \in Jobs!JobRow /\ (edited.time => edited.date)
    BY <1>0, <2>1 DEF Jobs!JobRow
  <2>3. Columns({"seen"})
    BY DEF Columns
  <2> QED
    BY <2>1, <2>2, <2>3, JobSaved
<1>4. ASSUME Jobs!ReopenJob(r) PROVE JobsInv'
  <2> DEFINE edited == [copy EXCEPT !.status = "reopened", !.reopened = @ + 1]
  <2>1. Jobs!Editing(r) /\ Jobs!EditEnd(r, edited, {"status", "reopened"})
    BY <1>4 DEF Jobs!ReopenJob
  <2>2. edited \in Jobs!JobRow /\ (edited.time => edited.date)
    <3> DEFINE times == copy.reopened + 1
    <3>1. times \in Nat /\ "reopened" \in Jobs!JobStatus
      <4>1. copy.reopened \in Nat
        BY <1>0, <2>1 DEF Jobs!JobRow
      <4> QED
        BY <4>1 DEF Jobs!JobStatus
    <3>2. edited = [copy EXCEPT !.status = "reopened", !.reopened = times]
      BY <1>0, <2>1 DEF Jobs!JobRow
    <3> HIDE DEF edited, times, copy
    <3> QED
      BY <1>0, <2>1, <3>1, <3>2 DEF Jobs!JobRow
  <2>3. Columns({"status", "reopened"})
    BY DEF Columns
  <2> QED
    BY <2>1, <2>2, <2>3, JobSaved
<1>5. ASSUME NEW user \in BOOLEAN, Jobs!Assign(r, user) PROVE JobsInv'
  <2> DEFINE edited == [copy EXCEPT !.user = user]
  <2>1. Jobs!Editing(r) /\ Jobs!EditEnd(r, edited, {"user"})
    BY <1>5 DEF Jobs!Assign
  <2>2. edited \in Jobs!JobRow /\ (edited.time => edited.date)
    BY <1>0, <2>1 DEF Jobs!JobRow
  <2>3. Columns({"user"})
    BY DEF Columns
  <2> QED
    BY <2>1, <2>2, <2>3, JobSaved
<1>6. ASSUME Jobs!EditDropped(r) PROVE JobsInv'
  <2>1. /\ DOMAIN jbReq' = Actors /\ \A q \in Actors : jbReq'[q] = jbReq[q] \/ jbReq'[q] = Jobs!Idle
        /\ UNCHANGED <<jbJob, jbCounter, jbLead, jbEdits>>
    BY <1>6 DEF Jobs!EditDropped, JobsInv
  <2> QED
    BY <2>1, JobsRewritten DEF JobsInv
<1> QED
  BY <1>1, <1>2, <1>3, <1>4, <1>5, <1>6

\* The edits of the schedule and of several columns.
LEMMA JobForms ==
    ASSUME JobsInv, NEW r \in Actors
    PROVE  /\ \A time \in BOOLEAN, crew \in {"", jbLead} : Jobs!ScheduleJob(r, time, crew) => JobsInv'
           /\ Jobs!UnscheduleJob(r) \/ Jobs!MarkReadyToSchedule(r) => JobsInv'
           /\ \A required \in BOOLEAN, po \in Jobs!PoRecStatus : Jobs!UpdatePoRec(r, required, po) => JobsInv'
           /\ \A builder, note \in BOOLEAN : Jobs!UpdateFields(r, builder, note) => JobsInv'
<1> DEFINE copy == jbReq[r].copy
<1>0. ASSUME Jobs!Editing(r) PROVE copy \in Jobs!JobRow /\ (copy.time => copy.date)
  BY <1>0, JobEdits
<1>1. ASSUME NEW time \in BOOLEAN, NEW crew \in {"", jbLead}, Jobs!ScheduleJob(r, time, crew) PROVE JobsInv'
  <2> DEFINE status == Jobs!Scheduled(copy.status)
             team == IF crew = "" THEN copy.crew ELSE crew
             edited == [copy EXCEPT !.date = TRUE, !.time = time, !.status = status, !.crew = team]
             fields == {"date", "time", "crew", "status"}
  <2>1. Jobs!Editing(r)
    BY <1>1 DEF Jobs!ScheduleJob
  <2>2. Jobs!EditEnd(r, edited, fields)
    BY <1>0, <1>1, <2>1 DEF Jobs!ScheduleJob, Jobs!JobRow
  <2>3. status \in Jobs!JobStatus /\ team \in Jobs!LeadNames \cup {""}
    BY <1>0, <2>1 DEF Jobs!Scheduled, Jobs!JobRow, Jobs!JobStatus, JobsInv
  <2> HIDE DEF status, team, copy
  <2>4. edited \in Jobs!JobRow /\ edited.date
    BY <1>0, <2>1, <2>3 DEF Jobs!JobRow
  <2>5. Columns(fields)
    BY DEF Columns
  <2> QED
    BY <2>1, <2>2, <2>4, <2>5, JobSaved
<1>2. ASSUME Jobs!UnscheduleJob(r) PROVE JobsInv'
  <2> DEFINE status == IF copy.status = "scheduled" THEN "pending_review" ELSE copy.status
             edited == [copy EXCEPT !.date = FALSE, !.time = FALSE, !.status = status]
             fields == {"date", "time", "status"}
  <2>1. Jobs!Editing(r)
    BY <1>2 DEF Jobs!UnscheduleJob
  <2>2. Jobs!EditEnd(r, edited, fields)
    BY <1>0, <1>2, <2>1 DEF Jobs!UnscheduleJob, Jobs!JobRow
  <2>3. status \in Jobs!JobStatus
    BY <1>0, <2>1 DEF Jobs!JobRow, Jobs!JobStatus
  <2> HIDE DEF status, copy
  <2>4. edited \in Jobs!JobRow /\ ~edited.time
    BY <1>0, <2>1, <2>3 DEF Jobs!JobRow
  <2>5. Columns(fields)
    BY DEF Columns
  <2> QED
    BY <2>1, <2>2, <2>4, <2>5, JobSaved
<1>3. ASSUME Jobs!MarkReadyToSchedule(r) PROVE JobsInv'
  <2> DEFINE edited == [copy EXCEPT !.status = "prioritized", !.date = FALSE, !.time = FALSE,
                                    !.user = FALSE, !.crew = ""]
             fields == {"status", "date", "time", "user", "crew"}
  <2>1. Jobs!Editing(r)
    BY <1>3 DEF Jobs!MarkReadyToSchedule
  <2>2. Jobs!EditEnd(r, edited, fields)
    BY <1>3 DEF Jobs!MarkReadyToSchedule
  <2> HIDE DEF copy
  <2>4. edited \in Jobs!JobRow /\ ~edited.time
    BY <1>0, <2>1 DEF Jobs!JobRow, Jobs!JobStatus
  <2>5. Columns(fields)
    BY DEF Columns
  <2> QED
    BY <2>1, <2>2, <2>4, <2>5, JobSaved
<1>4. ASSUME NEW required \in BOOLEAN, NEW po \in Jobs!PoRecStatus, Jobs!UpdatePoRec(r, required, po) PROVE JobsInv'
  <2> DEFINE edited == [copy EXCEPT !.required = required, !.po = po]
  <2>1. PICK fields \in SUBSET {"required", "po"} : Jobs!Editing(r) /\ Jobs!EditEnd(r, edited, fields)
    BY <1>4 DEF Jobs!UpdatePoRec
  <2> HIDE DEF copy
  <2>2. edited \in Jobs!JobRow /\ (edited.time => edited.date)
    BY <1>0, <2>1 DEF Jobs!JobRow
  <2>3. Columns(fields)
    BY DEF Columns
  <2> QED
    BY <2>1, <2>2, <2>3, JobSaved
<1>5. ASSUME NEW builder \in BOOLEAN, NEW note \in BOOLEAN, Jobs!UpdateFields(r, builder, note) PROVE JobsInv'
  <2> DEFINE edited == [copy EXCEPT !.builder = builder, !.note = note]
  <2>1. PICK fields \in SUBSET {"builder", "note"} : Jobs!Editing(r) /\ Jobs!EditEnd(r, edited, fields)
    BY <1>5 DEF Jobs!UpdateFields
  <2> HIDE DEF copy
  <2>2. edited \in Jobs!JobRow /\ (edited.time => edited.date)
    BY <1>0, <2>1 DEF Jobs!JobRow
  <2>3. Columns(fields)
    BY DEF Columns
  <2> QED
    BY <2>1, <2>2, <2>3, JobSaved
<1> QED
  BY <1>1, <1>2, <1>3, <1>4, <1>5

-----------------------------------------------------------------------------
\* A number is taken under the counter's lock, and a job stored with it.
LEMMA JobsCreated ==
    ASSUME JobsInv, NEW r \in Actors
    PROVE  /\ Jobs!CreateBegin(r) => JobsInv'
           /\ Jobs!CreateFails(r) => JobsInv'
           /\ \A j \in JobRows, builder, note, required \in BOOLEAN :
                  Jobs!CreateEnd(r, j, builder, note, required) => JobsInv'
           /\ \A j \in JobRows : Jobs!EditBegin(r, j) => JobsInv'
<1>0. /\ jbCounter \in [last: Nat, lock: Actors \cup {""}]
      /\ \A q \in Actors : JobReqOK(q)
  BY DEF JobsInv
<1>1. ASSUME Jobs!CreateBegin(r) PROVE JobsInv'
  <2>1. jbCounter' \in [last: Nat, lock: Actors \cup {""}] /\ jbCounter'.last = jbCounter.last /\ jbCounter'.lock = r
    BY <1>0, <1>1 DEF Jobs!CreateBegin
  <2>2. DOMAIN jbReq' = Actors /\ jbReq'[r] = [at |-> "create", number |-> jbCounter.last + 1]
    BY <1>1 DEF Jobs!CreateBegin, JobsInv
  <2>3. UNCHANGED <<jbJob, jbLead, jbEdits>> /\ Jobs!Stored' = Jobs!Stored
    BY <1>1 DEF Jobs!CreateBegin, Jobs!Stored
  <2>4. ASSUME NEW q \in Actors PROVE JobReqOK(q)'
    <3>1. CASE q = r
      <4>1. jbCounter.last + 1 \in Nat
        <5>1. jbCounter.last \in Nat
          BY <1>0
        <5> QED
          BY <5>1
      <4>2. /\ jbReq'[q] \in [at: {"create"}, number: Nat] /\ jbReq'[q].number = jbCounter.last + 1
            /\ jbCounter'.lock = q
        <5>1. jbReq'[q] = [at |-> "create", number |-> jbCounter.last + 1] /\ jbCounter'.lock = q
          BY <2>1, <2>2, <3>1
        <5> QED
          BY <4>1, <5>1
      <4> QED
        BY <2>1, <4>2 DEF JobReqOK
    <3>2. CASE q # r
      <4>1. jbReq'[q] = jbReq[q] /\ jbCounter.lock # q
        BY <1>1, <3>2, LockAssumption DEF Jobs!CreateBegin, JobsInv
      <4> QED
        BY <1>0, <2>3, <4>1 DEF JobReqOK, JobOK
    <3> QED
      BY <3>1, <3>2
  <2>5. NumbersOK'
    BY <2>1, <2>3 DEF JobsInv, NumbersOK, Jobs!NumbersDistinct
  <2> QED
    BY <2>1, <2>2, <2>3, <2>4, <2>5 DEF JobsInv, JobOK
<1>2. ASSUME NEW number \in Nat, jbReq[r].at = "create", jbCounter' = [last |-> number, lock |-> ""],
             jbReq' = [jbReq EXCEPT ![r] = Jobs!Idle], Jobs!Stored \subseteq Jobs!Stored'
      PROVE  DOMAIN jbReq' = Actors /\ \A q \in Actors : JobReqOK(q)'
  <2>1. DOMAIN jbReq' = Actors
    BY <1>2 DEF JobsInv
  <2>2. jbCounter.lock = r
    BY <1>2, JobNumbered
  <2>3. ASSUME NEW q \in Actors PROVE JobReqOK(q)'
    <3>1. CASE q = r
      BY <1>2, <2>1, <3>1 DEF JobReqOK, JobsInv
    <3>2. CASE q # r
      <4>1. jbReq'[q] = jbReq[q] /\ jbCounter.lock # q
        BY <1>2, <2>2, <3>2 DEF JobsInv
      <4> QED
        BY <1>0, <1>2, <4>1 DEF JobReqOK, JobOK
    <3> QED
      BY <3>1, <3>2
  <2> QED
    BY <2>1, <2>3
<1>3. ASSUME Jobs!CreateFails(r) PROVE JobsInv'
  <2>1. jbCounter' = [last |-> jbCounter.last, lock |-> ""] /\ jbCounter.last \in Nat
    BY <1>0, <1>3 DEF Jobs!CreateFails
  <2>2. UNCHANGED <<jbJob, jbLead, jbEdits>> /\ Jobs!Stored' = Jobs!Stored
    BY <1>3 DEF Jobs!CreateFails, Jobs!Stored
  <2>3. DOMAIN jbReq' = Actors /\ \A q \in Actors : JobReqOK(q)'
    BY <1>2, <1>3, <2>1, <2>2 DEF Jobs!CreateFails
  <2>4. NumbersOK'
    BY <2>1, <2>2 DEF JobsInv, NumbersOK, Jobs!NumbersDistinct
  <2> QED
    BY <2>1, <2>2, <2>3, <2>4 DEF JobsInv, JobOK
<1>4. ASSUME NEW j \in JobRows, NEW builder \in BOOLEAN, NEW note \in BOOLEAN, NEW required \in BOOLEAN,
             Jobs!CreateEnd(r, j, builder, note, required)
      PROVE  JobsInv'
  <2> DEFINE number == jbReq[r].number
             job == Jobs!Created(number, builder, note, required)
  <2>1. number \in Nat /\ number = jbCounter.last + 1 /\ jbCounter.last \in Nat
    BY <1>0, <1>4, JobNumbered DEF Jobs!CreateEnd
  <2>2. JobOK(job) /\ job.number = number
    <3> HIDE DEF number
    <3> DEFINE plain == [number |-> number, status |-> "new", urgent |-> FALSE, seen |-> FALSE,
                         date |-> FALSE, time |-> FALSE, crew |-> "", user |-> FALSE, reopened |-> 0,
                         builder |-> builder, note |-> note, required |-> required, po |-> "not_required"]
    <3>1. plain \in Jobs!JobRow /\ plain.number = number /\ ~plain.time
      BY <2>1 DEF Jobs!JobRow, Jobs!JobStatus, Jobs!PoRecStatus
    <3>2. job = Jobs!ApplyPoPolicy(plain)
      BY DEF Jobs!Created
    <3> HIDE DEF plain
    <3>3. job \in Jobs!JobRow /\ job.number = number /\ ~job.time
      BY <3>1, <3>2, PolicyKeeps
    <3> QED
      BY <2>1, <3>3 DEF JobOK
  <2>3. /\ j \notin Jobs!Stored
        /\ jbJob' = [jbJob EXCEPT ![j] = job]
        /\ jbCounter' = [last |-> number, lock |-> ""]
        /\ jbReq' = [jbReq EXCEPT ![r] = Jobs!Idle] /\ jbReq[r].at = "create"
        /\ UNCHANGED <<jbLead, jbEdits>>
    BY <1>4 DEF Jobs!CreateEnd
  <2> HIDE DEF number, job
  <2>4. Jobs!Stored' = Jobs!Stored \cup {j}
    BY <2>2, <2>3, JobIsStored DEF Jobs!Stored, JobsInv
  <2>5. DOMAIN jbReq' = Actors /\ \A q \in Actors : JobReqOK(q)'
    BY <1>2, <2>1, <2>3, <2>4
  <2>6. \A i \in Jobs!Stored : jbJob'[i] = jbJob[i] /\ jbJob[i].number \in Nat /\ jbJob[i].number <= jbCounter.last
    BY <2>3 DEF JobsInv, NumbersOK, Jobs!Stored, JobOK, Jobs!JobRow
  <2>7. jbJob'[j] = job
    BY <2>3 DEF JobsInv
  <2>8. NumbersOK'
    <3>1. Jobs!NumbersDistinct /\ jbCounter'.last = number
      BY <2>3 DEF JobsInv, NumbersOK
    <3>2. \A i \in Jobs!Stored' : jbJob'[i].number <= jbCounter'.last
      BY <2>1, <2>2, <2>4, <2>6, <2>7, <3>1
    <3>3. \A i, k \in Jobs!Stored' : i # k => jbJob'[i].number # jbJob'[k].number
      BY <2>1, <2>2, <2>4, <2>6, <2>7, <3>1 DEF Jobs!NumbersDistinct
    <3> QED
      BY <3>2, <3>3 DEF NumbersOK, Jobs!NumbersDistinct
  <2>9. DOMAIN jbJob' = JobRows /\ \A i \in JobRows : jbJob'[i] = Jobs!NoJob \/ JobOK(jbJob'[i])
    BY <2>2, <2>3 DEF JobsInv
  <2> QED
    BY <2>1, <2>3, <2>5, <2>8, <2>9 DEF JobsInv, JobOK
<1>5. ASSUME NEW j \in JobRows, Jobs!EditBegin(r, j) PROVE JobsInv'
  <2>1. /\ DOMAIN jbReq' = Actors /\ jbReq'[r] = [at |-> "edit", job |-> j, copy |-> jbJob[j]]
        /\ \A q \in Actors : q # r => jbReq'[q] = jbReq[q]
        /\ UNCHANGED <<jbJob, jbCounter, jbLead>> /\ Jobs!Stored' = Jobs!Stored
    BY <1>5 DEF Jobs!EditBegin, JobsInv, Jobs!Stored
  <2>2. JobOK(jbJob[j]) /\ j \in Jobs!Stored
    BY <1>5 DEF Jobs!EditBegin, JobsInv, Jobs!Stored
  <2>3. ASSUME NEW q \in Actors PROVE JobReqOK(q)'
    <3>1. CASE q = r
      <4>1. jbReq'[q] \in [at: {"edit"}, job: JobRows, copy: Jobs!JobRow] /\ jbReq'[q].job = j /\ jbReq'[q].copy = jbJob[j]
        BY <2>1, <2>2, <3>1 DEF JobOK
      <4>2. JobOK(jbReq'[q].copy) /\ jbReq'[q].job \in Jobs!Stored'
        BY <2>1, <2>2, <4>1
      <4> QED
        BY <4>1, <4>2 DEF JobReqOK, JobOK
    <3>2. CASE q # r
      BY <1>0, <2>1, <3>2 DEF JobReqOK, JobOK
    <3> QED
      BY <3>1, <3>2
  <2>4. jbEdits' \in 0 .. MaxEdits
    <3>1. jbEdits \in 0 .. MaxEdits /\ jbEdits < MaxEdits /\ jbEdits' = jbEdits + 1
      BY <1>5 DEF Jobs!EditBegin, JobsInv
    <3> QED
      BY <3>1, JobsAssumption
  <2>5. NumbersOK'
    BY <2>1 DEF JobsInv, NumbersOK, Jobs!NumbersDistinct
  <2> QED
    BY <2>1, <2>3, <2>4, <2>5 DEF JobsInv, JobOK
<1> QED
  BY <1>1, <1>3, <1>4, <1>5

\* Jobs follow their lead by name.
LEMMA JobsRenamed ==
    ASSUME JobsInv, Jobs!RenameLead
    PROVE  JobsInv'
<1>1. ASSUME NEW j \in JobRows
      PROVE  \/ jbJob'[j] = jbJob[j]
             \/ j \in Jobs!Stored /\ JobOK(jbJob'[j]) /\ jbJob'[j].number = jbJob[j].number
  <2>1. CASE j \in Jobs!Stored /\ jbJob[j].crew = "lead"
    <3>1. jbJob'[j] = [jbJob[j] EXCEPT !.crew = "renamed"] /\ JobOK(jbJob[j])
      BY <2>1 DEF Jobs!RenameLead, JobsInv, Jobs!Stored
    <3>2. "renamed" \in Jobs!LeadNames \cup {""}
      BY DEF Jobs!LeadNames
    <3>3. jbJob'[j] \in Jobs!JobRow /\ jbJob'[j].number = jbJob[j].number /\ (jbJob'[j].time => jbJob'[j].date)
      BY <3>1, <3>2 DEF JobOK, Jobs!JobRow
    <3> QED
      BY <2>1, <3>1, <3>3 DEF JobOK
  <2> QED
    BY <2>1 DEF Jobs!RenameLead
<1>2. DOMAIN jbJob' = JobRows /\ jbLead' \in Jobs!LeadNames /\ UNCHANGED <<jbCounter, jbReq, jbEdits>>
  BY DEF Jobs!RenameLead, Jobs!LeadNames
<1> QED
  BY <1>1, <1>2, JobsRewritten DEF JobsInv

\* Every step of the part, by the lemma of its action.
LEMMA JobsPart ==
    ASSUME JobsInv, JobsSteps
    PROVE  JobsInv' /\ focus = "jobs" /\ UNCHANGED focus
  BY JobFlags, JobForms, JobsCreated, JobsRenamed DEF JobsSteps, Keep5

\* The invariant is what the run checks of the part, and more.
LEMMA JobsHolds == JobsInv => Jobs!JobRowsAgree /\ Jobs!JobsTypeOK
<1> SUFFICES ASSUME JobsInv PROVE Jobs!JobRowsAgree /\ Jobs!JobsTypeOK
  OBVIOUS
<1>1. Jobs!TimeNeedsDate
  BY DEF JobsInv, JobOK, Jobs!Stored, Jobs!TimeNeedsDate
<1>2. Jobs!JobRowsAgree
  BY <1>1 DEF JobsInv, NumbersOK, Jobs!JobRowsAgree
<1>3. /\ \A j \in JobRows : jbJob[j] = Jobs!NoJob \/ jbJob[j] \in Jobs!JobRow
      /\ jbLead \in Jobs!LeadNames /\ jbEdits \in 0 .. MaxEdits
  BY DEF JobsInv, JobOK
<1>4. \A r \in Actors : jbReq[r] = Jobs!Idle \/ jbReq[r].at \in {"create", "edit"}
  BY DEF JobsInv, JobReqOK
<1>5. jbCounter.last \in Nat /\ jbCounter.lock \in Actors \cup {""}
  BY DEF JobsInv
<1> QED
  BY <1>2, <1>3, <1>4, <1>5, Zenon DEF Jobs!JobsTypeOK

-----------------------------------------------------------------------------
(* The legacy SMS assistant.  The rows by the names of module IntakeChat.  *)
ihContacts == row1
ihThread == row2
ihRow == row3
ihRuns == row4
ihSent == row5
ihJobs == row6
ihEscalated == row7
ihReq == row8

USE DEF ihContacts, ihThread, ihRow, ihRuns, ihSent, ihJobs, ihEscalated, ihReq

\* A handler knows a contact once it has found one, and then a thread there is.
ChatReqOK(req, threads) ==
    \/ req = Chat!Idle
    \/ req \in [at: {"contact", "create"}, sid: Sids]
    \/ req \in [at: {"thread", "open"}, sid: Sids, contact: Nat \ {0}]
    \/ req \in [at: {"store"}, sid: Sids, contact: Nat \ {0}, thread: 1 .. threads]
    \/ req \in [at: {"agent"}, sid: Sids, contact: Nat \ {0}, thread: 1 .. threads, steps: Nat]

TextRow == [contact: Nat, linked: BOOLEAN]

\* The assistant ran for a text at most once, and only for a stored one.
RunsOnce ==
    \A s \in Sids : ihRow[s] = Chat!NoRow => ihRuns[s] = 0

ChatRowsOK ==
    /\ ihContacts \in Nat /\ ihJobs \in Nat /\ ihEscalated \in Nat
    /\ ihRow \in [Sids -> TextRow]
    /\ ihRuns \in [Sids -> 0 .. 1] /\ RunsOnce
    /\ ihSent \in [Sids -> 0 .. 1]

ChatInv ==
    /\ ihThread \in Seq(Chat!ThreadRow)
    /\ ChatRowsOK
    /\ DOMAIN ihReq = Actors /\ \A h \in Actors : ChatReqOK(ihReq[h], Len(ihThread))

\* A handler at a place has what that place needs.
LEMMA ChatPlaces ==
    ASSUME ChatInv, NEW h \in Actors
    PROVE  /\ ihReq[h].at \in {"contact", "create"} => ihReq[h].sid \in Sids
           /\ ihReq[h].at \in {"thread", "open"} =>
                  ihReq[h] \in [at: {"thread", "open"}, sid: Sids, contact: Nat \ {0}]
           /\ ihReq[h].at = "store" =>
                  ihReq[h] \in [at: {"store"}, sid: Sids, contact: Nat \ {0}, thread: 1 .. Len(ihThread)]
           /\ ihReq[h].at = "agent" =>
                  ihReq[h] \in [at: {"agent"}, sid: Sids, contact: Nat \ {0}, thread: 1 .. Len(ihThread), steps: Nat]
<1>1. ChatReqOK(ihReq[h], Len(ihThread))
  BY DEF ChatInv
<1> QED
  BY <1>1 DEF ChatReqOK, Chat!Idle

\* The initial states satisfy the invariant.
LEMMA ChatStarts == Chat!ChatInit => ChatInv
<1> SUFFICES ASSUME Chat!ChatInit PROVE ChatInv
  OBVIOUS
<1> USE DEF Chat!ChatInit
<1>1. ihRow \in [Sids -> TextRow]
  BY DEF TextRow, Chat!NoRow
<1>2. RunsOnce /\ ihRuns \in [Sids -> 0 .. 1]
  BY DEF RunsOnce
<1>3. DOMAIN ihReq = Actors /\ \A h \in Actors : ChatReqOK(ihReq[h], Len(ihThread))
  BY DEF ChatReqOK
<1>4. ihSent \in [Sids -> 0 .. 1] /\ ihThread \in Seq(Chat!ThreadRow)
  OBVIOUS
<1> QED
  BY <1>1, <1>2, <1>3, <1>4 DEF ChatInv, ChatRowsOK

\* A handler moves, threads are added or rewritten.
LEMMA ChatMoves ==
    ASSUME ChatInv, NEW h \in Actors, NEW req,
           ihReq' = [ihReq EXCEPT ![h] = req],
           ihThread' \in Seq(Chat!ThreadRow), Len(ihThread') >= Len(ihThread),
           ChatReqOK(req, Len(ihThread')),
           ChatRowsOK'
    PROVE  ChatInv'
<1>1. ASSUME NEW q \in Actors PROVE ChatReqOK(ihReq[q], Len(ihThread'))
  <2>1. ChatReqOK(ihReq[q], Len(ihThread)) /\ Len(ihThread) \in Nat /\ Len(ihThread') \in Nat
    BY DEF ChatInv
  <2>2. 1 .. Len(ihThread) \subseteq 1 .. Len(ihThread')
    BY <2>1
  <2> QED
    BY <2>1, <2>2 DEF ChatReqOK
<1>2. DOMAIN ihReq' = Actors /\ \A q \in Actors : ChatReqOK(ihReq'[q], Len(ihThread'))
  BY <1>1 DEF ChatInv
<1> QED
  BY <1>2 DEF ChatInv

\* What most steps leave alone.
LEMMA ChatKept ==
    ASSUME ChatInv
    PROVE  /\ ihThread \in Seq(Chat!ThreadRow) /\ Len(ihThread) \in Nat
           /\ ihContacts \in Nat /\ ihJobs \in Nat /\ ihEscalated \in Nat /\ ihSent \in [Sids -> 0 .. 1]
           /\ ihRow \in [Sids -> TextRow] /\ ihRuns \in [Sids -> 0 .. 1] /\ RunsOnce
           /\ ihRow' = ihRow /\ ihRuns' = ihRuns => RunsOnce'
           /\ \A n \in Nat : ChatReqOK(Chat!Idle, n)
  BY DEF ChatInv, ChatRowsOK, RunsOnce, ChatReqOK

LEMMA ChatRowsKept ==
    ASSUME ChatInv, UNCHANGED <<ihContacts, ihRow, ihRuns, ihSent, ihJobs, ihEscalated>>
    PROVE  ChatRowsOK'
  BY DEF ChatInv, ChatRowsOK, RunsOnce

\* A handler moves, and no thread changes.
LEMMA ChatStays ==
    ASSUME ChatInv, NEW h \in Actors, NEW req, ChatReqOK(req, Len(ihThread)),
           ihReq' = [ihReq EXCEPT ![h] = req], ihThread' = ihThread, ChatRowsOK'
    PROVE  ChatInv'
<1>1. Len(ihThread') >= Len(ihThread) /\ ihThread' \in Seq(Chat!ThreadRow)
  BY ChatKept
<1> QED
  BY <1>1, ChatMoves

\* A thread is rewritten in place.
LEMMA ThreadRewritten ==
    ASSUME ChatInv, NEW n \in 1 .. Len(ihThread), NEW row, row \in Chat!ThreadRow
    PROVE  [ihThread EXCEPT ![n] = row] \in Seq(Chat!ThreadRow) /\ Len([ihThread EXCEPT ![n] = row]) = Len(ihThread)
  BY Rewritten, ChatKept

LEMMA ThreadRows ==
    ASSUME ChatInv, NEW n \in 1 .. Len(ihThread)
    PROVE  /\ [ihThread[n] EXCEPT !.open = FALSE] \in Chat!ThreadRow
           /\ [ihThread[n] EXCEPT !.old = FALSE] \in Chat!ThreadRow
           /\ [ihThread[n] EXCEPT !.old = TRUE] \in Chat!ThreadRow
           /\ [ihThread[n] EXCEPT !.job = TRUE] \in Chat!ThreadRow
           /\ [[ihThread[n] EXCEPT !.open = FALSE] EXCEPT !.old = FALSE] \in Chat!ThreadRow
<1>1. ihThread[n] \in Chat!ThreadRow
  BY DEF ChatInv
<1> QED
  BY <1>1 DEF Chat!ThreadRow

-----------------------------------------------------------------------------
\* A text comes in and finds its contact.
LEMMA ChatReceived ==
    ASSUME ChatInv, NEW h \in Actors
    PROVE  /\ \A s \in Sids : Chat!Receive(h, s) => ChatInv'
           /\ Chat!HandlerFails(h) \/ Chat!AgentStops(h) => ChatInv'
           /\ Chat!FindContact(h) => ChatInv'
           /\ Chat!CreateContact(h) => ChatInv'
<1> USE DEF Chat!Goto, Chat!End, Chat!At
<1>1. ASSUME NEW s \in Sids, Chat!Receive(h, s) PROVE ChatInv'
  <2>1. ChatReqOK([at |-> "contact", sid |-> s], Len(ihThread))
    BY DEF ChatReqOK
  <2>2. ihReq' = [ihReq EXCEPT ![h] = [at |-> "contact", sid |-> s]] /\ ihThread' = ihThread /\ ChatRowsOK'
    BY <1>1, ChatRowsKept DEF Chat!Receive
  <2> QED
    BY <2>1, <2>2, ChatStays
<1>2. ASSUME Chat!HandlerFails(h) \/ Chat!AgentStops(h) PROVE ChatInv'
  <2>1. ihReq' = [ihReq EXCEPT ![h] = Chat!Idle] /\ ihThread' = ihThread /\ ChatRowsOK'
    BY <1>2, ChatRowsKept DEF Chat!HandlerFails, Chat!AgentStops
  <2> QED
    BY <2>1, ChatKept, ChatStays
<1>3. ASSUME Chat!FindContact(h) PROVE ChatInv'
  <2> DEFINE req == IF ihContacts = 0 THEN [at |-> "create", sid |-> ihReq[h].sid]
                    ELSE [at |-> "thread", sid |-> ihReq[h].sid, contact |-> ihContacts]
  <2>1. ihReq[h].sid \in Sids
    BY <1>3, ChatPlaces DEF Chat!FindContact
  <2>2. ChatReqOK(req, Len(ihThread))
    BY <2>1, ChatKept DEF ChatReqOK
  <2>3. ihReq' = [ihReq EXCEPT ![h] = req] /\ ihThread' = ihThread /\ ChatRowsOK'
    BY <1>3, ChatRowsKept DEF Chat!FindContact
  <2> HIDE DEF req
  <2> QED
    BY <2>2, <2>3, ChatStays
<1>4. ASSUME Chat!CreateContact(h) PROVE ChatInv'
  <2> DEFINE contact == ihContacts + 1
             req == [at |-> "thread", sid |-> ihReq[h].sid, contact |-> contact]
  <2>1. ihReq[h].sid \in Sids
    BY <1>4, ChatPlaces DEF Chat!CreateContact
  <2>2. contact \in Nat \ {0}
    BY ChatKept
  <2>3. /\ ihContacts' = contact /\ ihReq' = [ihReq EXCEPT ![h] = req]
        /\ UNCHANGED <<ihThread, ihRow, ihRuns, ihSent, ihJobs, ihEscalated>>
    BY <1>4 DEF Chat!CreateContact
  <2> HIDE DEF contact
  <2>4. ChatReqOK(req, Len(ihThread))
    BY <2>1, <2>2 DEF ChatReqOK
  <2> HIDE DEF req
  <2>5. ChatRowsOK'
    BY <2>2, <2>3, ChatKept DEF ChatRowsOK
  <2> QED
    BY <2>3, <2>4, <2>5, ChatStays
<1> QED
  BY <1>1, <1>2, <1>3, <1>4

\* Its thread is found or opened.
LEMMA ChatThreads ==
    ASSUME ChatInv, NEW h \in Actors
    PROVE  /\ Chat!FindThread(h) => ChatInv'
           /\ Chat!OpenThread(h) => ChatInv'
<1> USE DEF Chat!Goto, Chat!End, Chat!At
<1>1. ASSUME Chat!FindThread(h) PROVE ChatInv'
  <2> DEFINE open == [ihReq[h] EXCEPT !.at = "open"]
             n == Chat!Newest(Chat!OpenThreads)
  <2>1. ihReq[h] \in [at: {"thread", "open"}, sid: Sids, contact: Nat \ {0}]
    BY <1>1, ChatPlaces DEF Chat!FindThread
  <2>2. \A k \in Nat : ChatReqOK(open, k)
    BY <2>1 DEF ChatReqOK
  <2>3. UNCHANGED <<ihContacts, ihRow, ihRuns, ihSent, ihJobs, ihEscalated>>
    BY <1>1 DEF Chat!FindThread
  <2>4. CASE Chat!OpenThreads = {}
    <3>1. ihReq' = [ihReq EXCEPT ![h] = open] /\ ihThread' = ihThread
      BY <1>1, <2>4 DEF Chat!FindThread
    <3> HIDE DEF open
    <3> QED
      BY <2>2, <2>3, <3>1, ChatKept, ChatRowsKept, ChatStays
  <2>5. CASE Chat!OpenThreads # {}
    <3>1. n \in 1 .. Len(ihThread)
      <4>1. n \in Chat!OpenThreads
        <5>1. \E k \in Chat!OpenThreads : \A m \in Chat!OpenThreads : m <= k
          <6>1. Chat!OpenThreads \subseteq 1 .. Len(ihThread) /\ Len(ihThread) \in Nat
            BY ChatKept DEF Chat!OpenThreads
          <6>2. Chat!OpenThreads \subseteq 0 .. Len(ihThread)
            BY <6>1
          <6> QED
            BY <2>5, <6>1, <6>2, GreatestNumber
        <5> QED
          BY <5>1 DEF Chat!Newest
      <4> QED
        BY <4>1, ChatKept DEF Chat!OpenThreads
    <3> HIDE DEF n
    <3>2. CASE ihThread[n].old
      <4>1. ihThread' = [ihThread EXCEPT ![n].open = FALSE] /\ ihReq' = [ihReq EXCEPT ![h] = open]
        BY <1>1, <2>5, <3>2 DEF Chat!FindThread, n
      <4>2. ihThread' = [ihThread EXCEPT ![n] = [ihThread[n] EXCEPT !.open = FALSE]]
        BY <4>1
      <4>3. ihThread' \in Seq(Chat!ThreadRow) /\ Len(ihThread') = Len(ihThread)
        BY <3>1, <4>2, ThreadRewritten, ThreadRows
      <4> HIDE DEF open
      <4>4. Len(ihThread') >= Len(ihThread) /\ ChatReqOK(open, Len(ihThread'))
        BY <2>2, <4>3, ChatKept
      <4> QED
        BY <2>3, <4>1, <4>3, <4>4, ChatRowsKept, ChatMoves
    <3>3. CASE ~ihThread[n].old
      <4> DEFINE req == Chat!InThread(h, n)
      <4>1. ihThread' = ihThread /\ ihReq' = [ihReq EXCEPT ![h] = req]
        BY <1>1, <2>5, <3>3 DEF Chat!FindThread, n
      <4>2. ChatReqOK(req, Len(ihThread))
        BY <2>1, <3>1 DEF ChatReqOK, Chat!InThread
      <4> HIDE DEF req
      <4> QED
        BY <2>3, <4>1, <4>2, ChatRowsKept, ChatStays
    <3> QED
      BY <3>2, <3>3
  <2> QED
    BY <2>4, <2>5
<1>2. ASSUME Chat!OpenThread(h) PROVE ChatInv'
  <2> DEFINE thread == [open |-> TRUE, old |-> FALSE, job |-> FALSE]
             req == Chat!InThread(h, Len(ihThread) + 1)
  <2>1. ihReq[h] \in [at: {"thread", "open"}, sid: Sids, contact: Nat \ {0}]
    BY <1>2, ChatPlaces DEF Chat!OpenThread
  <2>2. ihThread' = Append(ihThread, thread) /\ thread \in Chat!ThreadRow
    BY <1>2 DEF Chat!OpenThread, Chat!ThreadRow
  <2> HIDE DEF thread
  <2>3. ihThread' \in Seq(Chat!ThreadRow) /\ Len(ihThread') = Len(ihThread) + 1 /\ Len(ihThread) \in Nat
    BY <2>2, ChatKept, Appended
  <2>4. Len(ihThread) + 1 \in 1 .. Len(ihThread')
    BY <2>3
  <2>5. ChatReqOK(req, Len(ihThread'))
    BY <2>1, <2>4 DEF ChatReqOK, Chat!InThread
  <2>6. ihReq' = [ihReq EXCEPT ![h] = req] /\ UNCHANGED <<ihContacts, ihRow, ihRuns, ihSent, ihJobs, ihEscalated>>
    BY <1>2 DEF Chat!OpenThread
  <2> HIDE DEF req
  <2>7. Len(ihThread') >= Len(ihThread)
    BY <2>3
  <2> QED
    BY <2>3, <2>5, <2>6, <2>7, ChatRowsKept, ChatMoves
<1> QED
  BY <1>1, <1>2

LEMMA ThreadsAge ==
    ASSUME ChatInv, NEW n \in 1 .. MaxThreads, Chat!ThreadAges(n)
    PROVE  ChatInv'
<1>1. n \in 1 .. Len(ihThread)
  BY ChatKept DEF Chat!ThreadAges
<1>2. ihThread' = [ihThread EXCEPT ![n] = [ihThread[n] EXCEPT !.old = TRUE]]
  BY DEF Chat!ThreadAges
<1>3. ihThread' \in Seq(Chat!ThreadRow) /\ Len(ihThread') = Len(ihThread)
  BY <1>1, <1>2, ThreadRewritten, ThreadRows
<1>4. /\ UNCHANGED <<ihContacts, ihRow, ihRuns, ihSent, ihJobs, ihEscalated, ihReq>>
      /\ DOMAIN ihReq = Actors /\ \A h \in Actors : ChatReqOK(ihReq[h], Len(ihThread))
  BY DEF Chat!ThreadAges, ChatInv
<1>5. ChatRowsOK'
  BY <1>4, ChatRowsKept
<1> QED
  BY <1>3, <1>4, <1>5 DEF ChatInv

\* The interaction is stored, and the assistant runs: never for a stored one.
LEMMA ChatStored ==
    ASSUME ChatInv, NEW h \in Actors, Chat!StoreInteraction(h)
    PROVE  ChatInv'
<1> USE DEF Chat!Goto, Chat!End, Chat!At
<1> DEFINE s == ihReq[h].sid
           n == ihReq[h].thread
           contact == ihReq[h].contact
           req == [at |-> "agent", sid |-> s, contact |-> contact, thread |-> n, steps |-> MAX_TOOL_ITERATIONS]
<1>1. s \in Sids /\ contact \in Nat \ {0} /\ n \in 1 .. Len(ihThread)
  BY ChatPlaces DEF Chat!StoreInteraction
<1>2. ihRow[s] = Chat!NoRow
  BY DEF Chat!StoreInteraction, Chat!Refused
<1>3. /\ ihRow' = [ihRow EXCEPT ![s] = [contact |-> contact, linked |-> FALSE]]
      /\ ihThread' = [ihThread EXCEPT ![n] = [ihThread[n] EXCEPT !.old = FALSE]]
      /\ ihRuns' = [ihRuns EXCEPT ![s] = ihRuns[s] + 1]
      /\ ihReq' = [ihReq EXCEPT ![h] = req]
      /\ UNCHANGED <<ihContacts, ihSent, ihJobs, ihEscalated>>
  BY DEF Chat!StoreInteraction
<1> HIDE DEF s, n, contact
<1>4. ihRow' \in [Sids -> TextRow] /\ ihRow'[s] # Chat!NoRow /\ \A t \in Sids : t # s => ihRow'[t] = ihRow[t]
  BY <1>1, <1>3, ChatKept DEF TextRow, Chat!NoRow
<1>5. ihRuns[s] = 0 /\ \A t \in Sids : ihRow[t] = Chat!NoRow => ihRuns[t] = 0
  BY <1>1, <1>2, ChatKept DEF RunsOnce
<1>6. /\ ihRuns' \in [Sids -> 0 .. 1]
      /\ ihRuns'[s] = 1 /\ \A t \in Sids : t # s => ihRuns'[t] = ihRuns[t]
  BY <1>1, <1>3, <1>5, ChatKept
<1>7. RunsOnce'
  BY <1>4, <1>5, <1>6 DEF RunsOnce
<1>8. ihThread' \in Seq(Chat!ThreadRow) /\ Len(ihThread') = Len(ihThread)
  BY <1>1, <1>3, ThreadRewritten, ThreadRows
<1>9. ChatReqOK(req, Len(ihThread'))
  BY <1>1, <1>8, ChatAssumption DEF ChatReqOK
<1> HIDE DEF req
<1>10. ChatRowsOK'
  BY <1>3, <1>4, <1>6, <1>7, ChatKept DEF ChatRowsOK
<1>11. Len(ihThread') >= Len(ihThread)
  BY <1>8, ChatKept
<1> QED
  BY <1>3, <1>8, <1>9, <1>10, <1>11, ChatMoves

-----------------------------------------------------------------------------
\* The assistant calls its tools, answers or ends the chat.
LEMMA ChatAgent ==
    ASSUME ChatInv, NEW h \in Actors
    PROVE  /\ Chat!SendSms(h) => ChatInv'
           /\ Chat!FinishAndSubmit(h) => ChatInv'
           /\ Chat!ToolContinues(h) => ChatInv'
           /\ Chat!EscalateChat(h) => ChatInv'
           /\ \A farewell \in BOOLEAN : Chat!CloseChat(h, farewell) => ChatInv'
<1> USE DEF Chat!Goto, Chat!End, Chat!At, Chat!Calling
<1> DEFINE s == ihReq[h].sid
           n == ihReq[h].thread
           again == [ihReq[h] EXCEPT !.steps = @ - 1]
<1>0. ASSUME Chat!Calling(h)
      PROVE  s \in Sids /\ n \in 1 .. Len(ihThread) /\ ChatReqOK(again, Len(ihThread))
  <2>1. ihReq[h] \in [at: {"agent"}, sid: Sids, contact: Nat \ {0}, thread: 1 .. Len(ihThread), steps: Nat]
    BY <1>0, ChatPlaces
  <2>2. ihReq[h].steps - 1 \in Nat
    BY <1>0, <2>1
  <2> DEFINE left == ihReq[h].steps - 1
  <2>3. again = [ihReq[h] EXCEPT !.steps = left]
    BY <2>1
  <2> HIDE DEF left
  <2>4. again \in [at: {"agent"}, sid: Sids, contact: Nat \ {0}, thread: 1 .. Len(ihThread), steps: Nat]
    BY <2>1, <2>2, <2>3 DEF left
  <2> QED
    BY <2>1, <2>4 DEF ChatReqOK
<1>1. ASSUME Chat!SendSms(h) PROVE ChatInv'
  <2>1. ihSent' \in [Sids -> 0 .. 1]
    BY <1>0, <1>1, ChatKept DEF Chat!SendSms
  <2>2. /\ ihReq' = [ihReq EXCEPT ![h] = Chat!Idle] /\ ihThread' = ihThread
        /\ UNCHANGED <<ihContacts, ihRow, ihRuns, ihJobs, ihEscalated>>
    BY <1>1 DEF Chat!SendSms
  <2>3. ChatRowsOK'
    BY <2>1, <2>2, ChatKept DEF ChatRowsOK
  <2> QED
    BY <2>2, <2>3, ChatKept, ChatStays
<1>2. ASSUME Chat!FinishAndSubmit(h) PROVE ChatInv'
  <2>1. ihThread' = [ihThread EXCEPT ![n] = [ihThread[n] EXCEPT !.job = TRUE]]
    BY <1>2 DEF Chat!FinishAndSubmit
  <2>7. n \in 1 .. Len(ihThread)
    BY <1>0, <1>2 DEF Chat!FinishAndSubmit
  <2>2. ihThread' \in Seq(Chat!ThreadRow) /\ Len(ihThread') = Len(ihThread)
    BY <2>1, <2>7, ThreadRewritten, ThreadRows
  <2>3. ihRow' \in [Sids -> TextRow] /\ \A t \in Sids : ihRow'[t] = Chat!NoRow => ihRow[t] = Chat!NoRow
    <3>1. ASSUME NEW t \in Sids
          PROVE  ihRow'[t] \in TextRow /\ (ihRow'[t] = Chat!NoRow => ihRow[t] = Chat!NoRow)
      <4>1. ihRow[t] \in TextRow
        BY ChatKept
      <4>2. CASE ihRow[t].contact = ihReq[h].contact
        <5>1. ihRow'[t] = [ihRow[t] EXCEPT !.linked = TRUE]
          BY <1>2, <4>2 DEF Chat!FinishAndSubmit
        <5>2. ihRow'[t] \in TextRow /\ ihRow'[t].linked
          BY <4>1, <5>1 DEF TextRow
        <5>3. ~Chat!NoRow.linked
          BY DEF Chat!NoRow
        <5> QED
          BY <5>2, <5>3
      <4>3. CASE ihRow[t].contact # ihReq[h].contact
        BY <1>2, <4>1, <4>3 DEF Chat!FinishAndSubmit
      <4> QED
        BY <4>2, <4>3
    <3>2. ihRow' = [t \in Sids |-> ihRow'[t]]
      BY <1>2 DEF Chat!FinishAndSubmit
    <3> QED
      BY <3>1, <3>2
  <2>4. UNCHANGED <<ihContacts, ihRuns, ihSent, ihEscalated>> /\ ihJobs' \in Nat
        /\ ihReq' = [ihReq EXCEPT ![h] = again]
    BY <1>2, ChatKept DEF Chat!FinishAndSubmit, Chat!Again
  <2>5. RunsOnce'
    BY <2>3, <2>4, ChatKept DEF RunsOnce
  <2>6. ChatReqOK(again, Len(ihThread'))
    BY <1>0, <1>2, <2>2 DEF Chat!FinishAndSubmit
  <2> HIDE DEF again
  <2>8. ChatRowsOK' /\ Len(ihThread') >= Len(ihThread)
    BY <2>2, <2>3, <2>4, <2>5, ChatKept DEF ChatRowsOK
  <2> QED
    BY <2>2, <2>4, <2>6, <2>8, ChatMoves
<1>3. ASSUME Chat!ToolContinues(h) PROVE ChatInv'
  <2>1. /\ ihReq' = [ihReq EXCEPT ![h] = again] /\ ChatReqOK(again, Len(ihThread))
        /\ ihThread' = ihThread /\ ChatRowsOK'
    BY <1>0, <1>3, ChatRowsKept DEF Chat!ToolContinues, Chat!Again
  <2> HIDE DEF again
  <2> QED
    BY <2>1, ChatStays
<1>4. ASSUME Chat!Calling(h), ihThread' = Chat!Closed(h)
      PROVE  ihThread' \in Seq(Chat!ThreadRow) /\ Len(ihThread') = Len(ihThread)
  <2>1. n \in 1 .. Len(ihThread)
    BY <1>0, <1>4
  <2>2. ihThread' = [ihThread EXCEPT ![n] = [[ihThread[n] EXCEPT !.open = FALSE] EXCEPT !.old = FALSE]]
    BY <1>4, <2>1, ChatKept DEF Chat!Closed
  <2> QED
    BY <2>1, <2>2, ThreadRewritten, ThreadRows
<1>5. ASSUME Chat!EscalateChat(h) PROVE ChatInv'
  <2>1. ihSent' \in [Sids -> 0 .. 1] /\ ihEscalated' \in Nat
    BY <1>0, <1>5, ChatKept DEF Chat!EscalateChat
  <2>2. ihThread' \in Seq(Chat!ThreadRow) /\ Len(ihThread') = Len(ihThread)
    BY <1>4, <1>5 DEF Chat!EscalateChat
  <2>3. ihReq' = [ihReq EXCEPT ![h] = Chat!Idle] /\ UNCHANGED <<ihContacts, ihRow, ihRuns, ihJobs>>
    BY <1>5 DEF Chat!EscalateChat
  <2>4. ChatRowsOK' /\ Len(ihThread') >= Len(ihThread) /\ ChatReqOK(Chat!Idle, Len(ihThread'))
    BY <2>1, <2>2, <2>3, ChatKept DEF ChatRowsOK
  <2> QED
    BY <2>2, <2>3, <2>4, ChatMoves
<1>6. ASSUME NEW farewell \in BOOLEAN, Chat!CloseChat(h, farewell) PROVE ChatInv'
  <2>1. ihSent' \in [Sids -> 0 .. 1]
    BY <1>0, <1>6, ChatKept DEF Chat!CloseChat
  <2>2. ihThread' \in Seq(Chat!ThreadRow) /\ Len(ihThread') = Len(ihThread)
    BY <1>4, <1>6 DEF Chat!CloseChat
  <2>3. ihReq' = [ihReq EXCEPT ![h] = Chat!Idle] /\ UNCHANGED <<ihContacts, ihRow, ihRuns, ihJobs, ihEscalated>>
    BY <1>6 DEF Chat!CloseChat
  <2>4. ChatRowsOK' /\ Len(ihThread') >= Len(ihThread) /\ ChatReqOK(Chat!Idle, Len(ihThread'))
    BY <2>1, <2>2, <2>3, ChatKept DEF ChatRowsOK
  <2> QED
    BY <2>2, <2>3, <2>4, ChatMoves
<1> QED
  BY <1>1, <1>2, <1>3, <1>5, <1>6

\* Every step of the part, by the lemma of its action.
LEMMA ChatPart ==
    ASSUME ChatInv, ChatSteps
    PROVE  ChatInv' /\ focus = "chat" /\ UNCHANGED focus
  BY ChatReceived, ChatThreads, ThreadsAge, ChatStored, ChatAgent DEF ChatSteps, Keep8

\* The invariant is what the run checks of the part, and more.
LEMMA ChatHolds == ChatInv => Chat!AgentRunsOnce /\ Chat!ChatTypeOK
<1> SUFFICES ASSUME ChatInv PROVE Chat!AgentRunsOnce /\ Chat!ChatTypeOK
  OBVIOUS
<1>1. Chat!AgentRunsOnce
  BY DEF ChatInv, ChatRowsOK, Chat!AgentRunsOnce
<1>2. \A h \in Actors : ihReq[h] = Chat!Idle \/ ihReq[h].at \in Chat!Stage
  BY DEF ChatInv, ChatReqOK, Chat!Stage
<1>3. /\ ihContacts \in Nat /\ ihJobs \in Nat /\ ihEscalated \in Nat
      /\ ihThread \in Seq(Chat!ThreadRow)
      /\ ihRow \in [Sids -> [contact: Nat, linked: BOOLEAN]] /\ ihSent \in [Sids -> 0 .. 1]
  BY DEF ChatInv, ChatRowsOK, TextRow
<1>4. ihRuns \in [Sids -> Nat]
  BY DEF ChatInv, ChatRowsOK
<1> QED
  BY <1>1, <1>2, <1>3, <1>4 DEF Chat!ChatTypeOK

-----------------------------------------------------------------------------
(* The legacy calls.  The rows by the names module IntakeCalls gives them. *)
icRow == row1
icJobs == row2
icEscalation == row3
icReq == row4
icCallbacks == row5

USE DEF icRow, icJobs, icEscalation, icReq, icCallbacks

\* A handler past its lookup works on a stored row; what it will save of the
\* details is there, whatever the row became meanwhile.
Saves(req) == \A f \in Calls!Kept : f \in req.fields => req.edited[f]

CallColumns == {"category", "transcript", "reference", "summary", "job", "read"}

CallReqOK(req, rows) ==
    \/ req = Calls!Idle
    \/ req \in [at: {"new"}, call: CallSids, payload: Calls!Payloads]
    \/ req \in [at: {"store"}, call: CallSids, payload: Calls!Payloads, category: Calls!InteractionCategory]
    \/ req \in [at: {"newjob"}, call: CallSids] /\ rows[req.call] # Calls!NoRow
    \/ /\ req \in [at: {"update"}, call: CallSids, payload: Calls!Payloads, copy: Calls!InteractionRow]
       /\ rows[req.call] # Calls!NoRow
    \/ /\ req \in [at: {"job", "save"}, call: CallSids, edited: Calls!InteractionRow, fields: SUBSET CallColumns]
       /\ rows[req.call] # Calls!NoRow /\ Saves(req)

CallsInv ==
    /\ DOMAIN icRow = CallSids
    /\ \A c \in CallSids : icRow[c] = Calls!NoRow \/ icRow[c] \in Calls!InteractionRow
    /\ icJobs \in [CallSids -> Nat]
    /\ icEscalation \in [CallSids -> Calls!EscalationRow]
    /\ icCallbacks \in 0 .. MaxCallbacks
    /\ DOMAIN icReq = Actors /\ \A h \in Actors : CallReqOK(icReq[h], icRow)

\* A handler at a place has what that place needs.
LEMMA CallPlaces ==
    ASSUME CallsInv, NEW h \in Actors
    PROVE  /\ icReq[h].at = "new" => icReq[h] \in [at: {"new"}, call: CallSids, payload: Calls!Payloads]
           /\ icReq[h].at = "store" =>
                  icReq[h] \in [at: {"store"}, call: CallSids, payload: Calls!Payloads,
                                category: Calls!InteractionCategory]
           /\ icReq[h].at = "update" =>
                  /\ icReq[h] \in [at: {"update"}, call: CallSids, payload: Calls!Payloads,
                                   copy: Calls!InteractionRow]
                  /\ icRow[icReq[h].call] # Calls!NoRow
           /\ icReq[h].at = "newjob" => icReq[h].call \in CallSids /\ icRow[icReq[h].call] # Calls!NoRow
           /\ icReq[h].at \in {"job", "save"} =>
                  /\ icReq[h] \in [at: {"job", "save"}, call: CallSids, edited: Calls!InteractionRow,
                                   fields: SUBSET CallColumns]
                  /\ icRow[icReq[h].call] # Calls!NoRow /\ Saves(icReq[h])
<1>1. CallReqOK(icReq[h], icRow)
  BY DEF CallsInv
<1> QED
  BY <1>1 DEF CallReqOK, Calls!Idle

\* The initial states satisfy the invariant.
LEMMA CallsStarts == Calls!CallsInit => CallsInv
<1> SUFFICES ASSUME Calls!CallsInit PROVE CallsInv
  OBVIOUS
<1> QED
  BY CallsAssumption DEF Calls!CallsInit, CallsInv, CallReqOK, Calls!EscalationRow

\* A handler moves and a row may be rewritten: nothing of the details is lost.
LEMMA CallsMove ==
    ASSUME CallsInv, NEW h \in Actors, NEW req, CallReqOK(req, icRow'),
           icReq' = icReq \/ icReq' = [icReq EXCEPT ![h] = req], DOMAIN icRow' = CallSids,
           \A c \in CallSids : \/ icRow'[c] = icRow[c]
                               \/ icRow'[c] \in Calls!InteractionRow /\ icRow'[c] # Calls!NoRow,
           icJobs' \in [CallSids -> Nat], icEscalation' = icEscalation, icCallbacks' \in 0 .. MaxCallbacks
    PROVE  CallsInv'
<1>1. \A c \in CallSids : icRow[c] # Calls!NoRow => icRow'[c] # Calls!NoRow
  OBVIOUS
<1>2. \A q \in Actors : CallReqOK(icReq[q], icRow')
  <2> SUFFICES ASSUME NEW q \in Actors PROVE CallReqOK(icReq[q], icRow')
    OBVIOUS
  <2>1. CallReqOK(icReq[q], icRow)
    BY DEF CallsInv
  <2> QED
    BY <1>1, <2>1 DEF CallReqOK
<1>3. DOMAIN icReq' = Actors /\ \A q \in Actors : CallReqOK(icReq'[q], icRow')
  BY <1>2 DEF CallsInv
<1>4. \A c \in CallSids : icRow'[c] = Calls!NoRow \/ icRow'[c] \in Calls!InteractionRow
  BY DEF CallsInv
<1> QED
  BY <1>3, <1>4 DEF CallsInv

\* A handler moves, and no row changes.
LEMMA CallsStay ==
    ASSUME CallsInv, NEW h \in Actors, NEW req, CallReqOK(req, icRow),
           icReq' = [icReq EXCEPT ![h] = req],
           UNCHANGED <<icRow, icJobs, icEscalation>>, icCallbacks' \in 0 .. MaxCallbacks
    PROVE  CallsInv' /\ Calls!DetailsKept
<1>1. CallReqOK(req, icRow') /\ DOMAIN icRow' = CallSids /\ icJobs' \in [CallSids -> Nat]
  BY DEF CallsInv
<1>2. CallsInv'
  BY <1>1, CallsMove
<1> QED
  BY <1>2 DEF Calls!DetailsKept

LEMMA CallRow ==
    ASSUME NEW row \in Calls!InteractionRow
    PROVE  row # Calls!NoRow
<1>1. row.category # "none" /\ Calls!NoRow.category = "none"
  BY DEF Calls!InteractionRow, Calls!InteractionCategory, Calls!NoRow
<1> QED
  BY <1>1

-----------------------------------------------------------------------------
\* A callback comes in, is classified and updates its copy.
LEMMA CallsReceived ==
    ASSUME CallsInv, NEW h \in Actors
    PROVE  /\ \A c \in CallSids, p \in Calls!Payloads : Calls!Receive(h, c, p) => CallsInv' /\ Calls!DetailsKept
           /\ Calls!HandlerFails(h) => CallsInv' /\ Calls!DetailsKept
           /\ \A class \in Calls!InteractionCategory :
                  Calls!ClassifyNew(h, class) => CallsInv' /\ Calls!DetailsKept
<1> USE DEF Calls!Goto, Calls!End, Calls!At
<1>0. icCallbacks \in 0 .. MaxCallbacks
  BY DEF CallsInv
<1>1. ASSUME NEW c \in CallSids, NEW p \in Calls!Payloads, Calls!Receive(h, c, p)
      PROVE  CallsInv' /\ Calls!DetailsKept
  <2>1. icCallbacks' \in 0 .. MaxCallbacks
    <3>1. icCallbacks < MaxCallbacks /\ icCallbacks' = icCallbacks + 1
      BY <1>1 DEF Calls!Receive
    <3> QED
      BY <1>0, <3>1, CallsAssumption
  <2>2. CASE icRow[c] = Calls!NoRow
    <3>1. CallReqOK([at |-> "new", call |-> c, payload |-> p], icRow)
      BY DEF CallReqOK
    <3>2. icReq' = [icReq EXCEPT ![h] = [at |-> "new", call |-> c, payload |-> p]]
          /\ UNCHANGED <<icRow, icJobs, icEscalation>>
      BY <1>1, <2>2 DEF Calls!Receive
    <3> QED
      BY <2>1, <3>1, <3>2, CallsStay
  <2>3. CASE icRow[c] # Calls!NoRow
    <3>1. icRow[c] \in Calls!InteractionRow
      BY <2>3 DEF CallsInv
    <3>2. CallReqOK([at |-> "update", call |-> c, payload |-> p, copy |-> icRow[c]], icRow)
      BY <2>3, <3>1 DEF CallReqOK
    <3>3. icReq' = [icReq EXCEPT ![h] = [at |-> "update", call |-> c, payload |-> p, copy |-> icRow[c]]]
          /\ UNCHANGED <<icRow, icJobs, icEscalation>>
      BY <1>1, <2>3 DEF Calls!Receive
    <3> QED
      BY <2>1, <3>2, <3>3, CallsStay
  <2> QED
    BY <2>2, <2>3
<1>2. ASSUME Calls!HandlerFails(h) PROVE CallsInv' /\ Calls!DetailsKept
  <2>1. CallReqOK(Calls!Idle, icRow)
    BY DEF CallReqOK
  <2>2. /\ icReq' = [icReq EXCEPT ![h] = Calls!Idle] /\ UNCHANGED <<icRow, icJobs, icEscalation>>
        /\ icCallbacks' \in 0 .. MaxCallbacks
    BY <1>0, <1>2 DEF Calls!HandlerFails
  <2> QED
    BY <2>1, <2>2, CallsStay
<1>3. ASSUME NEW class \in Calls!InteractionCategory, Calls!ClassifyNew(h, class)
      PROVE  CallsInv' /\ Calls!DetailsKept
  <2> DEFINE category == Calls!Category(icReq[h].call, icReq[h].payload, class)
             req == [at |-> "store", call |-> icReq[h].call, payload |-> icReq[h].payload, category |-> category]
  <2>1. icReq[h].call \in CallSids /\ icReq[h].payload \in Calls!Payloads
    BY <1>3, CallPlaces DEF Calls!ClassifyNew
  <2>2. category \in Calls!InteractionCategory
    BY DEF Calls!Category, Calls!InteractionCategory
  <2>3. /\ icReq' = [icReq EXCEPT ![h] = req] /\ UNCHANGED <<icRow, icJobs, icEscalation>>
        /\ icCallbacks' \in 0 .. MaxCallbacks
    BY <1>0, <1>3 DEF Calls!ClassifyNew
  <2> HIDE DEF category
  <2>4. CallReqOK(req, icRow)
    BY <2>1, <2>2 DEF CallReqOK
  <2> HIDE DEF req
  <2> QED
    BY <2>3, <2>4, CallsStay
<1> QED
  BY <1>1, <1>2, <1>3

\* What an update would save of the details is what its payload brings.
LEMMA CallsUpdated ==
    ASSUME CallsInv, NEW h \in Actors
    PROVE  /\ Calls!UpdateOnly(h) => CallsInv' /\ Calls!DetailsKept
           /\ \A class \in Calls!InteractionCategory :
                  Calls!Reclassify(h, class) => CallsInv' /\ Calls!DetailsKept
<1> USE DEF Calls!Goto, Calls!End, Calls!At
<1> DEFINE copy == icReq[h].copy
           p == icReq[h].payload
           updated == Calls!Updated(copy, p)
<1>0. icCallbacks \in 0 .. MaxCallbacks
  BY DEF CallsInv
<1>1. ASSUME copy \in Calls!InteractionRow, p \in Calls!Payloads
      PROVE  /\ updated \in Calls!InteractionRow
             /\ copy.transcript => updated.transcript
             /\ copy.summary => updated.summary
             /\ copy.job = updated.job
  <2> DEFINE transcript == copy.transcript \/ p.transcript
             reference == copy.reference \cup Calls!References(p)
             summary == copy.summary \/ p.summary
  <2>1. transcript \in BOOLEAN /\ summary \in BOOLEAN
    OBVIOUS
  <2>2. reference \in SUBSET {"recording", "transcript"}
    BY <1>1 DEF Calls!InteractionRow, Calls!References
  <2>3. updated = [copy EXCEPT !.transcript = transcript, !.reference = reference, !.summary = summary]
    BY <1>1 DEF Calls!Updated, Calls!InteractionRow
  <2>4. (copy.transcript => transcript) /\ (copy.summary => summary)
    OBVIOUS
  <2> HIDE DEF transcript, reference, summary, updated
  <2>5. /\ updated \in Calls!InteractionRow
        /\ updated.transcript = transcript /\ updated.summary = summary /\ updated.job = copy.job
    BY <1>1, <2>1, <2>2, <2>3 DEF Calls!InteractionRow
  <2> QED
    BY <2>4, <2>5
<1>2. ASSUME NEW stage \in {"job", "save"}, NEW edited \in Calls!InteractionRow,
             icReq[h].at = "update", Calls!Saving(h, stage, edited),
             copy.transcript => edited.transcript, copy.summary => edited.summary, copy.job = edited.job,
             UNCHANGED <<icRow, icJobs, icEscalation, icCallbacks>>
      PROVE  CallsInv' /\ Calls!DetailsKept
  <2> DEFINE fields == Calls!Changed(copy, edited)
             req == [at |-> stage, call |-> icReq[h].call, edited |-> edited, fields |-> fields]
  <2>1. copy \in Calls!InteractionRow /\ icReq[h].call \in CallSids /\ icRow[icReq[h].call] # Calls!NoRow
    BY <1>2, CallPlaces
  <2>2. DOMAIN copy = {"category", "transcript", "reference", "summary", "job", "read"}
    BY <2>1 DEF Calls!InteractionRow
  <2>3. fields \in SUBSET CallColumns
    BY <2>2 DEF Calls!Changed, CallColumns
  <2>4. \A f \in Calls!Kept : f \in fields => edited[f]
    <3>1. copy.transcript \in BOOLEAN /\ copy.summary \in BOOLEAN /\ edited.transcript \in BOOLEAN
          /\ edited.summary \in BOOLEAN
      BY <2>1 DEF Calls!InteractionRow
    <3>2. ("transcript" \in fields => edited.transcript) /\ ("summary" \in fields => edited.summary)
          /\ "job" \notin fields
      BY <1>2, <3>1 DEF Calls!Changed
    <3> QED
      BY <3>2 DEF Calls!Kept
  <2>5. icReq' = [icReq EXCEPT ![h] = req]
    BY <1>2 DEF Calls!Saving
  <2> HIDE DEF fields
  <2>6. CallReqOK(req, icRow)
    BY <2>1, <2>3, <2>4 DEF CallReqOK, Saves
  <2> HIDE DEF req
  <2> QED
    BY <1>0, <1>2, <2>5, <2>6, CallsStay
<1>3. ASSUME Calls!UpdateOnly(h) PROVE CallsInv' /\ Calls!DetailsKept
  <2>1. icReq[h].at = "update" /\ copy \in Calls!InteractionRow /\ p \in Calls!Payloads
    BY <1>3, CallPlaces DEF Calls!UpdateOnly
  <2>2. Calls!Saving(h, "save", updated) /\ UNCHANGED <<icRow, icJobs, icEscalation, icCallbacks>>
    BY <1>3 DEF Calls!UpdateOnly
  <2> HIDE DEF updated
  <2> QED
    BY <1>1, <1>2, <2>1, <2>2
<1>4. ASSUME NEW class \in Calls!InteractionCategory, Calls!Reclassify(h, class)
      PROVE  CallsInv' /\ Calls!DetailsKept
  <2> DEFINE category == Calls!Category(icReq[h].call, p, class)
             stage == IF category = "job_request_intake" /\ ~copy.job THEN "job" ELSE "save"
             edited == [updated EXCEPT !.category = category]
  <2>1. icReq[h].at = "update" /\ copy \in Calls!InteractionRow /\ p \in Calls!Payloads
    BY <1>4, CallPlaces DEF Calls!Reclassify
  <2>2. Calls!Saving(h, stage, edited) /\ UNCHANGED <<icRow, icJobs, icEscalation, icCallbacks>>
    BY <1>4 DEF Calls!Reclassify
  <2>3. category \in Calls!InteractionCategory /\ stage \in {"job", "save"}
    BY DEF Calls!Category, Calls!InteractionCategory
  <2>4. /\ updated \in Calls!InteractionRow
        /\ copy.transcript => updated.transcript
        /\ copy.summary => updated.summary
        /\ copy.job = updated.job
    BY <1>1, <2>1
  <2> HIDE DEF updated, category, stage
  <2>5. /\ edited \in Calls!InteractionRow
        /\ edited.transcript = updated.transcript /\ edited.summary = updated.summary /\ edited.job = updated.job
    BY <2>3, <2>4 DEF Calls!InteractionRow
  <2> HIDE DEF edited, copy
  <2> QED
    BY <1>2, <2>1, <2>2, <2>3, <2>4, <2>5
<1> QED
  BY <1>3, <1>4

\* Rows are stored, linked to their job and saved.
LEMMA CallsWritten ==
    ASSUME CallsInv, NEW h \in Actors
    PROVE  /\ Calls!StoreNew(h) => CallsInv' /\ Calls!DetailsKept
           /\ Calls!CreateJob(h) => CallsInv' /\ Calls!DetailsKept
           /\ Calls!SaveRow(h) => CallsInv' /\ Calls!DetailsKept
<1> USE DEF Calls!Goto, Calls!End, Calls!At
<1> DEFINE c == icReq[h].call
<1>0. /\ icCallbacks \in 0 .. MaxCallbacks /\ icJobs \in [CallSids -> Nat] /\ DOMAIN icRow = CallSids
      /\ \A d \in CallSids : icRow[d] = Calls!NoRow \/ icRow[d] \in Calls!InteractionRow
  BY DEF CallsInv
<1>1. ASSUME NEW row \in Calls!InteractionRow, c \in CallSids, icRow' = [icRow EXCEPT ![c] = row],
             \A f \in Calls!Kept : icRow[c] # Calls!NoRow /\ icRow[c][f] => row[f]
      PROVE  /\ Calls!DetailsKept
             /\ DOMAIN icRow' = CallSids /\ icRow'[c] # Calls!NoRow
             /\ \A d \in CallSids : \/ icRow'[d] = icRow[d]
                                    \/ icRow'[d] \in Calls!InteractionRow /\ icRow'[d] # Calls!NoRow
  <2>1. row # Calls!NoRow
    BY CallRow
  <2> HIDE DEF c
  <2> QED
    BY <1>0, <1>1, <2>1 DEF Calls!DetailsKept
<1>2. ASSUME Calls!StoreNew(h) PROVE CallsInv' /\ Calls!DetailsKept
  <2> DEFINE p == icReq[h].payload
             row == [category |-> icReq[h].category, transcript |-> p.transcript,
                     reference |-> Calls!References(p), summary |-> p.summary, job |-> FALSE, read |-> FALSE]
             req == IF icReq[h].category = "job_request_intake" THEN [at |-> "newjob", call |-> c] ELSE Calls!Idle
  <2>1. c \in CallSids /\ p \in Calls!Payloads /\ icReq[h].category \in Calls!InteractionCategory
    BY <1>2, CallPlaces DEF Calls!StoreNew
  <2>2. /\ icRow[c] = Calls!NoRow /\ icRow' = [icRow EXCEPT ![c] = row]
        /\ icReq' = [icReq EXCEPT ![h] = req]
        /\ UNCHANGED <<icJobs, icEscalation, icCallbacks>>
    BY <1>2 DEF Calls!StoreNew
  <2>3. row \in Calls!InteractionRow
    <3>1. p.transcript \in BOOLEAN /\ p.summary \in BOOLEAN
          /\ Calls!References(p) \in SUBSET {"recording", "transcript"}
      BY <2>1 DEF Calls!Payloads, Calls!References
    <3> HIDE DEF p
    <3> QED
      BY <2>1, <3>1 DEF Calls!InteractionRow
  <2> HIDE DEF row
  <2>4. /\ Calls!DetailsKept
        /\ DOMAIN icRow' = CallSids /\ icRow'[c] # Calls!NoRow
        /\ \A d \in CallSids : \/ icRow'[d] = icRow[d]
                               \/ icRow'[d] \in Calls!InteractionRow /\ icRow'[d] # Calls!NoRow
    BY <1>1, <2>1, <2>2, <2>3
  <2>5. CallReqOK(req, icRow')
    BY <2>1, <2>4 DEF CallReqOK
  <2> HIDE DEF req
  <2> QED
    BY <1>0, <2>2, <2>4, <2>5, CallsMove
<1>3. ASSUME Calls!CreateJob(h) PROVE CallsInv' /\ Calls!DetailsKept
  <2> DEFINE row == [icRow[c] EXCEPT !.job = TRUE]
             req == IF icReq[h].at = "job" THEN [icReq[h] EXCEPT !.at = "save"] ELSE Calls!Idle
  <2>1. c \in CallSids /\ icRow[c] # Calls!NoRow
    BY <1>3, CallPlaces DEF Calls!CreateJob
  <2>2. /\ icRow' = [icRow EXCEPT ![c] = row] /\ icJobs' = [icJobs EXCEPT ![c] = icJobs[c] + 1]
        /\ icReq' = [icReq EXCEPT ![h] = req]
        /\ UNCHANGED <<icEscalation, icCallbacks>>
    BY <1>3 DEF Calls!CreateJob
  <2>3. /\ row \in Calls!InteractionRow /\ row.job
        /\ row.transcript = icRow[c].transcript /\ row.summary = icRow[c].summary
    <3>1. icRow[c] \in Calls!InteractionRow
      BY <1>0, <2>1
    <3> HIDE DEF c
    <3> QED
      BY <3>1 DEF Calls!InteractionRow
  <2> HIDE DEF row
  <2>4. \A f \in Calls!Kept : icRow[c][f] => row[f]
    BY <2>3 DEF Calls!Kept
  <2>5. /\ Calls!DetailsKept
        /\ DOMAIN icRow' = CallSids /\ icRow'[c] # Calls!NoRow
        /\ \A d \in CallSids : \/ icRow'[d] = icRow[d]
                               \/ icRow'[d] \in Calls!InteractionRow /\ icRow'[d] # Calls!NoRow
    BY <1>1, <2>1, <2>2, <2>3, <2>4
  <2>6. icJobs' \in [CallSids -> Nat]
    BY <1>0, <2>1, <2>2
  <2>7. CallReqOK(req, icRow')
    <3>1. CASE icReq[h].at = "job"
      <4>1. /\ icReq[h] \in [at: {"job", "save"}, call: CallSids, edited: Calls!InteractionRow, fields: SUBSET CallColumns]
            /\ Saves(icReq[h])
        BY <3>1, CallPlaces
      <4>2. req = [icReq[h] EXCEPT !.at = "save"]
        BY <3>1
      <4> HIDE DEF req
      <4>3. /\ req \in [at: {"job", "save"}, call: CallSids, edited: Calls!InteractionRow, fields: SUBSET CallColumns]
            /\ req.call = c /\ req.edited = icReq[h].edited /\ req.fields = icReq[h].fields
        BY <4>1, <4>2
      <4> QED
        BY <2>5, <4>1, <4>3 DEF CallReqOK, Saves
    <3>2. CASE icReq[h].at # "job"
      BY <3>2 DEF CallReqOK
    <3> QED
      BY <3>1, <3>2
  <2> HIDE DEF req, c
  <2> QED
    BY <1>0, <2>2, <2>5, <2>6, <2>7, CallsMove
<1>4. ASSUME Calls!SaveRow(h) PROVE CallsInv' /\ Calls!DetailsKept
  <2> DEFINE fields == icReq[h].fields
             edited == icReq[h].edited
             old == icRow[c]
             row == [f \in DOMAIN old |-> IF f \in fields THEN edited[f] ELSE old[f]]
  <2>1. c \in CallSids /\ icRow[c] # Calls!NoRow /\ edited \in Calls!InteractionRow /\ Saves(icReq[h])
    BY <1>4, CallPlaces DEF Calls!SaveRow
  <2>2. /\ icRow' = [icRow EXCEPT ![c] = row] /\ icReq' = [icReq EXCEPT ![h] = Calls!Idle]
        /\ UNCHANGED <<icJobs, icEscalation, icCallbacks>>
    BY <1>0, <1>4, <2>1 DEF Calls!SaveRow
  <2>3. old \in Calls!InteractionRow /\ \A f \in Calls!Kept : f \in fields => edited[f]
    BY <1>0, <2>1 DEF Saves
  <2> HIDE DEF fields, edited, old
  <2>4. DOMAIN old = {"category", "transcript", "reference", "summary", "job", "read"}
    BY <2>3 DEF Calls!InteractionRow
  <2>5. \A f \in DOMAIN old : row[f] = (IF f \in fields THEN edited[f] ELSE old[f])
    OBVIOUS
  <2>6. DOMAIN row = DOMAIN old /\ row = [f \in DOMAIN old |-> row[f]]
    OBVIOUS
  <2> HIDE DEF row
  <2>7. row \in Calls!InteractionRow
    <3>1. \A f \in DOMAIN old : row[f] = edited[f] \/ row[f] = old[f]
      BY <2>5
    <3>2. /\ row.category \in Calls!InteractionCategory /\ row.transcript \in BOOLEAN
          /\ row.reference \in SUBSET {"recording", "transcript"}
          /\ row.summary \in BOOLEAN /\ row.job \in BOOLEAN /\ row.read \in BOOLEAN
      BY <2>1, <2>3, <2>4, <3>1 DEF Calls!InteractionRow
    <3> QED
      BY <2>4, <2>6, <3>2 DEF Calls!InteractionRow
  <2>8. \A f \in Calls!Kept : old[f] => row[f]
    BY <2>3, <2>4, <2>5 DEF Calls!Kept
  <2>9. /\ Calls!DetailsKept
        /\ DOMAIN icRow' = CallSids
        /\ \A d \in CallSids : \/ icRow'[d] = icRow[d]
                               \/ icRow'[d] \in Calls!InteractionRow /\ icRow'[d] # Calls!NoRow
    BY <1>1, <2>1, <2>2, <2>7, <2>8 DEF old
  <2>10. CallReqOK(Calls!Idle, icRow')
    BY DEF CallReqOK
  <2> HIDE DEF c
  <2> QED
    BY <1>0, <2>2, <2>9, <2>10, CallsMove
<1> QED
  BY <1>2, <1>3, <1>4

\* Escalations are created and acknowledged.
LEMMA CallsEscalated ==
    ASSUME CallsInv, NEW c \in CallSids,
           Calls!CreateEscalation(c) \/ Calls!Acknowledge(c) \/ Calls!AcknowledgeCall(c)
    PROVE  CallsInv' /\ Calls!DetailsKept
<1>1. CASE Calls!CreateEscalation(c) \/ Calls!Acknowledge(c)
  <2>1. icEscalation' \in [CallSids -> Calls!EscalationRow] /\ UNCHANGED <<icRow, icJobs, icReq, icCallbacks>>
    BY <1>1 DEF CallsInv, Calls!CreateEscalation, Calls!Acknowledge, Calls!EscalationRow
  <2> QED
    BY <2>1 DEF CallsInv, Calls!DetailsKept
<1>2. CASE Calls!AcknowledgeCall(c)
  <2> DEFINE row == [icRow[c] EXCEPT !.read = TRUE]
  <2>1. icRow[c] \in Calls!InteractionRow
    <3>1. icRow[c].category = "escalation" /\ Calls!NoRow.category = "none"
      BY <1>2 DEF Calls!AcknowledgeCall, Calls!NoRow
    <3>2. icRow[c] # Calls!NoRow
      BY <3>1
    <3> QED
      BY <3>2 DEF CallsInv
  <2>2. /\ row \in Calls!InteractionRow
        /\ row.transcript = icRow[c].transcript /\ row.summary = icRow[c].summary /\ row.job = icRow[c].job
    BY <2>1 DEF Calls!InteractionRow
  <2>3. icRow' = [icRow EXCEPT ![c] = row] /\ UNCHANGED <<icJobs, icEscalation, icReq, icCallbacks>>
    BY <1>2 DEF Calls!AcknowledgeCall
  <2> HIDE DEF row
  <2>4. row # Calls!NoRow
    BY <2>2, CallRow
  <2>5. /\ DOMAIN icRow' = CallSids
        /\ \A d \in CallSids : icRow'[d] = IF d = c THEN row ELSE icRow[d]
    <3>1. DOMAIN icRow = CallSids
      BY DEF CallsInv
    <3> QED
      BY <2>3, <3>1
  <2>6. Calls!DetailsKept
    BY <2>2, <2>5 DEF Calls!DetailsKept, Calls!Kept
  <2>7. ASSUME NEW h \in Actors PROVE CallReqOK(icReq[h], icRow')
    <3>1. CallReqOK(icReq[h], icRow)
      BY DEF CallsInv
    <3>2. \A d \in CallSids : icRow[d] # Calls!NoRow => icRow'[d] # Calls!NoRow
      BY <2>4, <2>5
    <3> QED
      BY <3>1, <3>2 DEF CallReqOK
  <2> QED
    BY <2>2, <2>3, <2>5, <2>6, <2>7 DEF CallsInv
<1> QED
  BY <1>1, <1>2

\* Every step of the part, by the lemma of its action.
LEMMA CallsPart ==
    ASSUME CallsInv, CallsSteps
    PROVE  CallsInv' /\ Calls!DetailsKept /\ focus = "calls" /\ UNCHANGED focus
  BY CallsReceived, CallsUpdated, CallsWritten, CallsEscalated DEF CallsSteps, Keep5

\* The invariant is what the run checks of the part, and more.
LEMMA CallsHolds == CallsInv => Calls!CallsTypeOK
<1>1. \A req, rows : CallReqOK(req, rows) =>
          req = Calls!Idle \/ req.at \in {"new", "store", "update", "job", "newjob", "save"}
  BY DEF CallReqOK
<1> QED
  BY <1>1 DEF CallsInv, Calls!CallsTypeOK

-----------------------------------------------------------------------------
(* The legacy mail.  The rows by the names module IntakeMail gives them.   *)
imContact == row1
imRow == row2
imReq == row3

USE DEF imContact, imRow, imReq

MailReq == [at: {"lookup", "create", "store"}, mail: Mails, asker: Mail!Askers]

\* An interaction filed as a job request has its job, and no other has one.
Filed(row) == row.category = "job_request_intake" <=> row.job # "none"

RowsOK(m, rows) ==
    /\ rows \in Seq(Mail!Row) /\ Len(rows) <= MaxRows
    /\ m \notin Unnamed => Len(rows) <= 1
    /\ \A i \in 1 .. Len(rows) : Filed(rows[i])

RowsOfMail(m) == RowsOK(m, imRow[m])

MailInv ==
    /\ imContact \in [Mail!Keys -> Nat]
    /\ DOMAIN imRow = Mails /\ \A m \in Mails : RowsOfMail(m)
    /\ DOMAIN imReq = Actors /\ \A h \in Actors : imReq[h] = Mail!Idle \/ imReq[h] \in MailReq

\* What the gates make of a mail, whatever it says.
LEMMA GatedRow ==
    ASSUME NEW mail \in Mail!Contents
    PROVE  /\ Mail!RowOf(mail) \in Mail!Row /\ Filed(Mail!RowOf(mail))
           /\ Mail!RowOf(mail).job # "none" => Mail!Sufficient(mail)
           /\ Mail!RowOf(mail).job = "prioritized" => Mail!Complete(mail)
<1> DEFINE category == Mail!Category(mail)
           row == Mail!RowOf(mail)
<1>1. mail.class \in Mail!Class
  BY DEF Mail!Contents
<1>2. category \in Mail!Class
  BY <1>1 DEF Mail!Category, Mail!Class
<1>3. category = "job_request_intake" => Mail!Sufficient(mail)
  BY DEF Mail!Category
<1>4. row = [category |-> category,
             job |-> IF category = "job_request_intake" THEN Mail!InitialStatus(mail) ELSE "none"]
  BY DEF Mail!RowOf
<1>5. /\ Mail!InitialStatus(mail) \in {"prioritized", "pending_review"}
      /\ Mail!InitialStatus(mail) = "prioritized" => Mail!Complete(mail)
  BY DEF Mail!InitialStatus
<1> HIDE DEF category, row
<1>6. CASE category = "job_request_intake"
  <2>1. row.category = category /\ row.job = Mail!InitialStatus(mail) /\ row \in Mail!Row
    BY <1>2, <1>4, <1>5, <1>6 DEF Mail!Row, Mail!JobStatus
  <2> QED
    BY <1>3, <1>5, <1>6, <2>1 DEF Filed, row
<1>7. CASE category # "job_request_intake"
  <2>1. row.category = category /\ row.job = "none" /\ row \in Mail!Row
    BY <1>2, <1>4, <1>7 DEF Mail!Row, Mail!JobStatus
  <2> QED
    BY <1>7, <2>1 DEF Filed, row
<1> QED
  BY <1>6, <1>7

\* The gates agree, for every mail the parsers can make.
LEMMA MailGates == Mail!GatesAgree
<1> SUFFICES ASSUME NEW mail \in Mail!Contents
             PROVE  /\ Mail!RowOf(mail).job = "prioritized" =>
                           Mail!Sufficient(mail) /\ Mail!HasWhat(mail) /\ Mail!HasWhere(mail)
                    /\ mail.vague /\ ~Mail!HasWhat(mail) => Mail!RowOf(mail).job = "none"
  BY DEF Mail!GatesAgree
<1>1. Mail!Complete(mail) => Mail!HasWhat(mail) /\ Mail!HasWhere(mail)
  BY DEF Mail!Complete, Mail!HasWhat, Mail!HasWhere
<1>2. mail.vague /\ ~Mail!HasWhat(mail) => ~Mail!Sufficient(mail)
  BY DEF Mail!Sufficient
<1>3. "prioritized" # "none"
  OBVIOUS
<1> QED
  BY <1>1, <1>2, <1>3, GatedRow

\* What the parts of the invariant say.
LEMMA MailFacts ==
    ASSUME MailInv
    PROVE  /\ imContact \in [Mail!Keys -> Nat] /\ DOMAIN imRow = Mails /\ DOMAIN imReq = Actors
           /\ \A m \in Mails : RowsOfMail(m)
           /\ \A h \in Actors : imReq[h] = Mail!Idle \/ imReq[h] \in MailReq
           /\ \A h \in Actors : imReq[h].at \in {"lookup", "create", "store"} => imReq[h] \in MailReq
  BY DEF MailInv, Mail!Idle

\* The initial states satisfy the invariant.
LEMMA MailStarts == Mail!MailInit => MailInv
<1> SUFFICES ASSUME Mail!MailInit PROVE MailInv
  OBVIOUS
<1>1. ASSUME NEW m \in Mails PROVE RowsOfMail(m)
  <2>1. imRow[m] = <<>>
    BY DEF Mail!MailInit
  <2>2. imRow[m] \in Seq(Mail!Row) /\ Len(imRow[m]) = 0
    BY <2>1
  <2> QED
    BY <2>2, MailAssumption DEF RowsOfMail, RowsOK
<1> QED
  BY <1>1 DEF MailInv, Mail!MailInit

\* Deliveries come, find their contact and end.
LEMMA MailMoves ==
    ASSUME MailInv, NEW h \in Actors
    PROVE  /\ \A m \in Mails, a \in Mail!Askers, b \in BOOLEAN : Mail!Receive(h, m, a, b) => MailInv'
           /\ Mail!FindContact(h) => MailInv'
           /\ Mail!CreateContact(h) => MailInv'
           /\ Mail!HandlerFails(h) => MailInv'
<1> USE DEF Mail!Goto, Mail!End, Mail!At
<1>0. ASSUME NEW req, req = Mail!Idle \/ req \in MailReq, imReq' = [imReq EXCEPT ![h] = req],
             imContact' \in [Mail!Keys -> Nat], imRow' = imRow
      PROVE  MailInv'
  <2>1. DOMAIN imReq' = Actors /\ \A q \in Actors : imReq'[q] = Mail!Idle \/ imReq'[q] \in MailReq
    BY <1>0, MailFacts
  <2>2. \A m \in Mails : RowsOfMail(m)'
    BY <1>0, MailFacts DEF RowsOfMail, RowsOK
  <2> QED
    BY <1>0, <2>1, <2>2, MailFacts DEF MailInv
<1>1. ASSUME NEW m \in Mails, NEW a \in Mail!Askers, NEW b \in BOOLEAN, Mail!Receive(h, m, a, b) PROVE MailInv'
  <2> DEFINE place == IF a = {} /\ ~b THEN "store" ELSE "lookup"
             req == [at |-> place, mail |-> m, asker |-> a]
  <2>1. req \in MailReq
    BY DEF MailReq
  <2>2. imReq' = [imReq EXCEPT ![h] = req] /\ imContact' \in [Mail!Keys -> Nat] /\ imRow' = imRow
    BY <1>1, MailFacts DEF Mail!Receive
  <2> HIDE DEF req
  <2> QED
    BY <1>0, <2>1, <2>2
<1>2. ASSUME Mail!FindContact(h) PROVE MailInv'
  <2> DEFINE place == IF imContact[Mail!KeyOf(imReq[h].asker)] = 0 THEN "create" ELSE "store"
             req == [imReq[h] EXCEPT !.at = place]
  <2>1. imReq[h] \in MailReq
    BY <1>2, MailFacts DEF Mail!FindContact
  <2>2. imReq' = [imReq EXCEPT ![h] = req] /\ imContact' \in [Mail!Keys -> Nat] /\ imRow' = imRow
    BY <1>2, MailFacts DEF Mail!FindContact
  <2>3. place \in {"create", "store"}
    OBVIOUS
  <2> HIDE DEF place
  <2>4. req \in MailReq
    BY <2>1, <2>3 DEF MailReq
  <2> HIDE DEF req
  <2> QED
    BY <1>0, <2>2, <2>4
<1>3. ASSUME Mail!CreateContact(h) PROVE MailInv'
  <2> DEFINE k == Mail!KeyOf(imReq[h].asker)
             req == [imReq[h] EXCEPT !.at = "store"]
  <2>1. req \in MailReq
    BY <1>3, MailFacts DEF Mail!CreateContact, MailReq
  <2>2. k \in Mail!Keys
    BY DEF Mail!KeyOf, Mail!Keys
  <2>3. imReq' = [imReq EXCEPT ![h] = req] /\ imContact' = [imContact EXCEPT ![k] = imContact[k] + 1] /\ imRow' = imRow
    BY <1>3 DEF Mail!CreateContact
  <2> HIDE DEF req, k
  <2>4. imContact' \in [Mail!Keys -> Nat]
    BY <2>2, <2>3, MailFacts
  <2> QED
    BY <1>0, <2>1, <2>3, <2>4
<1>4. ASSUME Mail!HandlerFails(h) PROVE MailInv'
  BY <1>0, <1>4, MailFacts DEF Mail!HandlerFails
<1> QED
  BY <1>1, <1>2, <1>3, <1>4

\* A mail is filed: a named one for the first time.
LEMMA MailStored ==
    ASSUME MailInv, NEW h \in Actors, NEW a \in Mail!Askers, NEW row \in Mail!Outcomes[a], Mail!Store(h, a, row)
    PROVE  MailInv'
<1> USE DEF Mail!Goto, Mail!End, Mail!At
<1> DEFINE m == imReq[h].mail
<1>1. m \in Mails
  BY MailFacts DEF Mail!Store, MailReq
<1>2. row \in Mail!Row /\ Filed(row)
  <2>1. PICK mail \in Mail!Contents : row = Mail!RowOf(mail)
    BY DEF Mail!Outcomes
  <2> QED
    BY <2>1, GatedRow
<1>3. /\ m \in Unnamed \/ imRow[m] = <<>>
      /\ Len(imRow[m]) < MaxRows
      /\ imRow' = [imRow EXCEPT ![m] = Append(imRow[m], row)]
      /\ imReq' = [imReq EXCEPT ![h] = Mail!Idle] /\ imContact' = imContact
  BY DEF Mail!Store, Mail!Refused
<1> HIDE DEF m
<1> DEFINE old == imRow[m]
           new == Append(old, row)
<1>4. RowsOfMail(m)
  BY <1>1, MailFacts
<1>5. /\ new \in Seq(Mail!Row) /\ Len(new) = Len(old) + 1 /\ Len(old) \in Nat
      /\ \A n \in 1 .. Len(old) : new[n] = old[n]
      /\ new[Len(old) + 1] = row
  BY <1>2, <1>4, Appended DEF RowsOfMail, RowsOK
<1>6. imRow'[m] = new /\ DOMAIN imRow' = Mails /\ \A q \in Mails : q # m => imRow'[q] = imRow[q]
  BY <1>1, <1>3, MailFacts
<1>7. RowsOK(m, new)
  <2>1. Len(old) < MaxRows /\ (m \notin Unnamed => Len(old) = 0)
    BY <1>3, <1>4
  <2> HIDE DEF old, new
  <2>2. \A n \in 1 .. Len(new) : Filed(new[n])
    <3>1. \A n \in 1 .. Len(old) : Filed(old[n])
      BY <1>4 DEF RowsOfMail, RowsOK, old
    <3>2. 1 .. Len(new) = 1 .. Len(old) \cup {Len(old) + 1}
      BY <1>5
    <3> QED
      BY <1>2, <1>5, <3>1, <3>2 DEF Filed
  <2>3. Len(new) <= MaxRows /\ (m \notin Unnamed => Len(new) <= 1)
    BY <1>5, <2>1, MailAssumption
  <2> QED
    BY <1>5, <2>2, <2>3 DEF RowsOK
<1>8. \A q \in Mails : RowsOfMail(q)'
  <2> SUFFICES ASSUME NEW q \in Mails PROVE RowsOK(q, imRow'[q])
    BY DEF RowsOfMail
  <2>1. CASE q = m
    BY <1>6, <1>7, <2>1
  <2>2. CASE q # m
    <3>1. RowsOK(q, imRow[q])
      BY MailFacts DEF RowsOfMail
    <3> QED
      BY <1>6, <2>2, <3>1
  <2> QED
    BY <2>1, <2>2
<1>9. DOMAIN imReq' = Actors /\ \A q \in Actors : imReq'[q] = Mail!Idle \/ imReq'[q] \in MailReq
  BY <1>3, MailFacts
<1> QED
  BY <1>3, <1>6, <1>8, <1>9, MailFacts DEF MailInv

\* Every step of the part, by the lemma of its action.
LEMMA MailPart ==
    ASSUME MailInv, MailSteps
    PROVE  MailInv' /\ focus = "mail" /\ UNCHANGED focus
  BY MailMoves, MailStored DEF MailSteps, Keep3

\* The invariant is what the run checks of the part, and more.
LEMMA MailHolds == MailInv => Mail!MailFiledOnce /\ Mail!GatesAgree /\ Mail!MailTypeOK
<1> SUFFICES ASSUME MailInv PROVE Mail!MailFiledOnce /\ Mail!MailTypeOK
  BY MailGates
<1>1. \A m \in Mails : imRow[m] \in Seq(Mail!Row) /\ DOMAIN imRow[m] = 1 .. Len(imRow[m])
  BY DEF MailInv, RowsOfMail, RowsOK
<1>2. Mail!MailFiledOnce
  BY <1>1 DEF MailInv, RowsOfMail, RowsOK, Filed, Mail!MailFiledOnce
<1>3. \A m \in Mails : Len(imRow[m]) <= MaxRows /\ \A i \in DOMAIN imRow[m] : imRow[m][i] \in Mail!Row
  BY <1>1 DEF MailInv, RowsOfMail, RowsOK
<1>4. \A h \in Actors : imReq[h] = Mail!Idle \/ imReq[h].at \in {"lookup", "create", "store"}
  BY DEF MailInv, MailReq
<1> QED
  BY <1>2, <1>3, <1>4 DEF MailInv, Mail!MailTypeOK

-----------------------------------------------------------------------------
(* Usage metering.  The rows by the names module Usage gives them.         *)
usEvent == row1
usTotal == row2
usPeriod == row3
usInvoice == row4
usReq == row5

USE DEF usEvent, usTotal, usPeriod, usInvoice, usReq

MeterIds == DOMAIN Meters
UsageEvents == [Usage!Keys -> Usage!Periods \cup {Usage!NoEvent}]
MeterSums == [MeterIds -> Nat]
UsageInvoice == [period: Usage!Periods, overage: MeterSums]

\* The messages of a period that were counted under a meter.
CountedIn(event, meter, period) == Usage!Cardinality({m \in Messages : event[<<m, meter>>] = period})

SumsOK(event, sums, period) ==
    sums \in MeterSums /\ \A meter \in MeterIds : sums[meter] <= CountedIn(event, meter, period)
OverageOK(event, overage, period) ==
    overage \in MeterSums
    /\ \A meter \in MeterIds : overage[meter] <= Usage!Overage(CountedIn(event, meter, period))

\* A key inserted in a transaction that has not ended is of no stored event.
UsageRecord(req, event) ==
    /\ \/ req \in [at: {"lock"}, key: Usage!Keys, period: Usage!Periods]
       \/ req \in [at: {"commit"}, key: Usage!Keys, period: Usage!Periods, locks: SUBSET Usage!Rows]
    /\ event[req.key] = Usage!NoEvent
UsageReconcile(req, event) ==
    /\ req \in [at: {"reconcile"}, period: Usage!Periods, locks: SUBSET Usage!Rows, sums: MeterSums]
    /\ SumsOK(event, req.sums, req.period)
UsageBilling(req, event) ==
    /\ req \in [at: {"invoice"}, period: Usage!Periods, overage: MeterSums]
    /\ OverageOK(event, req.overage, req.period)

UsageReqOK(req, event) ==
    \/ req = Usage!Idle
    \/ req \in [at: {"insert"}, key: Usage!Keys]
    \/ UsageRecord(req, event)
    \/ UsageReconcile(req, event)
    \/ UsageBilling(req, event)

Recording(req) == req.at \in {"lock", "commit"}

TotalsOK(event, total) ==
    total \in [Usage!Rows -> Nat] /\ \A row \in Usage!Rows : total[row] <= CountedIn(event, row[1], row[2])
InvoicesOK(event, invoices) ==
    /\ invoices \in Seq(UsageInvoice)
    /\ \A i \in 1 .. Len(invoices) : OverageOK(event, invoices[i].overage, invoices[i].period)

UsageInv ==
    /\ usEvent \in UsageEvents /\ usPeriod \in Usage!Periods
    /\ TotalsOK(usEvent, usTotal)
    /\ InvoicesOK(usEvent, usInvoice)
    /\ DOMAIN usReq = Actors /\ \A r \in Actors : UsageReqOK(usReq[r], usEvent)
    /\ \A q, r \in Actors : Recording(usReq[q]) /\ Recording(usReq[r]) /\ usReq[q].key = usReq[r].key => q = r

\* Counting: a number, that grows by one with the event of a new key.
LEMMA UsageCounts == \A S : Usage!Cardinality(S) = Cardinality(S)
  BY DEF Usage!Cardinality, Cardinality

LEMMA CountedNat == ASSUME NEW event, NEW meter, NEW period PROVE CountedIn(event, meter, period) \in Nat
<1> DEFINE S == {m \in Messages : event[<<m, meter>>] = period}
<1>1. IsFiniteSet(S)
  <2>1. S \subseteq Messages /\ IsFiniteSet(Messages)
    BY UsageAssumption
  <2> QED
    BY <2>1, FS_Subset
<1>2. Cardinality(S) \in Nat
  BY <1>1, FS_CardinalityType
<1> QED
  BY <1>2, UsageCounts DEF CountedIn

LEMMA CountedMore ==
    ASSUME NEW event \in UsageEvents, NEW k \in Usage!Keys, event[k] = Usage!NoEvent, NEW p \in Usage!Periods,
           NEW new, new = [event EXCEPT ![k] = p]
    PROVE  /\ CountedIn(new, k[2], p) = CountedIn(event, k[2], p) + 1
           /\ \A meter \in MeterIds, q \in Usage!Periods : CountedIn(event, meter, q) <= CountedIn(new, meter, q)
<1>0. /\ Usage!Keys = Messages \X MeterIds /\ k = <<k[1], k[2]>> /\ k[1] \in Messages /\ k[2] \in MeterIds
      /\ Usage!NoEvent \notin Usage!Periods
  BY UsageAssumption DEF Usage!Keys, MeterIds, Usage!NoEvent, Usage!Periods
<1>1. DOMAIN event = Usage!Keys
  BY DEF UsageEvents
<1>2. ASSUME NEW meter \in MeterIds, NEW q \in Usage!Periods
      PROVE  /\ {m \in Messages : event[<<m, meter>>] = q} \subseteq {m \in Messages : new[<<m, meter>>] = q}
             /\ IsFiniteSet({m \in Messages : new[<<m, meter>>] = q})
  <2>1. \A m \in Messages : <<m, meter>> \in Usage!Keys
    BY <1>0
  <2>2. \A m \in Messages : event[<<m, meter>>] = q => new[<<m, meter>>] = q
    BY <1>0, <1>1, <2>1
  <2>3. {m \in Messages : new[<<m, meter>>] = q} \subseteq Messages /\ IsFiniteSet(Messages)
    BY UsageAssumption
  <2> QED
    BY <2>2, <2>3, FS_Subset
<1>3. ASSUME NEW meter \in MeterIds, NEW q \in Usage!Periods
      PROVE  CountedIn(event, meter, q) <= CountedIn(new, meter, q)
  <2> DEFINE S == {m \in Messages : event[<<m, meter>>] = q}
             T == {m \in Messages : new[<<m, meter>>] = q}
  <2>1. S \subseteq T /\ IsFiniteSet(T)
    BY <1>2
  <2>2. Cardinality(S) <= Cardinality(T)
    BY <2>1, FS_Subset
  <2>3. CountedIn(event, meter, q) = Cardinality(S) /\ CountedIn(new, meter, q) = Cardinality(T)
    BY UsageCounts DEF CountedIn
  <2> QED
    BY <2>2, <2>3
<1>4. CountedIn(new, k[2], p) = CountedIn(event, k[2], p) + 1
  <2> DEFINE S == {m \in Messages : event[<<m, k[2]>>] = p}
             T == {m \in Messages : new[<<m, k[2]>>] = p}
  <2>1. k[1] \notin S
    BY <1>0
  <2>2. new[<<k[1], k[2]>>] = p
    BY <1>0, <1>1
  <2>3. \A m \in Messages : m # k[1] => new[<<m, k[2]>>] = event[<<m, k[2]>>]
    BY <1>0, <1>1
  <2>4. T = S \cup {k[1]}
    BY <1>0, <2>2, <2>3
  <2>5. IsFiniteSet(S)
    <3>1. S \subseteq Messages /\ IsFiniteSet(Messages)
      BY UsageAssumption
    <3> QED
      BY <3>1, FS_Subset
  <2>6. CountedIn(event, k[2], p) = Cardinality(S) /\ CountedIn(new, k[2], p) = Cardinality(T)
    BY UsageCounts DEF CountedIn
  <2> HIDE DEF S, T
  <2>7. Cardinality(T) = Cardinality(S) + 1
    BY <2>1, <2>4, <2>5, FS_AddElement
  <2> QED
    BY <2>6, <2>7
<1> QED
  BY <1>3, <1>4

\* What is above the included quantity grows with the quantity.
LEMMA OverageGrows ==
    ASSUME NEW a \in Nat, NEW b \in Nat, a <= b
    PROVE  Usage!Overage(a) \in Nat /\ Usage!Overage(a) <= Usage!Overage(b)
  BY UsageAssumption DEF Usage!Overage

\* Events only add to what was counted: sums and invoices stay below it.
EventsGrow(old, new) ==
    \A meter \in MeterIds, q \in Usage!Periods : CountedIn(old, meter, q) <= CountedIn(new, meter, q)

LEMMA SumsKept ==
    ASSUME NEW old, NEW new, EventsGrow(old, new), NEW sums, NEW period \in Usage!Periods
    PROVE  /\ SumsOK(old, sums, period) => SumsOK(new, sums, period)
           /\ OverageOK(old, sums, period) => OverageOK(new, sums, period)
<1>1. ASSUME NEW meter \in MeterIds
      PROVE  /\ CountedIn(old, meter, period) \in Nat /\ CountedIn(new, meter, period) \in Nat
             /\ CountedIn(old, meter, period) <= CountedIn(new, meter, period)
             /\ Usage!Overage(CountedIn(old, meter, period)) <= Usage!Overage(CountedIn(new, meter, period))
             /\ Usage!Overage(CountedIn(old, meter, period)) \in Nat
             /\ Usage!Overage(CountedIn(new, meter, period)) \in Nat
  <2>1. CountedIn(old, meter, period) \in Nat /\ CountedIn(new, meter, period) \in Nat
    BY CountedNat
  <2>2. CountedIn(old, meter, period) <= CountedIn(new, meter, period)
    BY DEF EventsGrow
  <2>3. CountedIn(new, meter, period) <= CountedIn(new, meter, period)
    BY <2>1
  <2> QED
    BY <2>1, <2>2, <2>3, OverageGrows
<1>2. ASSUME SumsOK(old, sums, period) PROVE SumsOK(new, sums, period)
  <2>1. sums \in MeterSums
    BY <1>2 DEF SumsOK
  <2>2. ASSUME NEW meter \in MeterIds PROVE sums[meter] <= CountedIn(new, meter, period)
    <3>1. sums[meter] \in Nat /\ sums[meter] <= CountedIn(old, meter, period)
      BY <1>2, <2>1 DEF SumsOK, MeterSums
    <3> QED
      BY <1>1, <3>1
  <2> QED
    BY <2>1, <2>2 DEF SumsOK
<1>3. ASSUME OverageOK(old, sums, period) PROVE OverageOK(new, sums, period)
  <2>1. sums \in MeterSums
    BY <1>3 DEF OverageOK
  <2>2. ASSUME NEW meter \in MeterIds PROVE sums[meter] <= Usage!Overage(CountedIn(new, meter, period))
    <3>1. sums[meter] \in Nat /\ sums[meter] <= Usage!Overage(CountedIn(old, meter, period))
      BY <1>3, <2>1 DEF OverageOK, MeterSums
    <3> QED
      BY <1>1, <3>1
  <2> QED
    BY <2>1, <2>2 DEF OverageOK
<1> QED
  BY <1>2, <1>3

\* The initial states satisfy the invariant.
LEMMA UsageStarts == Usage!UsageInit => UsageInv
<1> SUFFICES ASSUME Usage!UsageInit PROVE UsageInv
  OBVIOUS
<1>1. /\ usEvent = [k \in Usage!Keys |-> Usage!NoEvent] /\ usTotal = [row \in Usage!Rows |-> 0]
      /\ usPeriod = 0 /\ usInvoice = <<>> /\ usReq = [r \in Actors |-> Usage!Idle]
  BY DEF Usage!UsageInit
<1>2. usEvent \in UsageEvents /\ usPeriod \in Usage!Periods
  BY <1>1, UsageAssumption DEF UsageEvents, Usage!Periods
<1>3. TotalsOK(usEvent, usTotal)
  <2>1. usTotal \in [Usage!Rows -> Nat]
    BY <1>1
  <2>2. ASSUME NEW row \in Usage!Rows PROVE usTotal[row] <= CountedIn(usEvent, row[1], row[2])
    <3>1. usTotal[row] = 0 /\ CountedIn(usEvent, row[1], row[2]) \in Nat
      BY <1>1, CountedNat
    <3> QED
      BY <3>1
  <2> QED
    BY <2>1, <2>2 DEF TotalsOK
<1>4. InvoicesOK(usEvent, usInvoice)
  <2>1. usInvoice \in Seq(UsageInvoice) /\ Len(usInvoice) = 0
    BY <1>1
  <2> QED
    BY <2>1 DEF InvoicesOK
<1>5. DOMAIN usReq = Actors /\ \A r \in Actors : usReq[r] = Usage!Idle
  BY <1>1
<1>6. \A r \in Actors : UsageReqOK(usReq[r], usEvent) /\ ~Recording(usReq[r])
  BY <1>5 DEF UsageReqOK, Recording, Usage!Idle
<1> QED
  BY <1>2, <1>3, <1>4, <1>5, <1>6 DEF UsageInv

\* A request's place says what it holds.
LEMMA UsagePlaces ==
    ASSUME NEW req, NEW event, UsageReqOK(req, event)
    PROVE  /\ req.at \in {"idle", "insert", "lock", "commit", "reconcile", "invoice"}
           /\ req.at = "insert" => req \in [at: {"insert"}, key: Usage!Keys]
           /\ req.at = "lock" => req \in [at: {"lock"}, key: Usage!Keys, period: Usage!Periods]
                                 /\ event[req.key] = Usage!NoEvent
           /\ req.at = "commit" =>
                  req \in [at: {"commit"}, key: Usage!Keys, period: Usage!Periods, locks: SUBSET Usage!Rows]
                  /\ event[req.key] = Usage!NoEvent
           /\ req.at = "reconcile" => UsageReconcile(req, event)
           /\ req.at = "invoice" => UsageBilling(req, event)
  BY DEF UsageReqOK, UsageRecord, UsageReconcile, UsageBilling, Usage!Idle

\* A request moves, and no event is stored.
LEMMA UsageMoved ==
    ASSUME UsageInv, NEW r \in Actors, NEW req, usReq' = [usReq EXCEPT ![r] = req], UsageReqOK(req, usEvent),
           Recording(req) => \A q \in Actors : q # r /\ Recording(usReq[q]) => usReq[q].key # req.key,
           usEvent' = usEvent, usPeriod' = usPeriod, TotalsOK(usEvent, usTotal'), InvoicesOK(usEvent, usInvoice')
    PROVE  UsageInv'
<1>1. DOMAIN usReq' = Actors /\ usReq'[r] = req /\ \A q \in Actors : q # r => usReq'[q] = usReq[q]
  BY DEF UsageInv
<1>2. \A q \in Actors : UsageReqOK(usReq'[q], usEvent')
  BY <1>1 DEF UsageInv
<1>3. \A p, q \in Actors : Recording(usReq'[p]) /\ Recording(usReq'[q]) /\ usReq'[p].key = usReq'[q].key => p = q
  BY <1>1 DEF UsageInv
<1>4. TotalsOK(usEvent', usTotal') /\ InvoicesOK(usEvent', usInvoice')
  OBVIOUS
<1>5. usEvent' \in UsageEvents /\ usPeriod' \in Usage!Periods
  BY DEF UsageInv
<1> QED
  BY <1>1, <1>2, <1>3, <1>4, <1>5 DEF UsageInv

LEMMA UsageQuiet ==
    ASSUME UsageInv, NEW r \in Actors, NEW req, usReq' = [usReq EXCEPT ![r] = req], UsageReqOK(req, usEvent),
           Recording(req) => \A q \in Actors : q # r /\ Recording(usReq[q]) => usReq[q].key # req.key,
           usEvent' = usEvent, usPeriod' = usPeriod, usTotal' = usTotal, usInvoice' = usInvoice
    PROVE  UsageInv'
<1>1. TotalsOK(usEvent, usTotal') /\ InvoicesOK(usEvent, usInvoice')
  BY DEF UsageInv
<1> QED
  BY <1>1, UsageMoved

\* What comes after a meter: the next one, or the end.
LEMMA MetersGoOn ==
    ASSUME UsageInv, NEW r \in Actors, usReq[r].key \in Usage!Keys, Usage!NextMeter(r)
    PROVE  \E req : /\ req = Usage!Idle \/ req \in [at: {"insert"}, key: Usage!Keys]
                    /\ usReq' = [usReq EXCEPT ![r] = req]
<1> DEFINE k == usReq[r].key
           next == <<k[1], k[2] + 1>>
           req == IF k[2] < Len(Meters) THEN [at |-> "insert", key |-> next] ELSE Usage!Idle
<1>1. k[1] \in Messages /\ k[2] \in 1 .. Len(Meters) /\ Len(Meters) \in Nat /\ Usage!Keys = Messages \X (1 .. Len(Meters))
  BY UsageAssumption DEF Usage!Keys
<1>2. k[2] < Len(Meters) => next \in Usage!Keys
  <2>1. k[2] < Len(Meters) => k[2] + 1 \in 1 .. Len(Meters)
    BY <1>1
  <2> QED
    BY <1>1, <2>1
<1>3. usReq' = [usReq EXCEPT ![r] = req]
  BY DEF Usage!NextMeter, Usage!Goto, Usage!End
<1> HIDE DEF next, k
<1>4. req = Usage!Idle \/ req \in [at: {"insert"}, key: Usage!Keys]
  BY <1>2
<1> QED
  BY <1>3, <1>4

\* Requests begin, insert, lock, die.
LEMMA UsageMoves ==
    ASSUME UsageInv, NEW r \in Actors
    PROVE  /\ \A m \in Messages : Usage!RecordBegin(r, m) => UsageInv'
           /\ Usage!RecordInsert(r) => UsageInv'
           /\ Usage!RecordLock(r) => UsageInv'
           /\ \A n \in MeterIds : Usage!ReconcileLock(r, n) => UsageInv'
           /\ Usage!RequestDies(r) => UsageInv'
<1> USE DEF Usage!Goto, Usage!End, Usage!At
<1>0. UsageReqOK(usReq[r], usEvent) /\ usPeriod \in Usage!Periods /\ usEvent \in UsageEvents
  BY DEF UsageInv
<1>1. ASSUME NEW m \in Messages, Usage!RecordBegin(r, m) PROVE UsageInv'
  <2> DEFINE k == <<m, 1>>
             req == [at |-> "insert", key |-> k]
  <2>1. k \in Usage!Keys
    BY UsageAssumption DEF Usage!Keys
  <2>2. /\ usReq' = [usReq EXCEPT ![r] = req]
        /\ usEvent' = usEvent /\ usPeriod' = usPeriod /\ usTotal' = usTotal /\ usInvoice' = usInvoice
    BY <1>1 DEF Usage!RecordBegin
  <2> HIDE DEF k
  <2>3. UsageReqOK(req, usEvent) /\ ~Recording(req)
    BY <2>1 DEF UsageReqOK, Recording
  <2> HIDE DEF req
  <2> QED
    BY <2>2, <2>3, UsageQuiet
<1>2. ASSUME Usage!RecordInsert(r) PROVE UsageInv'
  <2> DEFINE k == usReq[r].key
             req == [at |-> "lock", key |-> k, period |-> usPeriod]
  <2>1. k \in Usage!Keys
    BY <1>0, <1>2, UsagePlaces DEF Usage!RecordInsert
  <2>2. /\ k \notin Usage!Inserted
        /\ IF Usage!Stored(k) THEN Usage!NextMeter(r) ELSE usReq' = [usReq EXCEPT ![r] = req]
        /\ usEvent' = usEvent /\ usPeriod' = usPeriod /\ usTotal' = usTotal /\ usInvoice' = usInvoice
    BY <1>2 DEF Usage!RecordInsert
  <2>3. CASE Usage!Stored(k)
    <3>1. PICK new : /\ new = Usage!Idle \/ new \in [at: {"insert"}, key: Usage!Keys]
                     /\ usReq' = [usReq EXCEPT ![r] = new]
      BY <2>1, <2>2, <2>3, MetersGoOn
    <3>2. UsageReqOK(new, usEvent) /\ ~Recording(new)
      BY <3>1 DEF UsageReqOK, Recording, Usage!Idle
    <3> QED
      BY <2>2, <3>1, <3>2, UsageQuiet
  <2>4. CASE ~Usage!Stored(k)
    <3>1. \A q \in Actors : Recording(usReq[q]) => usReq[q].key # k
      BY <2>2 DEF Usage!Inserted, Recording
    <3>2. usEvent[k] = Usage!NoEvent
      BY <2>4 DEF Usage!Stored
    <3>3. usReq' = [usReq EXCEPT ![r] = req]
      BY <2>2, <2>4
    <3> HIDE DEF k
    <3>4. UsageReqOK(req, usEvent) /\ req.key = k
      BY <1>0, <2>1, <3>2 DEF UsageReqOK, UsageRecord
    <3> HIDE DEF req
    <3> QED
      BY <2>2, <3>1, <3>3, <3>4, UsageQuiet
  <2> QED
    BY <2>3, <2>4
<1>3. ASSUME Usage!RecordLock(r) PROVE UsageInv'
  <2> DEFINE k == usReq[r].key
             p == usReq[r].period
             locks == {<<k[2], p>>}
             req == [at |-> "commit", key |-> k, period |-> p, locks |-> locks]
  <2>1. k \in Usage!Keys /\ p \in Usage!Periods /\ usEvent[k] = Usage!NoEvent /\ Recording(usReq[r])
    BY <1>0, <1>3, UsagePlaces DEF Usage!RecordLock, Recording
  <2>2. /\ usReq' = [usReq EXCEPT ![r] = req]
        /\ usEvent' = usEvent /\ usPeriod' = usPeriod /\ usTotal' = usTotal /\ usInvoice' = usInvoice
    BY <1>3 DEF Usage!RecordLock
  <2>3. \A q \in Actors : q # r /\ Recording(usReq[q]) => usReq[q].key # k
    BY <2>1 DEF UsageInv
  <2> HIDE DEF k, p
  <2>4. locks \subseteq Usage!Rows
    BY <2>1 DEF Usage!Rows, Usage!Keys
  <2> HIDE DEF locks
  <2>5. UsageReqOK(req, usEvent) /\ req.key = k
    BY <2>1, <2>4 DEF UsageReqOK, UsageRecord
  <2> HIDE DEF req
  <2> QED
    BY <2>2, <2>3, <2>5, UsageQuiet
<1>4. ASSUME NEW n \in MeterIds, Usage!ReconcileLock(r, n) PROVE UsageInv'
  <2> DEFINE row == <<n, usReq[r].period>>
             locks == usReq[r].locks \cup {row}
             req == [usReq[r] EXCEPT !.locks = locks]
  <2>1. UsageReconcile(usReq[r], usEvent)
    BY <1>0, <1>4, UsagePlaces DEF Usage!ReconcileLock
  <2>2. /\ usReq' = [usReq EXCEPT ![r] = req]
        /\ usEvent' = usEvent /\ usPeriod' = usPeriod /\ usTotal' = usTotal /\ usInvoice' = usInvoice
    BY <1>4 DEF Usage!ReconcileLock
  <2>3. locks \subseteq Usage!Rows
    BY <2>1 DEF Usage!Rows, UsageReconcile, MeterIds
  <2> HIDE DEF locks
  <2>4. UsageReconcile(req, usEvent) /\ req.at = "reconcile"
    BY <2>1, <2>3 DEF UsageReconcile
  <2> HIDE DEF req
  <2>5. UsageReqOK(req, usEvent) /\ ~Recording(req)
    BY <2>4 DEF UsageReqOK, Recording
  <2> QED
    BY <2>2, <2>5, UsageQuiet
<1>5. ASSUME Usage!RequestDies(r) PROVE UsageInv'
  <2>1. UsageReqOK(Usage!Idle, usEvent) /\ ~Recording(Usage!Idle)
    BY DEF UsageReqOK, Recording, Usage!Idle
  <2>2. /\ usReq' = [usReq EXCEPT ![r] = Usage!Idle]
        /\ usEvent' = usEvent /\ usPeriod' = usPeriod /\ usTotal' = usTotal /\ usInvoice' = usInvoice
    BY <1>5 DEF Usage!RequestDies
  <2> QED
    BY <2>1, <2>2, UsageQuiet
<1> QED
  BY <1>1, <1>2, <1>3, <1>4, <1>5

\* The commit of a record: the event is stored and its total grows by one.
LEMMA UsageRecorded ==
    ASSUME UsageInv, NEW r \in Actors, Usage!RecordCommit(r)
    PROVE  UsageInv'
<1> DEFINE k == usReq[r].key
           p == usReq[r].period
           row == <<k[2], p>>
<1>1. UsageReqOK(usReq[r], usEvent) /\ usPeriod \in Usage!Periods /\ usEvent \in UsageEvents
      /\ TotalsOK(usEvent, usTotal) /\ InvoicesOK(usEvent, usInvoice)
  BY DEF UsageInv
<1>2. k \in Usage!Keys /\ p \in Usage!Periods /\ usEvent[k] = Usage!NoEvent /\ Recording(usReq[r])
  BY <1>1, UsagePlaces DEF Usage!RecordCommit, Usage!At, Recording
<1>3. /\ usEvent' = [usEvent EXCEPT ![k] = p]
      /\ usTotal' = [usTotal EXCEPT ![row] = usTotal[row] + 1]
      /\ usPeriod' = usPeriod /\ usInvoice' = usInvoice
  BY DEF Usage!RecordCommit
<1>4. PICK req : /\ req = Usage!Idle \/ req \in [at: {"insert"}, key: Usage!Keys]
                 /\ usReq' = [usReq EXCEPT ![r] = req]
  BY <1>2, MetersGoOn DEF Usage!RecordCommit
<1>5. \A q \in Actors : q # r /\ Recording(usReq[q]) => usReq[q].key # k
  BY <1>2 DEF UsageInv
<1> HIDE DEF k, p
<1>6. CountedIn(usEvent', k[2], p) = CountedIn(usEvent, k[2], p) + 1
      /\ EventsGrow(usEvent, usEvent')
  BY <1>1, <1>2, <1>3, CountedMore DEF EventsGrow
<1>7. usEvent' \in UsageEvents
  BY <1>1, <1>2, <1>3 DEF UsageEvents
<1>8. row \in Usage!Rows /\ row[1] = k[2] /\ row[2] = p
  BY <1>2 DEF Usage!Rows, Usage!Keys
<1> HIDE DEF row
<1>9. TotalsOK(usEvent', usTotal')
  <2>1. usTotal \in [Usage!Rows -> Nat]
    BY <1>1 DEF TotalsOK
  <2>2. usTotal' \in [Usage!Rows -> Nat] /\ usTotal'[row] = usTotal[row] + 1
        /\ \A s \in Usage!Rows : s # row => usTotal'[s] = usTotal[s]
    BY <1>3, <1>8, <2>1
  <2>3. ASSUME NEW s \in Usage!Rows PROVE usTotal'[s] <= CountedIn(usEvent', s[1], s[2])
    <3>1. /\ usTotal[s] \in Nat /\ usTotal[s] <= CountedIn(usEvent, s[1], s[2])
          /\ CountedIn(usEvent, s[1], s[2]) \in Nat /\ CountedIn(usEvent', s[1], s[2]) \in Nat
      BY <1>1, <2>1, CountedNat DEF TotalsOK
    <3>2. CASE s = row
      BY <1>6, <1>8, <2>2, <3>1, <3>2
    <3>3. CASE s # row
      <4>1. s[1] \in MeterIds /\ s[2] \in Usage!Periods
        BY DEF Usage!Rows, MeterIds
      <4>2. CountedIn(usEvent, s[1], s[2]) <= CountedIn(usEvent', s[1], s[2])
        BY <1>6, <4>1 DEF EventsGrow
      <4>3. usTotal'[s] = usTotal[s]
        BY <2>2, <3>3
      <4> QED
        BY <3>1, <4>2, <4>3
    <3> QED
      BY <3>2, <3>3
  <2> QED
    BY <2>2, <2>3 DEF TotalsOK
<1>10. InvoicesOK(usEvent', usInvoice')
  <2>1. usInvoice \in Seq(UsageInvoice)
    BY <1>1 DEF InvoicesOK
  <2>2. ASSUME NEW i \in 1 .. Len(usInvoice)
        PROVE  OverageOK(usEvent', usInvoice[i].overage, usInvoice[i].period)
    <3>1. usInvoice[i] \in UsageInvoice /\ OverageOK(usEvent, usInvoice[i].overage, usInvoice[i].period)
      BY <1>1, <2>1 DEF InvoicesOK
    <3>2. usInvoice[i].period \in Usage!Periods
      BY <3>1 DEF UsageInvoice
    <3> QED
      BY <1>6, <3>1, <3>2, SumsKept
  <2> QED
    BY <1>3, <2>1, <2>2 DEF InvoicesOK
<1>11. DOMAIN usReq' = Actors /\ usReq'[r] = req /\ \A q \in Actors : q # r => usReq'[q] = usReq[q]
  BY <1>4 DEF UsageInv
<1>12. ASSUME NEW q \in Actors PROVE UsageReqOK(usReq'[q], usEvent')
  <2>1. CASE q = r
    BY <1>4, <1>11, <2>1 DEF UsageReqOK
  <2>2. CASE q # r
    <3>0. UsageReqOK(usReq[q], usEvent) /\ usReq'[q] = usReq[q]
      BY <1>11, <2>2 DEF UsageInv
    <3>1. CASE UsageRecord(usReq[q], usEvent)
      <4>1. usReq[q].key \in Usage!Keys /\ Recording(usReq[q])
        BY <3>1 DEF UsageRecord, Recording
      <4>2. usEvent'[usReq[q].key] = Usage!NoEvent
        BY <1>1, <1>3, <1>5, <2>2, <3>1, <4>1 DEF UsageRecord, UsageEvents
      <4> QED
        BY <3>0, <3>1, <4>2 DEF UsageRecord, UsageReqOK
    <3>2. CASE UsageReconcile(usReq[q], usEvent)
      <4>1. usReq[q].period \in Usage!Periods
        BY <3>2 DEF UsageReconcile
      <4>2. SumsOK(usEvent', usReq[q].sums, usReq[q].period)
        BY <1>6, <3>2, <4>1, SumsKept DEF UsageReconcile
      <4> QED
        BY <3>0, <3>2, <4>2 DEF UsageReconcile, UsageReqOK
    <3>3. CASE UsageBilling(usReq[q], usEvent)
      <4>1. usReq[q].period \in Usage!Periods
        BY <3>3 DEF UsageBilling
      <4>2. OverageOK(usEvent', usReq[q].overage, usReq[q].period)
        BY <1>6, <3>3, <4>1, SumsKept DEF UsageBilling
      <4> QED
        BY <3>0, <3>3, <4>2 DEF UsageBilling, UsageReqOK
    <3> QED
      BY <3>0, <3>1, <3>2, <3>3 DEF UsageReqOK
  <2> QED
    BY <2>1, <2>2
<1>13. ~Recording(req)
  BY <1>4 DEF Recording, Usage!Idle
<1>14. \A s, q \in Actors : Recording(usReq'[s]) /\ Recording(usReq'[q]) /\ usReq'[s].key = usReq'[q].key => s = q
  BY <1>11, <1>13 DEF UsageInv
<1> QED
  BY <1>1, <1>3, <1>7, <1>9, <1>10, <1>11, <1>12, <1>14 DEF UsageInv

\* A reconciliation reads the sums and writes them; an invoice likewise.
LEMMA UsageReconciled ==
    ASSUME UsageInv, NEW r \in Actors
    PROVE  /\ Usage!ReconcileBegin(r) => UsageInv'
           /\ Usage!ReconcileCommit(r) => UsageInv'
<1> USE DEF Usage!Goto, Usage!End, Usage!At
<1>0. UsageReqOK(usReq[r], usEvent) /\ usPeriod \in Usage!Periods /\ TotalsOK(usEvent, usTotal)
      /\ InvoicesOK(usEvent, usInvoice)
  BY DEF UsageInv
<1>1. ASSUME Usage!ReconcileBegin(r) PROVE UsageInv'
  <2> DEFINE sums == [meter \in DOMAIN Meters |-> Usage!Counted(meter, usPeriod)]
             req == [at |-> "reconcile", period |-> usPeriod, locks |-> {}, sums |-> sums]
  <2>1. /\ usReq' = [usReq EXCEPT ![r] = req]
        /\ usEvent' = usEvent /\ usPeriod' = usPeriod /\ usTotal' = usTotal /\ usInvoice' = usInvoice
    BY <1>1 DEF Usage!ReconcileBegin
  <2>2. \A meter \in MeterIds : sums[meter] = CountedIn(usEvent, meter, usPeriod)
    BY DEF Usage!Counted, CountedIn, MeterIds
  <2>3. sums \in MeterSums
    <3>1. \A meter \in MeterIds : Usage!Counted(meter, usPeriod) \in Nat
      <4>1. \A meter \in MeterIds : Usage!Counted(meter, usPeriod) = CountedIn(usEvent, meter, usPeriod)
        BY DEF Usage!Counted, CountedIn
      <4> QED
        BY <4>1, CountedNat
    <3> QED
      BY <3>1 DEF MeterSums, MeterIds
  <2> HIDE DEF sums
  <2>4. SumsOK(usEvent, sums, usPeriod)
    <3>1. ASSUME NEW meter \in MeterIds PROVE sums[meter] <= CountedIn(usEvent, meter, usPeriod)
      <4>1. CountedIn(usEvent, meter, usPeriod) \in Nat
        BY CountedNat
      <4> QED
        BY <2>2, <4>1
    <3> QED
      BY <2>3, <3>1 DEF SumsOK
  <2>5. UsageReconcile(req, usEvent) /\ ~Recording(req)
    BY <1>0, <2>3, <2>4 DEF UsageReconcile, Recording
  <2> HIDE DEF req
  <2>6. UsageReqOK(req, usEvent)
    BY <2>5 DEF UsageReqOK
  <2> QED
    BY <2>1, <2>5, <2>6, UsageQuiet
<1>2. ASSUME Usage!ReconcileCommit(r) PROVE UsageInv'
  <2> DEFINE sums == usReq[r].sums
             locks == usReq[r].locks
             p == usReq[r].period
  <2>1. UsageReconcile(usReq[r], usEvent)
    BY <1>0, <1>2, UsagePlaces DEF Usage!ReconcileCommit
  <2>2. SumsOK(usEvent, sums, p)
    BY <2>1 DEF UsageReconcile
  <2>3. /\ locks = (DOMAIN Meters) \X {p}
        /\ usTotal' = [row \in Usage!Rows |-> IF row \in locks THEN sums[row[1]] ELSE usTotal[row]]
        /\ usReq' = [usReq EXCEPT ![r] = Usage!Idle]
        /\ usEvent' = usEvent /\ usPeriod' = usPeriod /\ usInvoice' = usInvoice
    BY <1>2 DEF Usage!ReconcileCommit
  <2> HIDE DEF sums, locks, p
  <2>4. ASSUME NEW row \in Usage!Rows
        PROVE  usTotal'[row] \in Nat /\ usTotal'[row] <= CountedIn(usEvent, row[1], row[2])
    <3>1. CASE row \in locks
      <4>1. row[1] \in MeterIds /\ row[2] = p
        BY <2>3, <3>1 DEF MeterIds
      <4>2. usTotal'[row] = sums[row[1]]
        BY <2>3, <3>1
      <4> QED
        BY <2>2, <4>1, <4>2 DEF SumsOK, MeterSums
    <3>2. CASE row \notin locks
      <4>1. usTotal'[row] = usTotal[row]
        BY <2>3, <3>2
      <4> QED
        BY <1>0, <4>1 DEF TotalsOK
    <3> QED
      BY <3>1, <3>2
  <2>5. usTotal' \in [Usage!Rows -> Nat]
    <3>1. DOMAIN usTotal' = Usage!Rows /\ usTotal' = [row \in Usage!Rows |-> usTotal'[row]]
      BY <2>3
    <3> QED
      BY <2>4, <3>1
  <2>6. TotalsOK(usEvent, usTotal')
    BY <2>4, <2>5 DEF TotalsOK
  <2>7. UsageReqOK(Usage!Idle, usEvent) /\ ~Recording(Usage!Idle)
    BY DEF UsageReqOK, Recording, Usage!Idle
  <2>8. InvoicesOK(usEvent, usInvoice')
    BY <1>0, <2>3
  <2> QED
    BY <2>3, <2>6, <2>7, <2>8, UsageMoved
<1> QED
  BY <1>1, <1>2

LEMMA UsageInvoiced ==
    ASSUME UsageInv, NEW r \in Actors
    PROVE  /\ Usage!InvoiceBegin(r) => UsageInv'
           /\ Usage!InvoiceCommit(r) => UsageInv'
<1> USE DEF Usage!Goto, Usage!End, Usage!At
<1>0. UsageReqOK(usReq[r], usEvent) /\ usPeriod \in Usage!Periods /\ TotalsOK(usEvent, usTotal)
      /\ InvoicesOK(usEvent, usInvoice)
  BY DEF UsageInv
<1>1. ASSUME Usage!InvoiceBegin(r) PROVE UsageInv'
  <2> DEFINE total(meter) == usTotal[<<meter, usPeriod>>]
             overage == [meter \in DOMAIN Meters |-> Usage!Overage(total(meter))]
             req == [at |-> "invoice", period |-> usPeriod, overage |-> overage]
  <2>1. /\ usReq' = [usReq EXCEPT ![r] = req]
        /\ usEvent' = usEvent /\ usPeriod' = usPeriod /\ usTotal' = usTotal /\ usInvoice' = usInvoice
    BY <1>1 DEF Usage!InvoiceBegin
  <2>2. ASSUME NEW meter \in MeterIds
        PROVE  /\ overage[meter] = Usage!Overage(total(meter)) /\ Usage!Overage(total(meter)) \in Nat
               /\ Usage!Overage(total(meter)) <= Usage!Overage(CountedIn(usEvent, meter, usPeriod))
    <3>1. <<meter, usPeriod>> \in Usage!Rows
      BY <1>0 DEF Usage!Rows, MeterIds
    <3>2. total(meter) \in Nat /\ total(meter) <= CountedIn(usEvent, meter, usPeriod)
      BY <1>0, <3>1 DEF TotalsOK
    <3>3. CountedIn(usEvent, meter, usPeriod) \in Nat
      BY CountedNat
    <3>4. overage[meter] = Usage!Overage(total(meter))
      BY DEF MeterIds
    <3> HIDE DEF total
    <3> QED
      BY <3>2, <3>3, <3>4, OverageGrows
  <2>3. overage \in MeterSums
    BY <2>2 DEF MeterSums, MeterIds
  <2> HIDE DEF overage
  <2>4. OverageOK(usEvent, overage, usPeriod)
    BY <2>2, <2>3 DEF OverageOK
  <2>5. UsageBilling(req, usEvent) /\ ~Recording(req)
    BY <1>0, <2>3, <2>4 DEF UsageBilling, Recording
  <2> HIDE DEF req
  <2>6. UsageReqOK(req, usEvent)
    BY <2>5 DEF UsageReqOK
  <2> QED
    BY <2>1, <2>5, <2>6, UsageQuiet
<1>2. ASSUME Usage!InvoiceCommit(r) PROVE UsageInv'
  <2> DEFINE invoice == [period |-> usReq[r].period, overage |-> usReq[r].overage]
  <2>1. UsageBilling(usReq[r], usEvent)
    BY <1>0, <1>2, UsagePlaces DEF Usage!InvoiceCommit
  <2>2. invoice \in UsageInvoice /\ OverageOK(usEvent, invoice.overage, invoice.period)
    BY <2>1 DEF UsageBilling, UsageInvoice
  <2>3. /\ usInvoice' = Append(usInvoice, invoice) /\ usReq' = [usReq EXCEPT ![r] = Usage!Idle]
        /\ usEvent' = usEvent /\ usPeriod' = usPeriod /\ usTotal' = usTotal
    BY <1>2 DEF Usage!InvoiceCommit
  <2> HIDE DEF invoice
  <2>4. /\ usInvoice' \in Seq(UsageInvoice) /\ Len(usInvoice') = Len(usInvoice) + 1 /\ Len(usInvoice) \in Nat
        /\ \A i \in 1 .. Len(usInvoice) : usInvoice'[i] = usInvoice[i]
        /\ usInvoice'[Len(usInvoice) + 1] = invoice
    BY <1>0, <2>2, <2>3, Appended DEF InvoicesOK
  <2>5. 1 .. Len(usInvoice') = 1 .. Len(usInvoice) \cup {Len(usInvoice) + 1}
    BY <2>4
  <2>6. InvoicesOK(usEvent, usInvoice')
    BY <1>0, <2>2, <2>4, <2>5 DEF InvoicesOK
  <2>7. UsageReqOK(Usage!Idle, usEvent) /\ ~Recording(Usage!Idle)
    BY DEF UsageReqOK, Recording, Usage!Idle
  <2>8. TotalsOK(usEvent, usTotal')
    BY <1>0, <2>3
  <2> QED
    BY <2>3, <2>6, <2>7, <2>8, UsageMoved
<1> QED
  BY <1>1, <1>2

LEMMA UsageRenewed == ASSUME UsageInv, Usage!Renew PROVE UsageInv'
<1>1. usPeriod' \in Usage!Periods
  BY UsageAssumption DEF UsageInv, Usage!Renew, Usage!Periods
<1>2. usEvent' = usEvent /\ usTotal' = usTotal /\ usInvoice' = usInvoice /\ usReq' = usReq
  BY DEF Usage!Renew
<1> QED
  BY <1>1, <1>2 DEF UsageInv

\* Every step of the part, by the lemma of its action.
LEMMA UsagePart ==
    ASSUME UsageInv, UsageSteps
    PROVE  UsageInv' /\ focus = "usage" /\ UNCHANGED focus
  BY UsageMoves, UsageRecorded, UsageReconciled, UsageInvoiced, UsageRenewed DEF UsageSteps, Keep5, MeterIds

\* The invariant is the property the run checks, and more.
LEMMA UsageHolds == UsageInv => Usage!UsageNotOverstated /\ Usage!UsageTypeOK
<1> SUFFICES ASSUME UsageInv PROVE Usage!UsageNotOverstated /\ Usage!UsageTypeOK
  OBVIOUS
<1>0. /\ usEvent \in UsageEvents /\ usPeriod \in Usage!Periods
      /\ TotalsOK(usEvent, usTotal) /\ InvoicesOK(usEvent, usInvoice)
  BY DEF UsageInv
<1>1. \A meter, q : Usage!Counted(meter, q) = CountedIn(usEvent, meter, q)
  BY DEF Usage!Counted, CountedIn
<1>2. \A row \in Usage!Rows : usTotal[row] <= Usage!Counted(row[1], row[2])
  BY <1>0, <1>1 DEF TotalsOK
<1>3. ASSUME NEW i \in DOMAIN usInvoice
      PROVE  /\ usInvoice[i].period \in Usage!Periods /\ usInvoice[i].overage \in [DOMAIN Meters -> Nat]
             /\ \A meter \in DOMAIN Meters :
                    usInvoice[i].overage[meter] <= Usage!Overage(Usage!Counted(meter, usInvoice[i].period))
  <2>1. usInvoice \in Seq(UsageInvoice) /\ i \in 1 .. Len(usInvoice)
    BY <1>0 DEF InvoicesOK
  <2>2. usInvoice[i] \in UsageInvoice /\ OverageOK(usEvent, usInvoice[i].overage, usInvoice[i].period)
    BY <1>0, <2>1 DEF InvoicesOK
  <2>3. usInvoice[i].period \in Usage!Periods /\ usInvoice[i].overage \in MeterSums
    BY <2>2 DEF UsageInvoice
  <2> QED
    BY <1>1, <2>2, <2>3 DEF OverageOK, MeterSums, MeterIds
<1>4. Usage!UsageNotOverstated
  BY <1>2, <1>3, Zenon DEF Usage!UsageNotOverstated
<1>5. \A r \in Actors : usReq[r].at \in {"idle", "insert", "lock", "commit", "reconcile", "invoice"}
  BY UsagePlaces DEF UsageInv
<1>6. usTotal \in [Usage!Rows -> Nat]
  BY <1>0 DEF TotalsOK
<1>7. usEvent \in [Usage!Keys -> Usage!Periods \cup {Usage!NoEvent}]
  BY <1>0 DEF UsageEvents
<1> QED
  BY <1>0, <1>3, <1>4, <1>5, <1>6, <1>7, Zenon DEF Usage!UsageTypeOK

-----------------------------------------------------------------------------
(* Payments.  The rows by the names module Payments gives them.            *)
pvInvoice == row1
pvAttempt == row2
pvEvent == row3
pvSub == row4
pvReq == row5

USE DEF pvInvoice, pvAttempt, pvEvent, pvSub, pvReq

AttemptId == {"total", "zero", "event", ""}
PaymentsRead == [at: {"read", "apply"}, event: Events]
PaymentsFail == [at: {"fail"}, event: Events, attempt: 0 .. Len(pvAttempt)]
PaymentsReqOK(h) == pvReq[h] = Payments!Idle \/ pvReq[h] \in PaymentsRead \cup PaymentsFail

PaymentsSub == {"active", "grace", "paused"}
PaymentsRows ==
    /\ pvInvoice \in [status: Payments!InvoiceStatus, linked: BOOLEAN]
    /\ pvEvent \in [Events -> [status: Payments!EventStatus, kind: Payments!EventKind]]
    /\ pvSub \in PaymentsSub

\* One attempt pays the invoice, and only a paid invoice has such an attempt.
OnePays(invoice, attempts) ==
    /\ attempts \in Seq(Payments!AttemptRow) /\ Len(attempts) <= MaxAttempts
    /\ \A n \in 1 .. Len(attempts) : attempts[n].status = "succeeded" =>
           /\ invoice.status = "paid"
           /\ \A m \in 1 .. Len(attempts) : attempts[m].status = "succeeded" => m = n

PaymentsInv ==
    /\ PaymentsRows
    /\ OnePays(pvInvoice, pvAttempt)
    /\ DOMAIN pvReq = Actors /\ \A h \in Actors : PaymentsReqOK(h)

\* The rows of attempts, with the empty id among the others.
LEMMA AttemptRows ==
    /\ Payments!AttemptRow = [status: {"pending", "succeeded", "failed"}, id: AttemptId]
    /\ {"total", "zero", "event"} \subseteq AttemptId
  BY Zenon DEF Payments!AttemptRow, AttemptId

LEMMA NewAttempt ==
    ASSUME NEW status \in {"pending", "succeeded", "failed"}, NEW id \in AttemptId
    PROVE  /\ [status |-> status, id |-> id] \in Payments!AttemptRow
           /\ [status |-> status, id |-> id].status = status
  BY AttemptRows

\* A handler's place says what its request holds.
LEMMA PaymentsPlaces ==
    ASSUME PaymentsInv, NEW h \in Actors
    PROVE  /\ pvReq[h].at \in {"read", "apply"} => pvReq[h] \in PaymentsRead
           /\ pvReq[h].at = "fail" => pvReq[h] \in PaymentsFail
  BY DEF PaymentsInv, PaymentsReqOK, Payments!Idle, PaymentsRead, PaymentsFail

\* The initial states satisfy the invariant.
LEMMA PaymentsStarts == Payments!PaymentsInit => PaymentsInv
<1> SUFFICES ASSUME Payments!PaymentsInit PROVE PaymentsInv
  OBVIOUS
<1>1. PaymentsRows
  <2>1. pvInvoice = [status |-> "draft", linked |-> FALSE] /\ pvSub = "active"
    BY DEF Payments!PaymentsInit
  <2>2. pvEvent \in [Events -> [status: {"none"}, kind: Payments!EventKind]]
    BY DEF Payments!PaymentsInit
  <2>3. [status: {"none"}, kind: Payments!EventKind] \subseteq [status: Payments!EventStatus, kind: Payments!EventKind]
    BY DEF Payments!EventStatus
  <2> QED
    BY <2>1, <2>2, <2>3 DEF PaymentsRows, Payments!InvoiceStatus, PaymentsSub
<1>2. OnePays(pvInvoice, pvAttempt)
  <2>1. pvAttempt = <<>>
    BY DEF Payments!PaymentsInit
  <2>2. pvAttempt \in Seq(Payments!AttemptRow) /\ Len(pvAttempt) = 0
    BY <2>1
  <2> QED
    BY <2>2, PaymentsAssumption DEF OnePays
<1>3. DOMAIN pvReq = Actors /\ \A h \in Actors : PaymentsReqOK(h)
  BY DEF Payments!PaymentsInit, PaymentsReqOK
<1> QED
  BY <1>1, <1>2, <1>3 DEF PaymentsInv

\* What a step must keep: the rows typed, the attempts growing.
LEMMA PaymentsKept ==
    ASSUME PaymentsInv, NEW h \in Actors, NEW req,
           PaymentsRows', OnePays(pvInvoice', pvAttempt'), Len(pvAttempt') >= Len(pvAttempt),
           \/ pvReq' = pvReq
           \/ pvReq' = [pvReq EXCEPT ![h] = req]
              /\ (req = Payments!Idle \/ req \in PaymentsRead \cup PaymentsFail)
    PROVE  PaymentsInv'
<1>1. DOMAIN pvReq' = Actors
  BY DEF PaymentsInv
<1>2. PaymentsFail \subseteq PaymentsFail'
  <2>1. Len(pvAttempt) \in Nat /\ Len(pvAttempt') \in Nat
    BY DEF PaymentsInv, OnePays
  <2>2. 0 .. Len(pvAttempt) \subseteq 0 .. Len(pvAttempt')
    BY <2>1
  <2> QED
    BY <2>2 DEF PaymentsFail
<1>3. ASSUME NEW q \in Actors PROVE PaymentsReqOK(q)'
  <2>1. pvReq'[q] = Payments!Idle \/ pvReq'[q] \in PaymentsRead \cup PaymentsFail
    BY <1>3 DEF PaymentsInv, PaymentsReqOK
  <2> QED
    BY <1>2, <2>1 DEF PaymentsReqOK, PaymentsRead, Payments!Idle
<1> QED
  BY <1>1, <1>3 DEF PaymentsInv

\* An invoice stays paid when another field or status of it changes.
LEMMA AttemptsKept ==
    ASSUME NEW old, NEW new, NEW attempts, OnePays(old, attempts),
           old.status = "paid" => new.status = "paid"
    PROVE  OnePays(new, attempts)
  BY DEF OnePays

\* An attempt that did not pay is added, or written over another.
LEMMA AttemptAdded ==
    ASSUME NEW invoice, NEW attempts, OnePays(invoice, attempts), Len(attempts) < MaxAttempts,
           NEW row \in Payments!AttemptRow, row.status # "succeeded"
    PROVE  OnePays(invoice, Append(attempts, row)) /\ Len(Append(attempts, row)) >= Len(attempts)
<1> DEFINE new == Append(attempts, row)
<1>1. /\ new \in Seq(Payments!AttemptRow) /\ Len(new) = Len(attempts) + 1 /\ Len(attempts) \in Nat
      /\ \A n \in 1 .. Len(attempts) : new[n] = attempts[n]
      /\ new[Len(attempts) + 1] = row
  BY Appended DEF OnePays
<1>2. 1 .. Len(new) = 1 .. Len(attempts) \cup {Len(attempts) + 1} /\ Len(new) <= MaxAttempts /\ Len(new) >= Len(attempts)
  BY <1>1, PaymentsAssumption
<1> HIDE DEF new
<1>3. \A n \in 1 .. Len(new) : new[n].status = "succeeded" => n \in 1 .. Len(attempts) /\ attempts[n].status = "succeeded"
  BY <1>1, <1>2
<1>4. OnePays(invoice, new)
  BY <1>1, <1>2, <1>3 DEF OnePays
<1> QED
  BY <1>2, <1>4 DEF new

LEMMA AttemptFails ==
    ASSUME NEW invoice, NEW attempts, OnePays(invoice, attempts), NEW n \in 1 .. Len(attempts),
           NEW row \in Payments!AttemptRow, row.status # "succeeded"
    PROVE  OnePays(invoice, [attempts EXCEPT ![n] = row]) /\ Len([attempts EXCEPT ![n] = row]) = Len(attempts)
<1> DEFINE new == [attempts EXCEPT ![n] = row]
<1>1. /\ new \in Seq(Payments!AttemptRow) /\ Len(new) = Len(attempts)
      /\ new[n] = row
      /\ \A m \in 1 .. Len(attempts) : m # n => new[m] = attempts[m]
  BY Rewritten DEF OnePays
<1> HIDE DEF new
<1>2. \A m \in 1 .. Len(new) : new[m].status = "succeeded" => attempts[m].status = "succeeded"
  BY <1>1
<1>3. OnePays(invoice, new)
  BY <1>1, <1>2 DEF OnePays
<1> QED
  BY <1>1, <1>3 DEF new

\* The attempt that pays, added to or written over attempts none of which did.
LEMMA AttemptPays ==
    ASSUME NEW old, NEW attempts, OnePays(old, attempts), old.status # "paid",
           NEW new, new.status = "paid", NEW row \in Payments!AttemptRow
    PROVE  /\ Len(attempts) < MaxAttempts =>
                  OnePays(new, Append(attempts, row)) /\ Len(Append(attempts, row)) >= Len(attempts)
           /\ \A n \in 1 .. Len(attempts) :
                  /\ OnePays(new, [attempts EXCEPT ![n] = row])
                  /\ Len([attempts EXCEPT ![n] = row]) = Len(attempts)
<1>0. \A n \in 1 .. Len(attempts) : attempts[n].status # "succeeded"
  BY DEF OnePays
<1>1. ASSUME Len(attempts) < MaxAttempts
      PROVE  OnePays(new, Append(attempts, row)) /\ Len(Append(attempts, row)) >= Len(attempts)
  <2> DEFINE more == Append(attempts, row)
  <2>1. /\ more \in Seq(Payments!AttemptRow) /\ Len(more) = Len(attempts) + 1 /\ Len(attempts) \in Nat
        /\ \A n \in 1 .. Len(attempts) : more[n] = attempts[n]
    BY Appended DEF OnePays
  <2>2. 1 .. Len(more) = 1 .. Len(attempts) \cup {Len(attempts) + 1} /\ Len(more) <= MaxAttempts /\ Len(more) >= Len(attempts)
    BY <1>1, <2>1, PaymentsAssumption
  <2> HIDE DEF more
  <2>3. \A n \in 1 .. Len(more) : more[n].status = "succeeded" => n = Len(attempts) + 1
    BY <1>0, <2>1, <2>2
  <2>4. OnePays(new, more)
    BY <2>1, <2>2, <2>3 DEF OnePays
  <2> QED
    BY <2>2, <2>4 DEF more
<1>2. ASSUME NEW n \in 1 .. Len(attempts)
      PROVE  OnePays(new, [attempts EXCEPT ![n] = row]) /\ Len([attempts EXCEPT ![n] = row]) = Len(attempts)
  <2> DEFINE more == [attempts EXCEPT ![n] = row]
  <2>1. /\ more \in Seq(Payments!AttemptRow) /\ Len(more) = Len(attempts)
        /\ \A m \in 1 .. Len(attempts) : m # n => more[m] = attempts[m]
    BY Rewritten DEF OnePays
  <2> HIDE DEF more
  <2>2. \A m \in 1 .. Len(more) : more[m].status = "succeeded" => m = n
    BY <1>0, <2>1
  <2>3. OnePays(new, more)
    BY <2>1, <2>2 DEF OnePays
  <2> QED
    BY <2>1, <2>3 DEF more
<1> QED
  BY <1>1, <1>2

\* The first of the waiting attempts is one of them.
LEMMA FirstWaits ==
    ASSUME PaymentsInv, Payments!Waiting # {}
    PROVE  Payments!First(Payments!Waiting) \in 1 .. Len(pvAttempt)
<1> DEFINE waiting == Payments!Waiting
<1>1. DOMAIN pvAttempt = 1 .. Len(pvAttempt) /\ Len(pvAttempt) \in Nat
  BY DEF PaymentsInv, OnePays
<1>2. waiting \subseteq 1 .. Len(pvAttempt)
  BY <1>1 DEF Payments!Waiting
<1> HIDE DEF waiting
<1>3. waiting \subseteq Nat /\ waiting # {}
  BY <1>2 DEF waiting
<1>4. \E n \in waiting : \A m \in waiting : n <= m
  BY <1>3, LeastNumber
<1>5. Payments!First(waiting) \in waiting
  BY <1>4 DEF Payments!First
<1> QED
  BY <1>2, <1>5 DEF waiting

\* mark_invoice_paid, for the staff and for an event.
LEMMA Paid ==
    ASSUME PaymentsInv, NEW id \in AttemptId, Payments!MarkPaid(id)
    PROVE  /\ pvInvoice' \in [status: Payments!InvoiceStatus, linked: BOOLEAN] /\ pvSub' \in PaymentsSub
           /\ OnePays(pvInvoice', pvAttempt') /\ Len(pvAttempt') >= Len(pvAttempt)
<1>0. Len(pvAttempt) \in Nat
  BY DEF PaymentsInv, OnePays
<1>1. CASE Payments!AlreadyPaid
  <2>1. pvInvoice' = pvInvoice /\ pvAttempt' = pvAttempt /\ pvSub' = pvSub
    BY <1>1, Zenon DEF Payments!MarkPaid
  <2> QED
    BY <1>0, <2>1 DEF PaymentsInv, PaymentsRows
<1>2. CASE ~Payments!AlreadyPaid
  <2> DEFINE paid == Payments!PaidAttempts(id)
             n == Payments!First(Payments!Waiting)
             kept == IF id = "" THEN pvAttempt[n].id ELSE id
  <2>1. /\ Len(paid) <= MaxAttempts
        /\ pvInvoice' = [pvInvoice EXCEPT !.status = "paid"]
        /\ pvAttempt' = paid
        /\ pvSub' = Payments!Recovered
    BY <1>2, Zenon DEF Payments!MarkPaid
  <2>2. pvInvoice.status # "paid"
    BY <1>2 DEF Payments!AlreadyPaid
  <2>3. /\ pvInvoice' \in [status: Payments!InvoiceStatus, linked: BOOLEAN]
        /\ pvInvoice'.status = "paid"
    BY <2>1 DEF PaymentsInv, PaymentsRows, Payments!InvoiceStatus
  <2>4. pvSub' \in PaymentsSub
    BY <2>1 DEF PaymentsInv, PaymentsRows, Payments!Recovered, PaymentsSub
  <2>5. CASE Payments!Waiting # {}
    <3>1. n \in 1 .. Len(pvAttempt)
      BY <2>5, FirstWaits
    <3>2. paid = [pvAttempt EXCEPT ![n] = [status |-> "succeeded", id |-> kept]]
      BY <2>5, Zenon DEF Payments!PaidAttempts
    <3>3. pvAttempt[n] \in Payments!AttemptRow
      BY <3>1 DEF PaymentsInv, OnePays
    <3> HIDE DEF n
    <3>4. kept \in AttemptId
      <4>1. pvAttempt[n].id \in AttemptId
        BY <3>3, AttemptRows
      <4> QED
        BY <4>1, Zenon
    <3> DEFINE row == [status |-> "succeeded", id |-> kept]
    <3> HIDE DEF kept, paid
    <3>5. row \in Payments!AttemptRow
      BY <3>4, NewAttempt
    <3>6. paid = [pvAttempt EXCEPT ![n] = row]
      BY <3>2
    <3> HIDE DEF row
    <3>7. OnePays(pvInvoice', paid) /\ Len(paid) = Len(pvAttempt)
      BY <2>2, <2>3, <3>1, <3>5, <3>6, AttemptPays DEF PaymentsInv
    <3> QED
      BY <1>0, <2>1, <2>3, <2>4, <3>7
  <2>6. CASE Payments!Waiting = {}
    <3> DEFINE row == [status |-> "succeeded", id |-> id]
    <3>1. paid = Append(pvAttempt, row)
      BY <2>6, Zenon DEF Payments!PaidAttempts
    <3> HIDE DEF paid
    <3>2. row \in Payments!AttemptRow
      BY NewAttempt
    <3> HIDE DEF row
    <3>3. Len(pvAttempt) < MaxAttempts
      <4>1. Len(paid) = Len(pvAttempt) + 1
        BY <3>1, <3>2, Appended DEF PaymentsInv, OnePays
      <4> QED
        BY <1>0, <2>1, <4>1, PaymentsAssumption
    <3>4. OnePays(pvInvoice', paid) /\ Len(paid) >= Len(pvAttempt)
      BY <2>2, <2>3, <3>1, <3>2, <3>3, AttemptPays DEF PaymentsInv
    <3> QED
      BY <2>1, <2>3, <2>4, <3>4
  <2> QED
    BY <2>5, <2>6
<1> QED
  BY <1>1, <1>2

\* The customer, the staff and time.
LEMMA PaymentsPeople ==
    ASSUME PaymentsInv, Payments!CheckoutAgain \/ Payments!Checkout \/ Payments!StaffMarksPaid
                        \/ Payments!Issue \/ Payments!Void \/ Payments!ExpireGrace
    PROVE  PaymentsInv'
<1>0. Len(pvAttempt) \in Nat /\ OnePays(pvInvoice, pvAttempt) /\ PaymentsRows
  BY DEF PaymentsInv, OnePays
<1>1. ASSUME pvReq' = pvReq, pvEvent' = pvEvent, pvSub' \in PaymentsSub,
             pvInvoice' \in [status: Payments!InvoiceStatus, linked: BOOLEAN],
             OnePays(pvInvoice', pvAttempt'), Len(pvAttempt') >= Len(pvAttempt)
      PROVE  PaymentsInv'
  <2>1. PaymentsRows'
    BY <1>0, <1>1 DEF PaymentsRows
  <2>2. PaymentsFail \subseteq PaymentsFail'
    <3>1. Len(pvAttempt') \in Nat
      BY <1>1 DEF OnePays
    <3>2. 0 .. Len(pvAttempt) \subseteq 0 .. Len(pvAttempt')
      BY <1>0, <1>1, <3>1
    <3> QED
      BY <3>2 DEF PaymentsFail
  <2>3. ASSUME NEW q \in Actors PROVE PaymentsReqOK(q)'
    BY <1>1, <2>2 DEF PaymentsInv, PaymentsReqOK, PaymentsRead, Payments!Idle
  <2> QED
    BY <1>1, <2>1, <2>3 DEF PaymentsInv
<1>2. ASSUME NEW invoice, pvInvoice' = invoice, invoice \in [status: Payments!InvoiceStatus, linked: BOOLEAN],
             pvInvoice.status = "paid" => invoice.status = "paid",
             pvReq' = pvReq, pvEvent' = pvEvent, pvSub' = pvSub, pvAttempt' = pvAttempt
      PROVE  PaymentsInv'
  <2>1. OnePays(pvInvoice', pvAttempt')
    BY <1>0, <1>2, AttemptsKept
  <2> QED
    BY <1>0, <1>1, <1>2, <2>1 DEF PaymentsRows
<1>3. CASE Payments!CheckoutAgain
  <2> DEFINE invoice == [pvInvoice EXCEPT !.linked = TRUE]
  <2>1. invoice \in [status: Payments!InvoiceStatus, linked: BOOLEAN] /\ invoice.status = pvInvoice.status
    BY <1>0 DEF PaymentsRows
  <2>2. pvInvoice' = invoice /\ pvReq' = pvReq /\ pvEvent' = pvEvent /\ pvSub' = pvSub /\ pvAttempt' = pvAttempt
    BY <1>3 DEF Payments!CheckoutAgain
  <2> HIDE DEF invoice
  <2> QED
    BY <1>2, <2>1, <2>2
<1>4. CASE Payments!Checkout
  <2> DEFINE invoice == [pvInvoice EXCEPT !.linked = TRUE]
             row == [status |-> "pending", id |-> Payments!Due]
  <2>1. invoice \in [status: Payments!InvoiceStatus, linked: BOOLEAN] /\ invoice.status = pvInvoice.status
    BY <1>0 DEF PaymentsRows
  <2>2. /\ pvInvoice' = invoice /\ pvReq' = pvReq /\ pvEvent' = pvEvent /\ pvSub' = pvSub
        /\ pvAttempt' = Append(pvAttempt, row) /\ Len(pvAttempt) < MaxAttempts
    BY <1>4 DEF Payments!Checkout
  <2>3. Payments!Due \in AttemptId
    BY AttemptRows DEF Payments!Due
  <2>4. row \in Payments!AttemptRow /\ row.status = "pending"
    BY <2>3, NewAttempt
  <2> HIDE DEF invoice, row
  <2>5. OnePays(invoice, pvAttempt)
    BY <1>0, <2>1, AttemptsKept
  <2>6. OnePays(invoice, Append(pvAttempt, row)) /\ Len(Append(pvAttempt, row)) >= Len(pvAttempt)
    BY <2>2, <2>4, <2>5, AttemptAdded
  <2> QED
    BY <1>0, <1>1, <2>1, <2>2, <2>6 DEF PaymentsRows
<1>5. CASE Payments!StaffMarksPaid
  <2>1. "" \in AttemptId
    BY Zenon DEF AttemptId
  <2>2. Payments!MarkPaid("") /\ pvReq' = pvReq /\ pvEvent' = pvEvent
    BY <1>5, Zenon DEF Payments!StaffMarksPaid
  <2>3. /\ pvInvoice' \in [status: Payments!InvoiceStatus, linked: BOOLEAN] /\ pvSub' \in PaymentsSub
        /\ OnePays(pvInvoice', pvAttempt') /\ Len(pvAttempt') >= Len(pvAttempt)
    BY <2>1, <2>2, Paid, Zenon
  <2>4. pvReq' = pvReq /\ pvEvent' = pvEvent
    BY <2>2, Zenon
  <2> QED
    BY <1>1, <2>3, <2>4
<1>6. ASSUME NEW status \in Payments!InvoiceStatus, pvInvoice.status # "paid",
             pvInvoice' = [pvInvoice EXCEPT !.status = status],
             pvReq' = pvReq, pvEvent' = pvEvent, pvSub' = pvSub, pvAttempt' = pvAttempt
      PROVE  PaymentsInv'
  <2> DEFINE invoice == [pvInvoice EXCEPT !.status = status]
  <2>1. invoice \in [status: Payments!InvoiceStatus, linked: BOOLEAN]
    BY <1>0 DEF PaymentsRows
  <2> HIDE DEF invoice
  <2>2. pvInvoice' = invoice
    BY <1>6 DEF invoice
  <2> QED
    BY <1>2, <1>6, <2>1, <2>2
<1>7. CASE Payments!Issue
  BY <1>6, <1>7 DEF Payments!Issue, Payments!InvoiceStatus
<1>8. CASE Payments!Void
  BY <1>6, <1>8 DEF Payments!Void, Payments!InvoiceStatus
<1>9. CASE Payments!ExpireGrace
  <2>1. /\ pvSub' = "paused" /\ pvInvoice' = pvInvoice /\ pvReq' = pvReq
        /\ pvEvent' = pvEvent /\ pvAttempt' = pvAttempt
    BY <1>9 DEF Payments!ExpireGrace
  <2> QED
    BY <1>0, <1>1, <2>1 DEF PaymentsRows, PaymentsSub
<1> QED
  BY <1>3, <1>4, <1>5, <1>7, <1>8, <1>9

\* The provider's events: received, read, applied.
LEMMA PaymentsEvents ==
    ASSUME PaymentsInv, NEW h \in Actors
    PROVE  /\ \A e \in Events : Payments!Receive(h, e) => PaymentsInv'
           /\ Payments!Ignore(h) => PaymentsInv'
           /\ Payments!Mismatch(h) => PaymentsInv'
           /\ Payments!ReadInvoice(h) => PaymentsInv'
           /\ Payments!ApplyPaid(h) => PaymentsInv'
           /\ Payments!ApplyRefused(h) => PaymentsInv'
           /\ Payments!PickAttempt(h) => PaymentsInv'
           /\ Payments!ApplyFailed(h) => PaymentsInv'
           /\ Payments!HandlerDies(h) => PaymentsInv'
<1> USE DEF Payments!Goto, Payments!At
<1>0. Len(pvAttempt) \in Nat /\ OnePays(pvInvoice, pvAttempt) /\ PaymentsRows /\ DOMAIN pvReq = Actors
  BY DEF PaymentsInv, OnePays
<1>1. ASSUME NEW status \in Payments!EventStatus, NEW e,
             pvEvent' = [pvEvent EXCEPT ![e].status = status],
             pvInvoice' \in [status: Payments!InvoiceStatus, linked: BOOLEAN], pvSub' \in PaymentsSub
      PROVE  PaymentsRows'
  BY <1>0, <1>1 DEF PaymentsRows
<1>2. ASSUME NEW req, req = Payments!Idle \/ req \in PaymentsRead \cup PaymentsFail, pvReq' = [pvReq EXCEPT ![h] = req],
             pvInvoice' = pvInvoice, pvAttempt' = pvAttempt, pvSub' = pvSub, PaymentsRows'
      PROVE  PaymentsInv'
  <2>1. OnePays(pvInvoice', pvAttempt') /\ Len(pvAttempt') >= Len(pvAttempt)
    BY <1>0, <1>2
  <2> QED
    BY <1>2, <2>1, PaymentsKept
<1>3. ASSUME NEW e \in Events, Payments!Receive(h, e) PROVE PaymentsInv'
  <2> DEFINE req == [at |-> "read", event |-> e]
  <2>1. req \in PaymentsRead
    BY DEF PaymentsRead
  <2>2. /\ pvEvent' = [pvEvent EXCEPT ![e].status = "received"] /\ pvReq' = [pvReq EXCEPT ![h] = req]
        /\ pvInvoice' = pvInvoice /\ pvAttempt' = pvAttempt /\ pvSub' = pvSub
    BY <1>3 DEF Payments!Receive
  <2> HIDE DEF req
  <2>3. PaymentsRows'
    BY <1>0, <1>1, <2>2 DEF PaymentsRows, Payments!EventStatus
  <2> QED
    BY <1>2, <2>1, <2>2, <2>3
<1>4. ASSUME NEW status \in Payments!EventStatus, Payments!Handled(h, status),
             pvInvoice' = pvInvoice, pvAttempt' = pvAttempt, pvSub' = pvSub
      PROVE  PaymentsInv'
  <2>1. pvReq' = [pvReq EXCEPT ![h] = Payments!Idle] /\ pvEvent' = [pvEvent EXCEPT ![pvReq[h].event].status = status]
    BY <1>4 DEF Payments!Handled
  <2>2. PaymentsRows'
    BY <1>0, <1>1, <1>4, <2>1 DEF PaymentsRows
  <2> QED
    BY <1>2, <1>4, <2>1, <2>2
<1>5. Payments!Ignore(h) => PaymentsInv'
  BY <1>4 DEF Payments!Ignore, Payments!EventStatus
<1>6. Payments!Mismatch(h) => PaymentsInv'
  BY <1>4 DEF Payments!Mismatch, Payments!EventStatus
<1>7. Payments!ApplyRefused(h) => PaymentsInv'
  BY <1>4 DEF Payments!ApplyRefused, Payments!EventStatus
<1>8. ASSUME Payments!ReadInvoice(h) PROVE PaymentsInv'
  <2> DEFINE req == [pvReq[h] EXCEPT !.at = "apply"]
  <2>1. pvReq[h] \in PaymentsRead
    BY <1>8, PaymentsPlaces DEF Payments!ReadInvoice
  <2>2. req \in PaymentsRead
    BY <2>1 DEF PaymentsRead
  <2>3. /\ pvEvent' = pvEvent /\ pvReq' = [pvReq EXCEPT ![h] = req]
        /\ pvInvoice' = pvInvoice /\ pvAttempt' = pvAttempt /\ pvSub' = pvSub
    BY <1>8 DEF Payments!ReadInvoice
  <2> HIDE DEF req
  <2>4. PaymentsRows'
    BY <1>0, <2>3 DEF PaymentsRows
  <2> QED
    BY <1>2, <2>2, <2>3, <2>4
<1>9. ASSUME Payments!ApplyPaid(h) PROVE PaymentsInv'
  <2>1. "event" \in AttemptId
    BY AttemptRows
  <2>2. Payments!MarkPaid("event") /\ Payments!Handled(h, "processed")
    BY <1>9 DEF Payments!ApplyPaid
  <2>3. /\ pvInvoice' \in [status: Payments!InvoiceStatus, linked: BOOLEAN] /\ pvSub' \in PaymentsSub
        /\ OnePays(pvInvoice', pvAttempt') /\ Len(pvAttempt') >= Len(pvAttempt)
    BY <2>1, <2>2, Paid
  <2>4. pvReq' = [pvReq EXCEPT ![h] = Payments!Idle] /\ pvEvent' = [pvEvent EXCEPT ![pvReq[h].event].status = "processed"]
    BY <2>2 DEF Payments!Handled
  <2>5. PaymentsRows'
    BY <1>1, <2>3, <2>4 DEF Payments!EventStatus
  <2> QED
    BY <2>3, <2>4, <2>5, PaymentsKept
<1>10. ASSUME Payments!PickAttempt(h) PROVE PaymentsInv'
  <2> DEFINE n == IF Payments!Waiting = {} THEN 0 ELSE Payments!First(Payments!Waiting)
             req == [at |-> "fail", event |-> pvReq[h].event, attempt |-> n]
  <2>1. pvReq[h].event \in Events
    BY <1>10, PaymentsPlaces DEF Payments!PickAttempt, PaymentsRead
  <2>2. n \in 0 .. Len(pvAttempt)
    BY <1>0, FirstWaits
  <2>3. /\ pvEvent' = pvEvent /\ pvReq' = [pvReq EXCEPT ![h] = req]
        /\ pvInvoice' = pvInvoice /\ pvAttempt' = pvAttempt /\ pvSub' = pvSub
    BY <1>10 DEF Payments!PickAttempt
  <2> HIDE DEF n
  <2>4. req \in PaymentsFail
    BY <2>1, <2>2 DEF PaymentsFail
  <2> HIDE DEF req
  <2>5. PaymentsRows'
    BY <1>0, <2>3 DEF PaymentsRows
  <2> QED
    BY <1>2, <2>3, <2>4, <2>5
<1>11. ASSUME Payments!ApplyFailed(h) PROVE PaymentsInv'
  <2> DEFINE n == pvReq[h].attempt
  <2>1. n \in 0 .. Len(pvAttempt)
    BY <1>11, PaymentsPlaces DEF Payments!ApplyFailed, PaymentsFail
  <2>2. /\ n = 0 => Len(pvAttempt) < MaxAttempts
        /\ pvAttempt' = IF n = 0 THEN Append(pvAttempt, [status |-> "failed", id |-> "event"])
                        ELSE [pvAttempt EXCEPT ![n].status = "failed"]
        /\ pvSub' = "grace" /\ Payments!Handled(h, "processed") /\ pvInvoice' = pvInvoice
    BY <1>11 DEF Payments!ApplyFailed
  <2> HIDE DEF n
  <2>3. OnePays(pvInvoice, pvAttempt') /\ Len(pvAttempt') >= Len(pvAttempt)
    <3>1. CASE n = 0
      <4> DEFINE row == [status |-> "failed", id |-> "event"]
      <4>1. row \in Payments!AttemptRow /\ row.status = "failed"
        BY AttemptRows
      <4>2. pvAttempt' = Append(pvAttempt, row) /\ Len(pvAttempt) < MaxAttempts
        BY <2>2, <3>1
      <4> HIDE DEF row
      <4> QED
        BY <1>0, <4>1, <4>2, AttemptAdded
    <3>2. CASE n # 0
      <4> DEFINE row == [pvAttempt[n] EXCEPT !.status = "failed"]
      <4>1. n \in 1 .. Len(pvAttempt)
        BY <1>0, <2>1, <3>2
      <4>2. pvAttempt[n] \in Payments!AttemptRow
        BY <1>0, <4>1 DEF OnePays
      <4>3. row \in Payments!AttemptRow /\ row.status = "failed"
        BY <4>2, AttemptRows
      <4>4. pvAttempt' = [pvAttempt EXCEPT ![n] = row]
        BY <2>2, <3>2
      <4> HIDE DEF row
      <4>5. OnePays(pvInvoice, pvAttempt') /\ Len(pvAttempt') = Len(pvAttempt)
        BY <1>0, <4>1, <4>3, <4>4, AttemptFails
      <4> QED
        BY <1>0, <4>5
    <3> QED
      BY <3>1, <3>2
  <2>4. pvReq' = [pvReq EXCEPT ![h] = Payments!Idle] /\ pvEvent' = [pvEvent EXCEPT ![pvReq[h].event].status = "processed"]
    BY <2>2 DEF Payments!Handled
  <2>5. PaymentsRows'
    BY <1>0, <1>1, <2>2, <2>4 DEF Payments!EventStatus, PaymentsRows, PaymentsSub
  <2> QED
    BY <2>2, <2>3, <2>4, <2>5, PaymentsKept
<1>12. ASSUME Payments!HandlerDies(h) PROVE PaymentsInv'
  <2>1. /\ pvEvent' = pvEvent /\ pvReq' = [pvReq EXCEPT ![h] = Payments!Idle]
        /\ pvInvoice' = pvInvoice /\ pvAttempt' = pvAttempt /\ pvSub' = pvSub
    BY <1>12 DEF Payments!HandlerDies
  <2>2. PaymentsRows'
    BY <1>0, <2>1 DEF PaymentsRows
  <2> QED
    BY <1>2, <2>1, <2>2
<1> QED
  BY <1>3, <1>5, <1>6, <1>7, <1>8, <1>9, <1>10, <1>11, <1>12

\* Every step of the part, by the lemma of its action.
LEMMA PaymentsPart ==
    ASSUME PaymentsInv, PaymentsSteps
    PROVE  PaymentsInv' /\ focus = "payments" /\ UNCHANGED focus
  BY PaymentsPeople, PaymentsEvents DEF PaymentsSteps, Keep5

\* The invariant is the property the run checks, and more.
LEMMA PaymentsCounts == \A S : Payments!Cardinality(S) = Cardinality(S)
  BY DEF Payments!Cardinality, Cardinality

LEMMA PaymentsHolds == PaymentsInv => Payments!PaidOnce /\ Payments!PaymentsTypeOK
<1> SUFFICES ASSUME PaymentsInv PROVE Payments!PaidOnce /\ Payments!PaymentsTypeOK
  OBVIOUS
<1> DEFINE paying == {n \in DOMAIN pvAttempt : pvAttempt[n].status = "succeeded"}
<1>1. DOMAIN pvAttempt = 1 .. Len(pvAttempt)
  BY DEF PaymentsInv, OnePays
<1>2. /\ \A m, n \in paying : m = n
      /\ paying # {} => pvInvoice.status = "paid"
  BY <1>1 DEF PaymentsInv, OnePays
<1> HIDE DEF paying
<1>3. Payments!Cardinality(paying) <= 1
  <2>1. CASE paying = {}
    <3>1. Cardinality(paying) = 0
      BY <2>1, FS_EmptySet
    <3> QED
      BY <3>1, PaymentsCounts
  <2>2. CASE paying # {}
    <3>1. PICK n : n \in paying
      BY <2>2
    <3>2. paying = {n}
      BY <1>2, <3>1
    <3>3. Cardinality(paying) = 1
      BY <3>2, FS_Singleton
    <3> QED
      BY <3>3, PaymentsCounts
  <2> QED
    BY <2>1, <2>2
<1>4. Payments!PaidOnce
  BY <1>2, <1>3 DEF Payments!PaidOnce, paying
<1>5. \A h \in Actors : pvReq[h].at \in {"idle", "read", "apply", "fail"}
  BY DEF PaymentsInv, PaymentsReqOK, PaymentsRead, PaymentsFail, Payments!Idle
<1>6. Len(pvAttempt) <= MaxAttempts /\ \A n \in DOMAIN pvAttempt : pvAttempt[n] \in Payments!AttemptRow
  BY <1>1 DEF PaymentsInv, OnePays
<1>7. pvInvoice.status \in Payments!InvoiceStatus /\ pvInvoice.linked \in BOOLEAN
  BY DEF PaymentsInv, PaymentsRows
<1>8. pvEvent \in [Events -> [status: Payments!EventStatus, kind: Payments!EventKind]] /\ pvSub \in PaymentsSub
  BY DEF PaymentsInv, PaymentsRows
<1> QED
  BY <1>4, <1>5, <1>6, <1>7, <1>8, Zenon DEF Payments!PaymentsTypeOK, PaymentsSub

-----------------------------------------------------------------------------
(* The AI's tools.  The rows by the names module AITools gives them.       *)
tlRun == row1
tlCall == row2
tlEffect == row3
tlPolicy == row4
tlTalk == row5
tlWork == row6

USE DEF tlRun, tlCall, tlEffect, tlPolicy, tlTalk, tlWork

ToolsPolicy == [ToolNames -> Tools!Modes]
ToolsRun == [status: Tools!RunStatus, rounds: 0 .. MaxRounds, prompt: [tools: SUBSET ToolNames, tasks: Nat]]
ToolsTalk == [on: BOOLEAN, human: BOOLEAN, handoff: BOOLEAN]
ToolsRows == tlRun \in ToolsRun /\ tlPolicy \in ToolsPolicy /\ tlTalk \in ToolsTalk

\* A worker that handles proposals has rounds left.
RoundsLeft == {n \in Nat : n < MaxRounds}
ToolsContext == [at: {"context"}]
ToolsAsk == [at: {"ask"}, policy: ToolsPolicy, rounds: 0 .. MaxRounds]
ToolsHandle == [at: {"handle"}, policy: ToolsPolicy, rounds: RoundsLeft, left: Seq(ToolNames), pending: BOOLEAN]
ToolsExecute == [at: {"execute"}, policy: ToolsPolicy, rounds: RoundsLeft, left: Seq(ToolNames), pending: BOOLEAN,
                 call: Nat]
WorkOK(work) == work = Tools!Idle \/ work \in ToolsContext \cup ToolsAsk \cup ToolsHandle \cup ToolsExecute

\* A call a person has to decide is not run by a worker.
ToolCallsOK(calls) ==
    /\ calls \in Seq(Tools!Call) /\ Len(calls) <= MaxCalls
    /\ \A c \in 1 .. Len(calls) : calls[c].approval => calls[c].status # "proposed"

\* What acted is a call that succeeded, once; a run holds one slot.
EffectsOK(calls, effects) ==
    /\ effects \in Seq([tool: ToolNames, call: Nat])
    /\ \A e \in 1 .. Len(effects) : effects[e].call \in 1 .. Len(calls) /\ calls[effects[e].call].status = "succeeded"
    /\ \A e, f \in 1 .. Len(effects) : effects[e].call = effects[f].call => e = f
    /\ \A e, f \in 1 .. Len(effects) : effects[e].tool = "hold" /\ effects[f].tool = "hold" => e = f

\* The call a worker is about to execute: its own, and no person decides it.
Holds(work, calls) ==
    /\ work.call \in 1 .. Len(calls)
    /\ ~calls[work.call].approval /\ calls[work.call].status \in {"proposed", "cancelled"}

ToolsInv ==
    /\ ToolsRows
    /\ ToolCallsOK(tlCall)
    /\ EffectsOK(tlCall, tlEffect)
    /\ DOMAIN tlWork = Actors /\ \A w \in Actors : WorkOK(tlWork[w])
    /\ \A w \in Actors : tlWork[w].at = "execute" => Holds(tlWork[w], tlCall)
    /\ \A v, w \in Actors :
           tlWork[v].at = "execute" /\ tlWork[w].at = "execute" /\ tlWork[v].call = tlWork[w].call => v = w

\* A worker's place says what it holds.
LEMMA ToolsPlaces ==
    ASSUME NEW work, WorkOK(work)
    PROVE  /\ work.at \in {"idle", "context", "ask", "handle", "execute"}
           /\ work.at = "ask" => work \in ToolsAsk
           /\ work.at = "handle" => work \in ToolsHandle
           /\ work.at = "execute" => work \in ToolsExecute
  BY DEF WorkOK, Tools!Idle, ToolsContext, ToolsAsk, ToolsHandle, ToolsExecute

\* The initial states satisfy the invariant.
LEMMA ToolsStarts == Tools!AIToolsInit => ToolsInv
<1> SUFFICES ASSUME Tools!AIToolsInit PROVE ToolsInv
  OBVIOUS
<1>1. ToolsRows
  <2> DEFINE prompt == [tools |-> Tools!Enabled, tasks |-> 0]
  <2>1. prompt \in [tools: SUBSET ToolNames, tasks: Nat]
    BY DEF Tools!Enabled
  <2>2. tlRun = [status |-> "queued", rounds |-> 0, prompt |-> prompt]
    BY DEF Tools!AIToolsInit
  <2> HIDE DEF prompt
  <2>3. 0 \in 0 .. MaxRounds
    BY ToolsAssumption
  <2>4. tlRun \in ToolsRun
    BY <2>1, <2>2, <2>3 DEF ToolsRun, Tools!RunStatus
  <2>5. tlPolicy \in ToolsPolicy /\ tlTalk \in ToolsTalk
    BY DEF Tools!AIToolsInit, ToolsPolicy, ToolsTalk
  <2> QED
    BY <2>4, <2>5 DEF ToolsRows
<1>2. tlCall = <<>> /\ tlEffect = <<>> /\ tlWork = [w \in Actors |-> Tools!Idle]
  BY DEF Tools!AIToolsInit
<1>3. ToolCallsOK(tlCall)
  <2>1. tlCall \in Seq(Tools!Call) /\ Len(tlCall) = 0
    BY <1>2
  <2> QED
    BY <2>1, ToolsAssumption DEF ToolCallsOK
<1>4. EffectsOK(tlCall, tlEffect)
  <2>1. tlEffect \in Seq([tool: ToolNames, call: Nat]) /\ Len(tlEffect) = 0
    BY <1>2
  <2> QED
    BY <2>1 DEF EffectsOK
<1>5. DOMAIN tlWork = Actors /\ \A w \in Actors : tlWork[w] = Tools!Idle
  BY <1>2
<1>6. \A w \in Actors : WorkOK(tlWork[w]) /\ tlWork[w].at # "execute"
  BY <1>5 DEF WorkOK, Tools!Idle
<1> QED
  BY <1>1, <1>3, <1>4, <1>5, <1>6 DEF ToolsInv

\* Effects stand while the calls that succeeded do.
LEMMA EffectsKept ==
    ASSUME NEW old, NEW new, NEW effects, EffectsOK(old, effects), Len(old) \in Nat, Len(new) \in Nat,
           Len(new) >= Len(old),
           \A c \in 1 .. Len(old) : old[c].status = "succeeded" => new[c].status = "succeeded"
    PROVE  EffectsOK(new, effects)
<1>1. 1 .. Len(old) \subseteq 1 .. Len(new)
  OBVIOUS
<1> QED
  BY <1>1 DEF EffectsOK

\* A step of a worker: what it must show of its work and of the calls of others.
LEMMA WorkerKept ==
    ASSUME ToolsInv, NEW w \in Actors, NEW work, tlWork' = [tlWork EXCEPT ![w] = work], WorkOK(work),
           ToolsRows', ToolCallsOK(tlCall'), EffectsOK(tlCall', tlEffect'),
           work.at = "execute" => Holds(work, tlCall')
                                  /\ \A v \in Actors : tlWork[v].at = "execute" => tlWork[v].call # work.call,
           \A v \in Actors : v # w /\ tlWork[v].at = "execute" => Holds(tlWork[v], tlCall')
    PROVE  ToolsInv'
<1>1. DOMAIN tlWork' = Actors /\ tlWork'[w] = work /\ \A v \in Actors : v # w => tlWork'[v] = tlWork[v]
  BY DEF ToolsInv
<1>2. \A v \in Actors : WorkOK(tlWork'[v]) /\ (tlWork'[v].at = "execute" => Holds(tlWork'[v], tlCall'))
  BY <1>1 DEF ToolsInv
<1>3. \A u, v \in Actors : tlWork'[u].at = "execute" /\ tlWork'[v].at = "execute"
                           /\ tlWork'[u].call = tlWork'[v].call => u = v
  BY <1>1 DEF ToolsInv
<1>4. \A v \in Actors : WorkOK(tlWork[v])'
  BY <1>2 DEF WorkOK, ToolsContext, ToolsAsk, ToolsHandle, ToolsExecute
<1>5. \A v \in Actors : Holds(tlWork[v], tlCall)' <=> Holds(tlWork'[v], tlCall')
  BY DEF Holds
<1>6. ToolCallsOK(tlCall)' /\ EffectsOK(tlCall, tlEffect)'
  BY DEF ToolCallsOK, EffectsOK
<1> QED
  BY <1>1, <1>2, <1>3, <1>4, <1>5, <1>6 DEF ToolsInv

\* A step of a person: the workers go on with what they hold.
LEMMA PersonKept ==
    ASSUME ToolsInv, tlWork' = tlWork, ToolsRows', ToolCallsOK(tlCall'), EffectsOK(tlCall', tlEffect'),
           \A v \in Actors : tlWork[v].at = "execute" => Holds(tlWork[v], tlCall')
    PROVE  ToolsInv'
<1>1. \A v \in Actors : WorkOK(tlWork[v])' /\ Holds(tlWork[v], tlCall)' = Holds(tlWork[v], tlCall')
  BY DEF ToolsInv, Holds
<1>2. ToolCallsOK(tlCall)' /\ EffectsOK(tlCall, tlEffect)'
  BY DEF ToolCallsOK, EffectsOK
<1> QED
  BY <1>1, <1>2 DEF ToolsInv

\* create_handoff and the saving of a status.
LEMMA HandedOff ==
    ASSUME ToolsInv, NEW status, Tools!HandOff(status)
    PROVE  tlRun' \in ToolsRun /\ tlTalk' \in ToolsTalk
<1>1. tlRun \in ToolsRun /\ tlTalk \in ToolsTalk
  BY DEF ToolsInv, ToolsRows
<1>2. tlRun' \in ToolsRun
  <2> DEFINE new == IF tlTalk.handoff /\ status \in {"handoff", "completed"} THEN tlRun.status ELSE "handoff"
  <2>1. tlRun' = [tlRun EXCEPT !.status = new]
    BY DEF Tools!HandOff
  <2>2. new \in Tools!RunStatus
    BY <1>1 DEF ToolsRun, Tools!RunStatus
  <2> HIDE DEF new
  <2> QED
    BY <1>1, <2>1, <2>2 DEF ToolsRun
<1>3. tlTalk' \in ToolsTalk
  <2> DEFINE on == IF tlTalk.handoff THEN tlTalk.on ELSE FALSE
  <2>1. tlTalk' = [tlTalk EXCEPT !.handoff = TRUE, !.on = on]
    BY DEF Tools!HandOff
  <2>2. on \in BOOLEAN
    BY <1>1 DEF ToolsTalk
  <2> HIDE DEF on
  <2> QED
    BY <1>1, <2>1, <2>2 DEF ToolsTalk
<1> QED
  BY <1>2, <1>3

LEMMA RunSaved ==
    ASSUME ToolsInv, NEW status \in Tools!RunStatus, Tools!Save(status)
    PROVE  tlRun' \in ToolsRun
  BY DEF ToolsInv, ToolsRows, ToolsRun, Tools!Save

\* A worker moves, and neither calls nor effects change.
LEMMA WorkerMoves ==
    ASSUME ToolsInv, NEW w \in Actors, NEW work, tlWork' = [tlWork EXCEPT ![w] = work], WorkOK(work),
           work.at # "execute", tlCall' = tlCall, tlEffect' = tlEffect, ToolsRows'
    PROVE  ToolsInv' /\ Tools!DecidedStay
<1>1. ToolCallsOK(tlCall') /\ EffectsOK(tlCall', tlEffect')
  BY DEF ToolsInv
<1>2. \A v \in Actors : v # w /\ tlWork[v].at = "execute" => Holds(tlWork[v], tlCall')
  BY DEF ToolsInv
<1>3. Tools!DecidedStay
  BY DEF Tools!DecidedStay
<1> QED
  BY <1>1, <1>2, <1>3, WorkerKept

\* A status or a policy changes, and nothing else.
LEMMA NobodyMoves ==
    ASSUME ToolsInv, tlWork' = tlWork, tlCall' = tlCall, tlEffect' = tlEffect, ToolsRows'
    PROVE  ToolsInv' /\ Tools!DecidedStay
<1>1. /\ ToolCallsOK(tlCall') /\ EffectsOK(tlCall', tlEffect')
      /\ \A v \in Actors : tlWork[v].at = "execute" => Holds(tlWork[v], tlCall')
  BY DEF ToolsInv
<1>2. Tools!DecidedStay
  BY DEF Tools!DecidedStay
<1> QED
  BY <1>1, <1>2, PersonKept

\* The worker's steps up to the provider and back.
LEMMA ToolsWork ==
    ASSUME ToolsInv, NEW w \in Actors
    PROVE  /\ Tools!Begin(w) => ToolsInv' /\ Tools!DecidedStay
           /\ Tools!Context(w) => ToolsInv' /\ Tools!DecidedStay
           /\ Tools!Answered(w) => ToolsInv' /\ Tools!DecidedStay
           /\ Tools!Propose(w) => ToolsInv' /\ Tools!DecidedStay
           /\ Tools!EndRound(w) => ToolsInv' /\ Tools!DecidedStay
           /\ Tools!ExecuteFails(w) => ToolsInv' /\ Tools!DecidedStay
           /\ Tools!WorkerLost(w) => ToolsInv' /\ Tools!DecidedStay
<1> USE DEF Tools!Goto, Tools!At, Tools!Leave
<1>0. /\ ToolsRows /\ WorkOK(tlWork[w]) /\ WorkOK(Tools!Idle) /\ Tools!Idle.at # "execute"
  BY DEF ToolsInv, WorkOK, Tools!Idle
<1>1. ASSUME Tools!Begin(w) PROVE ToolsInv' /\ Tools!DecidedStay
  <2> DEFINE work == [at |-> "context"]
  <2>1. WorkOK(work) /\ work.at # "execute" /\ tlWork[w] = Tools!Idle
    BY <1>1 DEF WorkOK, ToolsContext, Tools!Begin
  <2>2. /\ \/ Tools!Save("running") /\ tlWork' = [tlWork EXCEPT ![w] = work]
           \/ Tools!Save("superseded") /\ tlWork' = tlWork
        /\ tlCall' = tlCall /\ tlEffect' = tlEffect /\ tlPolicy' = tlPolicy /\ tlTalk' = tlTalk
    BY <1>0, <1>1 DEF Tools!Begin
  <2> HIDE DEF work
  <2>3. ToolsRows'
    BY <1>0, <2>2, RunSaved DEF ToolsRows, Tools!RunStatus
  <2> QED
    BY <1>0, <2>1, <2>2, <2>3, WorkerMoves, NobodyMoves
<1>2. ASSUME Tools!Context(w) PROVE ToolsInv' /\ Tools!DecidedStay
  <2> DEFINE work == [at |-> "ask", policy |-> tlPolicy, rounds |-> tlRun.rounds]
  <2>1. WorkOK(work) /\ work.at # "execute"
    BY <1>0 DEF WorkOK, ToolsAsk, ToolsRows, ToolsRun
  <2>2. /\ \/ tlRun' = tlRun /\ tlWork' = [tlWork EXCEPT ![w] = work]
           \/ Tools!Save("superseded") /\ tlWork' = [tlWork EXCEPT ![w] = Tools!Idle]
        /\ tlCall' = tlCall /\ tlEffect' = tlEffect /\ tlPolicy' = tlPolicy /\ tlTalk' = tlTalk
    BY <1>2 DEF Tools!Context
  <2> HIDE DEF work
  <2>3. ToolsRows'
    BY <1>0, <2>2, RunSaved DEF ToolsRows, Tools!RunStatus
  <2> QED
    BY <1>0, <2>1, <2>2, <2>3, WorkerMoves
<1>3. ASSUME Tools!Answered(w) PROVE ToolsInv' /\ Tools!DecidedStay
  <2>1. /\ Tools!Save("completed") \/ Tools!Save("failed")
        /\ tlWork' = [tlWork EXCEPT ![w] = Tools!Idle]
        /\ tlCall' = tlCall /\ tlEffect' = tlEffect /\ tlPolicy' = tlPolicy /\ tlTalk' = tlTalk
    BY <1>3 DEF Tools!Answered
  <2>2. ToolsRows'
    BY <1>0, <2>1, RunSaved DEF ToolsRows, Tools!RunStatus
  <2> QED
    BY <1>0, <2>1, <2>2, WorkerMoves
<1>4. ASSUME Tools!Propose(w) PROVE ToolsInv' /\ Tools!DecidedStay
  <2>1. tlWork[w] \in ToolsAsk
    BY <1>0, <1>4, ToolsPlaces DEF Tools!Propose
  <2>2. PICK calls \in Tools!Proposals :
            IF tlWork[w].rounds >= MaxRounds \/ Len(calls) > MaxProposed
            THEN Tools!HandOff("running") /\ tlWork' = [tlWork EXCEPT ![w] = Tools!Idle]
            ELSE /\ tlWork' = [tlWork EXCEPT ![w] =
                        [at |-> "handle", policy |-> tlWork[w].policy, rounds |-> tlWork[w].rounds,
                         left |-> calls, pending |-> FALSE]]
                 /\ tlRun' = tlRun /\ tlTalk' = tlTalk
    BY <1>4 DEF Tools!Propose
  <2>3. tlCall' = tlCall /\ tlEffect' = tlEffect /\ tlPolicy' = tlPolicy
    BY <1>4 DEF Tools!Propose
  <2>4. calls \in Seq(ToolNames)
    <3>1. PICK n \in 1 .. (MaxProposed + 1) : calls \in [1 .. n -> ToolNames]
      BY DEF Tools!Proposals
    <3>2. n \in Nat
      BY ToolsAssumption
    <3> QED
      BY <3>1, <3>2
  <2>5. CASE tlWork[w].rounds >= MaxRounds \/ Len(calls) > MaxProposed
    <3>1. Tools!HandOff("running") /\ tlWork' = [tlWork EXCEPT ![w] = Tools!Idle]
      BY <2>2, <2>5
    <3>2. ToolsRows'
      BY <1>0, <2>3, <3>1, HandedOff DEF ToolsRows
    <3> QED
      BY <1>0, <2>3, <3>1, <3>2, WorkerMoves
  <2>6. CASE ~(tlWork[w].rounds >= MaxRounds \/ Len(calls) > MaxProposed)
    <3> DEFINE work == [at |-> "handle", policy |-> tlWork[w].policy, rounds |-> tlWork[w].rounds,
                        left |-> calls, pending |-> FALSE]
    <3>1. tlWork' = [tlWork EXCEPT ![w] = work] /\ tlRun' = tlRun /\ tlTalk' = tlTalk
      BY <2>2, <2>6
    <3>2. tlWork[w].rounds \in RoundsLeft
      BY <2>1, <2>6, ToolsAssumption DEF ToolsAsk, RoundsLeft
    <3>3. work \in ToolsHandle /\ work.at # "execute"
      BY <2>1, <2>4, <3>2 DEF ToolsHandle, ToolsAsk
    <3> HIDE DEF work
    <3>4. ToolsRows' /\ WorkOK(work)
      BY <1>0, <2>3, <3>1, <3>3 DEF ToolsRows, WorkOK
    <3> QED
      BY <2>3, <3>1, <3>3, <3>4, WorkerMoves
  <2> QED
    BY <2>5, <2>6
<1>5. ASSUME Tools!EndRound(w) PROVE ToolsInv' /\ Tools!DecidedStay
  <2> DEFINE rounds == tlWork[w].rounds + 1
             work == [at |-> "ask", policy |-> tlWork[w].policy, rounds |-> rounds]
  <2>1. tlWork[w] \in ToolsHandle
    BY <1>0, <1>5, ToolsPlaces DEF Tools!EndRound
  <2>2. rounds \in 0 .. MaxRounds
    BY <2>1, ToolsAssumption DEF ToolsHandle, RoundsLeft
  <2>3. /\ \/ tlRun' = [tlRun EXCEPT !.status = "waiting", !.rounds = rounds]
              /\ tlWork' = [tlWork EXCEPT ![w] = Tools!Idle]
           \/ tlRun' = [tlRun EXCEPT !.rounds = rounds] /\ tlWork' = [tlWork EXCEPT ![w] = work]
        /\ tlCall' = tlCall /\ tlEffect' = tlEffect /\ tlPolicy' = tlPolicy /\ tlTalk' = tlTalk
    BY <1>5 DEF Tools!EndRound
  <2> HIDE DEF rounds
  <2>4. work \in ToolsAsk /\ work.at # "execute"
    BY <2>1, <2>2 DEF ToolsAsk, ToolsHandle
  <2> HIDE DEF work
  <2>5. WorkOK(work)
    BY <2>4 DEF WorkOK
  <2>6. tlRun' \in ToolsRun
    BY <1>0, <2>2, <2>3 DEF ToolsRows, ToolsRun, Tools!RunStatus
  <2>7. ToolsRows'
    BY <1>0, <2>3, <2>6 DEF ToolsRows
  <2> QED
    BY <1>0, <2>3, <2>4, <2>5, <2>7, WorkerMoves
<1>6. ASSUME Tools!ExecuteFails(w) PROVE ToolsInv' /\ Tools!DecidedStay
  <2>1. /\ Tools!HandOff("running") /\ tlWork' = [tlWork EXCEPT ![w] = Tools!Idle]
        /\ tlCall' = tlCall /\ tlEffect' = tlEffect /\ tlPolicy' = tlPolicy
    BY <1>6 DEF Tools!ExecuteFails
  <2>2. ToolsRows'
    BY <1>0, <2>1, HandedOff DEF ToolsRows
  <2> QED
    BY <1>0, <2>1, <2>2, WorkerMoves
<1>7. ASSUME Tools!WorkerLost(w) PROVE ToolsInv' /\ Tools!DecidedStay
  <2>1. /\ tlWork' = [tlWork EXCEPT ![w] = Tools!Idle] /\ tlRun' = tlRun /\ tlTalk' = tlTalk
        /\ tlCall' = tlCall /\ tlEffect' = tlEffect /\ tlPolicy' = tlPolicy
    BY <1>7 DEF Tools!WorkerLost
  <2>2. ToolsRows'
    BY <1>0, <2>1 DEF ToolsRows
  <2> QED
    BY <1>0, <2>1, <2>2, WorkerMoves
<1> QED
  BY <1>1, <1>2, <1>3, <1>4, <1>5, <1>6, <1>7

\* A call is recorded: the calls before it are as they were.
LEMMA CallRecorded ==
    ASSUME ToolsInv, NEW tool \in ToolNames, NEW status \in Tools!CallStatus, NEW approval \in BOOLEAN,
           approval => status # "proposed", Tools!Recorded(tool, status, approval), tlEffect' = tlEffect
    PROVE  /\ ToolCallsOK(tlCall') /\ EffectsOK(tlCall', tlEffect') /\ Tools!DecidedStay
           /\ Len(tlCall') = Len(tlCall) + 1 /\ Len(tlCall) \in Nat
           /\ tlCall'[Len(tlCall) + 1].status = status /\ tlCall'[Len(tlCall) + 1].approval = approval
           /\ \A v \in Actors : tlWork[v].at = "execute" =>
                  Holds(tlWork[v], tlCall') /\ tlWork[v].call # Len(tlCall) + 1
<1> DEFINE row == [tool |-> tool, status |-> status, approval |-> approval]
<1>1. tlCall' = Append(tlCall, row) /\ Len(tlCall) < MaxCalls
  BY DEF Tools!Recorded
<1>2. row \in Tools!Call /\ row.status = status /\ row.approval = approval
  BY DEF Tools!Call
<1> HIDE DEF row
<1>3. /\ tlCall' \in Seq(Tools!Call) /\ Len(tlCall') = Len(tlCall) + 1 /\ Len(tlCall) \in Nat
      /\ \A n \in 1 .. Len(tlCall) : tlCall'[n] = tlCall[n]
      /\ tlCall'[Len(tlCall) + 1] = row
  BY <1>1, <1>2, Appended DEF ToolsInv, ToolCallsOK
<1>4. /\ 1 .. Len(tlCall') = 1 .. Len(tlCall) \cup {Len(tlCall) + 1} /\ Len(tlCall) + 1 \notin 1 .. Len(tlCall)
      /\ Len(tlCall') <= MaxCalls /\ Len(tlCall') >= Len(tlCall) /\ Len(tlCall') \in Nat
  BY <1>1, <1>3, ToolsAssumption
<1>5. ToolCallsOK(tlCall')
  BY <1>2, <1>3, <1>4 DEF ToolsInv, ToolCallsOK
<1>6. EffectsOK(tlCall', tlEffect')
  BY <1>3, <1>4, EffectsKept DEF ToolsInv
<1>7. DOMAIN tlCall = 1 .. Len(tlCall)
  BY DEF ToolsInv, ToolCallsOK
<1>8. Tools!DecidedStay
  BY <1>3, <1>7 DEF Tools!DecidedStay
<1>9. \A v \in Actors : tlWork[v].at = "execute" => Holds(tlWork[v], tlCall') /\ tlWork[v].call # Len(tlCall) + 1
  BY <1>3, <1>4 DEF ToolsInv, Holds
<1> QED
  BY <1>2, <1>3, <1>5, <1>6, <1>8, <1>9

\* _handle_tool_calls: refused, left to a person, or about to run.
LEMMA ToolsHandled ==
    ASSUME ToolsInv, NEW w \in Actors, Tools!Handle(w)
    PROVE  ToolsInv' /\ Tools!DecidedStay
<1> DEFINE tool == Head(tlWork[w].left)
           next == [tlWork[w] EXCEPT !.left = Tail(tlWork[w].left)]
           mode == tlWork[w].policy[tool]
<1>1. tlWork[w] \in ToolsHandle /\ tlWork[w].left # <<>> /\ ToolsRows /\ tlEffect' = tlEffect /\ tlPolicy' = tlPolicy
  BY ToolsPlaces DEF ToolsInv, Tools!Handle, Tools!At
<1>2. tool \in ToolNames
  BY <1>1 DEF ToolsHandle
<1>3. \/ mode = "disabled" /\ Tools!Recorded(tool, "rejected", FALSE) /\ Tools!HandOff("running") /\ Tools!Leave(w)
      \/ mode = "require_approval" /\ Tools!Recorded(tool, "awaiting", TRUE)
         /\ Tools!Goto(w, [next EXCEPT !.pending = TRUE]) /\ tlRun' = tlRun /\ tlTalk' = tlTalk
      \/ mode = "automatic" /\ Tools!Recorded(tool, "proposed", FALSE)
         /\ Tools!Goto(w, [at |-> "execute", policy |-> next.policy, rounds |-> next.rounds,
                           left |-> next.left, pending |-> next.pending, call |-> Len(tlCall) + 1])
         /\ tlRun' = tlRun /\ tlTalk' = tlTalk
  BY DEF Tools!Handle
<1>4. next \in ToolsHandle
  <2>1. Tail(tlWork[w].left) \in Seq(ToolNames)
    BY <1>1 DEF ToolsHandle
  <2> QED
    BY <1>1, <2>1 DEF ToolsHandle
<1> HIDE DEF tool, next, mode
<1>5. CASE mode = "disabled" /\ Tools!Recorded(tool, "rejected", FALSE) /\ Tools!HandOff("running") /\ Tools!Leave(w)
  <2>1. tlWork' = [tlWork EXCEPT ![w] = Tools!Idle] /\ WorkOK(Tools!Idle) /\ Tools!Idle.at # "execute"
    BY <1>5 DEF Tools!Leave, Tools!Goto, WorkOK, Tools!Idle
  <2>2. ToolsRows'
    BY <1>1, <1>5, HandedOff DEF ToolsRows
  <2>3. /\ ToolCallsOK(tlCall') /\ EffectsOK(tlCall', tlEffect') /\ Tools!DecidedStay
        /\ \A v \in Actors : tlWork[v].at = "execute" => Holds(tlWork[v], tlCall')
    BY <1>1, <1>2, <1>5, CallRecorded DEF Tools!CallStatus
  <2> QED
    BY <2>1, <2>2, <2>3, WorkerKept
<1>6. CASE /\ mode = "require_approval" /\ Tools!Recorded(tool, "awaiting", TRUE)
           /\ Tools!Goto(w, [next EXCEPT !.pending = TRUE]) /\ tlRun' = tlRun /\ tlTalk' = tlTalk
  <2> DEFINE work == [next EXCEPT !.pending = TRUE]
  <2>1. tlWork' = [tlWork EXCEPT ![w] = work]
    BY <1>6 DEF Tools!Goto
  <2>2. work \in ToolsHandle /\ work.at # "execute"
    BY <1>4 DEF ToolsHandle
  <2> HIDE DEF work
  <2>3. ToolsRows' /\ WorkOK(work)
    BY <1>1, <1>6, <2>2 DEF ToolsRows, WorkOK
  <2>4. /\ ToolCallsOK(tlCall') /\ EffectsOK(tlCall', tlEffect') /\ Tools!DecidedStay
        /\ \A v \in Actors : tlWork[v].at = "execute" => Holds(tlWork[v], tlCall')
    BY <1>1, <1>2, <1>6, CallRecorded DEF Tools!CallStatus
  <2> QED
    BY <2>1, <2>2, <2>3, <2>4, WorkerKept
<1>7. CASE /\ mode = "automatic" /\ Tools!Recorded(tool, "proposed", FALSE)
           /\ Tools!Goto(w, [at |-> "execute", policy |-> next.policy, rounds |-> next.rounds,
                             left |-> next.left, pending |-> next.pending, call |-> Len(tlCall) + 1])
           /\ tlRun' = tlRun /\ tlTalk' = tlTalk
  <2> DEFINE work == [at |-> "execute", policy |-> next.policy, rounds |-> next.rounds,
                      left |-> next.left, pending |-> next.pending, call |-> Len(tlCall) + 1]
  <2>1. tlWork' = [tlWork EXCEPT ![w] = work]
    BY <1>7 DEF Tools!Goto
  <2>2. /\ ToolCallsOK(tlCall') /\ EffectsOK(tlCall', tlEffect') /\ Tools!DecidedStay
        /\ Len(tlCall') = Len(tlCall) + 1 /\ Len(tlCall) \in Nat
        /\ tlCall'[Len(tlCall) + 1].status = "proposed" /\ tlCall'[Len(tlCall) + 1].approval = FALSE
        /\ \A v \in Actors : tlWork[v].at = "execute" =>
               Holds(tlWork[v], tlCall') /\ tlWork[v].call # Len(tlCall) + 1
    BY <1>1, <1>2, <1>7, CallRecorded, Zenon DEF Tools!CallStatus
  <2>3. work \in ToolsExecute /\ work.call = Len(tlCall) + 1
    BY <1>4, <2>2 DEF ToolsHandle, ToolsExecute
  <2> HIDE DEF work
  <2>4. ToolsRows' /\ WorkOK(work)
    BY <1>1, <1>7, <2>3 DEF ToolsRows, WorkOK
  <2>5. Holds(work, tlCall')
    <3>1. Len(tlCall) + 1 \in 1 .. Len(tlCall')
      BY <2>2
    <3> QED
      BY <2>2, <2>3, <3>1 DEF Holds
  <2> QED
    BY <2>1, <2>2, <2>3, <2>4, <2>5, WorkerKept
<1> QED
  BY <1>3, <1>5, <1>6, <1>7

\* A call that was not done succeeds: it acts, unless the slot is held already.
LEMMA CallSucceeds ==
    ASSUME ToolsInv, NEW c \in 1 .. Len(tlCall), tlCall[c].status # "succeeded", Tools!Succeeds(c)
    PROVE  /\ ToolCallsOK(tlCall') /\ EffectsOK(tlCall', tlEffect')
           /\ Len(tlCall') = Len(tlCall) /\ tlCall'[c].status = "succeeded"
           /\ \A d \in 1 .. Len(tlCall) : d # c => tlCall'[d] = tlCall[d]
<1> DEFINE row == [tlCall[c] EXCEPT !.status = "succeeded"]
           tool == tlCall[c].tool
           effect == [tool |-> tool, call |-> c]
<1>1. /\ tlCall \in Seq(Tools!Call) /\ Len(tlCall) <= MaxCalls /\ Len(tlCall) \in Nat
      /\ \A d \in 1 .. Len(tlCall) : tlCall[d].approval => tlCall[d].status # "proposed"
      /\ EffectsOK(tlCall, tlEffect)
  BY DEF ToolsInv, ToolCallsOK
<1>2. tlCall[c] \in Tools!Call
  BY <1>1
<1>3. row \in Tools!Call /\ row.status = "succeeded" /\ tool \in ToolNames
  BY <1>2 DEF Tools!Call, Tools!CallStatus
<1>4. tlCall' = [tlCall EXCEPT ![c] = row] /\ tlEffect' = Tools!Written(c)
  BY DEF Tools!Succeeds
<1>5. effect \in [tool: ToolNames, call: Nat] /\ effect.tool = tool /\ effect.call = c
  BY <1>1, <1>3
<1> HIDE DEF row
<1>6. /\ tlCall' \in Seq(Tools!Call) /\ Len(tlCall') = Len(tlCall)
      /\ tlCall'[c] = row
      /\ \A d \in 1 .. Len(tlCall) : d # c => tlCall'[d] = tlCall[d]
  BY <1>1, <1>3, <1>4, Rewritten
<1>7. ToolCallsOK(tlCall')
  BY <1>1, <1>3, <1>6 DEF ToolCallsOK
<1>8. EffectsOK(tlCall', tlEffect)
  BY <1>1, <1>3, <1>6, EffectsKept
<1>9. DOMAIN tlEffect = 1 .. Len(tlEffect) /\ Len(tlEffect) \in Nat
  BY <1>1 DEF EffectsOK
<1>10. EffectsOK(tlCall', tlEffect')
  <2>1. CASE Tools!Found(tool)
    BY <1>4, <1>8, <2>1 DEF Tools!Written
  <2>2. CASE ~Tools!Found(tool)
    <3> HIDE DEF effect
    <3>1. tlEffect' = Append(tlEffect, effect)
      BY <1>4, <2>2 DEF Tools!Written, effect
    <3>2. /\ tlEffect' \in Seq([tool: ToolNames, call: Nat]) /\ Len(tlEffect') = Len(tlEffect) + 1
          /\ \A e \in 1 .. Len(tlEffect) : tlEffect'[e] = tlEffect[e]
          /\ tlEffect'[Len(tlEffect) + 1] = effect
      BY <1>1, <1>5, <3>1, Appended DEF EffectsOK
    <3>3. /\ 1 .. Len(tlEffect') = 1 .. Len(tlEffect) \cup {Len(tlEffect) + 1}
          /\ Len(tlEffect) + 1 \notin 1 .. Len(tlEffect)
      BY <1>9, <3>2
    <3>4. \A e \in 1 .. Len(tlEffect) : tlEffect[e].call # c
      BY <1>1 DEF EffectsOK
    <3>5. tool = "hold" => \A e \in 1 .. Len(tlEffect) : tlEffect[e].tool # "hold"
      BY <1>9, <2>2 DEF Tools!Found
    <3>6. \A e \in 1 .. Len(tlEffect') :
              tlEffect'[e].call \in 1 .. Len(tlCall') /\ tlCall'[tlEffect'[e].call].status = "succeeded"
      BY <1>3, <1>5, <1>6, <1>8, <3>2, <3>3 DEF EffectsOK
    <3>7. \A e, f \in 1 .. Len(tlEffect') : tlEffect'[e].call = tlEffect'[f].call => e = f
      BY <1>5, <1>8, <3>2, <3>3, <3>4 DEF EffectsOK
    <3>8. \A e, f \in 1 .. Len(tlEffect') : tlEffect'[e].tool = "hold" /\ tlEffect'[f].tool = "hold" => e = f
      BY <1>5, <1>8, <3>2, <3>3, <3>5 DEF EffectsOK
    <3> QED
      BY <3>2, <3>6, <3>7, <3>8 DEF EffectsOK
  <2> QED
    BY <2>1, <2>2
<1> QED
  BY <1>3, <1>6, <1>7, <1>10

\* A worker executes the call it holds.
LEMMA ToolsExecuted ==
    ASSUME ToolsInv, NEW w \in Actors, Tools!Execute(w)
    PROVE  ToolsInv' /\ Tools!DecidedStay
<1> DEFINE c == tlWork[w].call
           work == [at |-> "handle", policy |-> tlWork[w].policy, rounds |-> tlWork[w].rounds,
                    left |-> tlWork[w].left, pending |-> tlWork[w].pending]
<1>1. tlWork[w] \in ToolsExecute /\ tlWork[w].at = "execute" /\ Holds(tlWork[w], tlCall)
  BY ToolsPlaces DEF ToolsInv, Tools!Execute, Tools!At
<1>2. work \in ToolsHandle /\ work.at # "execute"
  BY <1>1 DEF ToolsExecute, ToolsHandle
<1>3. /\ tlWork' = [tlWork EXCEPT ![w] = work] /\ Tools!Succeeds(c)
      /\ tlRun' = tlRun /\ tlPolicy' = tlPolicy /\ tlTalk' = tlTalk
  BY DEF Tools!Execute, Tools!Goto
<1>4. c \in 1 .. Len(tlCall) /\ ~tlCall[c].approval /\ tlCall[c].status \in {"proposed", "cancelled"}
  BY <1>1 DEF Holds
<1> HIDE DEF c, work
<1>5. /\ ToolCallsOK(tlCall') /\ EffectsOK(tlCall', tlEffect') /\ Len(tlCall') = Len(tlCall)
      /\ \A d \in 1 .. Len(tlCall) : d # c => tlCall'[d] = tlCall[d]
  BY <1>3, <1>4, CallSucceeds
<1>6. ToolsRows' /\ WorkOK(work)
  BY <1>2, <1>3 DEF ToolsInv, ToolsRows, WorkOK
<1>7. \A v \in Actors : v # w /\ tlWork[v].at = "execute" => Holds(tlWork[v], tlCall')
  BY <1>1, <1>5 DEF ToolsInv, Holds, c
<1>8. DOMAIN tlCall = 1 .. Len(tlCall)
  BY DEF ToolsInv, ToolCallsOK
<1>9. Tools!DecidedStay
  BY <1>4, <1>5, <1>8 DEF Tools!DecidedStay
<1> QED
  BY <1>2, <1>3, <1>5, <1>6, <1>7, <1>9, WorkerKept

\* supersede_active_runs: what was open is cancelled.
LEMMA ToolsSuperseded ==
    ASSUME ToolsInv, Tools!Superseded, tlEffect' = tlEffect
    PROVE  /\ tlRun' \in ToolsRun /\ ToolCallsOK(tlCall') /\ EffectsOK(tlCall', tlEffect') /\ Tools!DecidedStay
           /\ \A v \in Actors : tlWork[v].at = "execute" => Holds(tlWork[v], tlCall')
<1>1. /\ tlCall \in Seq(Tools!Call) /\ Len(tlCall) <= MaxCalls /\ Len(tlCall) \in Nat
      /\ DOMAIN tlCall = 1 .. Len(tlCall)
      /\ \A d \in 1 .. Len(tlCall) : tlCall[d].approval => tlCall[d].status # "proposed"
      /\ EffectsOK(tlCall, tlEffect) /\ tlRun \in ToolsRun
  BY DEF ToolsInv, ToolCallsOK, ToolsRows
<1>2. CASE tlRun.status \notin {"queued", "running", "waiting"}
  <2>1. tlRun' = tlRun /\ tlCall' = tlCall
    BY <1>2 DEF Tools!Superseded
  <2> QED
    BY <1>1, <2>1 DEF ToolsInv, Tools!DecidedStay
<1>3. CASE tlRun.status \in {"queued", "running", "waiting"}
  <2> DEFINE row(c) == IF tlCall[c].status \in {"proposed", "awaiting"}
                       THEN [tlCall[c] EXCEPT !.status = "cancelled"] ELSE tlCall[c]
  <2>1. Tools!Save("superseded") /\ tlCall' = [c \in 1 .. Len(tlCall) |-> row(c)]
    BY <1>1, <1>3 DEF Tools!Superseded
  <2>2. ASSUME NEW c \in 1 .. Len(tlCall)
        PROVE  /\ row(c) \in Tools!Call /\ row(c).approval = tlCall[c].approval
               /\ IF tlCall[c].status \in {"proposed", "awaiting"}
                  THEN row(c).status = "cancelled" ELSE row(c).status = tlCall[c].status
    <3>1. tlCall[c] \in Tools!Call
      BY <1>1
    <3> QED
      BY <3>1 DEF Tools!Call, Tools!CallStatus
  <2> HIDE DEF row
  <2>3. tlCall' \in Seq(Tools!Call) /\ Len(tlCall') = Len(tlCall)
    BY <1>1, <2>1, <2>2
  <2>4. \A c \in 1 .. Len(tlCall) :
            /\ tlCall'[c].approval = tlCall[c].approval
            /\ IF tlCall[c].status \in {"proposed", "awaiting"}
               THEN tlCall'[c].status = "cancelled" ELSE tlCall'[c].status = tlCall[c].status
    BY <2>1, <2>2
  <2>5. ToolCallsOK(tlCall')
    BY <1>1, <2>3, <2>4 DEF ToolCallsOK
  <2>6. EffectsOK(tlCall', tlEffect')
    <3>1. \A c \in 1 .. Len(tlCall) : tlCall[c].status = "succeeded" => tlCall'[c].status = "succeeded"
      BY <2>4
    <3>2. Len(tlCall') \in Nat /\ Len(tlCall') >= Len(tlCall)
      BY <1>1, <2>3
    <3> QED
      BY <1>1, <3>1, <3>2, EffectsKept
  <2>7. Tools!DecidedStay
    BY <1>1, <2>4 DEF Tools!DecidedStay
  <2>8. \A v \in Actors : tlWork[v].at = "execute" => Holds(tlWork[v], tlCall')
    BY <2>3, <2>4 DEF ToolsInv, Holds
  <2>9. tlRun' \in ToolsRun
    BY <2>1, RunSaved DEF Tools!RunStatus
  <2> QED
    BY <2>5, <2>6, <2>7, <2>8, <2>9
<1> QED
  BY <1>2, <1>3

\* A person answers, pauses the assistant or changes a policy.
LEMMA ToolsPeople ==
    ASSUME ToolsInv
    PROVE  /\ Tools!HumanReply => ToolsInv' /\ Tools!DecidedStay
           /\ Tools!Pause => ToolsInv' /\ Tools!DecidedStay
           /\ \A t \in ToolNames, mode \in Tools!Modes :
                  Tools!ChangePolicy(t, mode) => ToolsInv' /\ Tools!DecidedStay
<1>0. tlTalk \in ToolsTalk /\ tlPolicy \in ToolsPolicy /\ ToolsRows
  BY DEF ToolsInv, ToolsRows
<1>1. ASSUME tlTalk' \in ToolsTalk, Tools!Superseded, tlEffect' = tlEffect, tlPolicy' = tlPolicy, tlWork' = tlWork
      PROVE  ToolsInv' /\ Tools!DecidedStay
  <2>1. ToolsRows'
    BY <1>0, <1>1, ToolsSuperseded DEF ToolsRows
  <2> QED
    BY <1>1, <2>1, ToolsSuperseded, PersonKept
<1>2. ASSUME Tools!HumanReply PROVE ToolsInv' /\ Tools!DecidedStay
  <2>1. tlTalk' \in ToolsTalk
    BY <1>0, <1>2 DEF Tools!HumanReply, ToolsTalk
  <2> QED
    BY <1>1, <1>2, <2>1 DEF Tools!HumanReply
<1>3. ASSUME Tools!Pause PROVE ToolsInv' /\ Tools!DecidedStay
  <2>1. tlTalk' \in ToolsTalk
    BY <1>0, <1>3 DEF Tools!Pause, ToolsTalk
  <2> QED
    BY <1>1, <1>3, <2>1 DEF Tools!Pause
<1>4. ASSUME NEW t \in ToolNames, NEW mode \in Tools!Modes, Tools!ChangePolicy(t, mode)
      PROVE  ToolsInv' /\ Tools!DecidedStay
  <2>1. tlPolicy' \in ToolsPolicy /\ tlWork' = tlWork /\ tlCall' = tlCall /\ tlEffect' = tlEffect
        /\ tlRun' = tlRun /\ tlTalk' = tlTalk
    BY <1>0, <1>4 DEF Tools!ChangePolicy, ToolsPolicy
  <2>2. ToolsRows'
    BY <1>0, <2>1 DEF ToolsRows
  <2> QED
    BY <2>1, <2>2, NobodyMoves
<1> QED
  BY <1>2, <1>3, <1>4

\* A call a person was to decide gets another status than succeeded.
LEMMA CallDecided ==
    ASSUME ToolsInv, NEW c \in 1 .. Len(tlCall), tlCall[c].status = "awaiting", NEW status \in {"failed", "rejected"},
           tlCall' = [tlCall EXCEPT ![c].status = status], tlEffect' = tlEffect
    PROVE  /\ ToolCallsOK(tlCall') /\ EffectsOK(tlCall', tlEffect') /\ Len(tlCall') = Len(tlCall)
           /\ \A d \in 1 .. Len(tlCall) : d # c => tlCall'[d] = tlCall[d]
<1> DEFINE row == [tlCall[c] EXCEPT !.status = status]
<1>1. /\ tlCall \in Seq(Tools!Call) /\ Len(tlCall) <= MaxCalls /\ Len(tlCall) \in Nat
      /\ \A d \in 1 .. Len(tlCall) : tlCall[d].approval => tlCall[d].status # "proposed"
      /\ EffectsOK(tlCall, tlEffect)
  BY DEF ToolsInv, ToolCallsOK
<1>2. tlCall[c] \in Tools!Call
  BY <1>1
<1>3. row \in Tools!Call /\ row.status = status
  BY <1>2 DEF Tools!Call, Tools!CallStatus
<1>4. tlCall' = [tlCall EXCEPT ![c] = row]
  OBVIOUS
<1> HIDE DEF row
<1>5. /\ tlCall' \in Seq(Tools!Call) /\ Len(tlCall') = Len(tlCall)
      /\ tlCall'[c] = row
      /\ \A d \in 1 .. Len(tlCall) : d # c => tlCall'[d] = tlCall[d]
  BY <1>1, <1>3, <1>4, Rewritten
<1>6. ToolCallsOK(tlCall')
  BY <1>1, <1>3, <1>5 DEF ToolCallsOK
<1>7. EffectsOK(tlCall', tlEffect')
  <2>1. Len(tlCall') \in Nat /\ Len(tlCall') >= Len(tlCall)
    BY <1>1, <1>5
  <2>2. \A d \in 1 .. Len(tlCall) : tlCall[d].status = "succeeded" => tlCall'[d].status = "succeeded"
    BY <1>5
  <2> QED
    BY <1>1, <2>1, <2>2, EffectsKept
<1> QED
  BY <1>5, <1>6, <1>7

\* approve_tool_call and reject_tool_call.
LEMMA ToolsDecided ==
    ASSUME ToolsInv
    PROVE  \A c \in 1 .. MaxCalls :
               /\ Tools!Approve(c) => ToolsInv' /\ Tools!DecidedStay
               /\ Tools!ApproveFails(c) => ToolsInv' /\ Tools!DecidedStay
               /\ Tools!Reject(c) => ToolsInv' /\ Tools!DecidedStay
<1> SUFFICES ASSUME NEW c \in 1 .. MaxCalls
             PROVE  /\ Tools!Approve(c) => ToolsInv' /\ Tools!DecidedStay
                    /\ Tools!ApproveFails(c) => ToolsInv' /\ Tools!DecidedStay
                    /\ Tools!Reject(c) => ToolsInv' /\ Tools!DecidedStay
  OBVIOUS
<1>0. ToolsRows /\ DOMAIN tlCall = 1 .. Len(tlCall)
  BY DEF ToolsInv, ToolCallsOK
<1>1. ASSUME c \in 1 .. Len(tlCall), tlCall[c].status = "awaiting", tlWork' = tlWork, ToolsRows',
             ToolCallsOK(tlCall'), EffectsOK(tlCall', tlEffect'), Len(tlCall') = Len(tlCall),
             \A d \in 1 .. Len(tlCall) : d # c => tlCall'[d] = tlCall[d]
      PROVE  ToolsInv' /\ Tools!DecidedStay
  <2>1. \A v \in Actors : tlWork[v].at = "execute" => Holds(tlWork[v], tlCall')
    BY <1>1 DEF ToolsInv, Holds
  <2>2. Tools!DecidedStay
    BY <1>0, <1>1 DEF Tools!DecidedStay
  <2> QED
    BY <1>1, <2>1, <2>2, PersonKept
<1>2. ASSUME Tools!Approve(c) PROVE ToolsInv' /\ Tools!DecidedStay
  <2>1. /\ c \in 1 .. Len(tlCall) /\ tlCall[c].status = "awaiting" /\ Tools!Succeeds(c)
        /\ tlPolicy' = tlPolicy /\ tlTalk' = tlTalk /\ tlWork' = tlWork
        /\ Tools!Save("completed") \/ tlRun' = tlRun
    BY <1>0, <1>2 DEF Tools!Approve, Tools!Awaiting, Tools!Completed
  <2>2. ToolsRows'
    BY <1>0, <2>1, RunSaved DEF ToolsRows, Tools!RunStatus
  <2>3. /\ ToolCallsOK(tlCall') /\ EffectsOK(tlCall', tlEffect') /\ Len(tlCall') = Len(tlCall)
        /\ \A d \in 1 .. Len(tlCall) : d # c => tlCall'[d] = tlCall[d]
    BY <2>1, CallSucceeds
  <2> QED
    BY <1>1, <2>1, <2>2, <2>3
<1>3. ASSUME NEW status \in {"failed", "rejected"}, Tools!Awaiting(c), Tools!HandOff(tlRun.status),
             tlCall' = [tlCall EXCEPT ![c].status = status],
             tlEffect' = tlEffect, tlPolicy' = tlPolicy, tlWork' = tlWork
      PROVE  ToolsInv' /\ Tools!DecidedStay
  <2>1. c \in 1 .. Len(tlCall) /\ tlCall[c].status = "awaiting"
    BY <1>0, <1>3 DEF Tools!Awaiting
  <2>2. ToolsRows'
    BY <1>0, <1>3, HandedOff DEF ToolsRows
  <2>3. /\ ToolCallsOK(tlCall') /\ EffectsOK(tlCall', tlEffect') /\ Len(tlCall') = Len(tlCall)
        /\ \A d \in 1 .. Len(tlCall) : d # c => tlCall'[d] = tlCall[d]
    BY <1>3, <2>1, CallDecided
  <2> QED
    BY <1>1, <1>3, <2>1, <2>2, <2>3
<1>4. Tools!ApproveFails(c) => ToolsInv' /\ Tools!DecidedStay
  BY <1>3 DEF Tools!ApproveFails
<1>5. Tools!Reject(c) => ToolsInv' /\ Tools!DecidedStay
  BY <1>3 DEF Tools!Reject
<1> QED
  BY <1>2, <1>4, <1>5

\* Every step of the part, by the lemma of its action.
LEMMA ToolsPart ==
    ASSUME ToolsInv, ToolsSteps
    PROVE  ToolsInv' /\ Tools!DecidedStay /\ focus = "tools" /\ UNCHANGED focus
  BY ToolsWork, ToolsHandled, ToolsExecuted, ToolsPeople, ToolsDecided DEF ToolsSteps, Keep6

\* The invariant is the property the run checks, and more.
LEMMA ToolsCounts == \A S : Tools!Cardinality(S) = Cardinality(S)
  BY DEF Tools!Cardinality, Cardinality

LEMMA ToolsHolds == ToolsInv => Tools!ActsOnce /\ Tools!AIToolsTypeOK
<1> SUFFICES ASSUME ToolsInv PROVE Tools!ActsOnce /\ Tools!AIToolsTypeOK
  OBVIOUS
<1> DEFINE holds == {e \in DOMAIN tlEffect : tlEffect[e].tool = "hold"}
<1>1. DOMAIN tlEffect = 1 .. Len(tlEffect) /\ DOMAIN tlCall = 1 .. Len(tlCall)
  BY DEF ToolsInv, EffectsOK, ToolCallsOK
<1>2. \A e, f \in holds : e = f
  BY <1>1 DEF ToolsInv, EffectsOK
<1> HIDE DEF holds
<1>3. Tools!Cardinality(holds) <= 1
  <2>1. CASE holds = {}
    <3>1. Cardinality(holds) = 0
      BY <2>1, FS_EmptySet
    <3> QED
      BY <3>1, ToolsCounts
  <2>2. CASE holds # {}
    <3>1. PICK e : e \in holds
      BY <2>2
    <3>2. holds = {e}
      BY <1>2, <3>1
    <3>3. Cardinality(holds) = 1
      BY <3>2, FS_Singleton
    <3> QED
      BY <3>3, ToolsCounts
  <2> QED
    BY <2>1, <2>2
<1>4. /\ \A e, f \in DOMAIN tlEffect : tlEffect[e].call = tlEffect[f].call => e = f
      /\ \A e \in DOMAIN tlEffect : tlCall[tlEffect[e].call].status = "succeeded"
      /\ \A e \in DOMAIN tlEffect : tlEffect[e].tool \in ToolNames /\ tlEffect[e].call \in DOMAIN tlCall
  <2>1. EffectsOK(tlCall, tlEffect)
    BY DEF ToolsInv
  <2>2. \A e \in 1 .. Len(tlEffect) : tlEffect[e].tool \in ToolNames
    <3> DEFINE row == [tool: ToolNames, call: Nat]
    <3>0. tlEffect \in Seq(row)
      BY <2>1 DEF EffectsOK
    <3> HIDE DEF row
    <3>1. \A e \in 1 .. Len(tlEffect) : tlEffect[e] \in row
      BY <3>0
    <3> USE DEF row
    <3> QED
      BY <3>1
  <2> QED
    BY <1>1, <2>1, <2>2 DEF EffectsOK
<1>5. Tools!ActsOnce
  BY <1>3, <1>4 DEF Tools!ActsOnce, holds
<1>6. \A w \in Actors : tlWork[w].at \in {"idle", "context", "ask", "handle", "execute"}
  BY ToolsPlaces DEF ToolsInv
<1>7. Len(tlCall) <= MaxCalls /\ \A c \in DOMAIN tlCall : tlCall[c] \in Tools!Call
  BY <1>1 DEF ToolsInv, ToolCallsOK
<1>8. /\ tlRun.status \in Tools!RunStatus /\ tlRun.rounds \in 0 .. MaxRounds
      /\ tlPolicy \in [ToolNames -> Tools!Modes] /\ tlTalk \in [on: BOOLEAN, human: BOOLEAN, handoff: BOOLEAN]
  BY DEF ToolsInv, ToolsRows, ToolsRun, ToolsPolicy, ToolsTalk
<1> QED
  BY <1>4, <1>5, <1>6, <1>7, <1>8, Zenon DEF Tools!AIToolsTypeOK

-----------------------------------------------------------------------------
(* The parts together: a step belongs to the part that runs.               *)

\* The invariant of the part that runs.
WorkspaceInv ==
    /\ focus \in {"crm", "leads", "members", "accounts", "context", "access", "controls", "data_requests",
                  "jobs", "chat", "calls", "mail", "usage", "payments", "tools"}
    /\ focus = "crm" => CrmInv
    /\ focus = "leads" => LeadsInv
    /\ focus = "members" => MembersInv
    /\ focus = "accounts" => AccountsInv
    /\ focus = "context" => ContextInv
    /\ focus = "access" => AccessInv
    /\ focus = "controls" => ControlsInv
    /\ focus = "data_requests" => DataInv
    /\ focus = "jobs" => JobsInv
    /\ focus = "chat" => ChatInv
    /\ focus = "calls" => CallsInv
    /\ focus = "mail" => MailInv
    /\ focus = "usage" => UsageInv
    /\ focus = "payments" => PaymentsInv
    /\ focus = "tools" => ToolsInv

\* What the steps of the calls and of the tools do besides.
PartStep ==
    /\ focus = "calls" => Calls!DetailsKept
    /\ focus = "tools" => Tools!DecidedStay

\* Nothing changes.
LEMMA WorkspaceRest ==
    ASSUME WorkspaceInv, UNCHANGED vars
    PROVE  WorkspaceInv' /\ PartStep
<1> USE DEF vars
<1>1. ASSUME CrmInv PROVE CrmInv'
  BY <1>1 DEF CrmInv, ContactsOK, ConvOK, CrmWorkOK, FormOK
<1>2. ASSUME LeadsInv PROVE LeadsInv'
  BY <1>2 DEF LeadsInv, LeadOK, TaskOK, LeadReadOK
<1>3. ASSUME MembersInv PROVE MembersInv'
  BY <1>3 DEF MembersInv, InviteOK, MembersReqOK
<1>4. ASSUME AccountsInv PROVE AccountsInv'
  BY <1>4 DEF AccountsInv, ResetOK, AccountsReqOK
<1>5. ASSUME ContextInv PROVE ContextInv'
  BY <1>5 DEF ContextInv, ProfileOK, ProfileReadOK
<1>6. ASSUME AccessInv PROVE AccessInv'
  BY <1>6 DEF AccessInv, CodeOK, AccessReqOK, Spent
<1>7. ASSUME ControlsInv PROVE ControlsInv'
  BY <1>7 DEF ControlsInv, OrgOK, RunsOK, ControlsReqOK
<1>8. ASSUME DataInv PROVE DataInv'
  BY <1>8 DEF DataInv, PrivacyOK, DataReqOK
<1>9. ASSUME JobsInv PROVE JobsInv'
  <2>1. jbJob' = jbJob /\ jbCounter' = jbCounter /\ jbLead' = jbLead /\ jbReq' = jbReq /\ jbEdits' = jbEdits
    OBVIOUS
  <2>2. DOMAIN jbJob' = JobRows /\ \A j \in JobRows : jbJob'[j] = Jobs!NoJob \/ JobOK(jbJob'[j])
    <3>1. DOMAIN jbJob = JobRows /\ \A j \in JobRows : jbJob[j] = Jobs!NoJob \/ JobOK(jbJob[j])
      BY <1>9, Zenon DEF JobsInv
    <3> QED
      BY <2>1, <3>1
  <2>3. NumbersOK'
    <3>1. NumbersOK
      BY <1>9, Zenon DEF JobsInv
    <3> QED
      BY <2>1, <3>1 DEF NumbersOK, Jobs!Stored, Jobs!NumbersDistinct
  <2>4. \A r \in Actors : JobReqOK(r) => JobReqOK(r)'
    BY <2>1 DEF JobReqOK, Jobs!Stored
  <2> QED
    BY <1>9, <2>1, <2>2, <2>3, <2>4, Zenon DEF JobsInv
<1>10. ASSUME ChatInv PROVE ChatInv'
  BY <1>10 DEF ChatInv, ChatRowsOK, RunsOnce, ChatReqOK
<1>11. ASSUME CallsInv PROVE CallsInv'
  BY <1>11 DEF CallsInv, CallReqOK, Saves
<1>12. ASSUME MailInv PROVE MailInv'
  BY <1>12 DEF MailInv, RowsOfMail, RowsOK
<1>13. ASSUME UsageInv PROVE UsageInv'
  BY <1>13 DEF UsageInv, UsageEvents, TotalsOK, InvoicesOK
<1>14. ASSUME PaymentsInv PROVE PaymentsInv'
  <2>1. /\ pvInvoice' = pvInvoice /\ pvAttempt' = pvAttempt /\ pvEvent' = pvEvent
        /\ pvSub' = pvSub /\ pvReq' = pvReq
    OBVIOUS
  <2>2. OnePays(pvInvoice', pvAttempt') /\ PaymentsRows'
    BY <1>14, <2>1 DEF PaymentsInv, PaymentsRows
  <2>3. \A h \in Actors : PaymentsReqOK(h)' <=> PaymentsReqOK(h)
    BY <2>1 DEF PaymentsReqOK, PaymentsFail
  <2> QED
    BY <1>14, <2>1, <2>2, <2>3 DEF PaymentsInv
<1>15. ASSUME ToolsInv PROVE ToolsInv' /\ Tools!DecidedStay
  <2>1. ToolsRows'
    BY <1>15 DEF ToolsInv, ToolsRows
  <2> QED
    BY <1>15, <2>1, NobodyMoves
<1>16. Calls!DetailsKept
  BY DEF Calls!DetailsKept
<1> QED
  BY <1>1, <1>2, <1>3, <1>4, <1>5, <1>6, <1>7, <1>8, <1>9, <1>10, <1>11, <1>12, <1>13, <1>14, <1>15, <1>16 DEF WorkspaceInv, PartStep

\* Every step keeps the invariant and does what the action property says.
LEMMA WorkspaceStep ==
    ASSUME WorkspaceInv, [WorkspaceNext]_vars
    PROVE  WorkspaceInv' /\ PartStep
<1>1. CASE CrmSteps
  <2>1. focus = "crm"
    BY <1>1 DEF CrmSteps
  <2> QED
    BY <1>1, <2>1, CrmPart DEF WorkspaceInv, PartStep
<1>2. CASE LeadsSteps
  <2>1. focus = "leads"
    BY <1>2 DEF LeadsSteps
  <2> QED
    BY <1>2, <2>1, LeadsPart DEF WorkspaceInv, PartStep
<1>3. CASE MembersSteps
  <2>1. focus = "members"
    BY <1>3 DEF MembersSteps
  <2> QED
    BY <1>3, <2>1, MembersPart DEF WorkspaceInv, PartStep
<1>4. CASE AccountsSteps
  <2>1. focus = "accounts"
    BY <1>4 DEF AccountsSteps
  <2> QED
    BY <1>4, <2>1, AccountsPart DEF WorkspaceInv, PartStep
<1>5. CASE ContextSteps
  <2>1. focus = "context"
    BY <1>5 DEF ContextSteps
  <2> QED
    BY <1>5, <2>1, ContextPart DEF WorkspaceInv, PartStep
<1>6. CASE AccessSteps
  <2>1. focus = "access"
    BY <1>6 DEF AccessSteps
  <2> QED
    BY <1>6, <2>1, AccessPart DEF WorkspaceInv, PartStep
<1>7. CASE ControlsSteps
  <2>1. focus = "controls"
    BY <1>7 DEF ControlsSteps
  <2> QED
    BY <1>7, <2>1, ControlsPart DEF WorkspaceInv, PartStep
<1>8. CASE DataRequestsSteps
  <2>1. focus = "data_requests"
    BY <1>8 DEF DataRequestsSteps
  <2> QED
    BY <1>8, <2>1, DataPart DEF WorkspaceInv, PartStep
<1>9. CASE JobsSteps
  <2>1. focus = "jobs"
    BY <1>9, Zenon DEF JobsSteps
  <2> QED
    BY <1>9, <2>1, JobsPart DEF WorkspaceInv, PartStep
<1>10. CASE ChatSteps
  <2>1. focus = "chat"
    BY <1>10 DEF ChatSteps
  <2> QED
    BY <1>10, <2>1, ChatPart DEF WorkspaceInv, PartStep
<1>11. CASE CallsSteps
  <2>1. focus = "calls"
    BY <1>11 DEF CallsSteps
  <2> QED
    BY <1>11, <2>1, CallsPart DEF WorkspaceInv, PartStep
<1>12. CASE MailSteps
  <2>1. focus = "mail"
    BY <1>12 DEF MailSteps
  <2> QED
    BY <1>12, <2>1, MailPart DEF WorkspaceInv, PartStep
<1>13. CASE UsageSteps
  <2>1. focus = "usage"
    BY <1>13 DEF UsageSteps
  <2> QED
    BY <1>13, <2>1, UsagePart DEF WorkspaceInv, PartStep
<1>14. CASE PaymentsSteps
  <2>1. focus = "payments"
    BY <1>14 DEF PaymentsSteps
  <2> QED
    BY <1>14, <2>1, PaymentsPart DEF WorkspaceInv, PartStep
<1>15. CASE ToolsSteps
  <2>1. focus = "tools"
    BY <1>15 DEF ToolsSteps
  <2> QED
    BY <1>15, <2>1, ToolsPart DEF WorkspaceInv, PartStep
<1>16. CASE UNCHANGED vars
  BY <1>16, WorkspaceRest
<1> QED
  BY <1>1, <1>2, <1>3, <1>4, <1>5, <1>6, <1>7, <1>8, <1>9, <1>10, <1>11, <1>12, <1>13, <1>14, <1>15, <1>16 DEF WorkspaceNext

LEMMA WorkspaceStart == WorkspaceInit => WorkspaceInv
  BY CrmStarts, LeadsStarts, MembersStarts, AccountsStarts, ContextStarts,
     AccessStarts, ControlsStarts, DataStarts, JobsStarts, ChatStarts,
     CallsStarts, MailStarts, UsageStarts, PaymentsStarts, ToolsStarts DEF WorkspaceInit, WorkspaceInv

LEMMA WorkspaceInvariance == WorkspaceSpec => []WorkspaceInv
<1>1. WorkspaceInv /\ [WorkspaceNext]_vars => WorkspaceInv'
  BY WorkspaceStep
<1> QED
  BY <1>1, WorkspaceStart, PTL DEF WorkspaceSpec

-----------------------------------------------------------------------------
(* Every part keeps its rows within what its models allow.                 *)
THEOREM WorkspaceTyped == WorkspaceSpec => []WorkspaceTypeOK
<1>1. WorkspaceInv => WorkspaceTypeOK
  <2> SUFFICES ASSUME WorkspaceInv PROVE WorkspaceTypeOK
    OBVIOUS
  <2>1. CASE focus = "crm"
    <3>1. Crm!CrmTypeOK
      BY <2>1, CrmHolds DEF WorkspaceInv
    <3> QED
      BY <2>1, <3>1 DEF WorkspaceTypeOK
  <2>2. CASE focus = "leads"
    <3>1. Leads!LeadsTypeOK
      BY <2>2, LeadsHolds DEF WorkspaceInv
    <3> QED
      BY <2>2, <3>1 DEF WorkspaceTypeOK
  <2>3. CASE focus = "members"
    <3>1. Members!MembersTypeOK
      BY <2>3, MembersHolds DEF WorkspaceInv
    <3> QED
      BY <2>3, <3>1 DEF WorkspaceTypeOK
  <2>4. CASE focus = "accounts"
    <3>1. Accounts!AccountsTypeOK
      BY <2>4, AccountsHolds DEF WorkspaceInv
    <3> QED
      BY <2>4, <3>1 DEF WorkspaceTypeOK
  <2>5. CASE focus = "context"
    <3>1. Context!ContextTypeOK
      BY <2>5, ContextHolds DEF WorkspaceInv
    <3> QED
      BY <2>5, <3>1 DEF WorkspaceTypeOK
  <2>6. CASE focus = "access"
    <3>1. Access!PlatformTypeOK
      BY <2>6, AccessHolds DEF WorkspaceInv
    <3> QED
      BY <2>6, <3>1 DEF WorkspaceTypeOK
  <2>7. CASE focus = "controls"
    <3>1. Controls!ControlTypeOK
      BY <2>7, ControlsHolds DEF WorkspaceInv
    <3> QED
      BY <2>7, <3>1 DEF WorkspaceTypeOK
  <2>8. CASE focus = "data_requests"
    <3>1. DataRequests!RequestsTypeOK
      BY <2>8, DataHolds DEF WorkspaceInv
    <3> QED
      BY <2>8, <3>1 DEF WorkspaceTypeOK
  <2>9. CASE focus = "jobs"
    <3>1. Jobs!JobsTypeOK
      BY <2>9, JobsHolds DEF WorkspaceInv
    <3> QED
      BY <2>9, <3>1 DEF WorkspaceTypeOK
  <2>10. CASE focus = "chat"
    <3>1. Chat!ChatTypeOK
      BY <2>10, ChatHolds DEF WorkspaceInv
    <3> QED
      BY <2>10, <3>1 DEF WorkspaceTypeOK
  <2>11. CASE focus = "calls"
    <3>1. Calls!CallsTypeOK
      BY <2>11, CallsHolds DEF WorkspaceInv
    <3> QED
      BY <2>11, <3>1 DEF WorkspaceTypeOK
  <2>12. CASE focus = "mail"
    <3>1. Mail!MailTypeOK
      BY <2>12, MailHolds DEF WorkspaceInv
    <3> QED
      BY <2>12, <3>1 DEF WorkspaceTypeOK
  <2>13. CASE focus = "usage"
    <3>1. Usage!UsageTypeOK
      BY <2>13, UsageHolds DEF WorkspaceInv
    <3> QED
      BY <2>13, <3>1 DEF WorkspaceTypeOK
  <2>14. CASE focus = "payments"
    <3>1. Payments!PaymentsTypeOK
      BY <2>14, PaymentsHolds DEF WorkspaceInv
    <3> QED
      BY <2>14, <3>1 DEF WorkspaceTypeOK
  <2>15. CASE focus = "tools"
    <3>1. Tools!AIToolsTypeOK
      BY <2>15, ToolsHolds DEF WorkspaceInv
    <3> QED
      BY <2>15, <3>1 DEF WorkspaceTypeOK
  <2> QED
    BY <2>1, <2>2, <2>3, <2>4, <2>5, <2>6, <2>7, <2>8, <2>9, <2>10, <2>11, <2>12, <2>13, <2>14, <2>15 DEF WorkspaceInv
<1> QED
  BY <1>1, WorkspaceInvariance, PTL

(* However often and at once a provider delivers a message, and whatever   *)
(* form is saved meanwhile, a conversation has no more unread messages     *)
(* than stored ones (ingest_inbound_message, ConversationMarkReadView).  *)
THEOREM UnreadStaysStored == WorkspaceSpec => []UnreadIsStored
<1>1. WorkspaceInv => UnreadIsStored
  BY CrmHolds DEF WorkspaceInv, UnreadIsStored
<1> QED
  BY <1>1, WorkspaceInvariance, PTL

(* Rows that several requests read, change and save agree at any time: the *)
(* dates of a lead with its status, the schedule of a legacy job with its  *)
(* date, no number twice, the published profile with its revision.         *)
THEOREM RowsStayInAgreement == WorkspaceSpec => []RowsAgree
<1>1. WorkspaceInv => RowsAgree
  BY LeadsHolds, JobsHolds, ContextHolds DEF WorkspaceInv, RowsAgree
<1> QED
  BY <1>1, WorkspaceInvariance, PTL

(* An invitation makes one member, a reset link changes one password and a *)
(* code of an authenticator lets in once, however requests overlap.        *)
THEOREM SecretsStayUsed == WorkspaceSpec => []SecretsWorkOnce
<1>1. WorkspaceInv => SecretsWorkOnce
  BY MembersHolds, AccountsHolds, AccessHolds DEF WorkspaceInv, SecretsWorkOnce
<1> QED
  BY <1>1, WorkspaceInvariance, PTL

(* A suspended organization gets back the status it had, and a destructive *)
(* request is approved or run only with the approvals of two owners.       *)
THEOREM GovernanceStands == WorkspaceSpec => []GovernanceHolds
<1>1. WorkspaceInv => GovernanceHolds
  BY ControlsHolds, DataHolds DEF WorkspaceInv, GovernanceHolds
<1> QED
  BY <1>1, WorkspaceInvariance, PTL

(* Records, reconciliations, invoices and renewals, however interleaved    *)
(* and interrupted, never count a message twice or in two periods; events, *)
(* staff and customers together pay an invoice by one attempt.             *)
THEOREM CountsStand == WorkspaceSpec => []CountedOnce
<1>1. WorkspaceInv => CountedOnce
  BY UsageHolds, PaymentsHolds DEF WorkspaceInv, CountedOnce
<1> QED
  BY <1>1, WorkspaceInvariance, PTL

(* A text delivered twice wakes the assistant once, a mail is filed once   *)
(* and as its gates say, a proposed tool call acts at most once and only   *)
(* as a call that succeeded, and a run holds one slot.                     *)
THEOREM HandlingIsSingle == WorkspaceSpec => []HandledOnce
<1>1. WorkspaceInv => HandledOnce
  BY ChatHolds, MailHolds, ToolsHolds DEF WorkspaceInv, HandledOnce
<1> QED
  BY <1>1, WorkspaceInvariance, PTL

(* No callback takes a stored transcript, summary or reference from a      *)
(* call, and a tool call that a person was to decide keeps its verdict.    *)
THEOREM VerdictsAreKept == WorkspaceSpec => VerdictsStand
<1>1. WorkspaceInv /\ [WorkspaceNext]_vars =>
          /\ focus = "calls" => Calls!DetailsKept
          /\ focus = "tools" => Tools!DecidedStay
  BY WorkspaceStep DEF PartStep
<1> QED
  BY <1>1, WorkspaceInvariance, PTL DEF WorkspaceSpec, VerdictsStand

=============================================================================
