---------------------------- MODULE Conversation ----------------------------
(***************************************************************************)
(* What customers and employees are promised of the AI in a conversation,  *)
(* however its runs are executed: nothing that was said is taken back; one *)
(* run is under way at a time, for a message of the customer; an employee  *)
(* who writes ends it; a run answers once by itself and once by its draft; *)
(* and a draft is sent, or an action carried out, once and only while no   *)
(* employee has written since the message it is about.  Module AIRuntime   *)
(* is shown to implement this specification.                               *)
(***************************************************************************)
EXTENDS Integers, Sequences

VARIABLES chat,      \* the messages, in order
          asked,     \* per run, the message it is about
          current,   \* the run that is under way, if any, as a set
          carried    \* the runs whose proposed action was carried out

vars == <<chat, asked, current, carried>>

Init ==
    /\ chat = <<>>
    /\ asked = <<>>
    /\ current = {}
    /\ carried = {}

Said(message) == \E m \in DOMAIN chat : chat[m] = message

\* An employee has written since.
Overtaken(r) == \E m \in DOMAIN chat : m > asked[r] /\ chat[m].from = "agent"

Customer ==
    /\ chat' = Append(chat, [from |-> "customer"])
    /\ UNCHANGED <<asked, current, carried>>

Employee ==
    /\ chat' = Append(chat, [from |-> "agent"])
    /\ current' = {}
    /\ UNCHANGED <<asked, carried>>

\* A run is queued for a message of the customer.
Begin(m) ==
    /\ chat[m].from = "customer"
    /\ current = {}
    /\ asked' = Append(asked, m)
    /\ current' = {Len(asked) + 1}
    /\ UNCHANGED <<chat, carried>>

\* A run that was withdrawn while it was worked on waits for an approval.
Resume(r) ==
    /\ current = {}
    /\ current' = {r}
    /\ UNCHANGED <<chat, asked, carried>>

\* A run ends without a word.
End ==
    /\ current' \subseteq current
    /\ UNCHANGED <<chat, asked, carried>>

\* By the run itself (`reply'), or by the person who approved what it drafted.
Answer(r, by) ==
    /\ ~Said([from |-> by, run |-> r])
    /\ by = "draft" => ~Overtaken(r)
    /\ chat' = Append(chat, [from |-> by, run |-> r])
    /\ UNCHANGED <<asked, current, carried>>

\* The approved action of a run is carried out; the run may end with it.
Carry(r) ==
    /\ r \notin carried
    /\ ~Overtaken(r)
    /\ carried' = carried \cup {r}
    /\ current' \subseteq current
    /\ UNCHANGED <<chat, asked>>

Next ==
    \/ Customer
    \/ Employee
    \/ \E m \in DOMAIN chat : Begin(m)
    \/ End
    \/ \E r \in DOMAIN asked :
          \/ Resume(r)
          \/ \E by \in {"reply", "draft"} : Answer(r, by)
          \/ Carry(r)

Spec == Init /\ [][Next]_vars
=============================================================================
