------------------------------ MODULE Schedule ------------------------------
(***************************************************************************)
(* What a branch promises its customers about its slots, whatever the code *)
(* keeps in its rows: a slot is held and booked only while it fits with    *)
(* all that is held and booked already; a hold is good for one booking, of *)
(* the slot it keeps, and never again once it was used or has lapsed; a    *)
(* key books once; a booking stays with its staff member, and what it gave *)
(* up is not taken back.  Module Booking is shown to implement this        *)
(* specification when requests are served at the time they read.           *)
(***************************************************************************)
EXTENDS Integers, FiniteSets, Sequences

CONSTANTS Staff, Starts, Keys,
          Duration,                  \* of the service
          Capacity, RoomCapacity     \* of a staff member, and of the resource

VARIABLES held,      \* the slots of the holds that are good, by ticket
          issued,    \* every ticket there has been
          booked     \* the bookings, oldest first, and whether they stand

vars == <<held, issued, booked>>

Covers(slot, t) == slot.start <= t /\ t < slot.start + Duration

Holding(t, S) == {h \in DOMAIN held : held[h].staff \in S /\ Covers(held[h], t)}

Standing(t, S) ==
    {b \in DOMAIN booked : booked[b].stands /\ booked[b].staff \in S /\ Covers(booked[b], t)}

Load(t, S) == Cardinality(Standing(t, S)) + Cardinality(Holding(t, S))

\* One more fits at every instant of the slot.
Fits(start, p) ==
    \A t \in start .. (start + Duration - 1) :
       /\ Load(t, Staff) + 1 <= RoomCapacity
       /\ Load(t, {p}) + 1 <= Capacity

Without(h) == [g \in DOMAIN held \ {h} |-> held[g]]

Init ==
    /\ held = <<>>
    /\ issued = {}
    /\ booked = <<>>

\* A new ticket keeps a slot.
Hold(h, start, p) ==
    /\ h \in issued' \ issued
    /\ start \in Starts
    /\ Fits(start, p)
    /\ held' = [g \in DOMAIN held \cup {h} |->
                   IF g = h THEN [start |-> start, staff |-> p] ELSE held[g]]
    /\ UNCHANGED booked

\* Holds lapse.
Lapse ==
    /\ DOMAIN held' \subseteq DOMAIN held
    /\ held' = [h \in DOMAIN held' |-> held[h]]
    /\ UNCHANGED booked

\* A good hold becomes a booking of the slot it keeps.
Book(h, k) ==
    /\ \A b \in DOMAIN booked : booked[b].key # k
    /\ booked' = Append(booked, [start |-> held[h].start, staff |-> held[h].staff,
                                 key |-> k, stands |-> TRUE])
    /\ held' = Without(h)

\* A booking moves to a slot that fits, its own place still counted.
Move(b, start) ==
    /\ booked[b].stands
    /\ start \in Starts
    /\ Fits(start, booked[b].staff)
    /\ booked' = [booked EXCEPT ![b].start = start]
    /\ UNCHANGED held

\* A booking gives its slot up.
Release(b) ==
    /\ booked[b].stands
    /\ booked' = [booked EXCEPT ![b].stands = FALSE]
    /\ UNCHANGED held

Next ==
    /\ issued \subseteq issued'
    /\ \/ \E h \in issued', start \in Starts, p \in Staff : Hold(h, start, p)
       \/ Lapse
       \/ \E h \in DOMAIN held, k \in Keys : Book(h, k)
       \/ \E b \in DOMAIN booked, start \in Starts : Move(b, start)
       \/ \E b \in DOMAIN booked : Release(b)

Spec == Init /\ [][Next]_vars
=============================================================================
