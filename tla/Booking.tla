------------------------------ MODULE Booking ------------------------------
(***************************************************************************)
(* Slots, temporary holds, appointments and reminders of one branch and    *)
(* one service (backend/apps/booking).                                     *)
(*                                                                         *)
(* A customer request reads the clock when it arrives and does its work in *)
(* one transaction once it has its locks; `calls' holds the requests in    *)
(* between, so the time they decide with may be old.  Holds are granted    *)
(* and converted under the organization's advisory lock, one at a time:    *)
(* each transaction is one action.  A handler that raises rolls back and   *)
(* answers an error: Answer.                                               *)
(*                                                                         *)
(* Times are abstract units.  Opening hours, breaks and time zones are the *)
(* set Starts; booking stays entitled and customers may reschedule and     *)
(* cancel.  Every appointment takes one unit of one shared resource.       *)
(***************************************************************************)
EXTENDS Integers, FiniteSets, Sequences

CONSTANTS
    Staff,            \* bookable staff profiles
    Contacts,         \* customers
    Keys,             \* idempotency keys sent by clients
    Workers,          \* overlapping executions of the reminder task
    Starts,           \* instants the schedules offer
    Duration, BufferBefore, BufferAfter, MinNotice,   \* of the service
    Capacity,         \* maximum_concurrent_appointments of a profile
    RoomCapacity,     \* capacity of the resource
    HoldTtl, ConfirmTtl, CancelNotice,                \* of the policy
    Leads,            \* reminder_schedule
    Mode,             \* booking_mode of the service
    Poisoned,         \* contacts whose channel raises its own error on a send
    Replays,          \* whether a client may send a reschedule key again
    MaxDelay,         \* how old the clock reading of a request may get
    MaxCalls, MaxHolds, MaxAppointments, MaxTime      \* bounds

ASSUME BookingAssumption ==
    /\ Starts \subseteq Nat
    /\ Leads \subseteq Nat
    /\ Duration \in Nat \ {0}
    /\ {BufferBefore, BufferAfter, MinNotice, Capacity, RoomCapacity, HoldTtl,
        ConfirmTtl, CancelNotice, MaxDelay, MaxCalls, MaxHolds,
        MaxAppointments, MaxTime} \subseteq Nat
    /\ Mode \in {"instant", "require_confirmation", "manual_only"}
    /\ Replays \in BOOLEAN
    /\ Poisoned \subseteq Contacts
    /\ IsFiniteSet(Workers)

VARIABLES
    now,         \* the clock
    holds,       \* rows of AppointmentHold, in order of creation
    appts,       \* rows of Appointment, in order of creation
    reminders,   \* rows of AppointmentReminder by what their key is made of
    calls,       \* requests that have read the clock and have not committed
    work         \* per execution of the reminder task, ids it has yet to handle

vars == <<now, holds, appts, reminders, calls, work>>
-----------------------------------------------------------------------------
(* Rows.                                                                   *)

BlockingStatuses == {"pending_confirmation", "confirmed", "checked_in", "in_progress"}

FinalStatuses == {"completed", "cancelled", "no_show", "rejected"}

HoldStatuses == {"active", "converted", "expired"}

ReminderStatuses == {"scheduled", "sent", "failed", "cancelled", "skipped"}

\* The key of a hold row: a client's, or the one reschedule derives.
CustomerKey(k) == [appt |-> 0, key |-> k]
RescheduleKey(a, k) == [appt |-> a, key |-> k]

HoldRow ==
    [start : Starts, staff : Staff, contact : Contacts, expires : Nat,
     status : HoldStatuses, key : [appt : Nat, key : Keys]]

AppointmentRow ==
    [start : Starts, staff : Staff, contact : Contacts, confirmBy : Nat,
     status : BlockingStatuses \cup FinalStatuses, key : Keys]

ReminderId == [appt : Nat, lead : Leads, start : Starts]

\* `sent' counts the REMINDER_SENT events appended for the row.
ReminderRow == [status : ReminderStatuses, attempts : Nat, sent : Nat]

Call ==
    [op : {"hold"}, at : Nat, key : Keys, start : Starts, staff : SUBSET Staff,
     contact : Contacts]
    \cup [op : {"book"}, at : Nat, key : Keys, hold : Nat]
    \cup [op : {"reschedule"}, at : Nat, key : Keys, appt : Nat, start : Starts]
    \cup [op : {"confirm", "cancel"}, at : Nat, appt : Nat]

TypeOK ==
    /\ now \in Nat
    /\ holds \in Seq(HoldRow)
    /\ appts \in Seq(AppointmentRow)
    /\ DOMAIN reminders \subseteq ReminderId
    /\ \A id \in DOMAIN reminders :
          id.appt \in DOMAIN appts /\ reminders[id] \in ReminderRow
    /\ \A c \in calls :
          /\ c \in Call
          /\ c.op = "book" => c.hold \in DOMAIN holds
          /\ c.op \in {"reschedule", "confirm", "cancel"} => c.appt \in DOMAIN appts
    /\ work \in [Workers -> SUBSET DOMAIN reminders]
-----------------------------------------------------------------------------
(* Availability, as it is recalculated inside the transaction.             *)

Blocking(a) == appts[a].status \in BlockingStatuses

AppointmentOverlap(from, to) ==
    {a \in DOMAIN appts :
        Blocking(a) /\ appts[a].start < to /\ appts[a].start + Duration > from}

HoldOverlap(from, to, at) ==
    {h \in DOMAIN holds :
        /\ holds[h].status = "active"
        /\ holds[h].expires > at
        /\ holds[h].start < to
        /\ holds[h].start + Duration > from}

AvailableIgnoringHolds(p, start, at) ==
    LET booked == AppointmentOverlap(start - BufferBefore, start + Duration + BufferAfter)
    IN  /\ start >= at + MinNotice
        /\ Cardinality({a \in booked : appts[a].staff = p}) < Capacity
        /\ Cardinality(booked) + 1 <= RoomCapacity

\* Only the candidate's own buffers widen the interval that is looked up.
Available(p, start, at) ==
    LET booked == AppointmentOverlap(start - BufferBefore, start + Duration + BufferAfter)
        held == HoldOverlap(start - BufferBefore, start + Duration + BufferAfter, at)
    IN  /\ start >= at + MinNotice
        /\ Cardinality({a \in booked : appts[a].staff = p})
             + Cardinality({h \in held : holds[h].staff = p}) < Capacity
        /\ Cardinality(booked) + Cardinality(held) + 1 <= RoomCapacity

KnownHold(key) == {h \in DOMAIN holds : holds[h].key = key}

KnownAppointment(k) == {a \in DOMAIN appts : appts[a].key = k}
-----------------------------------------------------------------------------
(* Rows written by the handlers.                                           *)

NewHold(start, p, contact, at, key) ==
    [start |-> start, staff |-> p, contact |-> contact, expires |-> at + HoldTtl,
     status |-> "active", key |-> key]

NewAppointment(h, at, k) ==
    [start |-> h.start, staff |-> h.staff, contact |-> h.contact,
     confirmBy |-> IF Mode = "require_confirmation" THEN at + ConfirmTtl ELSE 0,
     status |-> IF Mode = "instant" THEN "confirmed" ELSE "pending_confirmation",
     key |-> k]

Converted(h) == [h EXCEPT !.status = "converted"]

Moved(a, start) == [a EXCEPT !.start = start]

WithStatus(a, status) == [a EXCEPT !.status = status]

NewReminder == [status |-> "scheduled", attempts |-> 0, sent |-> 0]

DueAt(id) == id.start - id.lead

\* schedule_reminders: a row that exists under the same key is left as it is.
ScheduleReminders(rows, a, start, at) ==
    LET ids == {[appt |-> a, lead |-> l, start |-> start] :
                    l \in {m \in Leads : start - m > at}}
    IN  [id \in DOMAIN rows \cup ids |->
            IF id \in DOMAIN rows THEN rows[id] ELSE NewReminder]

KeepReminders(rows, a) == rows

\* Rescheduling and cancelling withdraw what is still scheduled, nothing else.
WithdrawReminders(rows, a) ==
    [id \in DOMAIN rows |->
        IF id.appt = a /\ rows[id].status = "scheduled"
        THEN [rows[id] EXCEPT !.status = "cancelled"] ELSE rows[id]]
-----------------------------------------------------------------------------
(* Requests.  Each reads the clock and looks for an earlier answer to its  *)
(* key before it waits for the locks.                                      *)

Pending(ops) == {c \in calls : c.op \in ops}

Begin(c) ==
    /\ Cardinality(calls) < MaxCalls
    /\ calls' = calls \cup {c}
    /\ UNCHANGED <<now, holds, appts, reminders, work>>

RoomForHold ==
    Len(holds) + Cardinality(Pending({"hold", "reschedule"})) < MaxHolds

BeginHold(k, start, ps, contact) ==
    /\ RoomForHold
    /\ KnownHold(CustomerKey(k)) = {}
    /\ Begin([op |-> "hold", at |-> now, key |-> k, start |-> start, staff |-> ps,
              contact |-> contact])

BeginBook(k, h) ==
    /\ Len(appts) + Cardinality(Pending({"book"})) < MaxAppointments
    /\ KnownAppointment(k) = {}
    /\ Begin([op |-> "book", at |-> now, key |-> k, hold |-> h])

BeginReschedule(k, a, start) ==
    /\ RoomForHold \/ KnownHold(RescheduleKey(a, k)) # {}
    /\ Replays \/ /\ KnownHold(RescheduleKey(a, k)) = {}
                  /\ \A c \in Pending({"reschedule"}) : c.appt = a => c.key # k
    /\ Begin([op |-> "reschedule", at |-> now, key |-> k, appt |-> a, start |-> start])

BeginConfirm(a) == Begin([op |-> "confirm", at |-> now, appt |-> a])

BeginCancel(a) == Begin([op |-> "cancel", at |-> now, appt |-> a])
-----------------------------------------------------------------------------
(* AppointmentHoldService.create.  A call that leaves the choice of staff  *)
(* open gets one of the available ones.                                    *)

CanHold(c) ==
    /\ c.op = "hold"
    /\ KnownHold(CustomerKey(c.key)) = {}
    /\ \E p \in c.staff : Available(p, c.start, c.at)

CreateHold(c) ==
    /\ CanHold(c)
    /\ \E p \in c.staff :
          /\ Available(p, c.start, c.at)
          /\ holds' = Append(holds, NewHold(c.start, p, c.contact, c.at, CustomerKey(c.key)))
    /\ calls' = calls \ {c}
    /\ UNCHANGED <<now, appts, reminders, work>>

(* AppointmentService.create_from_hold: the hold is compared with the time *)
(* read at arrival, and the slot is not looked up again.  A key that was   *)
(* used meanwhile breaks the unique constraint.                            *)

CanBookAnyStatus(c) ==
    /\ c.op = "book"
    /\ holds[c.hold].expires > c.at
    /\ KnownAppointment(c.key) = {}

CanBookAnyKey(c) ==
    /\ c.op = "book"
    /\ holds[c.hold].status = "active"
    /\ holds[c.hold].expires > c.at

CanBook(c) ==
    /\ c.op = "book"
    /\ holds[c.hold].status = "active"
    /\ holds[c.hold].expires > c.at
    /\ KnownAppointment(c.key) = {}

CreateFromHold(c) ==
    /\ CanBook(c)
    /\ appts' = Append(appts, NewAppointment(holds[c.hold], c.at, c.key))
    /\ holds' = [holds EXCEPT ![c.hold] = Converted(@)]
    /\ reminders' = ScheduleReminders(reminders, Len(appts) + 1,
                                      holds[c.hold].start, c.at)
    /\ calls' = calls \ {c}
    /\ UNCHANGED <<now, work>>
-----------------------------------------------------------------------------
(* AppointmentService.reschedule.  A hold known under the derived key is   *)
(* applied as it is, without a look at its status or at the slot.          *)

ReschedulableAlways(a) == TRUE

Reschedulable(a) == Blocking(a)

CanReschedule(c) ==
    /\ c.op = "reschedule"
    /\ Reschedulable(c.appt)
    /\ \/ KnownHold(RescheduleKey(c.appt, c.key)) # {}
       \/ Available(appts[c.appt].staff, c.start, c.at)

Reapply(c) ==
    \E h \in KnownHold(RescheduleKey(c.appt, c.key)) :
       /\ appts' = [appts EXCEPT ![c.appt] = Moved(@, holds[h].start)]
       /\ holds' = [holds EXCEPT ![h] = Converted(@)]
       /\ reminders' = ScheduleReminders(WithdrawReminders(reminders, c.appt),
                                         c.appt, holds[h].start, c.at)

MoveToNewHold(c) ==
    /\ KnownHold(RescheduleKey(c.appt, c.key)) = {}
    /\ appts' = [appts EXCEPT ![c.appt] = Moved(@, c.start)]
    /\ holds' = Append(holds, Converted(NewHold(c.start, appts[c.appt].staff,
                                                appts[c.appt].contact, c.at,
                                                RescheduleKey(c.appt, c.key))))
    /\ reminders' = ScheduleReminders(WithdrawReminders(reminders, c.appt),
                                      c.appt, c.start, c.at)

Reschedule(c) ==
    /\ CanReschedule(c)
    /\ Reapply(c) \/ MoveToNewHold(c)
    /\ calls' = calls \ {c}
    /\ UNCHANGED <<now, work>>
-----------------------------------------------------------------------------
(* AppointmentService.confirm and cancel by the customer: the link and the *)
(* notice are judged by the time of arrival.                               *)

CanConfirm(c) ==
    /\ c.op = "confirm"
    /\ appts[c.appt].status = "pending_confirmation"
    /\ Mode # "manual_only"
    /\ appts[c.appt].confirmBy > c.at

Confirm(c) ==
    /\ CanConfirm(c)
    /\ appts' = [appts EXCEPT ![c.appt] = WithStatus(@, "confirmed")]
    /\ calls' = calls \ {c}
    /\ UNCHANGED <<now, holds, reminders, work>>

CanCancel(c) ==
    /\ c.op = "cancel"
    /\ Blocking(c.appt)
    /\ appts[c.appt].start - c.at >= CancelNotice

Cancel(c) ==
    /\ CanCancel(c)
    /\ appts' = [appts EXCEPT ![c.appt] = WithStatus(@, "cancelled")]
    /\ reminders' = WithdrawReminders(reminders, c.appt)
    /\ calls' = calls \ {c}
    /\ UNCHANGED <<now, holds, work>>

\* The request is refused, or answered with what an earlier one did.
Answer(c) ==
    /\ ~(CanHold(c) \/ CanBook(c) \/ CanReschedule(c) \/ CanConfirm(c) \/ CanCancel(c))
    /\ calls' = calls \ {c}
    /\ UNCHANGED <<now, holds, appts, reminders, work>>
-----------------------------------------------------------------------------
(* Employees: no link, no notice, and the operational statuses.            *)

EmployeeConfirm(a) ==
    /\ appts[a].status = "pending_confirmation"
    /\ appts' = [appts EXCEPT ![a] = WithStatus(@, "confirmed")]
    /\ UNCHANGED <<now, holds, reminders, calls, work>>

EmployeeCancel(a) ==
    /\ Blocking(a)
    /\ appts' = [appts EXCEPT ![a] = WithStatus(@, "cancelled")]
    /\ reminders' = WithdrawReminders(reminders, a)
    /\ UNCHANGED <<now, holds, calls, work>>

StatusMoves ==
    {<<"confirmed", "checked_in">>, <<"confirmed", "no_show">>,
     <<"checked_in", "in_progress">>, <<"checked_in", "no_show">>,
     <<"in_progress", "completed">>, <<"pending_confirmation", "rejected">>}

SetStatus(a, status) ==
    /\ <<appts[a].status, status>> \in StatusMoves
    /\ appts' = [appts EXCEPT ![a] = WithStatus(@, status)]
    /\ UNCHANGED <<now, holds, reminders, calls, work>>
-----------------------------------------------------------------------------
(* Periodic tasks.                                                         *)

ExpireHolds ==
    /\ \E h \in DOMAIN holds : holds[h].status = "active" /\ holds[h].expires <= now
    /\ holds' = [h \in DOMAIN holds |->
                    IF holds[h].status = "active" /\ holds[h].expires <= now
                    THEN [holds[h] EXCEPT !.status = "expired"] ELSE holds[h]]
    /\ UNCHANGED <<now, appts, reminders, calls, work>>

MaxAttempts == 3

DueScheduled ==
    {id \in DOMAIN reminders :
        /\ reminders[id].status = "scheduled"
        /\ DueAt(id) <= now
        /\ reminders[id].attempts < MaxAttempts}

DueReminders ==
    {id \in DOMAIN reminders :
        /\ reminders[id].status \in {"scheduled", "failed"}
        /\ DueAt(id) <= now
        /\ reminders[id].attempts < MaxAttempts}

\* deliver_booking_reminders reads the list once, then handles it in order.
ListDueReminders(w) ==
    /\ work[w] = {}
    /\ DueReminders # {}
    /\ work' = [work EXCEPT ![w] = DueReminders]
    /\ UNCHANGED <<now, holds, appts, reminders, calls>>

SettledIfCancelled(r) == r.status = "cancelled"

Settled(r) == r.status \in {"sent", "cancelled"}

Skipped(r) == [r EXCEPT !.status = "skipped"]

FailedStillQueued(r) == [r EXCEPT !.status = "queued", !.attempts = @ + 1]

\* The attempt is counted and then fails or succeeds in one transaction, so
\* the status `queued' is never committed.
Failed(r) == [status |-> "failed", attempts |-> r.attempts + 1, sent |-> r.sent]

Sent(r) == [status |-> "sent", attempts |-> r.attempts + 1, sent |-> r.sent + 1]

RemindableAlways(a) == TRUE

Remindable(a) == Blocking(a)

\* What deliver_due_reminder leaves in a row it is called with.
Outcomes(id) ==
    LET r == reminders[id]
    IN  IF Settled(r) THEN {r}
        ELSE IF ~Remindable(id.appt) THEN {Skipped(r)}
        ELSE {Sent(r), Failed(r)}

Raises(id) ==
    /\ ~Settled(reminders[id])
    /\ Remindable(id.appt)
    /\ appts[id.appt].contact \in Poisoned

First(ids) == {id \in ids : \A other \in ids : DueAt(id) <= DueAt(other)}

DeliverReminder(w) ==
    \E id \in First(work[w]) :
       /\ ~Raises(id)
       /\ \E r \in Outcomes(id) : reminders' = [reminders EXCEPT ![id] = r]
       /\ work' = [work EXCEPT ![w] = @ \ {id}]
       /\ UNCHANGED <<now, holds, appts, calls>>

\* Only BookingError is caught: any other error rolls the reminder back and
\* ends the execution with the rest of its list.
AbortDelivery(w) ==
    /\ \E id \in First(work[w]) : Raises(id)
    /\ work' = [work EXCEPT ![w] = {}]
    /\ UNCHANGED <<now, holds, appts, reminders, calls>>

\* The worker process dies between two reminders.
Crash(w) ==
    /\ work[w] # {}
    /\ work' = [work EXCEPT ![w] = {}]
    /\ UNCHANGED <<now, holds, appts, reminders, calls>>

Tick ==
    /\ now < MaxTime
    /\ \A c \in calls : now - c.at < MaxDelay
    /\ now' = now + 1
    /\ UNCHANGED <<holds, appts, reminders, calls, work>>
-----------------------------------------------------------------------------
Init ==
    /\ now = 0
    /\ holds = <<>>
    /\ appts = <<>>
    /\ reminders = [id \in {} |-> NewReminder]
    /\ calls = {}
    /\ work = [w \in Workers |-> {}]

Arrival ==
    \/ \E k \in Keys, start \in Starts, contact \in Contacts,
          ps \in {{p} : p \in Staff} \cup {Staff} : BeginHold(k, start, ps, contact)
    \/ \E k \in Keys, h \in DOMAIN holds : BeginBook(k, h)
    \/ \E k \in Keys, a \in DOMAIN appts, start \in Starts : BeginReschedule(k, a, start)
    \/ \E a \in DOMAIN appts : BeginConfirm(a) \/ BeginCancel(a)

Transaction ==
    \E c \in calls :
       \/ CreateHold(c)
       \/ CreateFromHold(c)
       \/ Reschedule(c)
       \/ Confirm(c)
       \/ Cancel(c)
       \/ Answer(c)

Employee ==
    \E a \in DOMAIN appts :
       \/ EmployeeConfirm(a)
       \/ EmployeeCancel(a)
       \/ \E status \in BlockingStatuses \cup FinalStatuses : SetStatus(a, status)

ReminderTask ==
    \E w \in Workers :
       ListDueReminders(w) \/ DeliverReminder(w) \/ AbortDelivery(w) \/ Crash(w)

Next ==
    \/ Arrival
    \/ Transaction
    \/ Employee
    \/ ReminderTask
    \/ ExpireHolds
    \/ Tick

Spec == Init /\ [][Next]_vars

\* The beat starts the reminder task every minute, and a worker that is
\* restarted now and then still gets a reminder through between two crashes.
Fairness ==
    \A w \in Workers :
       /\ WF_vars(ListDueReminders(w))
       /\ SF_vars(DeliverReminder(w) \/ AbortDelivery(w))

LiveSpec == Spec /\ Fairness
-----------------------------------------------------------------------------
(* Properties.                                                             *)

Covers(row, t) == row.start <= t /\ t < row.start + Duration

ActiveHolds(t) ==
    {h \in DOMAIN holds :
        holds[h].status = "active" /\ holds[h].expires > now /\ Covers(holds[h], t)}

Taken(t) == {a \in DOMAIN appts : Blocking(a) /\ Covers(appts[a], t)}

\* At no instant do the appointments that stand and the holds that are still
\* good ask for more than the staff member, or the resource, can serve.
NoOverbooking ==
    \A t \in Starts :
       /\ Cardinality(Taken(t)) + Cardinality(ActiveHolds(t)) <= RoomCapacity
       /\ \A p \in Staff :
             Cardinality({a \in Taken(t) : appts[a].staff = p})
               + Cardinality({h \in ActiveHolds(t) : holds[h].staff = p}) <= Capacity

\* However old the clock reading of a request and whatever keys are replayed,
\* the holds that are still good never compete with each other.
HoldsExclusive ==
    \A t \in Starts :
       /\ Cardinality(ActiveHolds(t)) <= RoomCapacity
       /\ \A p \in Staff : Cardinality({h \in ActiveHolds(t) : holds[h].staff = p}) <= Capacity

\* A booking request that is sent twice, even at once and for two holds, makes
\* one appointment.
OneAppointmentPerKey ==
    \A a, b \in DOMAIN appts : appts[a].key = appts[b].key => a = b

\* An appointment that gave its slot up (cancelled, rejected, completed, no
\* show) never takes a slot again, whatever requests were on their way.
FreedForGood ==
    [][\A a \in DOMAIN appts :
          ~Blocking(a) => /\ appts'[a].status = appts[a].status
                          /\ appts'[a].start = appts[a].start]_vars

\* What module Schedule speaks of: the holds that are still good, and whether
\* an appointment still takes its slot.
GoodHolds == {h \in DOMAIN holds : holds[h].status = "active" /\ holds[h].expires > now}

SlotsHeld == [h \in GoodHolds |-> [start |-> holds[h].start, staff |-> holds[h].staff]]

SlotsBooked ==
    [a \in DOMAIN appts |-> [start |-> appts[a].start, staff |-> appts[a].staff,
                             key |-> appts[a].key, stands |-> Blocking(a)]]

Slots == INSTANCE Schedule WITH held <- SlotsHeld, issued <- DOMAIN holds, booked <- SlotsBooked

\* The handlers implement the promises about slots (module Schedule): nothing
\* is held, booked or moved where it does not fit, every booking is one good
\* hold turned into the slot it kept, and what lapsed, was used or was given up
\* never comes back, whatever requests were on their way.
ImplementsSchedule == Slots!Spec

\* A reminder goes out at most once, with overlapping executions of the task
\* and executions that die half way.
SentOnce == \A id \in DOMAIN reminders : reminders[id].sent <= 1

\* Nothing is sent for an appointment that was cancelled, or is otherwise
\* over, even if it was listed while it stood.
SilentWhenOver ==
    [][\A id \in DOMAIN reminders :
          reminders'[id].sent > reminders[id].sent => Blocking(id.appt)]_vars

\* A reminder still to come is for the time the appointment is at now.
ReminderForCurrentTime ==
    \A id \in DOMAIN reminders :
        reminders[id].status = "scheduled" /\ Blocking(id.appt)
            => id.start = appts[id.appt].start

\* A reminder that keeps failing is tried three times, and once more for each
\* further execution that listed it at the same time.
AttemptsBounded ==
    \A id \in DOMAIN reminders :
        reminders[id].attempts <= MaxAttempts + Cardinality(Workers) - 1

Planned == [appt : 1..MaxAppointments, lead : Leads, start : Starts]

\* Neither settled nor given up after three failures.
Open(id) ==
    /\ id \in DOMAIN reminders
    /\ reminders[id].status \in {"scheduled", "failed"}
    /\ reminders[id].attempts < MaxAttempts

\* A reminder whose channel raises ends the executions that come to it, for
\* itself and for all that are due no earlier.
HeldUp(id) == \E other \in DueReminders : Raises(other) /\ DueAt(other) <= DueAt(id)

\* With executions that overlap, die and are ended by a channel that raises: a
\* reminder that is due is sent, skipped or withdrawn, or has failed three
\* times, unless one that raises is due no later than it.
RemindersAreHandled ==
    \A id \in Planned : Open(id) /\ DueAt(id) <= now ~> ~Open(id) \/ HeldUp(id)

\* booking.md:75: a reminder that is not sent is failed or skipped, with a
\* count of its tries.  The one that raises is neither, and those behind it
\* are not tried.
EveryReminderIsHandled == \A id \in Planned : Open(id) /\ DueAt(id) <= now ~> ~Open(id)
=============================================================================
