--------------------------- MODULE BookingProofs ---------------------------
(***************************************************************************)
(* Theorems about module Booking, for every choice of its constants.       *)
(***************************************************************************)
EXTENDS Booking, RowProofs, FiniteSetTheorems, TLAPS

Statuses == BlockingStatuses \cup FinalStatuses

RemindersOK ==
    /\ DOMAIN reminders \subseteq ReminderId
    /\ \A id \in DOMAIN reminders :
          id.appt \in DOMAIN appts /\ reminders[id] \in ReminderRow

\* What a request carries: rows that exist, and a time that has passed.
CallOK(c) ==
    /\ c \in Call
    /\ c.at <= now
    /\ c.op = "book" => c.hold \in DOMAIN holds
    /\ c.op \in {"reschedule", "confirm", "cancel"} => c.appt \in DOMAIN appts

CallsOK == \A c \in calls : CallOK(c)

TInv ==
    /\ now \in Nat
    /\ holds \in Seq(HoldRow)
    /\ appts \in Seq(AppointmentRow)
    /\ RemindersOK
    /\ CallsOK
    /\ work \in [Workers -> SUBSET DOMAIN reminders]
-----------------------------------------------------------------------------
(* The shapes of a step.                                                   *)

\* An employee, a confirmation or a cancellation sets a status.
Restatus(a, status) ==
    /\ Blocking(a)
    /\ status \in Statuses
    /\ appts' = [appts EXCEPT ![a] = WithStatus(@, status)]
    /\ reminders' = reminders \/ reminders' = WithdrawReminders(reminders, a)
    /\ calls' \subseteq calls
    /\ UNCHANGED <<now, holds, work>>

\* Nothing but the list of requests changes.
Quiet == UNCHANGED <<now, holds, appts, reminders, work>>

LEMMA Shapes ==
    ASSUME TInv, [Next]_vars
    PROVE  \/ \E c \in calls : CreateHold(c)
           \/ \E c \in calls : CreateFromHold(c)
           \/ \E c \in calls : Reschedule(c)
           \/ \E a \in DOMAIN appts, status \in Statuses : Restatus(a, status)
           \/ ReminderTask
           \/ ExpireHolds
           \/ Tick
           \/ Quiet
<1>1. CASE Arrival
  BY <1>1 DEF Arrival, BeginHold, BeginBook, BeginReschedule, BeginConfirm, BeginCancel,
              Begin, Quiet
<1>2. ASSUME NEW c \in calls, Confirm(c)
      PROVE  c.appt \in DOMAIN appts /\ Restatus(c.appt, "confirmed")
  BY <1>2 DEF TInv, CallsOK, CallOK, Confirm, CanConfirm, Restatus, Blocking, BlockingStatuses,
              Statuses
<1>3. ASSUME NEW c \in calls, Cancel(c)
      PROVE  c.appt \in DOMAIN appts /\ Restatus(c.appt, "cancelled")
  BY <1>3 DEF TInv, CallsOK, CallOK, Cancel, CanCancel, Restatus, FinalStatuses, Statuses
<1>4. ASSUME NEW c \in calls, Answer(c) PROVE Quiet
  BY <1>4 DEF Answer, Quiet
<1>5. CASE Transaction
  <2>1. "confirmed" \in Statuses /\ "cancelled" \in Statuses
    BY DEF Statuses, BlockingStatuses, FinalStatuses
  <2> QED
    BY <1>2, <1>3, <1>4, <1>5, <2>1 DEF Transaction
<1>6. ASSUME NEW a \in DOMAIN appts, EmployeeConfirm(a) PROVE Restatus(a, "confirmed")
  BY <1>6 DEF EmployeeConfirm, Restatus, Blocking, BlockingStatuses, Statuses
<1>7. ASSUME NEW a \in DOMAIN appts, EmployeeCancel(a) PROVE Restatus(a, "cancelled")
  BY <1>7 DEF EmployeeCancel, Restatus, FinalStatuses, Statuses
<1>8. ASSUME NEW a \in DOMAIN appts, NEW status \in Statuses, SetStatus(a, status)
      PROVE  Restatus(a, status)
  BY <1>8 DEF SetStatus, StatusMoves, Restatus, Blocking, BlockingStatuses
<1>9. CASE Employee
  <2>1. "confirmed" \in Statuses /\ "cancelled" \in Statuses
    BY DEF Statuses, BlockingStatuses, FinalStatuses
  <2> QED
    BY <1>6, <1>7, <1>8, <1>9, <2>1 DEF Employee, Statuses
<1>10. CASE UNCHANGED vars
  BY <1>10 DEF vars, Quiet
<1> QED
  BY <1>1, <1>5, <1>9, <1>10 DEF Next
-----------------------------------------------------------------------------
(* Rows the handlers write.                                                *)

LEMMA Units ==
    /\ HoldTtl \in Nat /\ ConfirmTtl \in Nat
    /\ Duration \in Nat \ {0} /\ BufferBefore \in Nat /\ BufferAfter \in Nat
    /\ Capacity \in Nat /\ RoomCapacity \in Nat /\ MaxDelay \in Nat
    /\ Starts \subseteq Nat /\ Leads \subseteq Nat
  BY BookingAssumption

LEMMA NewHoldTyped ==
    ASSUME NEW start \in Starts, NEW p \in Staff, NEW contact \in Contacts, NEW at \in Nat,
           NEW key \in [appt : Nat, key : Keys]
    PROVE  /\ NewHold(start, p, contact, at, key) \in HoldRow
           /\ NewHold(start, p, contact, at, key).start = start
           /\ NewHold(start, p, contact, at, key).staff = p
           /\ NewHold(start, p, contact, at, key).key = key
<1>1. at + HoldTtl \in Nat
  BY Units
<1> QED
  BY <1>1 DEF NewHold, HoldRow, HoldStatuses

LEMMA ConvertedTyped ==
    ASSUME NEW h \in HoldRow
    PROVE  /\ Converted(h) \in HoldRow
           /\ Converted(h).status = "converted"
           /\ Converted(h).start = h.start
           /\ Converted(h).staff = h.staff
           /\ Converted(h).key = h.key
           /\ Converted(h).expires = h.expires
  BY DEF Converted, HoldRow, HoldStatuses

LEMMA NewAppointmentTyped ==
    ASSUME NEW h \in HoldRow, NEW at \in Nat, NEW k \in Keys
    PROVE  /\ NewAppointment(h, at, k) \in AppointmentRow
           /\ NewAppointment(h, at, k).start = h.start
           /\ NewAppointment(h, at, k).staff = h.staff
           /\ NewAppointment(h, at, k).key = k
           /\ NewAppointment(h, at, k).status \in BlockingStatuses
<1>1. at + ConfirmTtl \in Nat
  BY Units
<1> QED
  BY <1>1 DEF NewAppointment, AppointmentRow, HoldRow, BlockingStatuses

LEMMA MovedTyped ==
    ASSUME NEW a \in AppointmentRow, NEW start \in Starts
    PROVE  /\ Moved(a, start) \in AppointmentRow
           /\ Moved(a, start).start = start
           /\ Moved(a, start).staff = a.staff
           /\ Moved(a, start).key = a.key
           /\ Moved(a, start).status = a.status
  BY DEF Moved, AppointmentRow

LEMMA WithStatusTyped ==
    ASSUME NEW a \in AppointmentRow, NEW status \in Statuses
    PROVE  /\ WithStatus(a, status) \in AppointmentRow
           /\ WithStatus(a, status).start = a.start
           /\ WithStatus(a, status).staff = a.staff
           /\ WithStatus(a, status).key = a.key
           /\ WithStatus(a, status).status = status
  BY DEF WithStatus, AppointmentRow, Statuses

RowsOK(rows) ==
    /\ DOMAIN rows \subseteq ReminderId
    /\ \A id \in DOMAIN rows : rows[id] \in ReminderRow

LEMMA Scheduling ==
    ASSUME NEW rows, RowsOK(rows), NEW a \in Nat, NEW start \in Starts, NEW at,
           NEW new, new = ScheduleReminders(rows, a, start, at)
    PROVE  /\ RowsOK(new)
           /\ DOMAIN rows \subseteq DOMAIN new
           /\ \A id \in DOMAIN rows : new[id] = rows[id]
           /\ \A id \in DOMAIN new \ DOMAIN rows :
                 id.appt = a /\ id.start = start /\ new[id] = NewReminder
<1> DEFINE ids == {[appt |-> a, lead |-> l, start |-> start] :
                      l \in {m \in Leads : start - m > at}}
<1>1. new = [id \in DOMAIN rows \cup ids |->
                IF id \in DOMAIN rows THEN rows[id] ELSE NewReminder]
  BY DEF ScheduleReminders
<1>2. DOMAIN new = DOMAIN rows \cup ids
  BY <1>1
<1>3. \A id \in ids : id \in ReminderId /\ id.appt = a /\ id.start = start
  BY DEF ReminderId
<1>4. NewReminder \in ReminderRow
  BY DEF NewReminder, ReminderRow, ReminderStatuses
<1>5. \A id \in DOMAIN rows : new[id] = rows[id]
  BY <1>1
<1>6. \A id \in DOMAIN new \ DOMAIN rows : id \in ids /\ new[id] = NewReminder
  BY <1>1, <1>2
<1> HIDE DEF ids
<1> QED
  BY <1>2, <1>3, <1>4, <1>5, <1>6 DEF RowsOK

LEMMA Withdrawing ==
    ASSUME NEW rows, RowsOK(rows), NEW a, NEW new, new = WithdrawReminders(rows, a)
    PROVE  /\ RowsOK(new)
           /\ DOMAIN new = DOMAIN rows
           /\ \A id \in DOMAIN rows :
                 \/ new[id] = rows[id] /\ ~(id.appt = a /\ rows[id].status = "scheduled")
                 \/ /\ id.appt = a
                    /\ rows[id].status = "scheduled"
                    /\ new[id].status = "cancelled"
                    /\ new[id].sent = rows[id].sent
                    /\ new[id].attempts = rows[id].attempts
<1> DEFINE Cancelled(r) == [r EXCEPT !.status = "cancelled"]
<1>1. DOMAIN new = DOMAIN rows
  BY DEF WithdrawReminders
<1>2. ASSUME NEW r \in ReminderRow
      PROVE  /\ Cancelled(r) \in ReminderRow
             /\ Cancelled(r).status = "cancelled"
             /\ Cancelled(r).sent = r.sent
             /\ Cancelled(r).attempts = r.attempts
  BY DEF ReminderRow, ReminderStatuses
<1>3. \A id \in DOMAIN rows :
         new[id] = IF id.appt = a /\ rows[id].status = "scheduled"
                   THEN Cancelled(rows[id]) ELSE rows[id]
  BY DEF WithdrawReminders
<1> HIDE DEF Cancelled
<1>4. ASSUME NEW id \in DOMAIN rows
      PROVE  /\ new[id] \in ReminderRow
             /\ \/ new[id] = rows[id] /\ ~(id.appt = a /\ rows[id].status = "scheduled")
                \/ /\ id.appt = a
                   /\ rows[id].status = "scheduled"
                   /\ new[id].status = "cancelled"
                   /\ new[id].sent = rows[id].sent
                   /\ new[id].attempts = rows[id].attempts
  <2>1. rows[id] \in ReminderRow
    BY DEF RowsOK
  <2>2. CASE id.appt = a /\ rows[id].status = "scheduled"
    BY <1>2, <1>3, <2>1, <2>2
  <2>3. CASE ~(id.appt = a /\ rows[id].status = "scheduled")
    BY <1>3, <2>1, <2>3
  <2> QED
    BY <2>2, <2>3
<1> QED
  BY <1>1, <1>4 DEF RowsOK
-----------------------------------------------------------------------------
(* What the transactions do, with the types of what they use.              *)

LEMMA Requests ==
    ASSUME NEW c \in Call
    PROVE  /\ c.at \in Nat
           /\ c.op = "hold" => /\ c.start \in Starts /\ c.staff \subseteq Staff
                               /\ c.contact \in Contacts /\ c.key \in Keys
           /\ c.op = "book" => c.key \in Keys /\ c.hold \in Nat
           /\ c.op = "reschedule" => c.key \in Keys /\ c.appt \in Nat /\ c.start \in Starts
<1>1. CASE c \in [op : {"hold"}, at : Nat, key : Keys, start : Starts,
                  staff : SUBSET Staff, contact : Contacts]
  BY <1>1
<1>2. CASE c \in [op : {"book"}, at : Nat, key : Keys, hold : Nat]
  BY <1>2
<1>3. CASE c \in [op : {"reschedule"}, at : Nat, key : Keys, appt : Nat, start : Starts]
  BY <1>3
<1>4. CASE c \in [op : {"confirm", "cancel"}, at : Nat, appt : Nat]
  BY <1>4
<1> QED
  BY <1>1, <1>2, <1>3, <1>4 DEF Call

LEMMA HoldEffect ==
    ASSUME TInv, NEW c \in calls, CreateHold(c)
    PROVE  /\ c.at \in Nat /\ c.at <= now /\ c.start \in Starts /\ c.key \in Keys
           /\ \E p \in Staff :
                 /\ Available(p, c.start, c.at)
                 /\ NewHold(c.start, p, c.contact, c.at, CustomerKey(c.key)) \in HoldRow
                 /\ NewHold(c.start, p, c.contact, c.at, CustomerKey(c.key)).staff = p
                 /\ NewHold(c.start, p, c.contact, c.at, CustomerKey(c.key)).start = c.start
                 /\ NewHold(c.start, p, c.contact, c.at, CustomerKey(c.key)).key
                       = CustomerKey(c.key)
                 /\ holds' = Append(holds, NewHold(c.start, p, c.contact, c.at,
                                                   CustomerKey(c.key)))
<1>1. c \in Call /\ c.at <= now
  BY DEF TInv, CallsOK, CallOK
<1>2. c.op = "hold"
  BY DEF CreateHold, CanHold
<1>3. /\ c.at \in Nat /\ c.start \in Starts /\ c.staff \subseteq Staff
      /\ c.contact \in Contacts /\ c.key \in Keys
  BY <1>1, <1>2, Requests
<1>4. CustomerKey(c.key) \in [appt : Nat, key : Keys]
  BY <1>3 DEF CustomerKey
<1>5. PICK p \in c.staff :
          /\ Available(p, c.start, c.at)
          /\ holds' = Append(holds, NewHold(c.start, p, c.contact, c.at, CustomerKey(c.key)))
  BY DEF CreateHold
<1> QED
  BY <1>1, <1>3, <1>4, <1>5, NewHoldTyped

LEMMA BookEffect ==
    ASSUME TInv, NEW c \in calls, CreateFromHold(c)
    PROVE  /\ c.hold \in DOMAIN holds /\ c.hold \in Nat /\ holds[c.hold] \in HoldRow
           /\ c.at \in Nat /\ c.at <= now /\ c.key \in Keys
           /\ holds[c.hold].status = "active" /\ holds[c.hold].expires > c.at
           /\ KnownAppointment(c.key) = {}
           /\ NewAppointment(holds[c.hold], c.at, c.key) \in AppointmentRow
<1>1. c \in Call /\ c.at <= now
  BY DEF TInv, CallsOK, CallOK
<1>2. c.op = "book"
  BY DEF CreateFromHold, CanBook
<1>3. c.at \in Nat /\ c.key \in Keys /\ c.hold \in Nat
  BY <1>1, <1>2, Requests
<1>4. c.hold \in DOMAIN holds
  BY <1>2 DEF TInv, CallsOK, CallOK
<1>5. holds[c.hold] \in HoldRow
  BY <1>4 DEF TInv
<1>6. NewAppointment(holds[c.hold], c.at, c.key) \in AppointmentRow
  BY <1>3, <1>5, NewAppointmentTyped
<1> QED
  BY <1>1, <1>3, <1>4, <1>5, <1>6 DEF CreateFromHold, CanBook

\* Where a reschedule takes the appointment, and what becomes of the holds.
Relocate(c, start) ==
    /\ appts' = [appts EXCEPT ![c.appt] = Moved(@, start)]
    /\ reminders' = ScheduleReminders(WithdrawReminders(reminders, c.appt), c.appt, start, c.at)

Fresh(c) ==
    LET row == Converted(NewHold(c.start, appts[c.appt].staff, appts[c.appt].contact, c.at,
                                 RescheduleKey(c.appt, c.key)))
    IN  /\ KnownHold(RescheduleKey(c.appt, c.key)) = {}
        /\ Available(appts[c.appt].staff, c.start, c.at)
        /\ row \in HoldRow
        /\ row.status = "converted"
        /\ row.key = RescheduleKey(c.appt, c.key)
        /\ holds' = Append(holds, row)

Replayed(c, start) ==
    \E h \in KnownHold(RescheduleKey(c.appt, c.key)) :
       /\ start = holds[h].start
       /\ holds' = [holds EXCEPT ![h] = Converted(@)]

LEMMA RescheduleEffect ==
    ASSUME TInv, NEW c \in calls, Reschedule(c)
    PROVE  /\ c \in Call /\ c.op = "reschedule"
           /\ c.appt \in DOMAIN appts /\ c.appt \in Nat /\ c.appt # 0 /\ Blocking(c.appt)
           /\ appts[c.appt] \in AppointmentRow
           /\ c.at \in Nat /\ c.at <= now /\ c.start \in Starts /\ c.key \in Keys
           /\ \E start \in Starts :
                 /\ Relocate(c, start)
                 /\ Replayed(c, start) \/ (start = c.start /\ Fresh(c))
<1>1. c \in Call /\ c.at <= now /\ c.op = "reschedule"
  BY DEF TInv, CallsOK, CallOK, Reschedule, CanReschedule
<1>2. c.at \in Nat /\ c.key \in Keys /\ c.appt \in Nat /\ c.start \in Starts
  BY <1>1, Requests
<1>3. c.appt \in DOMAIN appts /\ Blocking(c.appt)
  BY <1>1 DEF TInv, CallsOK, CallOK, Reschedule, CanReschedule, Reschedulable
<1>4. appts[c.appt] \in AppointmentRow /\ c.appt # 0
  BY <1>3 DEF TInv
<1>5. CASE Reapply(c)
  <2>1. PICK h \in KnownHold(RescheduleKey(c.appt, c.key)) :
            /\ appts' = [appts EXCEPT ![c.appt] = Moved(@, holds[h].start)]
            /\ holds' = [holds EXCEPT ![h] = Converted(@)]
            /\ reminders' = ScheduleReminders(WithdrawReminders(reminders, c.appt),
                                              c.appt, holds[h].start, c.at)
    BY <1>5 DEF Reapply
  <2>2. holds[h] \in HoldRow
    BY DEF TInv, KnownHold
  <2>3. holds[h].start \in Starts
    BY <2>2 DEF HoldRow
  <2>4. Relocate(c, holds[h].start) /\ Replayed(c, holds[h].start)
    BY <2>1 DEF Relocate, Replayed
  <2> QED
    BY <1>1, <1>2, <1>3, <1>4, <2>3, <2>4
<1>6. CASE MoveToNewHold(c)
  <2> DEFINE row == NewHold(c.start, appts[c.appt].staff, appts[c.appt].contact, c.at,
                            RescheduleKey(c.appt, c.key))
  <2>1. RescheduleKey(c.appt, c.key) \in [appt : Nat, key : Keys]
    BY <1>2 DEF RescheduleKey
  <2>2. appts[c.appt].staff \in Staff /\ appts[c.appt].contact \in Contacts
    BY <1>4 DEF AppointmentRow
  <2>3. row \in HoldRow /\ row.key = RescheduleKey(c.appt, c.key)
    BY <1>2, <2>1, <2>2, NewHoldTyped
  <2>4. /\ Converted(row) \in HoldRow
        /\ Converted(row).status = "converted"
        /\ Converted(row).key = RescheduleKey(c.appt, c.key)
    BY <2>3, ConvertedTyped
  <2>5. holds' = Append(holds, Converted(row))
    BY <1>6 DEF MoveToNewHold
  <2>6. /\ KnownHold(RescheduleKey(c.appt, c.key)) = {}
        /\ Available(appts[c.appt].staff, c.start, c.at)
    BY <1>6 DEF MoveToNewHold, Reschedule, CanReschedule
  <2> HIDE DEF row
  <2>7. Fresh(c)
    BY <2>4, <2>5, <2>6 DEF Fresh, row
  <2>8. Relocate(c, c.start)
    BY <1>6 DEF MoveToNewHold, Relocate
  <2> QED
    BY <1>1, <1>2, <1>3, <1>4, <2>7, <2>8
<1> QED
  BY <1>5, <1>6 DEF Reschedule
-----------------------------------------------------------------------------
(* Type correctness.                                                       *)

\* A request that is new carries the time and rows there are.
LEMMA NewRequests ==
    ASSUME TInv, [Next]_vars, NEW c \in calls', c \notin calls
    PROVE  /\ CallOK(c)
           /\ c.at = now
           /\ Quiet
           /\ c.op = "reschedule" /\ ~Replays =>
                 /\ KnownHold(RescheduleKey(c.appt, c.key)) = {}
                 /\ \A d \in calls : d.op = "reschedule" /\ d.appt = c.appt => d.key # c.key
                 /\ calls' = calls \cup {c}
<1>1. CASE Arrival
  <2>0. now \in Nat
    BY DEF TInv
  <2>1. ASSUME NEW k \in Keys, NEW start \in Starts, NEW contact \in Contacts,
               NEW ps \in {{p} : p \in Staff} \cup {Staff}, BeginHold(k, start, ps, contact)
        PROVE  CallOK(c) /\ c.at = now /\ c.op = "hold"
    <3>1. ps \in SUBSET Staff
      BY <2>1
    <3>2. c = [op |-> "hold", at |-> now, key |-> k, start |-> start, staff |-> ps,
               contact |-> contact]
      BY <2>1 DEF BeginHold, Begin
    <3> QED
      BY <2>0, <3>1, <3>2 DEF CallOK, Call
  <2>2. ASSUME NEW k \in Keys, NEW h \in DOMAIN holds, BeginBook(k, h)
        PROVE  CallOK(c) /\ c.at = now /\ c.op = "book"
    <3>1. c = [op |-> "book", at |-> now, key |-> k, hold |-> h]
      BY <2>2 DEF BeginBook, Begin
    <3>2. h \in Nat
      BY DEF TInv
    <3> QED
      BY <2>0, <3>1, <3>2 DEF CallOK, Call
  <2>3. ASSUME NEW k \in Keys, NEW a \in DOMAIN appts, NEW start \in Starts,
               BeginReschedule(k, a, start)
        PROVE  /\ CallOK(c) /\ c.at = now
               /\ ~Replays =>
                     /\ KnownHold(RescheduleKey(c.appt, c.key)) = {}
                     /\ \A d \in calls : d.op = "reschedule" /\ d.appt = c.appt => d.key # c.key
                     /\ calls' = calls \cup {c}
    <3>1. c = [op |-> "reschedule", at |-> now, key |-> k, appt |-> a, start |-> start]
      BY <2>3 DEF BeginReschedule, Begin
    <3>2. a \in Nat
      BY DEF TInv
    <3>3. CallOK(c) /\ c.at = now
      BY <2>0, <3>1, <3>2 DEF CallOK, Call
    <3>4. c.appt = a /\ c.key = k /\ calls' = calls \cup {c}
      BY <2>3, <3>1 DEF BeginReschedule, Begin
    <3>5. ASSUME ~Replays
          PROVE  /\ KnownHold(RescheduleKey(a, k)) = {}
                 /\ \A d \in calls : d.op = "reschedule" /\ d.appt = a => d.key # k
      BY <2>3, <3>5 DEF BeginReschedule, Pending
    <3> QED
      BY <3>3, <3>4, <3>5
  <2>4. ASSUME NEW a \in DOMAIN appts, BeginConfirm(a) \/ BeginCancel(a)
        PROVE  CallOK(c) /\ c.at = now /\ c.op # "reschedule"
    <3>1. \/ c = [op |-> "confirm", at |-> now, appt |-> a]
          \/ c = [op |-> "cancel", at |-> now, appt |-> a]
      BY <2>4 DEF BeginConfirm, BeginCancel, Begin
    <3>2. a \in Nat
      BY DEF TInv
    <3> QED
      BY <2>0, <3>1, <3>2 DEF CallOK, Call
  <2>5. Quiet
    BY <1>1 DEF Arrival, BeginHold, BeginBook, BeginReschedule, BeginConfirm, BeginCancel,
                Begin, Quiet
  <2> QED
    BY <1>1, <2>1, <2>2, <2>3, <2>4, <2>5 DEF Arrival
<1>2. CASE ~Arrival
  <2>1. calls' \subseteq calls
    <3>1. CASE Transaction
      BY <3>1 DEF Transaction, CreateHold, CreateFromHold, Reschedule, Confirm, Cancel, Answer
    <3>2. CASE Employee
      BY <3>2 DEF Employee, EmployeeConfirm, EmployeeCancel, SetStatus
    <3>3. CASE ReminderTask
      BY <3>3 DEF ReminderTask, ListDueReminders, DeliverReminder, AbortDelivery, Crash
    <3>4. CASE ExpireHolds \/ Tick \/ UNCHANGED vars
      BY <3>4 DEF ExpireHolds, Tick, vars
    <3> QED
      BY <1>2, <3>1, <3>2, <3>3, <3>4 DEF Next
  <2> QED
    BY <2>1
<1> QED
  BY <1>1, <1>2

\* Tables only grow and time only passes.
Grown ==
    /\ now' \in Nat /\ now <= now'
    /\ holds' \in Seq(HoldRow) /\ DOMAIN holds \subseteq DOMAIN holds'
    /\ appts' \in Seq(AppointmentRow) /\ DOMAIN appts \subseteq DOMAIN appts'
    /\ RowsOK(reminders') /\ DOMAIN reminders \subseteq DOMAIN reminders'
    /\ \A id \in DOMAIN reminders' : id.appt \in DOMAIN appts'
    /\ work' \in [Workers -> SUBSET DOMAIN reminders']

\* What a delivery leaves in a row.
LEMMA OutcomesTyped ==
    ASSUME NEW r \in ReminderRow
    PROVE  /\ Skipped(r) \in ReminderRow /\ Sent(r) \in ReminderRow /\ Failed(r) \in ReminderRow
           /\ Skipped(r).status = "skipped" /\ Skipped(r).sent = r.sent
           /\ Skipped(r).attempts = r.attempts
           /\ Sent(r).status = "sent" /\ Sent(r).sent = r.sent + 1
           /\ Sent(r).attempts = r.attempts + 1
           /\ Failed(r).status = "failed" /\ Failed(r).sent = r.sent
           /\ Failed(r).attempts = r.attempts + 1
<1>1. r.attempts \in Nat /\ r.sent \in Nat /\ r.status \in ReminderStatuses
  BY DEF ReminderRow
<1>2. r.attempts + 1 \in Nat /\ r.sent + 1 \in Nat
  BY <1>1
<1>3. Skipped(r) = [status |-> "skipped", attempts |-> r.attempts, sent |-> r.sent]
  BY DEF Skipped, ReminderRow
<1> QED
  BY <1>1, <1>2, <1>3 DEF Sent, Failed, ReminderRow, ReminderStatuses

\* A worker's step on the reminders: one row, a listing, or a list given up.
Delivering ==
    \E w \in Workers : \E id \in work[w] :
       /\ ~Settled(reminders[id])
       /\ \/ ~Remindable(id.appt) /\ reminders' = [reminders EXCEPT ![id] = Skipped(@)]
          \/ /\ Remindable(id.appt)
             /\ \/ reminders' = [reminders EXCEPT ![id] = Sent(@)]
                \/ reminders' = [reminders EXCEPT ![id] = Failed(@)]
       /\ work' = [work EXCEPT ![w] = @ \ {id}]

SameRows ==
    /\ DOMAIN reminders' = DOMAIN reminders
    /\ \A id \in DOMAIN reminders : reminders'[id] = reminders[id]

Relisting ==
    /\ SameRows
    /\ \E w \in Workers :
          \/ work[w] = {} /\ work' = [work EXCEPT ![w] = DueReminders]
          \/ \E ids \in SUBSET work[w] : work' = [work EXCEPT ![w] = ids]

LEMMA TaskEffect ==
    ASSUME TInv, ReminderTask
    PROVE  /\ UNCHANGED <<now, holds, appts, calls>>
           /\ Delivering \/ Relisting
<1>1. PICK w \in Workers :
          ListDueReminders(w) \/ DeliverReminder(w) \/ AbortDelivery(w) \/ Crash(w)
  BY DEF ReminderTask
<1>2. CASE ListDueReminders(w)
  BY <1>2 DEF ListDueReminders, Relisting, SameRows
<1>3. CASE AbortDelivery(w) \/ Crash(w)
  BY <1>3 DEF AbortDelivery, Crash, Relisting, SameRows
<1>4. CASE DeliverReminder(w)
  <2>1. PICK id \in First(work[w]) :
            /\ \E r \in Outcomes(id) : reminders' = [reminders EXCEPT ![id] = r]
            /\ work' = [work EXCEPT ![w] = @ \ {id}]
            /\ UNCHANGED <<now, holds, appts, calls>>
    BY <1>4 DEF DeliverReminder
  <2>2. id \in work[w] /\ id \in DOMAIN reminders
    BY DEF First, TInv
  <2>3. PICK r \in Outcomes(id) : reminders' = [reminders EXCEPT ![id] = r]
    BY <2>1
  <2>4. CASE Settled(reminders[id])
    <3>1. r = reminders[id]
      BY <2>4 DEF Outcomes
    <3>2. SameRows
      BY <2>2, <2>3, <3>1 DEF SameRows
    <3>3. work[w] \ {id} \in SUBSET work[w]
      OBVIOUS
    <3> QED
      BY <2>1, <3>2, <3>3 DEF Relisting
  <2>5. CASE ~Settled(reminders[id]) /\ ~Remindable(id.appt)
    BY <2>1, <2>2, <2>3, <2>5 DEF Outcomes, Delivering
  <2>6. CASE ~Settled(reminders[id]) /\ Remindable(id.appt)
    <3>1. r = Sent(reminders[id]) \/ r = Failed(reminders[id])
      BY <2>6 DEF Outcomes
    <3> QED
      BY <2>1, <2>2, <2>3, <2>6, <3>1 DEF Delivering
  <2> QED
    BY <2>1, <2>4, <2>5, <2>6
<1> QED
  BY <1>1, <1>2, <1>3, <1>4 DEF ListDueReminders, AbortDelivery, Crash, DeliverReminder

LEMMA Grows ==
    ASSUME TInv, [Next]_vars
    PROVE  Grown
<1>0. /\ now \in Nat /\ holds \in Seq(HoldRow) /\ appts \in Seq(AppointmentRow)
      /\ RowsOK(reminders) /\ work \in [Workers -> SUBSET DOMAIN reminders]
      /\ \A id \in DOMAIN reminders : id.appt \in DOMAIN appts
  BY DEF TInv, RemindersOK, RowsOK
<1>1. ASSUME NEW c \in calls, CreateHold(c) PROVE Grown
  <2>1. PICK p \in Staff :
            /\ NewHold(c.start, p, c.contact, c.at, CustomerKey(c.key)) \in HoldRow
            /\ holds' = Append(holds, NewHold(c.start, p, c.contact, c.at, CustomerKey(c.key)))
    BY <1>1, HoldEffect
  <2>2. holds' \in Seq(HoldRow) /\ DOMAIN holds \subseteq DOMAIN holds'
    BY <1>0, <2>1, Added
  <2> QED
    BY <1>0, <1>1, <2>2 DEF CreateHold, Grown
<1>2. ASSUME NEW c \in calls, CreateFromHold(c) PROVE Grown
  <2>1. /\ c.hold \in DOMAIN holds /\ holds[c.hold] \in HoldRow
        /\ NewAppointment(holds[c.hold], c.at, c.key) \in AppointmentRow
    BY <1>2, BookEffect
  <2>2. holds' \in Seq(HoldRow) /\ DOMAIN holds' = DOMAIN holds
    BY <1>0, <1>2, <2>1, ConvertedTyped, Replaced DEF CreateFromHold
  <2>3. /\ appts' \in Seq(AppointmentRow) /\ DOMAIN appts \subseteq DOMAIN appts'
        /\ Len(appts) \in Nat /\ Len(appts) + 1 \in DOMAIN appts'
    BY <1>0, <1>2, <2>1, Added DEF CreateFromHold
  <2>4. holds[c.hold].start \in Starts
    BY <2>1 DEF HoldRow
  <2>5. /\ RowsOK(reminders') /\ DOMAIN reminders \subseteq DOMAIN reminders'
        /\ \A id \in DOMAIN reminders' : id.appt \in DOMAIN appts'
    <3>1. reminders' = ScheduleReminders(reminders, Len(appts) + 1, holds[c.hold].start, c.at)
      BY <1>2 DEF CreateFromHold
    <3>2. Len(appts) + 1 \in Nat
      BY <2>3
    <3> QED
      BY <1>0, <2>3, <2>4, <3>1, <3>2, Scheduling
  <2> QED
    BY <1>0, <1>2, <2>2, <2>3, <2>5 DEF CreateFromHold, Grown
<1>3. ASSUME NEW c \in calls, Reschedule(c) PROVE Grown
  <2>1. PICK start \in Starts :
            /\ Relocate(c, start)
            /\ Replayed(c, start) \/ (start = c.start /\ Fresh(c))
    BY <1>3, RescheduleEffect
  <2>2. c.appt \in DOMAIN appts /\ c.appt \in Nat /\ appts[c.appt] \in AppointmentRow
    BY <1>3, RescheduleEffect
  <2>3. holds' \in Seq(HoldRow) /\ DOMAIN holds \subseteq DOMAIN holds'
    <3>1. CASE Replayed(c, start)
      BY <1>0, <3>1, ConvertedTyped, Replaced DEF Replayed, KnownHold
    <3>2. CASE Fresh(c)
      BY <1>0, <3>2, Added DEF Fresh
    <3> QED
      BY <2>1, <3>1, <3>2
  <2>4. appts' \in Seq(AppointmentRow) /\ DOMAIN appts' = DOMAIN appts
    BY <1>0, <2>1, <2>2, MovedTyped, Replaced DEF Relocate
  <2>5. /\ RowsOK(reminders') /\ DOMAIN reminders \subseteq DOMAIN reminders'
        /\ \A id \in DOMAIN reminders' : id.appt \in DOMAIN appts'
    <3> DEFINE rest == WithdrawReminders(reminders, c.appt)
    <3>1. RowsOK(rest) /\ DOMAIN rest = DOMAIN reminders
      BY <1>0, Withdrawing
    <3>2. reminders' = ScheduleReminders(rest, c.appt, start, c.at)
      BY <2>1 DEF Relocate
    <3> HIDE DEF rest
    <3> QED
      BY <1>0, <2>2, <2>4, <3>1, <3>2, Scheduling
  <2> QED
    BY <1>0, <1>3, <2>3, <2>4, <2>5 DEF Reschedule, Grown
<1>4. ASSUME NEW a \in DOMAIN appts, NEW status \in Statuses, Restatus(a, status) PROVE Grown
  <2>1. appts[a] \in AppointmentRow
    BY <1>0
  <2>2. appts' \in Seq(AppointmentRow) /\ DOMAIN appts' = DOMAIN appts
    BY <1>0, <1>4, <2>1, WithStatusTyped, Replaced DEF Restatus
  <2>3. RowsOK(reminders') /\ DOMAIN reminders' = DOMAIN reminders
    BY <1>0, <1>4, Withdrawing DEF Restatus
  <2> QED
    BY <1>0, <1>4, <2>2, <2>3 DEF Restatus, Grown
<1>5. CASE ReminderTask
  <2>1. UNCHANGED <<now, holds, appts>>
    BY <1>5, TaskEffect
  <2>2. CASE Delivering
    <3>0. PICK w \in Workers : \E id \in work[w] :
              /\ \/ reminders' = [reminders EXCEPT ![id] = Skipped(@)]
                 \/ reminders' = [reminders EXCEPT ![id] = Sent(@)]
                 \/ reminders' = [reminders EXCEPT ![id] = Failed(@)]
              /\ work' = [work EXCEPT ![w] = @ \ {id}]
      BY <2>2 DEF Delivering
    <3>1. PICK id \in work[w] :
              /\ \/ reminders' = [reminders EXCEPT ![id] = Skipped(@)]
                 \/ reminders' = [reminders EXCEPT ![id] = Sent(@)]
                 \/ reminders' = [reminders EXCEPT ![id] = Failed(@)]
              /\ work' = [work EXCEPT ![w] = @ \ {id}]
      BY <3>0
    <3>2. id \in DOMAIN reminders /\ reminders[id] \in ReminderRow
      BY <1>0 DEF RowsOK
    <3>3. RowsOK(reminders') /\ DOMAIN reminders' = DOMAIN reminders
      BY <1>0, <3>1, <3>2, OutcomesTyped DEF RowsOK
    <3> QED
      BY <1>0, <2>1, <3>1, <3>3 DEF Grown
  <2>3. CASE Relisting
    <3>1. RowsOK(reminders') /\ DOMAIN reminders' = DOMAIN reminders
      BY <1>0, <2>3 DEF Relisting, SameRows, RowsOK
    <3>2. work' \in [Workers -> SUBSET DOMAIN reminders]
      BY <1>0, <2>3 DEF Relisting, DueReminders
    <3> QED
      BY <1>0, <2>1, <3>1, <3>2 DEF Grown
  <2> QED
    BY <1>5, <2>2, <2>3, TaskEffect
<1>6. CASE ExpireHolds
  <2>1. \A h \in HoldRow : [h EXCEPT !.status = "expired"] \in HoldRow
    BY DEF HoldRow, HoldStatuses
  <2>2. holds' \in Seq(HoldRow) /\ DOMAIN holds' = DOMAIN holds
    BY <1>0, <1>6, <2>1 DEF ExpireHolds
  <2> QED
    BY <1>0, <1>6, <2>2 DEF ExpireHolds, Grown
<1>7. CASE Tick \/ Quiet
  BY <1>0, <1>7 DEF Tick, Quiet, Grown
<1> QED
  BY <1>1, <1>2, <1>3, <1>4, <1>5, <1>6, <1>7, Shapes

LEMMA TypedInit == Init => TInv
<1> SUFFICES ASSUME Init PROVE TInv
  OBVIOUS
<1> QED
  BY DEF Init, TInv, RemindersOK, CallsOK

LEMMA TypedNext == TInv /\ [Next]_vars => TInv'
<1> SUFFICES ASSUME TInv, [Next]_vars PROVE TInv'
  OBVIOUS
<1>1. Grown
  BY Grows
<1>2. RemindersOK'
  BY <1>1 DEF Grown, RemindersOK, RowsOK
<1>3. ASSUME NEW c \in calls' PROVE CallOK(c)'
  <2>1. CallOK(c)
    <3>1. CASE c \in calls
      BY <3>1 DEF TInv, CallsOK
    <3>2. CASE c \notin calls
      BY <3>2, NewRequests
    <3> QED
      BY <3>1, <3>2
  <2>2. c.at \in Nat /\ now \in Nat
    BY <2>1, Requests DEF CallOK, TInv
  <2> QED
    BY <1>1, <2>1, <2>2 DEF CallOK, Grown
<1> QED
  BY <1>1, <1>2, <1>3 DEF Grown, TInv, CallsOK

LEMMA AlwaysTInv == Spec => []TInv
  BY TypedInit, TypedNext, PTL DEF Spec

\* Every row keeps its type for any number of staff, keys, requests and
\* executions, and whatever a request or a reminder list names exists.
THEOREM Typed == Spec => []TypeOK
<1>1. TInv => TypeOK
  BY DEF TInv, TypeOK, RemindersOK, CallsOK, CallOK
<1> QED
  BY <1>1, AlwaysTInv, PTL
-----------------------------------------------------------------------------
(* Appointments.                                                           *)

\* What a step does to an appointment that exists.
LEMMA AppointmentStep ==
    ASSUME TInv, [Next]_vars, NEW a \in DOMAIN appts
    PROVE  /\ a \in DOMAIN appts'
           /\ appts'[a].key = appts[a].key
           /\ appts'[a].staff = appts[a].staff
           /\ ~Blocking(a) => appts'[a] = appts[a]
<1>0. appts \in Seq(AppointmentRow) /\ appts[a] \in AppointmentRow
  BY DEF TInv
<1>1. ASSUME NEW c \in calls, CreateFromHold(c) PROVE appts'[a] = appts[a] /\ a \in DOMAIN appts'
  <2>1. NewAppointment(holds[c.hold], c.at, c.key) \in AppointmentRow
    BY <1>1, BookEffect
  <2> QED
    BY <1>0, <1>1, <2>1, Added DEF CreateFromHold
<1>2. ASSUME NEW c \in calls, Reschedule(c)
      PROVE  /\ a \in DOMAIN appts'
             /\ appts'[a].key = appts[a].key /\ appts'[a].staff = appts[a].staff
             /\ ~Blocking(a) => appts'[a] = appts[a]
  <2>1. PICK start \in Starts : Relocate(c, start)
    BY <1>2, RescheduleEffect
  <2>2. c.appt \in DOMAIN appts /\ Blocking(c.appt)
    BY <1>2, RescheduleEffect
  <2>3. CASE a = c.appt
    BY <1>0, <2>1, <2>2, <2>3, MovedTyped, Replaced DEF Relocate
  <2>4. CASE a # c.appt
    BY <1>0, <2>1, <2>4, MovedTyped, Replaced DEF Relocate
  <2> QED
    BY <2>3, <2>4
<1>3. ASSUME NEW b \in DOMAIN appts, NEW status \in Statuses, Restatus(b, status)
      PROVE  /\ a \in DOMAIN appts'
             /\ appts'[a].key = appts[a].key /\ appts'[a].staff = appts[a].staff
             /\ ~Blocking(a) => appts'[a] = appts[a]
  <2>1. CASE a = b
    BY <1>0, <1>3, <2>1, WithStatusTyped, Replaced DEF Restatus
  <2>2. CASE a # b
    BY <1>0, <1>3, <2>2, WithStatusTyped, Replaced DEF Restatus
  <2> QED
    BY <2>1, <2>2
<1>4. CASE \/ \E c \in calls : CreateHold(c)
           \/ ReminderTask \/ ExpireHolds \/ Tick \/ Quiet
  <2>1. appts' = appts
    BY <1>4, TaskEffect DEF CreateHold, ExpireHolds, Tick, Quiet
  <2> QED
    BY <2>1
<1> QED
  BY <1>1, <1>2, <1>3, <1>4, Shapes

\* An appointment that gave its slot up never takes a slot again: a request on
\* its way when it was cancelled, rejected or finished comes too late.
THEOREM FreedSlotsStayFree == Spec => FreedForGood
<1>1. TInv /\ [Next]_vars =>
         [\A a \in DOMAIN appts :
             ~Blocking(a) => /\ appts'[a].status = appts[a].status
                             /\ appts'[a].start = appts[a].start]_vars
  BY AppointmentStep
<1> QED
  BY <1>1, AlwaysTInv, PTL DEF FreedForGood, Spec

\* A key books one appointment, sent twice at once or for two holds.
THEOREM KeyBooksOnce == Spec => []OneAppointmentPerKey
<1>1. Init => OneAppointmentPerKey
  BY DEF Init, OneAppointmentPerKey
<1>2. TInv /\ OneAppointmentPerKey /\ [Next]_vars => OneAppointmentPerKey'
  <2> SUFFICES ASSUME TInv, OneAppointmentPerKey, [Next]_vars
               PROVE  OneAppointmentPerKey'
    OBVIOUS
  <2>0. appts \in Seq(AppointmentRow)
    BY DEF TInv
  <2>1. ASSUME NEW c \in calls, CreateFromHold(c) PROVE OneAppointmentPerKey'
    <3> DEFINE row == NewAppointment(holds[c.hold], c.at, c.key)
    <3>1. /\ row \in AppointmentRow /\ row.key = c.key
          /\ \A a \in DOMAIN appts : appts[a].key # c.key
      BY <2>1, BookEffect, NewAppointmentTyped DEF KnownAppointment
    <3>2. appts' = Append(appts, row)
      BY <2>1 DEF CreateFromHold
    <3> HIDE DEF row
    <3>3. /\ DOMAIN appts = 1 .. Len(appts) /\ Len(appts) \in Nat
          /\ DOMAIN appts' = 1 .. (Len(appts) + 1)
          /\ appts'[Len(appts) + 1].key = c.key
          /\ \A a \in DOMAIN appts : appts'[a].key = appts[a].key
      BY <2>0, <3>1, <3>2, Added
    <3>4. \A a \in DOMAIN appts' : a \in DOMAIN appts \/ a = Len(appts) + 1
      BY <3>3
    <3> QED
      BY <3>1, <3>3, <3>4 DEF OneAppointmentPerKey
  <2>2. ASSUME DOMAIN appts' = DOMAIN appts PROVE OneAppointmentPerKey'
    BY <2>2, AppointmentStep DEF OneAppointmentPerKey
  <2>3. ASSUME NEW c \in calls, Reschedule(c) PROVE DOMAIN appts' = DOMAIN appts
    BY <2>3, RescheduleEffect DEF Relocate
  <2>4. CASE \/ \E c \in calls : CreateHold(c)
             \/ \E a \in DOMAIN appts, status \in Statuses : Restatus(a, status)
             \/ ReminderTask \/ ExpireHolds \/ Tick \/ Quiet
    <3>1. DOMAIN appts' = DOMAIN appts
      BY <2>4, TaskEffect DEF CreateHold, Restatus, ExpireHolds, Tick, Quiet
    <3> QED
      BY <2>2, <3>1
  <2> QED
    BY <2>1, <2>2, <2>3, <2>4, Shapes
<1> QED
  BY <1>1, <1>2, AlwaysTInv, PTL DEF Spec
-----------------------------------------------------------------------------
(* Reminders.                                                              *)

Withdrawn(r, s) ==
    /\ r.status = "scheduled" /\ s.status = "cancelled"
    /\ s.sent = r.sent /\ s.attempts = r.attempts

\* What a step does to a reminder that exists: nothing, a withdrawal, or what
\* a delivery makes of a row that is not settled.
LEMMA ReminderStep ==
    ASSUME TInv, [Next]_vars, NEW id \in DOMAIN reminders
    PROVE  /\ id \in DOMAIN reminders'
           /\ \/ reminders'[id] = reminders[id]
              \/ Withdrawn(reminders[id], reminders'[id])
              \/ /\ ReminderTask
                 /\ ~Settled(reminders[id])
                 /\ \/ reminders'[id] = Skipped(reminders[id])
                    \/ /\ Blocking(id.appt)
                       /\ reminders'[id] \in {Sent(reminders[id]), Failed(reminders[id])}
<1>0. RowsOK(reminders) /\ \A i \in DOMAIN reminders : i.appt \in DOMAIN appts
  BY DEF TInv, RemindersOK, RowsOK
<1>1. ASSUME NEW c \in calls, CreateFromHold(c)
      PROVE  id \in DOMAIN reminders' /\ reminders'[id] = reminders[id]
  <2>1. holds[c.hold].start \in Starts
    BY <1>1, BookEffect DEF HoldRow
  <2>2. Len(appts) + 1 \in Nat
    BY DEF TInv
  <2>3. reminders' = ScheduleReminders(reminders, Len(appts) + 1, holds[c.hold].start, c.at)
    BY <1>1 DEF CreateFromHold
  <2> QED
    BY <1>0, <2>1, <2>2, <2>3, Scheduling
<1>2. ASSUME NEW c \in calls, Reschedule(c)
      PROVE  /\ id \in DOMAIN reminders'
             /\ \/ reminders'[id] = reminders[id]
                \/ Withdrawn(reminders[id], reminders'[id])
  <2>1. PICK start \in Starts : Relocate(c, start)
    BY <1>2, RescheduleEffect
  <2>2. c.appt \in Nat
    BY <1>2, RescheduleEffect
  <2> DEFINE rest == WithdrawReminders(reminders, c.appt)
  <2>3. /\ RowsOK(rest) /\ DOMAIN rest = DOMAIN reminders
        /\ rest[id] = reminders[id] \/ Withdrawn(reminders[id], rest[id])
    BY <1>0, Withdrawing DEF Withdrawn
  <2>4. reminders' = ScheduleReminders(rest, c.appt, start, c.at)
    BY <2>1 DEF Relocate
  <2> HIDE DEF rest
  <2>5. id \in DOMAIN reminders' /\ reminders'[id] = rest[id]
    BY <2>2, <2>3, <2>4, Scheduling
  <2> QED
    BY <2>3, <2>5
<1>3. ASSUME NEW a \in DOMAIN appts, NEW status \in Statuses, Restatus(a, status)
      PROVE  /\ id \in DOMAIN reminders'
             /\ \/ reminders'[id] = reminders[id]
                \/ Withdrawn(reminders[id], reminders'[id])
  BY <1>0, <1>3, Withdrawing DEF Restatus, Withdrawn
<1>4. CASE ReminderTask /\ Delivering
  <2>1. PICK w \in Workers : \E i \in work[w] :
            /\ ~Settled(reminders[i])
            /\ \/ reminders' = [reminders EXCEPT ![i] = Skipped(@)]
               \/ /\ Blocking(i.appt)
                  /\ \/ reminders' = [reminders EXCEPT ![i] = Sent(@)]
                     \/ reminders' = [reminders EXCEPT ![i] = Failed(@)]
    BY <1>4 DEF Delivering, Remindable
  <2>2. PICK i \in work[w] :
            /\ ~Settled(reminders[i])
            /\ \/ reminders' = [reminders EXCEPT ![i] = Skipped(@)]
               \/ /\ Blocking(i.appt)
                  /\ \/ reminders' = [reminders EXCEPT ![i] = Sent(@)]
                     \/ reminders' = [reminders EXCEPT ![i] = Failed(@)]
    BY <2>1
  <2>3. i \in DOMAIN reminders
    BY DEF TInv
  <2>4. CASE i = id
    BY <1>4, <2>2, <2>3, <2>4
  <2>5. CASE i # id
    BY <2>2, <2>3, <2>5
  <2> QED
    BY <2>4, <2>5
<1>5. CASE \/ \E c \in calls : CreateHold(c)
           \/ ReminderTask /\ Relisting
           \/ ExpireHolds \/ Tick \/ Quiet
  BY <1>5 DEF CreateHold, Relisting, SameRows, ExpireHolds, Tick, Quiet
<1> QED
  BY <1>1, <1>2, <1>3, <1>4, <1>5, Shapes, TaskEffect

\* A reminder that is new is for the time its appointment is at then.
LEMMA NewRows ==
    ASSUME TInv, [Next]_vars, NEW id \in DOMAIN reminders', id \notin DOMAIN reminders
    PROVE  /\ reminders'[id] = NewReminder
           /\ id.start = appts'[id.appt].start
<1>0. /\ RowsOK(reminders)
      /\ appts \in Seq(AppointmentRow)
  BY DEF TInv, RemindersOK, RowsOK
<1>1. ASSUME NEW c \in calls, CreateFromHold(c)
      PROVE  reminders'[id] = NewReminder /\ id.start = appts'[id.appt].start
  <2> DEFINE row == NewAppointment(holds[c.hold], c.at, c.key)
  <2>1. /\ holds[c.hold].start \in Starts
        /\ row \in AppointmentRow /\ row.start = holds[c.hold].start
    BY <1>1, BookEffect, NewAppointmentTyped DEF HoldRow
  <2>2. Len(appts) + 1 \in Nat
    BY DEF TInv
  <2>3. /\ reminders' = ScheduleReminders(reminders, Len(appts) + 1, holds[c.hold].start, c.at)
        /\ appts' = Append(appts, row)
    BY <1>1 DEF CreateFromHold
  <2> HIDE DEF row
  <2>4. appts'[Len(appts) + 1] = row
    BY <1>0, <2>1, <2>3, Added
  <2>5. /\ id.appt = Len(appts) + 1 /\ id.start = holds[c.hold].start
        /\ reminders'[id] = NewReminder
    BY <1>0, <2>1, <2>2, <2>3, Scheduling
  <2> QED
    BY <2>1, <2>4, <2>5
<1>2. ASSUME NEW c \in calls, Reschedule(c)
      PROVE  reminders'[id] = NewReminder /\ id.start = appts'[id.appt].start
  <2>1. PICK start \in Starts : Relocate(c, start)
    BY <1>2, RescheduleEffect
  <2>2. c.appt \in Nat /\ c.appt \in DOMAIN appts /\ appts[c.appt] \in AppointmentRow
    BY <1>2, RescheduleEffect
  <2> DEFINE rest == WithdrawReminders(reminders, c.appt)
  <2>3. RowsOK(rest) /\ DOMAIN rest = DOMAIN reminders
    BY <1>0, Withdrawing
  <2>4. reminders' = ScheduleReminders(rest, c.appt, start, c.at)
    BY <2>1 DEF Relocate
  <2> HIDE DEF rest
  <2>5. id.appt = c.appt /\ id.start = start /\ reminders'[id] = NewReminder
    BY <2>2, <2>3, <2>4, Scheduling
  <2>6. appts'[c.appt].start = start
    BY <1>0, <2>1, <2>2, MovedTyped, Replaced DEF Relocate
  <2> QED
    BY <2>5, <2>6
<1>3. ASSUME NEW a \in DOMAIN appts, NEW status \in Statuses, Restatus(a, status)
      PROVE  DOMAIN reminders' = DOMAIN reminders
  BY <1>0, <1>3, Withdrawing DEF Restatus
<1>4. CASE \/ \E c \in calls : CreateHold(c)
           \/ ReminderTask
           \/ ExpireHolds \/ Tick \/ Quiet
  <2>1. DOMAIN reminders' = DOMAIN reminders
    BY <1>4, TaskEffect DEF CreateHold, Delivering, Relisting, SameRows, ExpireHolds, Tick, Quiet
  <2> QED
    BY <2>1
<1> QED
  BY <1>1, <1>2, <1>3, <1>4, Shapes

\* Nothing goes out for an appointment that is over, even if it was listed
\* while it stood.
THEOREM OverIsSilent == Spec => SilentWhenOver
<1>1. TInv /\ [Next]_vars =>
         [\A id \in DOMAIN reminders :
             reminders'[id].sent > reminders[id].sent => Blocking(id.appt)]_vars
  <2> SUFFICES ASSUME TInv, [Next]_vars, NEW id \in DOMAIN reminders,
                      reminders'[id].sent > reminders[id].sent
               PROVE  Blocking(id.appt)
    OBVIOUS
  <2>1. reminders[id] \in ReminderRow
    BY DEF TInv, RemindersOK
  <2>2. reminders[id].sent \in Nat
    BY <2>1 DEF ReminderRow
  <2>3. reminders'[id].sent # reminders[id].sent
    BY <2>2
  <2> QED
    BY <2>1, <2>3, ReminderStep, OutcomesTyped DEF Withdrawn
<1> QED
  BY <1>1, AlwaysTInv, PTL DEF SilentWhenOver, Spec

\* The row of a reminder that has gone out says so.
SentIsMarked ==
    \A id \in DOMAIN reminders :
        \/ reminders[id].sent = 0
        \/ reminders[id].sent = 1 /\ reminders[id].status = "sent"

LEMMA AlwaysMarked == Spec => []SentIsMarked
<1>1. Init => SentIsMarked
  BY DEF Init, SentIsMarked
<1>2. TInv /\ SentIsMarked /\ [Next]_vars => SentIsMarked'
  <2> SUFFICES ASSUME TInv, SentIsMarked, [Next]_vars, NEW id \in DOMAIN reminders'
               PROVE  \/ reminders'[id].sent = 0
                      \/ reminders'[id].sent = 1 /\ reminders'[id].status = "sent"
    BY DEF SentIsMarked
  <2>1. CASE id \notin DOMAIN reminders
    BY <2>1, NewRows DEF NewReminder
  <2>2. CASE id \in DOMAIN reminders
    <3>1. reminders[id] \in ReminderRow
      BY <2>2 DEF TInv, RemindersOK
    <3>2. \/ reminders[id].sent = 0
          \/ reminders[id].sent = 1 /\ reminders[id].status = "sent"
      BY <2>2 DEF SentIsMarked
    <3>3. CASE reminders'[id] = reminders[id]
      BY <3>2, <3>3
    <3>4. CASE Withdrawn(reminders[id], reminders'[id])
      BY <3>2, <3>4 DEF Withdrawn
    <3>5. CASE /\ ~Settled(reminders[id])
               /\ reminders'[id] \in {Skipped(reminders[id]), Sent(reminders[id]),
                                      Failed(reminders[id])}
      <4>1. reminders[id].sent = 0
        BY <3>2, <3>5 DEF Settled
      <4>2. \/ reminders'[id].sent = reminders[id].sent
            \/ reminders'[id].sent = reminders[id].sent + 1 /\ reminders'[id].status = "sent"
        BY <3>1, <3>5, OutcomesTyped
      <4> QED
        BY <4>1, <4>2
    <3> QED
      BY <2>2, <3>3, <3>4, <3>5, ReminderStep
  <2> QED
    BY <2>1, <2>2
<1> QED
  BY <1>1, <1>2, AlwaysTInv, PTL DEF Spec

\* A reminder goes out at most once: whoever listed it before it went out
\* looks at the row again.
THEOREM RemindedOnce == Spec => []SentOnce
<1>1. SentIsMarked => SentOnce
  BY DEF SentIsMarked, SentOnce
<1> QED
  BY <1>1, AlwaysMarked, PTL

\* A reminder still to come is for the time its appointment is at: what was
\* planned for an earlier time was withdrawn when the appointment moved.
THEOREM RemindedForNow == Spec => []ReminderForCurrentTime
<1>1. Init => ReminderForCurrentTime
  BY DEF Init, ReminderForCurrentTime
<1>2. TInv /\ ReminderForCurrentTime /\ [Next]_vars => ReminderForCurrentTime'
  <2> SUFFICES ASSUME TInv, ReminderForCurrentTime, [Next]_vars,
                      NEW id \in DOMAIN reminders',
                      reminders'[id].status = "scheduled", Blocking(id.appt)'
               PROVE  id.start = appts'[id.appt].start
    BY DEF ReminderForCurrentTime
  <2>1. CASE id \notin DOMAIN reminders
    BY <2>1, NewRows
  <2>2. CASE id \in DOMAIN reminders
    <3>1. /\ reminders[id] \in ReminderRow /\ id.appt \in DOMAIN appts
          /\ appts \in Seq(AppointmentRow) /\ RowsOK(reminders)
      BY <2>2 DEF TInv, RemindersOK, RowsOK
    <3>2. reminders'[id] = reminders[id] /\ reminders[id].status = "scheduled"
      BY <2>2, <3>1, ReminderStep, OutcomesTyped DEF Withdrawn
    <3>3. Blocking(id.appt)
      BY <3>1, AppointmentStep DEF Blocking
    <3>4. id.start = appts[id.appt].start
      BY <2>2, <3>2, <3>3 DEF ReminderForCurrentTime
    <3>5. appts'[id.appt].start = appts[id.appt].start
      <4>1. ASSUME NEW c \in calls, CreateFromHold(c) PROVE appts'[id.appt] = appts[id.appt]
        BY <3>1, <4>1, BookEffect, Added DEF CreateFromHold
      <4>2. ASSUME NEW c \in calls, Reschedule(c) PROVE appts'[id.appt] = appts[id.appt]
        <5>1. PICK start \in Starts : Relocate(c, start)
          BY <4>2, RescheduleEffect
        <5>2. c.appt \in Nat /\ c.appt \in DOMAIN appts /\ appts[c.appt] \in AppointmentRow
          BY <4>2, RescheduleEffect
        <5> DEFINE rest == WithdrawReminders(reminders, c.appt)
        <5>3. /\ RowsOK(rest) /\ DOMAIN rest = DOMAIN reminders
              /\ id.appt = c.appt => rest[id].status = "cancelled"
          BY <2>2, <3>1, <3>2, Withdrawing
        <5>4. reminders' = ScheduleReminders(rest, c.appt, start, c.at)
          BY <5>1 DEF Relocate
        <5> HIDE DEF rest
        <5>5. reminders'[id] = rest[id]
          BY <2>2, <5>2, <5>3, <5>4, Scheduling
        <5>6. id.appt # c.appt
          BY <3>2, <5>3, <5>5
        <5> QED
          BY <3>1, <5>1, <5>2, <5>6, MovedTyped, Replaced DEF Relocate
      <4>3. ASSUME NEW a \in DOMAIN appts, NEW status \in Statuses, Restatus(a, status)
            PROVE  appts'[id.appt].start = appts[id.appt].start
        <5>1. CASE a = id.appt
          BY <3>1, <4>3, <5>1, WithStatusTyped, Replaced DEF Restatus
        <5>2. CASE a # id.appt
          BY <3>1, <4>3, <5>2, WithStatusTyped, Replaced DEF Restatus
        <5> QED
          BY <5>1, <5>2
      <4>4. CASE \/ \E c \in calls : CreateHold(c)
                 \/ ReminderTask \/ ExpireHolds \/ Tick \/ Quiet
        BY <4>4, TaskEffect DEF CreateHold, ExpireHolds, Tick, Quiet
      <4> QED
        BY <4>1, <4>2, <4>3, <4>4, Shapes
    <3> QED
      BY <3>4, <3>5
  <2> QED
    BY <2>1, <2>2
<1> QED
  BY <1>1, <1>2, AlwaysTInv, PTL DEF Spec
-----------------------------------------------------------------------------
(* Holds and the slots they keep.                                          *)

HeldBy(t, S) == {h \in ActiveHolds(t) : holds[h].staff \in S}

TakenBy(t, S) == {a \in Taken(t) : appts[a].staff \in S}

LEMMA Finite ==
    ASSUME TInv, NEW t, NEW S
    PROVE  /\ IsFiniteSet(HeldBy(t, S)) /\ Cardinality(HeldBy(t, S)) \in Nat
           /\ IsFiniteSet(TakenBy(t, S)) /\ Cardinality(TakenBy(t, S)) \in Nat
           /\ \A from, to, at : /\ IsFiniteSet(HoldOverlap(from, to, at))
                                /\ IsFiniteSet(AppointmentOverlap(from, to))
<1>1. /\ DOMAIN holds = 1 .. Len(holds) /\ Len(holds) \in Int
      /\ DOMAIN appts = 1 .. Len(appts) /\ Len(appts) \in Int
  BY DEF TInv
<1>2. IsFiniteSet(DOMAIN holds) /\ IsFiniteSet(DOMAIN appts)
  BY <1>1, FS_Interval
<1>3. HeldBy(t, S) \in SUBSET DOMAIN holds /\ TakenBy(t, S) \in SUBSET DOMAIN appts
  BY DEF HeldBy, TakenBy, ActiveHolds, Taken
<1>4. \A from, to, at : /\ HoldOverlap(from, to, at) \in SUBSET DOMAIN holds
                        /\ AppointmentOverlap(from, to) \in SUBSET DOMAIN appts
  BY DEF HoldOverlap, AppointmentOverlap
<1> QED
  BY <1>2, <1>3, <1>4, FS_Subset, FS_CardinalityType

\* A slot that is found available has room for one more at every instant of
\* it, however old the reading of the clock.
LEMMA AvailableHasRoom ==
    ASSUME TInv, NEW at \in Nat, at <= now, NEW start \in Starts, NEW p \in Staff,
           Available(p, start, at), NEW t \in Nat, start <= t, t < start + Duration
    PROVE  /\ Cardinality(TakenBy(t, Staff)) + Cardinality(HeldBy(t, Staff)) + 1 <= RoomCapacity
           /\ Cardinality(TakenBy(t, {p})) + Cardinality(HeldBy(t, {p})) + 1 <= Capacity
<1> DEFINE from == start - BufferBefore
           to == start + Duration + BufferAfter
           booked == AppointmentOverlap(from, to)
           held == HoldOverlap(from, to, at)
           bookedP == {a \in booked : appts[a].staff = p}
           heldP == {h \in held : holds[h].staff = p}
<1>1. /\ start \in Nat /\ Duration \in Nat /\ now \in Nat
      /\ from \in Int /\ to \in Int /\ from <= t /\ t < to
      /\ Capacity \in Nat /\ RoomCapacity \in Nat
  BY Units DEF TInv
<1>2. /\ Cardinality(bookedP) + Cardinality(heldP) < Capacity
      /\ Cardinality(booked) + Cardinality(held) + 1 <= RoomCapacity
  BY DEF Available
<1>3. IsFiniteSet(booked) /\ IsFiniteSet(held)
  BY Finite
<1> HIDE DEF from, to
<1>4. ASSUME NEW h \in ActiveHolds(t) PROVE h \in held
  <2>1. holds[h] \in HoldRow
    BY DEF ActiveHolds, TInv
  <2>2. holds[h].start \in Nat /\ holds[h].expires \in Nat
    BY <2>1, Units DEF HoldRow
  <2> QED
    BY <1>1, <2>2 DEF ActiveHolds, HoldOverlap, Covers
<1>5. ASSUME NEW a \in Taken(t) PROVE a \in booked
  <2>1. appts[a] \in AppointmentRow
    BY DEF Taken, TInv
  <2>2. appts[a].start \in Nat
    BY <2>1, Units DEF AppointmentRow
  <2> QED
    BY <1>1, <2>2 DEF Taken, AppointmentOverlap, Covers
<1>6. /\ TakenBy(t, Staff) \in SUBSET booked /\ HeldBy(t, Staff) \in SUBSET held
      /\ TakenBy(t, {p}) \in SUBSET bookedP /\ HeldBy(t, {p}) \in SUBSET heldP
  BY <1>4, <1>5 DEF TakenBy, HeldBy
<1>7. bookedP \in SUBSET booked /\ heldP \in SUBSET held
  OBVIOUS
<1> HIDE DEF booked, held, bookedP, heldP
<1>8. IsFiniteSet(bookedP) /\ IsFiniteSet(heldP)
  BY <1>3, <1>7, FS_Subset
<1>9. /\ Cardinality(TakenBy(t, Staff)) <= Cardinality(booked)
      /\ Cardinality(HeldBy(t, Staff)) <= Cardinality(held)
      /\ Cardinality(TakenBy(t, {p})) <= Cardinality(bookedP)
      /\ Cardinality(HeldBy(t, {p})) <= Cardinality(heldP)
  BY <1>3, <1>6, <1>8, FS_Subset
<1>10. /\ Cardinality(booked) \in Nat /\ Cardinality(held) \in Nat
       /\ Cardinality(bookedP) \in Nat /\ Cardinality(heldP) \in Nat
  BY <1>3, <1>8, FS_CardinalityType
<1> QED
  BY <1>1, <1>2, <1>9, <1>10, Finite

\* What a step does to a hold that exists.
LEMMA HoldStep ==
    ASSUME TInv, [Next]_vars, NEW h \in DOMAIN holds
    PROVE  /\ h \in DOMAIN holds'
           /\ holds'[h].start = holds[h].start
           /\ holds'[h].staff = holds[h].staff
           /\ holds'[h].expires = holds[h].expires
           /\ holds'[h].key = holds[h].key
           /\ holds'[h].status = "active" => holds[h].status = "active"
<1>0. holds \in Seq(HoldRow) /\ holds[h] \in HoldRow
  BY DEF TInv
<1>1. ASSUME NEW row \in HoldRow, holds' = Append(holds, row)
      PROVE  h \in DOMAIN holds' /\ holds'[h] = holds[h]
  BY <1>0, <1>1, Added
<1>2. ASSUME NEW g \in DOMAIN holds, holds' = [holds EXCEPT ![g] = Converted(@)]
      PROVE  /\ h \in DOMAIN holds'
             /\ h # g => holds'[h] = holds[h]
             /\ h = g => holds'[h] = Converted(holds[h])
  BY <1>0, <1>2, ConvertedTyped, Replaced
<1>3. ASSUME NEW c \in calls, CreateHold(c) PROVE h \in DOMAIN holds' /\ holds'[h] = holds[h]
  BY <1>1, <1>3, HoldEffect
<1>4. ASSUME NEW c \in calls, CreateFromHold(c)
      PROVE  h \in DOMAIN holds' /\ holds'[h] \in {holds[h], Converted(holds[h])}
  BY <1>2, <1>4, BookEffect DEF CreateFromHold
<1>5. ASSUME NEW c \in calls, Reschedule(c)
      PROVE  h \in DOMAIN holds' /\ holds'[h] \in {holds[h], Converted(holds[h])}
  <2>1. PICK start \in Starts : Replayed(c, start) \/ Fresh(c)
    BY <1>5, RescheduleEffect
  <2>2. CASE Replayed(c, start)
    BY <1>2, <2>2 DEF Replayed, KnownHold
  <2>3. CASE Fresh(c)
    BY <1>1, <2>3 DEF Fresh
  <2> QED
    BY <2>1, <2>2, <2>3
<1>6. ASSUME ExpireHolds
      PROVE  /\ h \in DOMAIN holds'
             /\ \/ holds'[h] = holds[h]
                \/ holds'[h] = [holds[h] EXCEPT !.status = "expired"]
  BY <1>6 DEF ExpireHolds
<1>7. CASE \/ \E a \in DOMAIN appts, status \in Statuses : Restatus(a, status)
           \/ ReminderTask \/ Tick \/ Quiet
  BY <1>7, TaskEffect DEF Restatus, Tick, Quiet
<1>8. ASSUME NEW row \in HoldRow, row = [holds[h] EXCEPT !.status = "expired"]
      PROVE  /\ row.start = holds[h].start /\ row.staff = holds[h].staff
             /\ row.expires = holds[h].expires /\ row.key = holds[h].key
             /\ row.status # "active"
  BY <1>0, <1>8 DEF HoldRow
<1>9. [holds[h] EXCEPT !.status = "expired"] \in HoldRow
  BY <1>0 DEF HoldRow, HoldStatuses
<1> QED
  BY <1>0, <1>3, <1>4, <1>5, <1>6, <1>7, <1>8, <1>9, ConvertedTyped, Shapes

\* A hold that is good after a step was good before it, or takes room that its
\* slot had left.
LEMMA HeldStep ==
    ASSUME TInv, [Next]_vars, NEW t \in Starts, NEW S \in SUBSET Staff
    PROVE  \/ HeldBy(t, S)' \subseteq HeldBy(t, S)
           \/ \E p \in S : \E h :
                 /\ HeldBy(t, S)' \subseteq HeldBy(t, S) \cup {h}
                 /\ UNCHANGED <<now, appts>>
                 /\ Cardinality(TakenBy(t, Staff)) + Cardinality(HeldBy(t, Staff)) + 1
                       <= RoomCapacity
                 /\ Cardinality(TakenBy(t, {p})) + Cardinality(HeldBy(t, {p})) + 1 <= Capacity
<1>0. /\ holds \in Seq(HoldRow) /\ now \in Nat /\ now' \in Nat /\ now <= now'
      /\ t \in Nat
  BY Grows, Units DEF TInv, Grown
<1>1. ASSUME NEW h \in HeldBy(t, S)', h \in DOMAIN holds PROVE h \in HeldBy(t, S)
  <2>1. holds[h].expires \in Nat
    <3>1. holds[h] \in HoldRow
      BY <1>0, <1>1
    <3> QED
      BY <3>1 DEF HoldRow
  <2> QED
    BY <1>0, <1>1, <2>1, HoldStep DEF HeldBy, ActiveHolds, Covers
<1>2. ASSUME NEW c \in calls, CreateHold(c)
      PROVE  \/ HeldBy(t, S)' \subseteq HeldBy(t, S)
             \/ \E p \in S :
                   /\ HeldBy(t, S)' \subseteq HeldBy(t, S) \cup {Len(holds) + 1}
                   /\ UNCHANGED <<now, appts>>
                   /\ Cardinality(TakenBy(t, Staff)) + Cardinality(HeldBy(t, Staff)) + 1
                         <= RoomCapacity
                   /\ Cardinality(TakenBy(t, {p})) + Cardinality(HeldBy(t, {p})) + 1 <= Capacity
  <2> DEFINE row(p) == NewHold(c.start, p, c.contact, c.at, CustomerKey(c.key))
  <2>1. /\ c.at \in Nat /\ c.at <= now /\ c.start \in Starts
        /\ \E p \in Staff :
              /\ Available(p, c.start, c.at)
              /\ row(p) \in HoldRow /\ row(p).staff = p /\ row(p).start = c.start
              /\ holds' = Append(holds, row(p))
    BY <1>2, HoldEffect
  <2> HIDE DEF row
  <2>2. PICK p \in Staff :
              /\ Available(p, c.start, c.at)
              /\ row(p) \in HoldRow /\ row(p).staff = p /\ row(p).start = c.start
              /\ holds' = Append(holds, row(p))
    BY <2>1
  <2>3. /\ DOMAIN holds = 1 .. Len(holds) /\ Len(holds) \in Nat
        /\ DOMAIN holds' = 1 .. (Len(holds) + 1) /\ holds'[Len(holds) + 1] = row(p)
    BY <1>0, <2>2, Added
  <2>4. \A h \in DOMAIN holds' : h \in DOMAIN holds \/ h = Len(holds) + 1
    BY <2>3
  <2>5. HeldBy(t, S)' \subseteq HeldBy(t, S) \cup {Len(holds) + 1}
    BY <1>1, <2>4 DEF HeldBy, ActiveHolds
  <2>6. UNCHANGED <<now, appts>>
    BY <1>2 DEF CreateHold
  <2>7. CASE c.start <= t /\ t < c.start + Duration /\ p \in S
    BY <1>0, <2>1, <2>2, <2>5, <2>6, <2>7, AvailableHasRoom
  <2>8. CASE ~(c.start <= t /\ t < c.start + Duration /\ p \in S)
    <3>1. Len(holds) + 1 \notin HeldBy(t, S)'
      BY <2>2, <2>3, <2>8 DEF HeldBy, ActiveHolds, Covers
    <3> QED
      BY <2>5, <3>1
  <2> QED
    BY <2>7, <2>8
<1>3. ASSUME NEW c \in calls, Reschedule(c) PROVE HeldBy(t, S)' \subseteq HeldBy(t, S)
  <2>1. PICK start \in Starts : Replayed(c, start) \/ Fresh(c)
    BY <1>3, RescheduleEffect
  <2>2. CASE Replayed(c, start)
    <3>1. DOMAIN holds' = DOMAIN holds
      BY <2>2 DEF Replayed
    <3> QED
      BY <1>1, <3>1 DEF HeldBy, ActiveHolds
  <2>3. CASE Fresh(c)
    <3>1. PICK row \in HoldRow : row.status = "converted" /\ holds' = Append(holds, row)
      BY <2>3 DEF Fresh
    <3>2. /\ DOMAIN holds = 1 .. Len(holds) /\ Len(holds) \in Nat
          /\ DOMAIN holds' = 1 .. (Len(holds) + 1) /\ holds'[Len(holds) + 1] = row
      BY <1>0, <3>1, Added
    <3>3. \A h \in DOMAIN holds' : h \in DOMAIN holds \/ h = Len(holds) + 1
      BY <3>2
    <3> QED
      BY <1>1, <3>1, <3>2, <3>3 DEF HeldBy, ActiveHolds
  <2> QED
    BY <2>1, <2>2, <2>3
<1>4. CASE \/ \E c \in calls : CreateFromHold(c)
           \/ \E a \in DOMAIN appts, status \in Statuses : Restatus(a, status)
           \/ ReminderTask \/ ExpireHolds \/ Tick \/ Quiet
  <2>1. DOMAIN holds' = DOMAIN holds
    BY <1>4, TaskEffect DEF CreateFromHold, Restatus, ExpireHolds, Tick, Quiet
  <2> QED
    BY <1>1, <2>1 DEF HeldBy, ActiveHolds
<1> QED
  BY <1>2, <1>3, <1>4, Shapes

LEMMA AllHeld ==
    ASSUME TInv, NEW t
    PROVE  /\ HeldBy(t, Staff) = ActiveHolds(t)
           /\ TakenBy(t, Staff) = Taken(t)
           /\ \A p \in Staff :
                 /\ HeldBy(t, {p}) = {h \in ActiveHolds(t) : holds[h].staff = p}
                 /\ TakenBy(t, {p}) = {a \in Taken(t) : appts[a].staff = p}
<1>1. ASSUME NEW h \in DOMAIN holds PROVE holds[h].staff \in Staff
  <2>1. holds[h] \in HoldRow
    BY DEF TInv
  <2> QED
    BY <2>1 DEF HoldRow
<1>2. ASSUME NEW a \in DOMAIN appts PROVE appts[a].staff \in Staff
  <2>1. appts[a] \in AppointmentRow
    BY DEF TInv
  <2> QED
    BY <2>1 DEF AppointmentRow
<1> QED
  BY <1>1, <1>2 DEF HeldBy, TakenBy, ActiveHolds, Taken

\* A set that grows by one element at most has one more at most.
LEMMA OneMore ==
    ASSUME NEW S, NEW T, NEW x, IsFiniteSet(S), T \subseteq S \cup {x}
    PROVE  Cardinality(S) \in Nat /\ Cardinality(T) \in Nat /\ Cardinality(T) <= Cardinality(S) + 1
<1>0. Cardinality(S) \in Nat
  BY FS_CardinalityType
<1>1. /\ IsFiniteSet(S \cup {x})
      /\ Cardinality(S \cup {x}) = IF x \in S THEN Cardinality(S) ELSE Cardinality(S) + 1
  BY FS_AddElement
<1>2. IsFiniteSet(T) /\ Cardinality(T) <= Cardinality(S \cup {x})
  BY <1>1, FS_Subset
<1>3. Cardinality(T) \in Nat /\ Cardinality(S \cup {x}) \in Nat
  BY <1>1, <1>2, FS_CardinalityType
<1> QED
  BY <1>0, <1>1, <1>2, <1>3

LEMMA Fewer ==
    ASSUME NEW S, NEW T, IsFiniteSet(S), T \subseteq S
    PROVE  Cardinality(S) \in Nat /\ Cardinality(T) \in Nat /\ Cardinality(T) <= Cardinality(S)
  BY FS_Subset, FS_CardinalityType

HeldWithin ==
    \A t \in Starts :
       /\ Cardinality(HeldBy(t, Staff)) <= RoomCapacity
       /\ \A p \in Staff : Cardinality(HeldBy(t, {p})) <= Capacity

\* Holds that are still good never compete with each other, for every delay
\* of the requests and with keys that are sent again.
THEOREM HoldsExclude == Spec => []HoldsExclusive
<1>1. Init => HeldWithin
  <2> SUFFICES ASSUME Init PROVE HeldWithin
    OBVIOUS
  <2>1. \A t, S : HeldBy(t, S) = {}
    BY DEF Init, HeldBy, ActiveHolds
  <2> QED
    BY <2>1, FS_EmptySet, Units DEF HeldWithin
<1>2. TInv /\ HeldWithin /\ [Next]_vars => HeldWithin'
  <2> SUFFICES ASSUME TInv, HeldWithin, [Next]_vars, NEW t \in Starts, NEW p \in Staff
               PROVE  /\ Cardinality(HeldBy(t, Staff)') <= RoomCapacity
                      /\ Cardinality(HeldBy(t, {p})') <= Capacity
    <3>1. Staff = {} \/ \E p \in Staff : TRUE
      OBVIOUS
    <3>2. ASSUME Staff = {}, TInv, [Next]_vars, NEW t \in Starts
          PROVE  Cardinality(HeldBy(t, Staff)') <= RoomCapacity
      <4>1. HeldBy(t, Staff)' = {}
        BY <3>2 DEF HeldBy
      <4> QED
        BY <4>1, FS_EmptySet, Units
    <3> QED
      BY <3>1, <3>2 DEF HeldWithin
  <2>1. /\ Cardinality(HeldBy(t, Staff)) <= RoomCapacity
        /\ Cardinality(HeldBy(t, {p})) <= Capacity
    BY DEF HeldWithin
  <2>2. Capacity \in Nat /\ RoomCapacity \in Nat
    BY Units
  <2>3. /\ Cardinality(TakenBy(t, Staff)) \in Nat
        /\ \A S : IsFiniteSet(HeldBy(t, S)) /\ Cardinality(TakenBy(t, S)) \in Nat
    BY Finite
  <2>4. Cardinality(HeldBy(t, Staff)') <= RoomCapacity
    <3>1. CASE HeldBy(t, Staff)' \subseteq HeldBy(t, Staff)
      BY <2>1, <2>2, <2>3, <3>1, Fewer
    <3>2. ASSUME NEW h, HeldBy(t, Staff)' \subseteq HeldBy(t, Staff) \cup {h},
                 Cardinality(TakenBy(t, Staff)) + Cardinality(HeldBy(t, Staff)) + 1
                    <= RoomCapacity
          PROVE  Cardinality(HeldBy(t, Staff)') <= RoomCapacity
      <4>1. /\ Cardinality(HeldBy(t, Staff)) \in Nat
            /\ Cardinality(HeldBy(t, Staff)') \in Nat
            /\ Cardinality(HeldBy(t, Staff)') <= Cardinality(HeldBy(t, Staff)) + 1
        BY <2>3, <3>2, OneMore
      <4>2. Cardinality(TakenBy(t, Staff)) \in Nat
        BY <2>3
      <4> QED
        BY <2>2, <3>2, <4>1, <4>2
    <3> QED
      BY <3>1, <3>2, HeldStep
  <2>5. Cardinality(HeldBy(t, {p})') <= Capacity
    <3>1. CASE HeldBy(t, {p})' \subseteq HeldBy(t, {p})
      BY <2>1, <2>2, <2>3, <3>1, Fewer
    <3>2. ASSUME NEW h, HeldBy(t, {p})' \subseteq HeldBy(t, {p}) \cup {h},
                 Cardinality(TakenBy(t, {p})) + Cardinality(HeldBy(t, {p})) + 1 <= Capacity
          PROVE  Cardinality(HeldBy(t, {p})') <= Capacity
      <4>1. /\ Cardinality(HeldBy(t, {p})) \in Nat
            /\ Cardinality(HeldBy(t, {p})') \in Nat
            /\ Cardinality(HeldBy(t, {p})') <= Cardinality(HeldBy(t, {p})) + 1
        BY <2>3, <3>2, OneMore
      <4>2. Cardinality(TakenBy(t, {p})) \in Nat
        BY <2>3
      <4> QED
        BY <2>2, <3>2, <4>1, <4>2
    <3>3. {p} \in SUBSET Staff
      OBVIOUS
    <3>4. CASE \E q \in {p} : \E h :
                  /\ HeldBy(t, {p})' \subseteq HeldBy(t, {p}) \cup {h}
                  /\ Cardinality(TakenBy(t, {q})) + Cardinality(HeldBy(t, {q})) + 1 <= Capacity
      <4>0. PICK q \in {p} : \E h :
                  /\ HeldBy(t, {p})' \subseteq HeldBy(t, {p}) \cup {h}
                  /\ Cardinality(TakenBy(t, {q})) + Cardinality(HeldBy(t, {q})) + 1 <= Capacity
        BY <3>4
      <4>1. PICK h :
                  /\ HeldBy(t, {p})' \subseteq HeldBy(t, {p}) \cup {h}
                  /\ Cardinality(TakenBy(t, {q})) + Cardinality(HeldBy(t, {q})) + 1 <= Capacity
        BY <4>0
      <4>2. q = p
        OBVIOUS
      <4> QED
        BY <3>2, <4>1, <4>2
    <3> QED
      BY <3>1, <3>3, <3>4, HeldStep
  <2> QED
    BY <2>4, <2>5
<1>3. TInv /\ HeldWithin => HoldsExclusive
  BY AllHeld DEF HeldWithin, HoldsExclusive
<1> QED
  BY <1>1, <1>2, <1>3, AlwaysTInv, PTL DEF Spec
-----------------------------------------------------------------------------
(* Slots, with requests that are served at the time they read and keys of  *)
(* reschedules that are not sent again.                                    *)

AllCurrent == \A c \in calls : c.at = now

LEMMA CurrentNext ==
    ASSUME MaxDelay = 0
    PROVE  TInv /\ AllCurrent /\ [Next]_vars => AllCurrent'
<1> SUFFICES ASSUME TInv, AllCurrent, [Next]_vars, NEW c \in calls'
             PROVE  c.at = now'
  BY DEF AllCurrent
<1>1. CASE c \notin calls
  BY <1>1, NewRequests DEF Quiet
<1>2. CASE c \in calls
  <2>1. c.at = now /\ now \in Nat
    BY <1>2 DEF AllCurrent, TInv
  <2>2. ~Tick
    BY <1>2, <2>1 DEF Tick
  <2>3. now' = now
    BY <2>2, Shapes, TaskEffect DEF CreateHold, CreateFromHold, Reschedule, Restatus, ExpireHolds,
                                    Quiet
  <2> QED
    BY <2>1, <2>3
<1> QED
  BY <1>1, <1>2

\* No hold stands under the key of a reschedule on its way, and no other
\* request carries that key.
FreshKeys ==
    \A c \in calls :
       c.op = "reschedule" =>
          /\ KnownHold(RescheduleKey(c.appt, c.key)) = {}
          /\ \A d \in calls :
                d.op = "reschedule" /\ d.appt = c.appt /\ d.key = c.key => d = c

LEMMA FreshNext ==
    ASSUME ~Replays
    PROVE  TInv /\ FreshKeys /\ [Next]_vars => FreshKeys'
<1> SUFFICES ASSUME TInv, FreshKeys, [Next]_vars, NEW c \in calls', c.op = "reschedule"
             PROVE  /\ KnownHold(RescheduleKey(c.appt, c.key))' = {}
                    /\ \A d \in calls' :
                          d.op = "reschedule" /\ d.appt = c.appt /\ d.key = c.key => d = c
  BY DEF FreshKeys
<1>1. CASE c \notin calls
  BY <1>1, NewRequests DEF Quiet, KnownHold
<1>2. CASE c \in calls
  <2>0. /\ KnownHold(RescheduleKey(c.appt, c.key)) = {}
        /\ c.appt \in Nat \ {0}
        /\ holds \in Seq(HoldRow)
    <3>1. c.appt \in DOMAIN appts
      BY <1>2 DEF TInv, CallsOK, CallOK
    <3>2. appts \in Seq(AppointmentRow) /\ holds \in Seq(HoldRow)
      BY DEF TInv
    <3>3. c.appt \in Nat \ {0}
      BY <3>1, <3>2
    <3> QED
      BY <1>2, <3>2, <3>3 DEF FreshKeys
  <2> DEFINE Unknown == \A h \in DOMAIN holds' : holds'[h].key # RescheduleKey(c.appt, c.key)
  <2>1. ASSUME NEW d \in calls', d.op = "reschedule", d.appt = c.appt, d.key = c.key
        PROVE  d = c
    <3>1. CASE d \in calls
      BY <1>2, <2>1, <3>1 DEF FreshKeys
    <3>2. CASE d \notin calls
      BY <1>2, <2>1, <3>2, NewRequests
    <3> QED
      BY <3>1, <3>2
  <2>2. \A h \in DOMAIN holds : holds'[h].key # RescheduleKey(c.appt, c.key)
    BY <2>0, HoldStep DEF KnownHold
  <2>3. ASSUME DOMAIN holds' = DOMAIN holds
        PROVE  Unknown
    BY <2>2, <2>3
  <2>4. ASSUME NEW row \in HoldRow, holds' = Append(holds, row),
               row.key # RescheduleKey(c.appt, c.key)
        PROVE  Unknown
    <3>1. /\ DOMAIN holds = 1 .. Len(holds) /\ Len(holds) \in Nat
          /\ DOMAIN holds' = 1 .. (Len(holds) + 1) /\ holds'[Len(holds) + 1] = row
      BY <2>0, <2>4, Added
    <3>2. \A h \in DOMAIN holds' : h \in DOMAIN holds \/ h = Len(holds) + 1
      BY <3>1
    <3> QED
      BY <2>2, <2>4, <3>1, <3>2
  <2>5. ASSUME NEW d \in calls, CreateHold(d)
        PROVE  Unknown
    <3>1. CustomerKey(d.key) # RescheduleKey(c.appt, c.key)
      <4>1. CustomerKey(d.key).appt = 0 /\ RescheduleKey(c.appt, c.key).appt = c.appt
        BY DEF CustomerKey, RescheduleKey
      <4> QED
        BY <2>0, <4>1
    <3> QED
      BY <2>4, <2>5, <3>1, HoldEffect
  <2>6. ASSUME NEW d \in calls, Reschedule(d)
        PROVE  Unknown
    <3>1. PICK start \in Starts : Replayed(d, start) \/ Fresh(d)
      BY <2>6, RescheduleEffect
    <3>2. CASE Replayed(d, start)
      BY <2>3, <3>2 DEF Replayed
    <3>3. CASE Fresh(d)
      <4>1. d.op = "reschedule" /\ d # c
        BY <2>6, RescheduleEffect DEF Reschedule
      <4>2. d.appt # c.appt \/ d.key # c.key
        BY <1>2, <4>1 DEF FreshKeys
      <4>3. RescheduleKey(d.appt, d.key) # RescheduleKey(c.appt, c.key)
        <5>1. /\ RescheduleKey(d.appt, d.key).appt = d.appt
              /\ RescheduleKey(d.appt, d.key).key = d.key
              /\ RescheduleKey(c.appt, c.key).appt = c.appt
              /\ RescheduleKey(c.appt, c.key).key = c.key
          BY DEF RescheduleKey
        <5> QED
          BY <4>2, <5>1
      <4> QED
        BY <2>4, <3>3, <4>3 DEF Fresh
    <3> QED
      BY <3>1, <3>2, <3>3
  <2>7. ASSUME \/ \E d \in calls : CreateFromHold(d)
               \/ \E a \in DOMAIN appts, status \in Statuses : Restatus(a, status)
               \/ ReminderTask \/ ExpireHolds \/ Tick \/ Quiet
        PROVE  Unknown
    <3>1. DOMAIN holds' = DOMAIN holds
      BY <2>7, TaskEffect DEF CreateFromHold, Restatus, ExpireHolds, Tick, Quiet
    <3> QED
      BY <2>3, <3>1
  <2>8. Unknown
    BY <2>5, <2>6, <2>7, Shapes
  <2> QED
    BY <2>1, <2>8 DEF KnownHold
<1> QED
  BY <1>1, <1>2

\* What appointments and good holds of the staff in S ask for at t.
Load(t, S) == Cardinality(TakenBy(t, S)) + Cardinality(HeldBy(t, S))

HasRoom(t, p) ==
    /\ Load(t, Staff) + 1 <= RoomCapacity
    /\ Load(t, {p}) + 1 <= Capacity

\* An appointment that takes a slot after a step did so before it, unless it
\* is new or has moved.
LEMMA TakenStep ==
    ASSUME TInv, [Next]_vars, NEW t, NEW S, NEW a \in TakenBy(t, S)',
           a \in DOMAIN appts, appts'[a].start = appts[a].start
    PROVE  a \in TakenBy(t, S)
<1>1. a \in DOMAIN appts' /\ Blocking(a)' /\ Covers(appts'[a], t) /\ appts'[a].staff \in S
  BY DEF TakenBy, Taken
<1>2. Blocking(a) /\ appts'[a].staff = appts[a].staff
  BY <1>1, AppointmentStep DEF Blocking
<1> QED
  BY <1>1, <1>2 DEF TakenBy, Taken, Covers

\* Where the staff of S gets busier at t, one of them had room.
LEMMA LoadStep ==
    ASSUME TInv, AllCurrent, FreshKeys, [Next]_vars, NEW t \in Starts, NEW S \in SUBSET Staff
    PROVE  /\ Load(t, S)' \in Int
           /\ \/ Load(t, S)' <= Load(t, S)
              \/ \E p \in S : HasRoom(t, p) /\ Load(t, S)' <= Load(t, S) + 1
<1> DEFINE T == TakenBy(t, S)  H == HeldBy(t, S)
           T1 == TakenBy(t, S)'  H1 == HeldBy(t, S)'
<1>0. /\ holds \in Seq(HoldRow) /\ appts \in Seq(AppointmentRow) /\ now \in Nat /\ t \in Nat
      /\ IsFiniteSet(T) /\ IsFiniteSet(H) /\ Cardinality(T) \in Nat /\ Cardinality(H) \in Nat
      /\ Load(t, S) = Cardinality(T) + Cardinality(H)
      /\ Load(t, S)' = Cardinality(T1) + Cardinality(H1)
  BY Finite, Units DEF TInv, Load
<1> DEFINE Goal == /\ Load(t, S)' \in Int
                   /\ \/ Load(t, S)' <= Load(t, S)
                      \/ \E p \in S : HasRoom(t, p) /\ Load(t, S)' <= Load(t, S) + 1
<1> SUFFICES Goal
  OBVIOUS
<1>1. ASSUME T1 \subseteq T, H1 \subseteq H PROVE Goal
  <2>1. /\ Cardinality(T1) \in Nat /\ Cardinality(T1) <= Cardinality(T)
        /\ Cardinality(H1) \in Nat /\ Cardinality(H1) <= Cardinality(H)
    BY <1>0, <1>1, Fewer
  <2> QED
    BY <1>0, <2>1
<1>2. ASSUME NEW x, NEW p \in S, HasRoom(t, p),
             \/ T1 \subseteq T \cup {x} /\ H1 \subseteq H
             \/ T1 \subseteq T /\ H1 \subseteq H \cup {x}
      PROVE  Goal
  <2>1. CASE T1 \subseteq T \cup {x} /\ H1 \subseteq H
    <3>1. /\ Cardinality(T1) \in Nat /\ Cardinality(T1) <= Cardinality(T) + 1
          /\ Cardinality(H1) \in Nat /\ Cardinality(H1) <= Cardinality(H)
      BY <1>0, <2>1, Fewer, OneMore
    <3> QED
      BY <1>0, <1>2, <3>1
  <2>2. CASE T1 \subseteq T /\ H1 \subseteq H \cup {x}
    <3>1. /\ Cardinality(T1) \in Nat /\ Cardinality(T1) <= Cardinality(T)
          /\ Cardinality(H1) \in Nat /\ Cardinality(H1) <= Cardinality(H) + 1
      BY <1>0, <2>2, Fewer, OneMore
    <3> QED
      BY <1>0, <1>2, <3>1
  <2> QED
    BY <1>2, <2>1, <2>2
<1>3. ASSUME NEW x, NEW h \in H, T1 \subseteq T \cup {x}, H1 \subseteq H \ {h}
      PROVE  Goal
  <2>1. Cardinality(T1) \in Nat /\ Cardinality(T1) <= Cardinality(T) + 1
    BY <1>0, <1>3, OneMore
  <2>2. IsFiniteSet(H \ {h}) /\ Cardinality(H \ {h}) = Cardinality(H) - 1
    BY <1>0, <1>3, FS_RemoveElement
  <2>3. Cardinality(H1) \in Nat /\ Cardinality(H1) <= Cardinality(H) - 1
    BY <1>3, <2>2, Fewer
  <2> QED
    BY <1>0, <2>1, <2>3
<1>4. \A a \in T1 : a \in DOMAIN appts /\ appts'[a].start = appts[a].start => a \in T
  BY TakenStep
<1>5. \A a \in T1 : a \in DOMAIN appts' /\ appts'[a].staff \in S /\ Covers(appts'[a], t)
  BY DEF TakenBy, Taken
<1>6. \/ H1 \subseteq H
      \/ \E p \in S : \E h :
            /\ H1 \subseteq H \cup {h}
            /\ appts' = appts
            /\ HasRoom(t, p)
  BY HeldStep DEF HasRoom, Load
<1>7. \A h \in H1 : h \in DOMAIN holds' /\ holds'[h].status = "active"
  BY DEF HeldBy, ActiveHolds
<1> HIDE DEF T, H, T1, H1, Goal
<1>8. CASE appts' = appts
  <2>1. T1 \subseteq T
    BY <1>4, <1>5, <1>8
  <2> QED
    BY <1>1, <1>2, <1>6, <2>1
<1>9. CASE appts' # appts
  <2>0. H1 \subseteq H
    BY <1>6, <1>9
  <2>1. ASSUME NEW c \in calls, CreateFromHold(c) PROVE Goal
    <3> DEFINE row == NewAppointment(holds[c.hold], c.at, c.key)
               h == c.hold
    <3>1. /\ h \in DOMAIN holds /\ holds[h] \in HoldRow
          /\ holds[h].status = "active" /\ holds[h].expires > now
          /\ row \in AppointmentRow /\ row.start = holds[h].start /\ row.staff = holds[h].staff
      BY <2>1, BookEffect, NewAppointmentTyped DEF AllCurrent
    <3>2. appts' = Append(appts, row) /\ holds' = [holds EXCEPT ![h] = Converted(@)]
      BY <2>1 DEF CreateFromHold
    <3> HIDE DEF row, h
    <3>3. /\ DOMAIN appts = 1 .. Len(appts) /\ Len(appts) \in Nat
          /\ DOMAIN appts' = 1 .. (Len(appts) + 1) /\ appts'[Len(appts) + 1] = row
          /\ \A a \in DOMAIN appts : appts'[a] = appts[a]
      BY <1>0, <3>1, <3>2, Added
    <3>4. T1 \subseteq T \cup {Len(appts) + 1}
      <4>1. \A a \in DOMAIN appts' : a \in DOMAIN appts \/ a = Len(appts) + 1
        BY <3>3
      <4> QED
        BY <1>4, <1>5, <3>3, <4>1
    <3>5. h \notin H1
      <4>1. holds'[h].status = "converted"
        BY <1>0, <3>1, <3>2, ConvertedTyped, Replaced
      <4> QED
        BY <1>7, <4>1
    <3>6. CASE Len(appts) + 1 \in T1
      <4>1. Covers(holds[h], t) /\ holds[h].staff \in S
        BY <1>5, <3>1, <3>3, <3>6 DEF Covers
      <4>2. h \in H
        BY <3>1, <4>1 DEF H, HeldBy, ActiveHolds
      <4>3. H1 \subseteq H \ {h}
        BY <2>0, <3>5
      <4> QED
        BY <1>3, <3>4, <4>2, <4>3
    <3>7. CASE Len(appts) + 1 \notin T1
      BY <1>1, <2>0, <3>4, <3>7
    <3> QED
      BY <3>6, <3>7
  <2>2. ASSUME NEW c \in calls, Reschedule(c) PROVE Goal
    <3>1. /\ c.appt \in DOMAIN appts /\ appts[c.appt] \in AppointmentRow
          /\ c.op = "reschedule" /\ c.at \in Nat /\ c.at <= now /\ c.start \in Starts
      BY <2>2, RescheduleEffect
    <3>2. Relocate(c, c.start) /\ Fresh(c)
      <4>1. KnownHold(RescheduleKey(c.appt, c.key)) = {}
        BY <3>1 DEF FreshKeys
      <4> QED
        BY <2>2, <4>1, RescheduleEffect DEF Replayed
    <3> DEFINE p == appts[c.appt].staff
    <3>3. p \in Staff /\ Available(p, c.start, c.at)
      BY <3>1, <3>2 DEF AppointmentRow, Fresh
    <3>4. /\ appts'[c.appt].start = c.start /\ appts'[c.appt].staff = p
          /\ DOMAIN appts' = DOMAIN appts
          /\ \A a \in DOMAIN appts : a # c.appt => appts'[a] = appts[a]
      BY <1>0, <3>1, <3>2, MovedTyped, Replaced DEF Relocate
    <3> HIDE DEF p
    <3>5. T1 \subseteq T \cup {c.appt}
      BY <1>4, <1>5, <3>4
    <3>6. CASE c.appt \in T1
      <4>1. p \in S /\ c.start <= t /\ t < c.start + Duration
        BY <1>5, <3>4, <3>6 DEF Covers
      <4>2. HasRoom(t, p)
        BY <1>0, <3>1, <3>3, <4>1, AvailableHasRoom DEF HasRoom, Load
      <4> QED
        BY <1>2, <2>0, <3>5, <4>1, <4>2
    <3>7. CASE c.appt \notin T1
      BY <1>1, <2>0, <3>5, <3>7
    <3> QED
      BY <3>6, <3>7
  <2>3. ASSUME NEW a \in DOMAIN appts, NEW status \in Statuses, Restatus(a, status) PROVE Goal
    <3>1. appts[a] \in AppointmentRow
      BY <1>0
    <3>2. /\ DOMAIN appts' = DOMAIN appts
          /\ appts'[a].start = appts[a].start
          /\ \A b \in DOMAIN appts : b # a => appts'[b] = appts[b]
      BY <1>0, <2>3, <3>1, WithStatusTyped, Replaced DEF Restatus
    <3>3. T1 \subseteq T
      BY <1>4, <1>5, <3>2
    <3> QED
      BY <1>1, <2>0, <3>3
  <2>4. ASSUME \/ \E c \in calls : CreateHold(c)
               \/ ReminderTask \/ ExpireHolds \/ Tick \/ Quiet
        PROVE  appts' = appts
    BY <2>4, TaskEffect DEF CreateHold, ExpireHolds, Tick, Quiet
  <2> QED
    BY <1>9, <2>1, <2>2, <2>3, <2>4, Shapes
<1> QED
  BY <1>8, <1>9

LoadWithin ==
    \A t \in Starts :
       /\ Load(t, Staff) <= RoomCapacity
       /\ \A p \in Staff : Load(t, {p}) <= Capacity

\* With requests served at the time they read and no reschedule key sent
\* again, no slot is promised to more customers than staff and resource can
\* serve: whatever holds, bookings, moves and cancellations come in between.
THEOREM NothingOverbooked ==
    ASSUME MaxDelay = 0, ~Replays
    PROVE  Spec => []NoOverbooking
<1>1. Init => AllCurrent /\ FreshKeys /\ LoadWithin
  <2> SUFFICES ASSUME Init PROVE AllCurrent /\ FreshKeys /\ LoadWithin
    OBVIOUS
  <2>1. \A t, S : HeldBy(t, S) = {} /\ TakenBy(t, S) = {}
    BY DEF Init, HeldBy, TakenBy, ActiveHolds, Taken
  <2>2. \A t, S : Load(t, S) = 0
    BY <2>1, FS_EmptySet DEF Load
  <2> QED
    BY <2>2, Units DEF Init, AllCurrent, FreshKeys, LoadWithin
<1>2. TInv /\ AllCurrent /\ FreshKeys /\ LoadWithin /\ [Next]_vars
         => (AllCurrent /\ FreshKeys /\ LoadWithin)'
  <2> SUFFICES ASSUME TInv, AllCurrent, FreshKeys, LoadWithin, [Next]_vars
               PROVE  LoadWithin'
    BY CurrentNext, FreshNext
  <2>1. Capacity \in Nat /\ RoomCapacity \in Nat
    BY Units
  <2>2. ASSUME NEW t, NEW S PROVE Load(t, S) \in Int
    BY Finite DEF Load
  <2>3. ASSUME NEW t \in Starts PROVE Load(t, Staff)' <= RoomCapacity
    <3>1. Load(t, Staff) <= RoomCapacity /\ Load(t, Staff) \in Int
      BY <2>2 DEF LoadWithin
    <3>2. Staff \in SUBSET Staff
      OBVIOUS
    <3>3. /\ Load(t, Staff)' \in Int
          /\ \/ Load(t, Staff)' <= Load(t, Staff)
             \/ \E p \in Staff : HasRoom(t, p) /\ Load(t, Staff)' <= Load(t, Staff) + 1
      BY <3>2, LoadStep
    <3>4. \/ Load(t, Staff)' <= Load(t, Staff)
          \/ /\ Load(t, Staff) + 1 <= RoomCapacity
             /\ Load(t, Staff)' <= Load(t, Staff) + 1
      BY <3>3 DEF HasRoom
    <3> QED
      BY <2>1, <3>1, <3>3, <3>4
  <2>4. ASSUME NEW t \in Starts, NEW p \in Staff PROVE Load(t, {p})' <= Capacity
    <3>1. Load(t, {p}) <= Capacity /\ Load(t, {p}) \in Int
      BY <2>2 DEF LoadWithin
    <3>2. {p} \in SUBSET Staff
      OBVIOUS
    <3>3. /\ Load(t, {p})' \in Int
          /\ \/ Load(t, {p})' <= Load(t, {p})
             \/ \E q \in {p} : HasRoom(t, q) /\ Load(t, {p})' <= Load(t, {p}) + 1
      BY <3>2, LoadStep
    <3>4. \/ Load(t, {p})' <= Load(t, {p})
          \/ HasRoom(t, p) /\ Load(t, {p})' <= Load(t, {p}) + 1
      BY <3>3
    <3> QED
      BY <2>1, <3>1, <3>3, <3>4 DEF HasRoom
  <2> QED
    BY <2>3, <2>4 DEF LoadWithin
<1>3. TInv /\ LoadWithin => NoOverbooking
  BY AllHeld DEF LoadWithin, Load, NoOverbooking
<1> QED
  BY <1>1, <1>2, <1>3, AlwaysTInv, PTL DEF Spec
-----------------------------------------------------------------------------
(* Refinement of module Schedule.                                           *)

\* A booking as module Schedule sees it.
Place == [start : Starts, staff : Staff, key : Keys, stands : BOOLEAN]

LEMMA Places ==
    ASSUME TInv
    PROVE  /\ SlotsBooked \in Seq(Place) /\ DOMAIN SlotsBooked = DOMAIN appts
           /\ Len(SlotsBooked) = Len(appts) /\ Len(appts) \in Nat /\ DOMAIN appts = 1 .. Len(appts)
           /\ \A a \in DOMAIN appts :
                 /\ SlotsBooked[a] = [start |-> appts[a].start, staff |-> appts[a].staff,
                                      key |-> appts[a].key, stands |-> Blocking(a)]
                 /\ SlotsBooked[a] \in Place
           /\ DOMAIN SlotsHeld = GoodHolds
           /\ \A h \in GoodHolds : SlotsHeld[h] = [start |-> holds[h].start, staff |-> holds[h].staff]
<1>1. appts \in Seq(AppointmentRow) /\ Len(appts) \in Nat /\ DOMAIN appts = 1 .. Len(appts)
  BY DEF TInv
<1>2. ASSUME NEW a \in DOMAIN appts PROVE SlotsBooked[a] \in Place
  <2>1. appts[a] \in AppointmentRow
    BY <1>1
  <2>2. Blocking(a) \in BOOLEAN
    BY DEF Blocking
  <2> QED
    BY <2>1, <2>2 DEF SlotsBooked, Place, AppointmentRow
<1>3. SlotsBooked \in [1 .. Len(appts) -> Place]
  BY <1>1, <1>2 DEF SlotsBooked
<1>4. SlotsBooked \in Seq(Place) /\ Len(SlotsBooked) = Len(appts)
  BY <1>1, <1>3
<1> QED
  BY <1>1, <1>2, <1>4 DEF SlotsBooked, SlotsHeld

Placed == SlotsBooked \in Seq(Place) /\ Len(SlotsBooked) = Len(appts)

LEMMA PlacesAfter == TInv' => Placed'
<1>1. TInv => Placed
  BY Places DEF Placed
<1> QED
  BY <1>1, PTL

LEMMA Resettled ==
    ASSUME NEW r \in Place, NEW x \in BOOLEAN
    PROVE  [r EXCEPT !.stands = x] =
              [start |-> r.start, staff |-> r.staff, key |-> r.key, stands |-> x]
  BY DEF Place

LEMMA SameCount ==
    ASSUME NEW X PROVE Slots!Cardinality(X) = Cardinality(X)
  BY DEF Slots!Cardinality, Cardinality

LEMMA SameLoad ==
    ASSUME TInv, NEW t, NEW S
    PROVE  Slots!Load(t, S) = Load(t, S)
<1>1. Slots!Holding(t, S) = HeldBy(t, S)
  <2>1. \A h \in GoodHolds : /\ SlotsHeld[h].start = holds[h].start
                             /\ SlotsHeld[h].staff = holds[h].staff
    BY Places
  <2> QED
    BY <2>1, Places DEF Slots!Holding, Slots!Covers, HeldBy, ActiveHolds, GoodHolds, Covers
<1>2. Slots!Standing(t, S) = TakenBy(t, S)
  <2>1. \A a \in DOMAIN appts : /\ SlotsBooked[a].start = appts[a].start
                                /\ SlotsBooked[a].staff = appts[a].staff
                                /\ SlotsBooked[a].stands = Blocking(a)
    BY Places
  <2> QED
    BY <2>1, Places DEF Slots!Standing, Slots!Covers, TakenBy, Taken, Covers
<1> QED
  BY <1>1, <1>2, SameCount DEF Slots!Load, Load

LEMMA AvailableFits ==
    ASSUME TInv, NEW at \in Nat, at <= now, NEW start \in Starts, NEW p \in Staff,
           Available(p, start, at)
    PROVE  Slots!Fits(start, p)
<1> SUFFICES ASSUME NEW t \in start .. (start + Duration - 1)
             PROVE  /\ Slots!Load(t, Staff) + 1 <= RoomCapacity
                    /\ Slots!Load(t, {p}) + 1 <= Capacity
  BY DEF Slots!Fits
<1>1. t \in Nat /\ start <= t /\ t < start + Duration
  BY Units
<1>2. Load(t, Staff) + 1 <= RoomCapacity /\ Load(t, {p}) + 1 <= Capacity
  BY <1>1, AvailableHasRoom DEF Load
<1> QED
  BY <1>2, SameLoad

\* A hold that is good after a step, and not new, was good before it.
LEMMA StillGood ==
    ASSUME TInv, [Next]_vars, now <= now', now' \in Nat
    PROVE  /\ DOMAIN holds \subseteq DOMAIN holds'
           /\ \A h \in GoodHolds' : h \in DOMAIN holds =>
                 h \in GoodHolds /\ SlotsHeld'[h] = SlotsHeld[h]
           /\ DOMAIN SlotsHeld' = GoodHolds'
<1>1. DOMAIN SlotsHeld = GoodHolds /\ DOMAIN SlotsHeld' = GoodHolds'
  BY DEF SlotsHeld
<1>2. ASSUME NEW h \in GoodHolds', h \in DOMAIN holds
      PROVE  h \in GoodHolds /\ SlotsHeld'[h] = SlotsHeld[h]
  <2>1. /\ holds'[h].start = holds[h].start /\ holds'[h].staff = holds[h].staff
        /\ holds'[h].expires = holds[h].expires
        /\ holds'[h].status = "active" => holds[h].status = "active"
    BY <1>2, HoldStep
  <2>2. holds[h].expires \in Nat /\ now \in Nat
    <3>1. holds[h] \in HoldRow
      BY <1>2 DEF TInv
    <3> QED
      BY <3>1 DEF HoldRow, TInv
  <2>3. holds'[h].status = "active" /\ holds'[h].expires > now'
    BY <1>2 DEF GoodHolds
  <2>4. h \in GoodHolds
    BY <1>2, <2>1, <2>2, <2>3 DEF GoodHolds
  <2> QED
    BY <1>2, <2>1, <2>4 DEF SlotsHeld
<1>3. DOMAIN holds \subseteq DOMAIN holds'
  BY HoldStep
<1> QED
  BY <1>1, <1>2, <1>3

LEMMA SameRowsSame ==
    ASSUME NEW X, NEW s \in Seq(X), NEW u \in Seq(X), Len(s) = Len(u),
           \A i \in 1 .. Len(s) : s[i] = u[i]
    PROVE  s = u
  OBVIOUS

LEMMA BookingStep ==
    ASSUME TInv, TInv', NEW b \in DOMAIN appts, NEW row \in AppointmentRow,
           appts' = [appts EXCEPT ![b] = row]
    PROVE  LET place == [start |-> row.start, staff |-> row.staff, key |-> row.key,
                         stands |-> row.status \in BlockingStatuses]
           IN  SlotsBooked' = [SlotsBooked EXCEPT ![b] = place]
<1> DEFINE place == [start |-> row.start, staff |-> row.staff, key |-> row.key,
                     stands |-> row.status \in BlockingStatuses]
<1>1. /\ DOMAIN appts' = DOMAIN appts /\ appts'[b] = row
      /\ \A a \in DOMAIN appts : a # b => appts'[a] = appts[a]
  BY Replaced DEF TInv
<1>2. \A a \in DOMAIN appts : a # b => Blocking(a)' = Blocking(a)
  BY <1>1 DEF Blocking
<1>3. Blocking(b)' = (row.status \in BlockingStatuses)
  BY <1>1 DEF Blocking
<1> QED
  BY <1>1, <1>2, <1>3 DEF SlotsBooked

LEMMA ScheduleStep ==
    ASSUME TInv, TInv', AllCurrent, FreshKeys, [Next]_vars
    PROVE  [Slots!Next]_(Slots!vars)
<1>0. /\ holds \in Seq(HoldRow) /\ appts \in Seq(AppointmentRow) /\ now \in Nat /\ now' \in Nat
  BY DEF TInv
<1>1. ASSUME appts' = appts, now <= now', GoodHolds' \subseteq DOMAIN holds
      PROVE  Slots!Next
  <2>1. /\ DOMAIN holds \subseteq DOMAIN holds' /\ DOMAIN SlotsHeld' = GoodHolds'
        /\ \A h \in GoodHolds' : h \in GoodHolds /\ SlotsHeld'[h] = SlotsHeld[h]
    BY <1>0, <1>1, StillGood
  <2>2. SlotsHeld' = [h \in DOMAIN SlotsHeld' |-> SlotsHeld[h]]
    <3>1. SlotsHeld' = [h \in GoodHolds' |-> SlotsHeld'[h]]
      BY DEF SlotsHeld
    <3> QED
      BY <2>1, <3>1
  <2>3. SlotsBooked' = SlotsBooked
    BY <1>1 DEF SlotsBooked, Blocking
  <2>4. DOMAIN SlotsHeld' \subseteq DOMAIN SlotsHeld
    BY <2>1, Places
  <2> QED
    BY <2>1, <2>2, <2>3, <2>4 DEF Slots!Next, Slots!Lapse
<1>2. ASSUME NEW row \in HoldRow, holds' = Append(holds, row), now' = now
      PROVE  /\ Len(holds) + 1 \in DOMAIN holds' \ DOMAIN holds
             /\ DOMAIN holds \subseteq DOMAIN holds'
             /\ GoodHolds' = GoodHolds \cup
                   (IF row.status = "active" /\ row.expires > now THEN {Len(holds) + 1} ELSE {})
             /\ \A h \in GoodHolds : SlotsHeld'[h] = SlotsHeld[h]
             /\ GoodHolds \subseteq DOMAIN holds
             /\ holds'[Len(holds) + 1] = row
  <2>1. /\ Len(holds) \in Nat /\ DOMAIN holds = 1 .. Len(holds)
        /\ DOMAIN holds' = 1 .. (Len(holds) + 1)
        /\ holds'[Len(holds) + 1] = row
        /\ \A h \in DOMAIN holds : holds'[h] = holds[h]
    BY <1>0, <1>2, Added
  <2>2. DOMAIN holds' = DOMAIN holds \cup {Len(holds) + 1} /\ Len(holds) + 1 \notin DOMAIN holds
    BY <2>1
  <2>3. /\ GoodHolds' = GoodHolds \cup
                   (IF row.status = "active" /\ row.expires > now THEN {Len(holds) + 1} ELSE {})
        /\ GoodHolds \subseteq DOMAIN holds
    BY <1>2, <2>1, <2>2 DEF GoodHolds
  <2>4. \A h \in GoodHolds : SlotsHeld'[h] = SlotsHeld[h]
    BY <2>1, <2>3 DEF SlotsHeld
  <2> QED
    BY <2>1, <2>2, <2>3, <2>4
<1>3. ASSUME NEW c \in calls, CreateHold(c) PROVE Slots!Next
  <2>1. /\ c.at \in Nat /\ c.at <= now /\ c.start \in Starts
        /\ UNCHANGED <<now, appts>>
    BY <1>3, HoldEffect DEF CreateHold
  <2>2. PICK p \in Staff, row \in HoldRow :
            /\ Available(p, c.start, c.at)
            /\ row.staff = p /\ row.start = c.start
            /\ holds' = Append(holds, row)
    BY <1>3, HoldEffect
  <2> DEFINE n == Len(holds) + 1
  <2>3. /\ n \in DOMAIN holds' \ DOMAIN holds /\ DOMAIN holds \subseteq DOMAIN holds'
        /\ GoodHolds' = GoodHolds \cup
              (IF row.status = "active" /\ row.expires > now THEN {n} ELSE {})
        /\ \A h \in GoodHolds : SlotsHeld'[h] = SlotsHeld[h]
        /\ GoodHolds \subseteq DOMAIN holds
        /\ holds'[n] = row
    BY <1>2, <2>1, <2>2
  <2> HIDE DEF n
  <2>4. CASE row.status = "active" /\ row.expires > now
    <3>1. GoodHolds' = GoodHolds \cup {n} /\ n \notin GoodHolds
      BY <2>3, <2>4
    <3>2. SlotsHeld'[n] = [start |-> c.start, staff |-> p]
      BY <2>2, <2>3, <3>1 DEF SlotsHeld
    <3>3. SlotsHeld' = [h \in GoodHolds' |-> SlotsHeld'[h]] /\ DOMAIN SlotsHeld = GoodHolds
      BY DEF SlotsHeld
    <3>4. SlotsHeld' = [g \in DOMAIN SlotsHeld \cup {n} |->
                           IF g = n THEN [start |-> c.start, staff |-> p] ELSE SlotsHeld[g]]
      BY <2>3, <3>1, <3>2, <3>3
    <3>5. SlotsBooked' = SlotsBooked
      BY <2>1 DEF SlotsBooked, Blocking
    <3>6. Slots!Fits(c.start, p)
      BY <2>1, <2>2, AvailableFits
    <3>7. Slots!Hold(n, c.start, p)
      BY <2>1, <2>3, <3>4, <3>5, <3>6 DEF Slots!Hold
    <3> QED
      BY <2>1, <2>3, <3>7 DEF Slots!Next
  <2>5. CASE ~ (row.status = "active" /\ row.expires > now)
    <3>1. GoodHolds' \subseteq DOMAIN holds
      BY <2>3, <2>5
    <3> QED
      BY <1>0, <1>1, <2>1, <3>1
  <2> QED
    BY <2>4, <2>5
<1>4. ASSUME NEW c \in calls, CreateFromHold(c) PROVE Slots!Next
  <2> DEFINE h == c.hold
             row == NewAppointment(holds[h], c.at, c.key)
             place == [start |-> SlotsHeld[h].start, staff |-> SlotsHeld[h].staff,
                       key |-> c.key, stands |-> TRUE]
  <2>1. /\ h \in DOMAIN holds /\ holds[h] \in HoldRow /\ c.at \in Nat /\ c.key \in Keys
        /\ holds[h].status = "active" /\ holds[h].expires > now
        /\ KnownAppointment(c.key) = {}
        /\ row \in AppointmentRow
    BY <1>4, BookEffect DEF AllCurrent
  <2>2. /\ row.start = holds[h].start /\ row.staff = holds[h].staff /\ row.key = c.key
        /\ row.status \in BlockingStatuses
    BY <2>1, NewAppointmentTyped
  <2>3. /\ appts' = Append(appts, row) /\ holds' = [holds EXCEPT ![h] = Converted(@)]
        /\ now' = now
    BY <1>4 DEF CreateFromHold
  <2> HIDE DEF row
  <2>4. /\ DOMAIN holds' = DOMAIN holds /\ holds'[h].status = "converted"
        /\ \A g \in DOMAIN holds : g # h => holds'[g] = holds[g]
    BY <1>0, <2>1, <2>3, ConvertedTyped, Replaced
  <2>5. h \in GoodHolds /\ GoodHolds' = GoodHolds \ {h}
    BY <2>1, <2>3, <2>4 DEF GoodHolds
  <2>6. SlotsHeld' = Slots!Without(h)
    BY <2>4, <2>5 DEF SlotsHeld, Slots!Without, GoodHolds
  <2>7. SlotsHeld[h] = [start |-> holds[h].start, staff |-> holds[h].staff]
    BY <2>5, Places
  <2>8. place \in Place
    <3>1. row.start \in Starts /\ row.staff \in Staff
      BY <2>1 DEF AppointmentRow
    <3> QED
      BY <2>1, <2>2, <2>7, <3>1 DEF Place
  <2>9. SlotsBooked' = Append(SlotsBooked, place)
    <3>1. /\ SlotsBooked \in Seq(Place) /\ Len(SlotsBooked) = Len(appts) /\ Len(appts) \in Nat
          /\ DOMAIN appts = 1 .. Len(appts) /\ DOMAIN SlotsBooked = DOMAIN appts
      BY Places
    <3>2. SlotsBooked' \in Seq(Place) /\ Len(SlotsBooked') = Len(appts')
      BY PlacesAfter DEF Placed
    <3>3. /\ Len(appts') = Len(appts) + 1 /\ appts'[Len(appts) + 1] = row
          /\ DOMAIN appts' = 1 .. (Len(appts) + 1)
          /\ \A a \in DOMAIN appts : appts'[a] = appts[a]
      BY <1>0, <2>1, <2>3, Added
    <3>4. \A a \in DOMAIN appts : SlotsBooked'[a] = SlotsBooked[a]
      BY <3>1, <3>3 DEF SlotsBooked, Blocking
    <3>5. SlotsBooked'[Len(appts) + 1] = place
      <4>1. ASSUME NEW n \in DOMAIN appts', appts'[n] = row PROVE SlotsBooked'[n] = place
        <5>1. Blocking(n)' = TRUE
          BY <2>2, <4>1 DEF Blocking
        <5>2. SlotsBooked'[n] = [start |-> row.start, staff |-> row.staff, key |-> row.key,
                                 stands |-> Blocking(n)']
          BY <4>1 DEF SlotsBooked
        <5> QED
          BY <2>2, <2>7, <5>1, <5>2
      <4> HIDE DEF place
      <4>2. Len(appts) + 1 \in DOMAIN appts'
        BY <3>1, <3>3
      <4> QED
        BY <3>3, <4>1, <4>2
    <3> HIDE DEF place
    <3>6. /\ Append(SlotsBooked, place) \in Seq(Place)
          /\ Len(Append(SlotsBooked, place)) = Len(appts) + 1
          /\ Append(SlotsBooked, place)[Len(appts) + 1] = place
          /\ \A a \in DOMAIN appts : Append(SlotsBooked, place)[a] = SlotsBooked[a]
      BY <2>8, <3>1, Added
    <3>7. \A a \in 1 .. (Len(appts) + 1) : SlotsBooked'[a] = Append(SlotsBooked, place)[a]
      BY <3>1, <3>4, <3>5, <3>6
    <3> QED
      BY <3>2, <3>3, <3>6, <3>7, SameRowsSame
  <2>10. \A b \in DOMAIN SlotsBooked : SlotsBooked[b].key # c.key
    BY <2>1, Places DEF KnownAppointment
  <2>11. Slots!Book(h, c.key)
    BY <2>6, <2>9, <2>10 DEF Slots!Book
  <2> QED
    BY <2>1, <2>4, <2>5, <2>11, Places DEF Slots!Next
<1>5. ASSUME NEW c \in calls, Reschedule(c) PROVE Slots!Next
  <2> DEFINE b == c.appt  row == Moved(appts[b], c.start)
  <2>1. /\ b \in DOMAIN appts /\ appts[b] \in AppointmentRow /\ Blocking(b)
        /\ c.op = "reschedule" /\ c.at \in Nat /\ c.at <= now /\ c.start \in Starts
        /\ now' = now
    BY <1>5, RescheduleEffect DEF Reschedule
  <2>2. Relocate(c, c.start) /\ Fresh(c)
    <3>1. KnownHold(RescheduleKey(c.appt, c.key)) = {}
      BY <2>1 DEF FreshKeys
    <3> QED
      BY <1>5, <3>1, RescheduleEffect DEF Replayed
  <2>3. /\ row \in AppointmentRow /\ row.start = c.start /\ row.staff = appts[b].staff
        /\ row.key = appts[b].key /\ row.status = appts[b].status
    BY <2>1, MovedTyped
  <2>4. appts' = [appts EXCEPT ![b] = row]
    BY <2>2 DEF Relocate
  <2> HIDE DEF row
  <2>5. SlotsBooked' = [SlotsBooked EXCEPT ![b] =
                           [start |-> row.start, staff |-> row.staff, key |-> row.key,
                            stands |-> row.status \in BlockingStatuses]]
    BY <2>1, <2>3, <2>4, BookingStep
  <2>6. SlotsBooked' = [SlotsBooked EXCEPT ![b].start = c.start]
    <3>1. SlotsBooked[b] = [start |-> appts[b].start, staff |-> appts[b].staff,
                            key |-> appts[b].key, stands |-> Blocking(b)]
      BY <2>1, Places
    <3>2. [SlotsBooked[b] EXCEPT !.start = c.start] =
             [start |-> c.start, staff |-> appts[b].staff, key |-> appts[b].key,
              stands |-> Blocking(b)]
      BY <3>1
    <3>3. Blocking(b) = (row.status \in BlockingStatuses)
      BY <2>3 DEF Blocking
    <3> QED
      BY <2>3, <2>5, <3>2, <3>3
  <2>7. PICK new \in HoldRow : new.status = "converted" /\ holds' = Append(holds, new)
    BY <2>2 DEF Fresh
  <2>8. /\ DOMAIN holds \subseteq DOMAIN holds'
        /\ GoodHolds' = GoodHolds /\ \A h \in GoodHolds : SlotsHeld'[h] = SlotsHeld[h]
    BY <1>2, <2>1, <2>7
  <2>9. SlotsHeld' = SlotsHeld
    <3>1. /\ SlotsHeld = [h \in GoodHolds |-> SlotsHeld[h]]
          /\ SlotsHeld' = [h \in GoodHolds' |-> SlotsHeld'[h]]
      BY DEF SlotsHeld
    <3> QED
      BY <2>8, <3>1
  <2>10. /\ SlotsBooked[b].stands /\ SlotsBooked[b].staff = appts[b].staff
         /\ b \in DOMAIN SlotsBooked /\ appts[b].staff \in Staff
    BY <2>1, Places DEF AppointmentRow
  <2>11. Slots!Fits(c.start, SlotsBooked[b].staff)
    BY <2>1, <2>2, <2>10, AvailableFits DEF Fresh
  <2>12. Slots!Move(b, c.start)
    BY <2>1, <2>6, <2>9, <2>10, <2>11 DEF Slots!Move
  <2> QED
    BY <2>1, <2>8, <2>10, <2>12 DEF Slots!Next
<1>6. ASSUME NEW b \in DOMAIN appts, NEW status \in Statuses, Restatus(b, status)
      PROVE  [Slots!Next]_(Slots!vars)
  <2> DEFINE row == WithStatus(appts[b], status)
  <2>1. appts[b] \in AppointmentRow
    BY <1>0
  <2>2. /\ row \in AppointmentRow /\ row.start = appts[b].start /\ row.staff = appts[b].staff
        /\ row.key = appts[b].key /\ row.status = status
    BY <2>1, WithStatusTyped
  <2>3. appts' = [appts EXCEPT ![b] = row] /\ holds' = holds /\ now' = now /\ Blocking(b)
    BY <1>6 DEF Restatus
  <2> HIDE DEF row
  <2>4. SlotsBooked' = [SlotsBooked EXCEPT ![b] =
                           [start |-> row.start, staff |-> row.staff, key |-> row.key,
                            stands |-> row.status \in BlockingStatuses]]
    BY <2>2, <2>3, BookingStep
  <2>5. SlotsBooked[b] = [start |-> appts[b].start, staff |-> appts[b].staff,
                          key |-> appts[b].key, stands |-> Blocking(b)]
    BY Places
  <2>6. SlotsHeld' = SlotsHeld
    BY <2>3 DEF SlotsHeld, GoodHolds
  <2>7. CASE status \in BlockingStatuses
    <3>1. SlotsBooked' = SlotsBooked
      <4>1. SlotsBooked' = [SlotsBooked EXCEPT ![b] = SlotsBooked[b]]
        BY <2>2, <2>3, <2>4, <2>5, <2>7
      <4>2. SlotsBooked \in Seq(Place) /\ b \in DOMAIN SlotsBooked
        BY Places
      <4> QED
        BY <4>1, <4>2
    <3> QED
      BY <2>3, <2>6, <3>1 DEF Slots!vars
  <2>8. CASE status \notin BlockingStatuses
    <3>1. SlotsBooked' = [SlotsBooked EXCEPT ![b].stands = FALSE]
      <4>1. [SlotsBooked[b] EXCEPT !.stands = FALSE] =
               [start |-> appts[b].start, staff |-> appts[b].staff, key |-> appts[b].key,
                stands |-> FALSE]
        <5>1. SlotsBooked[b] \in Place
          BY Places
        <5> QED
          BY <2>5, <5>1, Resettled
      <4>2. (row.status \in BlockingStatuses) = FALSE
        BY <2>2, <2>8
      <4> QED
        BY <2>2, <2>4, <4>1, <4>2
    <3>2. SlotsBooked[b].stands /\ b \in DOMAIN SlotsBooked
      BY <2>3, <2>5, Places
    <3>3. Slots!Release(b)
      BY <2>6, <3>1, <3>2 DEF Slots!Release
    <3> QED
      BY <2>3, <3>2, <3>3 DEF Slots!Next
  <2> QED
    BY <2>7, <2>8
<1>7. CASE ReminderTask \/ Quiet
  <2>1. UNCHANGED <<now, holds, appts>>
    BY <1>7, TaskEffect DEF Quiet
  <2>2. UNCHANGED <<SlotsHeld, DOMAIN holds, SlotsBooked>>
    BY <2>1 DEF SlotsHeld, GoodHolds, SlotsBooked, Blocking
  <2> QED
    BY <2>2 DEF Slots!vars
<1>8. CASE ExpireHolds \/ Tick
  <2>1. appts' = appts /\ DOMAIN holds' = DOMAIN holds /\ (now' = now \/ now' = now + 1)
    BY <1>8 DEF ExpireHolds, Tick
  <2>2. GoodHolds' \subseteq DOMAIN holds
    BY <2>1 DEF GoodHolds
  <2>3. now <= now'
    BY <1>0, <2>1
  <2> QED
    BY <1>1, <2>1, <2>2, <2>3
<1> QED
  BY <1>3, <1>4, <1>5, <1>6, <1>7, <1>8, Shapes

\* With requests served at the time they read and no reschedule key sent
\* again, the handlers keep every promise about slots: they implement module
\* Schedule.
THEOREM ScheduleImplemented ==
    ASSUME MaxDelay = 0, ~Replays
    PROVE  Spec => ImplementsSchedule
<1>1. Init => AllCurrent /\ FreshKeys
  BY DEF Init, AllCurrent, FreshKeys
<1>2. TInv /\ AllCurrent /\ FreshKeys /\ [Next]_vars => (AllCurrent /\ FreshKeys)'
  BY CurrentNext, FreshNext
<1>3. Init => Slots!Init
  <2> SUFFICES ASSUME Init PROVE Slots!Init
    OBVIOUS
  <2>1. GoodHolds = {} /\ DOMAIN holds = {} /\ DOMAIN appts = {}
    BY DEF Init, GoodHolds
  <2>2. SlotsHeld = <<>> /\ SlotsBooked = <<>>
    BY <2>1 DEF SlotsHeld, SlotsBooked
  <2> QED
    BY <2>1, <2>2 DEF Slots!Init
<1>4. TInv /\ TInv' /\ AllCurrent /\ FreshKeys /\ [Next]_vars => [Slots!Next]_(Slots!vars)
  BY ScheduleStep
<1>5. Spec => [](TInv /\ AllCurrent /\ FreshKeys)
  BY <1>1, <1>2, AlwaysTInv, PTL DEF Spec
<1> QED
  BY <1>3, <1>4, <1>5, PTL DEF Spec, ImplementsSchedule, Slots!Spec
-----------------------------------------------------------------------------
(* Attempts.                                                               *)

\* Executions of the task that still have a reminder on their list.
Holders(id) == {w \in Workers : id \in work[w]}

\* Whoever has listed a reminder may try it once more.
AttemptsWithin ==
    \A id \in DOMAIN reminders :
        reminders[id].attempts + Cardinality(Holders(id)) <= MaxAttempts + Cardinality(Workers) - 1

LEMMA Executions ==
    ASSUME NEW id
    PROVE  /\ IsFiniteSet(Holders(id)) /\ Cardinality(Holders(id)) \in Nat
           /\ Cardinality(Workers) \in Nat /\ Cardinality(Holders(id)) <= Cardinality(Workers)
<1>1. IsFiniteSet(Workers)
  BY BookingAssumption
<1>2. Holders(id) \subseteq Workers
  BY DEF Holders
<1> QED
  BY <1>1, <1>2, FS_Subset, FS_CardinalityType

\* What a step does to the lists and to what was tried.
LEMMA AttemptStep ==
    ASSUME TInv, AttemptsWithin, [Next]_vars, NEW id \in DOMAIN reminders
    PROVE  reminders'[id].attempts + Cardinality(Holders(id)') <= MaxAttempts + Cardinality(Workers) - 1
<1> DEFINE H == Holders(id)  H1 == Holders(id)'
           tried == reminders[id].attempts  tried1 == reminders'[id].attempts
<1>0. /\ reminders[id] \in ReminderRow /\ tried \in Nat /\ MaxAttempts = 3
      /\ tried + Cardinality(H) <= MaxAttempts + Cardinality(Workers) - 1
      /\ IsFiniteSet(H) /\ Cardinality(H) \in Nat /\ Cardinality(Workers) \in Nat
      /\ work \in [Workers -> SUBSET DOMAIN reminders]
  <2>1. reminders[id] \in ReminderRow
    BY DEF TInv, RemindersOK
  <2>2. tried \in Nat
    BY <2>1 DEF ReminderRow
  <2> QED
    BY <2>1, <2>2, Executions DEF MaxAttempts, AttemptsWithin, TInv
<1>1. ASSUME H1 \subseteq H, tried1 = tried
      PROVE  tried1 + Cardinality(H1) <= MaxAttempts + Cardinality(Workers) - 1
  <2>1. Cardinality(H1) \in Nat /\ Cardinality(H1) <= Cardinality(H)
    BY <1>0, <1>1, Fewer
  <2> QED
    BY <1>0, <1>1, <2>1
<1>2. ASSUME ReminderTask, Delivering
      PROVE  tried1 + Cardinality(H1) <= MaxAttempts + Cardinality(Workers) - 1
  <2>0. PICK w \in Workers : \E i \in work[w] :
            /\ \/ reminders' = [reminders EXCEPT ![i] = Skipped(@)]
               \/ reminders' = [reminders EXCEPT ![i] = Sent(@)]
               \/ reminders' = [reminders EXCEPT ![i] = Failed(@)]
            /\ work' = [work EXCEPT ![w] = @ \ {i}]
    BY <1>2 DEF Delivering
  <2>1. PICK i \in work[w] :
            /\ \/ reminders' = [reminders EXCEPT ![i] = Skipped(@)]
               \/ reminders' = [reminders EXCEPT ![i] = Sent(@)]
               \/ reminders' = [reminders EXCEPT ![i] = Failed(@)]
            /\ work' = [work EXCEPT ![w] = @ \ {i}]
    BY <2>0
  <2>2. CASE i # id
    <3>1. H1 \subseteq H
      BY <1>0, <2>1, <2>2 DEF Holders
    <3>2. tried1 = tried
      BY <2>1, <2>2
    <3> QED
      BY <1>1, <3>1, <3>2
  <2>3. CASE i = id
    <3>1. H1 \subseteq H \ {w} /\ w \in H
      BY <1>0, <2>1, <2>3 DEF Holders
    <3>2. tried1 \in Nat /\ tried1 <= tried + 1
      <4>1. reminders'[id] \in {Skipped(reminders[id]), Sent(reminders[id]), Failed(reminders[id])}
        BY <2>1, <2>3
      <4> QED
        BY <1>0, <4>1, OutcomesTyped
    <3> HIDE DEF H, H1, tried, tried1
    <3>3. IsFiniteSet(H \ {w}) /\ Cardinality(H \ {w}) = Cardinality(H) - 1
      BY <1>0, <3>1, FS_RemoveElement
    <3>4. Cardinality(H1) \in Nat /\ Cardinality(H1) <= Cardinality(H) - 1
      BY <3>1, <3>3, Fewer
    <3> QED
      BY <1>0, <3>2, <3>4
  <2> QED
    BY <2>2, <2>3
<1>3. ASSUME ReminderTask, Relisting
      PROVE  tried1 + Cardinality(H1) <= MaxAttempts + Cardinality(Workers) - 1
  <2>1. tried1 = tried
    BY <1>3 DEF Relisting, SameRows
  <2>2. PICK w \in Workers :
            \/ work[w] = {} /\ work' = [work EXCEPT ![w] = DueReminders]
            \/ \E ids \in SUBSET work[w] : work' = [work EXCEPT ![w] = ids]
    BY <1>3 DEF Relisting
  <2>3. CASE \E ids \in SUBSET work[w] : work' = [work EXCEPT ![w] = ids]
    <3>1. H1 \subseteq H
      BY <1>0, <2>3 DEF Holders
    <3> QED
      BY <1>1, <2>1, <3>1
  <2>4. CASE work' = [work EXCEPT ![w] = DueReminders] /\ id \notin DueReminders
    <3>1. H1 \subseteq H
      BY <1>0, <2>4 DEF Holders
    <3> QED
      BY <1>1, <2>1, <3>1
  <2>5. CASE id \in DueReminders
    <3>1. tried < MaxAttempts
      BY <2>5 DEF DueReminders
    <3>2. H1 \subseteq Workers
      BY DEF Holders
    <3>3. IsFiniteSet(Workers)
      BY BookingAssumption
    <3> HIDE DEF H, H1, tried, tried1
    <3>4. Cardinality(H1) \in Nat /\ Cardinality(H1) <= Cardinality(Workers)
      BY <3>2, <3>3, Fewer
    <3> QED
      BY <1>0, <2>1, <3>1, <3>4
  <2> QED
    BY <2>2, <2>3, <2>4, <2>5
<1>4. ASSUME ~ReminderTask
      PROVE  tried1 + Cardinality(H1) <= MaxAttempts + Cardinality(Workers) - 1
  <2>1. work' = work
    BY <1>4, Shapes DEF CreateHold, CreateFromHold, Reschedule, Restatus, ExpireHolds, Tick, Quiet
  <2>2. H1 \subseteq H
    BY <2>1 DEF Holders
  <2>3. tried1 = tried
    BY <1>4, ReminderStep DEF Withdrawn
  <2> QED
    BY <1>1, <2>2, <2>3
<1> QED
  BY <1>2, <1>3, <1>4, TaskEffect

\* A reminder that keeps failing is tried three times, and once more for each
\* further execution that had listed it by then.
THEOREM AttemptsLimited == Spec => []AttemptsBounded
<1>1. Init => AttemptsWithin
  BY DEF Init, AttemptsWithin
<1>2. TInv /\ AttemptsWithin /\ [Next]_vars => AttemptsWithin'
  <2> SUFFICES ASSUME TInv, AttemptsWithin, [Next]_vars, NEW id \in DOMAIN reminders'
               PROVE  reminders'[id].attempts + Cardinality(Holders(id)')
                         <= MaxAttempts + Cardinality(Workers) - 1
    BY DEF AttemptsWithin
  <2>1. CASE id \notin DOMAIN reminders
    <3>1. reminders'[id].attempts = 0
      BY <2>1, NewRows DEF NewReminder
    <3>2. work' = work
      <4>1. ~ReminderTask
        BY <2>1, TaskEffect DEF Delivering, Relisting, SameRows
      <4> QED
        BY <4>1, Shapes DEF CreateHold, CreateFromHold, Reschedule, Restatus, ExpireHolds, Tick,
                            Quiet
    <3>3. Holders(id)' = {}
      BY <2>1, <3>2 DEF Holders, TInv
    <3>4. Cardinality(Workers) \in Nat /\ MaxAttempts = 3
      BY Executions DEF MaxAttempts
    <3> QED
      BY <3>1, <3>3, <3>4, FS_EmptySet
  <2>2. CASE id \in DOMAIN reminders
    BY <2>2, AttemptStep
  <2> QED
    BY <2>1, <2>2
<1>3. TInv /\ AttemptsWithin => AttemptsBounded
  <2> SUFFICES ASSUME TInv, AttemptsWithin, NEW id \in DOMAIN reminders
               PROVE  reminders[id].attempts <= MaxAttempts + Cardinality(Workers) - 1
    BY DEF AttemptsBounded
  <2>1. reminders[id] \in ReminderRow
    BY DEF TInv, RemindersOK
  <2>2. reminders[id].attempts \in Nat
    BY <2>1 DEF ReminderRow
  <2> QED
    BY <2>2, Executions DEF AttemptsWithin, MaxAttempts
<1> QED
  BY <1>1, <1>2, <1>3, AlwaysTInv, PTL DEF Spec
=============================================================================
