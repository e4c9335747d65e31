# Verification of the Althair back end

Althair is a Django modular monolith (`backend/apps`) with Celery tasks over one PostgreSQL
database, and React front ends that only call its HTTP API. This directory holds TLA+ models of the
parts of the back end that decide something over time: their specifications, the TLC runs that
check them on small instances, and theorems about them that TLAPS checks for every instance.

## 1. The system

State lives in database rows. Three kinds of actors change it, and none waits for another except
through row and advisory locks:

- HTTP handlers: staff of an organization, platform staff, customers on public pages, and provider
  webhooks, which are delivered at least once and out of order;
- Celery tasks: periodic ones (billing lifecycle, hold expiry, reminders, retries) and one-shot ones
  (AI runs, provider events), acknowledged late, hence run again after a crash;
- callbacks after a commit (`transaction.on_commit`), lost when the process dies.

A handler is usually one transaction under READ COMMITTED that locks the row it is about; what it
read before the lock may be stale, what it sends to a provider is not undone by a rollback, and what
spans two transactions can be interrupted between them. Those are the places the models look at.

| Component | State | Operations | What makes it correct |
|---|---|---|---|
| Wallet and ledger (`billing/wallet.py`) | cached balance, append-only entries | top-up, adjustment, reversal, freeze, pay, retry, reconcile | balance = ledger; one debit per invoice; no double refund; keys post once |
| Subscriptions, invoices, entitlements (`billing/services.py`) | subscription, invoices, entitlement, scheduled change | issue, void, mark paid, grant, grace, cancel, change, renew | one invoice per period; entitlement follows the subscription; access restricted only after grace |
| Lifecycle task (`billing/tasks.py`) | none: lists, then handles | trial end, renewal, grace end, plan change | a stale listing does no harm |
| Usage metering (`billing/services.py`) | usage events, aggregates | record, reconcile, invoice lines | a total never exceeds its events; an event counts once per meter |
| Provider events (`billing/providers.py`, `views.py`) | provider event rows, payment attempts | checkout, receive, process | each event takes effect once; one successful attempt per invoice |
| Booking (`booking/services.py`, `tasks.py`) | holds, appointments, reminders, waitlist | hold, book, confirm, reschedule, cancel, remind | no double booking; one appointment per hold; a reminder for each appointment |
| AI runtime (`ai_runtime/services.py`, `tools.py`) | runs, drafts, tool calls, handoffs, AI state | queue, run, supersede, draft, approve, hand off, execute a tool | a human reply silences the AI; one reply per inbound message; a tool acts once and only as decided |
| CRM (`crm/services.py`, `views.py`) | contacts, identities, conversations, messages, leads, tasks | ingest, send, delivery updates, merge, move a lead | a provider message is stored once; dates of a lead fit its status |
| SMS (`sms/services.py`, `consent.py`) | consent, attempts, envelopes, circuit breaker | inbound, status, send, retry, erase | nothing is sent while a number is recorded as opted out; a final status stands |
| Gmail (`gmail_integration`) | connection, cursor, notifications, sync runs, attempts | OAuth, Pub/Sub, four synchronisations, watch, send, retry | the cursor passes stored mail only; the assistant is asked once; a reply goes out once |
| Instagram (`instagram`) | connection, window, events, attempts | webhook, echo, read, send, retry | a reply stored under Meta's id has no copy; it is handed over again only after a lost answer |
| Telegram (`telegram`) | bot, token, updates, attempts | provision, rotate, update, send, retry | an update has one effect |
| Web chat (`web_chat`) | installation, session, numbered events | open, post, resume, close, publish, poll | a visitor's cursor passes no event it was not given |
| Voice (`voice/services.py`, `controller.py`) | calls, controller jobs, transcripts | route, claim, handle, take over, finalize | one worker per call; billed once; a transcript needs consent |
| Control plane (`control_plane`) | staff, sessions, MFA, lifecycle, controls, jobs, requests, incidents | log in, suspend, restore, approve, execute | a code is good once; reactivation gives back the status a suspension took; two pairs of eyes |
| Organizations, users | members, invitations, passwords, tokens | create, invite, accept, change role, log in, reset | an owner remains; an invitation and a link work once |
| Assistant context | profile, revisions | edit, onboard, publish | a published profile is its revision |
| Intake and jobs (legacy) | threads, calls, mails, job records | receive, classify, file, schedule | one agent run per text; one job per mail; rows of a job agree |
| Channel connections, early access, core, settings, evaluations, front ends, deployment | | | not modelled, section 6 |

## 2. The modules

| Module | Models | State and actions |
|---|---|---|
| `LedgerEntries` | columns of `WalletTransaction` | direction, type, amount, key, invoice, reversed entry, resulting balance and version |
| `Ledger` | abstract: what a wallet promises | one action, `Post` |
| `Billing` | wallet, invoices, subscription, entitlement, lifecycle task of one organization | one action per handler; workers with a list in hand that may crash |
| `Schedule` | abstract: what a branch promises about its slots | `Hold`, `Lapse`, `Book`, `Move`, `Release` |
| `Conversation` | abstract: what is promised of the AI in a conversation | a message of either side; a run begins, is resumed, ends, answers, or has its action carried out |
| `Usage` | events and totals of two meters, periods, usage lines of invoices | a transaction is a read and a commit, with the total's row lock between |
| `Payments` | one invoice, its attempts, events of the provider | recording of an event and its handling are separate; handlers may die |
| `Booking` | holds, appointments, reminders of one branch and one service | one action per transaction; requests that have read the clock; executions of the reminder task |
| `AIRuntime` | AI runs, drafts, proposals, handoffs of one conversation | one action per transaction of a person, one per step of a worker |
| `AITools` | tool rounds of one run, policies, approvals, effects | workers step by step; a delivery lost and repeated |
| `Crm` | contacts, one thread, its messages | deliveries ingested by concurrent workers; forms that save stale rows |
| `CrmLeads` | pipelines, stages, one lead, one task | each request holds the row it read |
| `Sms` | one connection, one number, envelopes, messages | a retry is split around the call of the carrier; the rest is one action per transaction |
| `Gmail`, `GmailReply` | one mailbox; one reply | synchronisations step by step; a reply row by row |
| `Instagram` | one account, one conversation, one reply | the send is split around the call of Meta |
| `Telegram` | one bot, one chat, one message | rotation, health and pausing hold a copy of the row |
| `WebChat` | one installation, one session, replies | a request authenticates first and locks later; publishing is a lock, a number and a commit |
| `Voice` | calls of one number, their jobs and workers | the loop of the worker, step by step |
| `Organizations`, `Accounts` | members and invitations; one account | a request checks, then locks and saves |
| `AssistantContext` | profile, revisions, onboarding | forms hold the copy they read |
| `PlatformAccess`, `ControlPlane`, `PlatformRequests` | staff and sessions; lifecycle, controls, jobs; requests and incidents | a request keeps the role it was authenticated with |
| `Jobs`, `IntakeChat`, `IntakeCalls`, `IntakeMail` | the earlier product | handlers without transactions, statement by statement where it matters |
| `Channels`, `Workspace` | the channels, and the other parts, over common variables | `focus` is the part that runs |
| `MCBilling`, `MCBooking`, `MCAIRuntime`, `MCWorkspace` | model values and symmetry sets for TLC | |
| `LedgerProofs`, `BillingProofs`, `BookingProofs`, `AIRuntimeProofs`, `ChannelsProofs`, `WorkspaceProofs` | theorems | |
| `RowProofs` | lemmas on tables kept as sequences of rows | |
| `SumProofs` | lemmas on sums over a set of rows, by induction | |

`Billing`, `Booking` and `AIRuntime` share no rows but the organization's entitlement and the conversation a
reminder is sent to, so each is checked by itself; where one touches another (a reminder pauses the AI, a
message may be refused by billing) the action stands for the effect in its own module. The same holds for the other
parts: a channel meets the CRM and the AI runtime only in calls (`ingest_inbound_message`,
`supersede_active_runs`, `record_message_usage`) whose effect on the channel is part of the channel's action.
`Channels` and `Workspace` therefore instantiate the parts over the same variables `row1`, `row2`, ... and
choose at the start which of them runs: a run explores the behaviours of each part with all its actors
interleaved, and no product of parts that cannot influence each other.

Three modules are abstract. `Ledger`, `Schedule` and `Conversation` say in a page what a customer or a member of
staff may rely on, without requests, workers, retries or clocks; `Billing`, `Booking` and `AIRuntime` are shown to
implement them (`ImplementsLedger`, `ImplementsSchedule`, `ImplementsConversation`), by TLC on the runs below and by
TLAPS for all values of the constants (section 4 names the hypotheses). The mappings are sets of rows: the
schedule's `held` are the holds that are good now, `booked` the appointments in order with whether they stand; the
conversation's `current` is the run that is under way and `carried` the runs whose proposal was executed.

### Billing

One organization with one wallet. `wallet`, `ledger`, `invoices`, `sub`, `entitlement` and `change` are
the rows; `job` is what each worker is doing between two transactions: a callback of a committed
top-up, the rest of a list of due invoices, or a subscription listed by the lifecycle task. A handler
that raises `BillingError` rolls back, so it is a disabled action; an operation whose refusal is
visible (a retry that stops) is an action of its own. Amounts, prices and lengths are constants.
`UniqueKeys` states the runbook's rule that staff give each reversal a key of its own.

### Booking

`holds`, `appts` and `reminders` are tables; a reminder is named by what its idempotency key is made of
(appointment, lead, start). Granting and converting a hold, moving and cancelling run in one transaction
under the organization's advisory lock, hence one action each. What is not atomic is the clock: a handler
calls `timezone.now()` first and then waits for its locks. `calls` holds the requests in between with the
time they read (`at`), and `MaxDelay` is how old it may get. `Replays` says whether a client sends a
reschedule key again after it was answered. `Answer` is a request that is refused, or answered with what
an earlier one did. The reminder task lists ids in one step (`work`) and then handles each in a
transaction; several executions overlap, and one may die between two reminders. `Poisoned` are the
contacts whose channel raises an error of its own, which `deliver_due_reminder` does not catch: the attempt is rolled
back and the execution ends, with the rest of its list untouched.

Reduced: opening hours, breaks and time zones are the set of offered starts; one service, one shared
resource; the text of confirmations and events.

### AIRuntime

`chat` is the conversation in order, and a position in it is the time of a message. A row of `runs`
carries its draft and its proposal, which exist once per run. Transactions of people (`AgentReply`,
`ApproveDraft`, `SetAIState` and so on) lock the conversation, most through a
`select_for_update` with joins, and are atomic. `process_run` is not: after its first transaction (`Start`)
each step is an action of its own (`CheckContext`, `Answered`, `ChooseReply`, `Send`, `WriteDraft`,
`Complete`), holds no lock, and writes the run's status without a look at the row (`Save`). Tasks
are acknowledged late: an evaluation whose worker dies runs again, with or without the call it was to
make having been made; a run whose worker dies is delivered again. What a prompt contains beside
the chat is a version number, `facts`; a run keeps the prompt it was queued with. The provider's answer is a
free choice.

Reduced: limits and usage of tokens, tools that need no approval (an edit of the facts), several
proposals of one run, the four external channels.

### Channels

What the channel modules have in common: a webhook is recorded first, under a key that makes a second delivery
harmless, and processed by a task that is run again when it failed or its worker died; an outbound message is a row
that is queued, handed to the provider outside or inside a transaction, and retried. The modules differ in what is
atomic, and follow the code there: `Sms` keeps its rows locked while it talks to the carrier (`smsRetry`,
`ConnUnlocked`), `GmailReply` commits row by row and may die at every one (`grReq`, `Crash`), `Instagram` saves the
answer of Meta in a second step, which the echo may overtake (`igCalled`), `Telegram` and `Gmail` hold copies of a
connection row while they talk to the provider (`tgWork`, `gmSync`, `gmCheck`), `WebChat` decides on a session it
authenticated without a lock (`wcReq`), `Voice` on a call it read before the last event (`vcWork`). What a provider
does with a message it took (accepts, refuses, answers too late) is a choice.

A webhook that fails half way is not always undone. `process_notification` of Gmail catches the error inside its
transaction, so what it stored and asked for before the failure is committed (`NotificationFailed`); when the cursor
is too old for Google it falls back to the newest mails and moves the cursor all the same (`run = "recent"`). A command
of the Telegram bot is answered by a message with retries of its own (`reply`, `tries` of an update). A visitor of the
web chat (`wcVisitor`) keeps a cursor and what it was given; a page ends after `PageSize` events, and the cleanup
deletes the events of sessions nobody may read any more (`wcSess.over`).

In `Gmail` a mail is the number of the change that added it, so that the cursor, the head of the mailbox and a
range of history are numbers; `Noted` bounds the mails Pub/Sub tells of. In `Telegram` and `Instagram` an event has
a kind only. In `Voice` a transcript is a number of segments.

### Organizations, CRM and the platform

These parts are forms and short transactions; what can go wrong is between the read and the save. A request is
therefore a record of what it read (`orReq`, `ldRead`, `crEdit`, `asRead`, `jbReq`, `cpReq`, `paReq`), and its save
writes what the code writes: named columns of that copy, or the whole row. Where the code locks, the lock is a guard
(`Locked`, `Free`). `PlatformAccess` abstracts a code of the authenticator to the secret and the time step it was
computed from.

### The earlier product

`IntakeChat` is what the code does on a database without row locks: its one call of `select_for_update` stands
outside a transaction, which raises on a database that has them (`RowLocks`; the view then answers 200 and the text
is lost). `IntakeCalls` and `IntakeMail` commit statement by statement. What classifiers and parsers say of a text
is a choice among the outcomes the gates tell apart.

## 3. Runs

| Run | Bounds | Shows |
|---|---|---|
| `BillingWallet` | 3 staff keys, 1 worker, 5 entries, 2 invoices, 2 time units | top-ups, payments, refunds and retries in every order keep money and invoices in agreement, and implement `Ledger`. Five entries let a top-up be charged, refunded and charged again; an amount of 3 against a price of 2 leaves a remainder that does not cover the second invoice |
| `BillingLifecycle` | 1 key, 1 worker, 3 entries, 3 time units | a worker acts on an old listing, between renewals and plan changes of staff: nobody is restricted out of turn, the entitlement follows, a period has one invoice and advances behind its payment. Three time units reach the end of a grace period that began with the period |
| `BookingSlots` | 2 staff, room for 2, 3 overlapping starts, 3 holds, 2 appointments, clock read late: no | nothing is overbooked, and the operations implement `Schedule`: a hold is used for one booking of the slot it keeps, a move finds room, and what was given up or has lapsed is not taken back (`FreedForGood` is part of it). Two staff and a room for two make both limits bite |
| `BookingRequests` | 2 requests at a time, clock one unit old, replays, a raising channel | holds exclude each other with any clock reading; a key books once |
| `BookingReminders` | 2 executions, 2 customers of whom one's channel raises, up to 2 appointments moved between 2 starts, crashes | reminders are sent once, for the current time, not after the end, and each is dealt with unless one that raises is due no later |
| `AIRuntimeAnswers` | 2 workers, 2 messages, 2 runs, 1 crash, autopilot | one run at a time, nothing stale approved, nothing reported that was not sent, and the runtime implements `Conversation`: one answer of each kind per run (`AnswersOnce` is part of it), for a message of the customer, and an employee's message ends the run |
| `AIRuntimeFinish` | 1 worker, 2 messages, 1 run, requested drafts, 1 edit, 1 crash | a run handed to a worker ends or waits for a person |
| `Channels` | SMS: 1 message with 2 attempts, 1 envelope in flight whose place is taken again; Gmail: 2 mails, 1 at a time in a history or a listing (so that a synchronisation meets more than its bound), a notification with 2 attempts; reply: 2 requests, 3 attempts, 1 lost answer; Instagram: 4 ticks, both windows; Telegram: 1 update, of any kind, 2 deliveries, 2 attempts of an answer; web chat: 1 post, 2 replies, 3 events, pages of 2, expiry and cleanup; voice: 1 call, 2 attempts (calls meet in the count of `MaxConcurrent` only, which is therefore not reached) | see below |
| `Workspace` | two requests, handlers or workers at a time in every part; 1 or 2 rows of each kind | see below |
| `BillingRepay`, `BookingReplay`, `AIRuntimeBurst` | as small as the counterexample allows | disagreements between code and documentation, section 5 |

`Channels` checks:

- `OptOutIsHonoured`: nothing is handed to the carrier while the number is recorded as opted out or without consent,
  whether STOP comes before the first attempt, between two, or while one stands between its checks and the carrier; a
  first send also stops at a blocked or invalid number. A START ends an opt-out, and so does an employee who blocks the
  number and then opts it in; section 5 has what this leaves open;
- `CarrierVerdictIsFinal`: a final status stands, in every order of callbacks, sends and retries;
- `CursorAfterIngestion`: what reads the history of a mailbox moves its cursor past the mails within its message bound
  only when they are stored: a reconciliation when it ends, a notification in each of its steps, a failed one included
  (of more mails than `HistoryLimit`, and where an old cursor makes it fall back to recent mail, the code skips some,
  section 5);
- `RepliesAreSingle`: a reply is handed to Gmail or Meta again only after an answer was lost, and an Instagram reply
  stored under Meta's id has no copy made by its echo (an echo before that makes one, section 5);
- `DeliveriesActOnce`: one effect of a Telegram update, one evaluation of a mail, one bill of a call;
- `CursorSkipsNothing`: a visitor who may still read was given every event its cursor has passed, whatever the page
  size and the overlap of posts, replies and cleanup; no publication is refused because its number is taken, and no
  message has two. The lock in `publish_event` is for the second: without it two publications take one number, and the
  database refuses one of them;
- `TranscriptNeedsConsent`: no segment is stored before the caller agreed or after he declined.

`Workspace` checks:

- `UnreadIsStored`: the unread counter counts stored messages, with two workers on one delivery and merges between;
- `RowsAgree`: dates of a lead fit its status, numbers and schedule of jobs agree, a published profile is its revision;
- `SecretsWorkOnce`: one membership per invitation, one change per link, one login per code;
- `GovernanceHolds`: reactivation gives back the recorded status, a deletion has two approvals;
- `CountedOnce`: totals never exceed their events, of which none is a correction, and an invoice is paid by one attempt;
- `HandledOnce`: one agent run per text, one filing per mail, one effect per tool call;
- `VerdictsStand`: details of a call and decisions on tool calls are not taken back.

Every bound is a constant in a guard: time, ledger entries and invoices (`Tick`, `Write`), requests, holds
and appointments (`Begin...`), messages, runs, deliveries, facts and crashes; in the other modules the constants
whose comment says "bound". Two actors of a kind are what the races need: every hazard listed is between two. Rows
are few because handlers name one row each; where a limit of the product is to bite (seats, attempts, segments,
concurrent calls, history) its value is below what the bounds allow. Symmetry is used for keys, staff, workers and the
interchangeable requests of `Workspace`, and never in a run with a liveness property. `Workspace` does not
check for deadlock: members, authenticator codes and calls do come to an end when their bounded work is used up.

Fairness. In `Booking` the beat starts the reminder task every minute (weak fairness of the listing) and an
execution is not killed at every reminder (strong fairness of a delivery, since a crash disables
it). In `AIRuntime` workers keep working and the broker hands out what it holds (weak fairness; the number
of crashes is bounded, so weak is enough). Nothing is assumed of customers, employees or providers. The other
modules state no fairness: their promises are safety.

## 4. Proofs

`LedgerProofs` proves, for every set of keys, that a wallet that follows `Ledger` is well typed, chained
(`AlwaysChained`: the balance is what replaying the ledger gives), keeps its promises (`PromisesKept`) and
never rewrites an entry. The invariants are inductive once typing is known: `Post` compares the new entry
with all earlier ones.

`BillingProofs` proves of `Billing`, for all values of its constants under `BillingAssumption`:

- `Typed`: the inductive invariant is `TypeOK` with `JobsOK` (a worker's list holds existing invoices, a
  grace listing is not from the future), which the handlers of a list need;
- `LedgerImplemented`: every step is a `Post` or leaves the wallet alone. The strengthening is
  `PaymentKeyed` (an entry that names an invoice has the key derived from it): it turns the
  uniqueness of keys into the uniqueness of payments. Through an instance of `LedgerProofs`,
  `WalletPromises` transfers that module's theorems to the code's wallet;
- `ReconciliationHolds`: the balance is the sum of what the ledger moved, and the replay the reconciliation does
  (a fold over the entries) finds nothing. The fold of the community modules takes the entries in no stated order:
  `SumProofs` shows that the recursive function it is made of exists (`Solvable`), that any entry may be taken first
  (`AnyRowFirst`), and that credits minus debits is what a replay in order arrives at (`Replayed`). That needs
  induction, done without the library's induction theorems: a set of numbers that is not empty has a least element
  (`LeastNumber`), so a *set* that holds 0 and with a number its successor holds all of them (`Induction`).
  `Reconciled` applies it to `P!Chained`, which `LedgerProofs` gives;
- `EntitlementCurrent` and `GraceHonoured`;
- `ChargesHonoured`: if `UniqueKeys`, money taken for an invoice is never held against an open or
  void invoice. The strengthening `ChargesOK` adds that the invoice exists, and the step for a
  reversal uses `WalletPromises`: no other payment names the reopened invoice;
- `PeriodsInvoicedOnce`: a new invoice has a period for which there was none, and no step changes the period of an
  invoice (`Extends`), so no worker's stale listing can matter;
- `PeriodsArePaidFor`: a step that moves the period leaves a paid invoice that ends where the new one begins
  (`PaidUpTo`), except grants and plan changes;
- `PaymentsAreFull` by `PaymentsOK`, which adds `Whole`: what is due of a draft or open invoice is its total.

`BookingProofs` proves every safety property of `Booking` that a run checks. One lemma (`Shapes`) reduces
the steps to eight kinds; the others say what each kind leaves of a hold (`HoldStep`), an appointment
(`AppointmentStep`) and a reminder (`ReminderStep`, `NewRows`).

- `Typed`: the inductive invariant `TInv` adds to `TypeOK` that a request carries a time that has passed
  (its age is what `HoldsExclude` depends on);
- `HoldsExclude`: `AvailableHasRoom` shows that the interval the code looks up covers every instant of the
  slot, and that what is good now was good at any earlier reading; so the count taken then is not too low;
- `NothingOverbooked` assumes `MaxDelay = 0` and `~Replays`, and needs two more invariants: requests carry
  the present time (`AllCurrent`: the hold that becomes an appointment is still good, so one unit replaces
  another), and no hold stands under the key of a reschedule on its way (`FreshKeys`: the slot is looked
  at). Without the second, `BookingReplay` is the counterexample;
- `ScheduleImplemented`, under the same two hypotheses and from the same invariants: each kind of step is an action of
  `Schedule` or changes nothing it speaks of. A step of the clock is `Lapse`; a reschedule is `Move` together with
  the hold it leaves behind, which is converted and so never good. With an old clock reading a lapsed hold can
  still be booked, and with replays a moved appointment takes its slot back unseen (section 5): the code keeps the
  promise only without the two;
- `KeyBooksOnce`, `FreedSlotsStayFree` (for requests of every age, unlike `ScheduleImplemented`), `OverIsSilent`,
  `RemindedForNow`;
- `RemindedOnce` by `SentIsMarked` (a row that has gone out has the status `sent`);
- `AttemptsLimited` by `AttemptsWithin` (attempts plus executions that still list the row stay within the
  bound); no run states it.

`AIRuntimeProofs` proves every safety property of `AIRuntime` that a run checks, for any number of workers
and deaths. `Effects` reduces a step to what it does to the runs (`RunShape`), the chat and the workers;
`Rewrite` says what a handler may do to one row.

- `Typed`, `OneRunAtATime` (a save that makes a run active either finds it active or finds no other),
  `AnswersAreUnique`, `StaleIsUnused`;
- `CompletedHasAnswer` by `AnswerKnown`: a worker about to save `completed` has seen its answer stored,
  and neither messages nor drafts go away;
- `ConversationImplemented`, without any hypothesis. `Voices` lists the actions that say something; of the others,
  `Beginning` and `Writing` show what a queued or rewritten row is in the conversation. It rests on two conjuncts of
  the invariant: an evaluation still to come is of a customer's message (so that a run is), and a rewritten row keeps
  the message it is about, and becomes active only where no other is. `Resume` is in the abstract specification
  because the code does it: a save of `waiting_for_approval` over a withdrawal puts the run under way again, though
  once an employee has written neither its draft nor its action can be used.

`ChannelsProofs` proves the eight properties that the run `Channels` checks, for any number of messages, mails,
events, calls, requests and workers. Each part has an invariant of its own; `ChannelsInv` states that the part in
`focus` keeps its own, and `ChannelsStep` that a step keeps it and does what the action properties say. The
strengthenings:

- `SmsInv`: the message of a retry that is under way is `sending`, one that is failed or sending was handed over
  `MaxHanded` times at most, and while a retry is under way the number has consent and has not opted out (`Reachable`;
  it may be blocked or invalid). The last is what `OptOutStands` rests on: the retry does not lock the consent, but
  STOP and erasure wait for the connection row it holds, and the form of an employee, which does not wait, knows no
  opt-out;
- `ReplyInv` (`CallsOK`: one request at most calls Google, for a reply not handed over) and `InstagramInv` (a row
  that knows Meta's id has no copy by its echo, and one still to be sent was handed over no more often than an answer
  was lost) give `RepliesStaySingle`;
- `TelegramInv` (`UpdateOK`: until its answer is accepted, an update was answered no more often than an answer was
  lost, through all retries of the answer) and `GmailInv` (a mail not stored was asked about by nobody) give most of
  `DeliveriesStaySingle`;
- `GmailInv` (`ReadIsStored`): of the mails within the bound that a synchronisation read past the cursor, each is still
  on its list, or stored. It gives `CursorPassesTheStored`, which covers steps that fail half way. The fallback of a
  notification to the newest mails, and more new mails than the bound, are in the module and outside the promise;
- `WebChatInv`: who holds the row of the session has a number above all published ones, for a message not yet published
  (`LockOK`), and every event the visitor's cursor has passed was given, unless nobody may read the session any more and
  its events may be gone (`CursorOK`, `Gone`). `Highest` says that the end of a page is its greatest number. Together
  they give `CursorPassesTheGiven`;
- `VoiceInv`: a call that has not ended is not billed, and a transcript is kept only where the caller agreed or did
  not have to.

`WorkspaceProofs` does the same for the fifteen parts of `Workspace`, with any number of actors. What the
invariants add to the typing of rows and copies:

- `CrmInv`: a settings form holds no more unread messages than are stored, so saving an old one overstates nothing;
- `LeadsInv`, `ContextInv`: a copy that a request holds agrees within itself, as the row did when it was read;
- `MembersInv`: an invitation that can still be accepted was not yet. A reset link needs no more than that it was
  used once at most, since its row is locked, looked at and used up in one step;
- `AccessInv` (`Spent`): a code that was accepted is of a former secret, of no later step than the device remembers,
  or a recovery code that is gone;
- `ControlsInv`: a suspended organization is recorded as it was; `DataInv`: destructive work is approved by owners
  only, and by two once it is approved;
- `JobsInv`: numbers are at most the counter, a create holds its lock and the next number, and every copy an edit
  holds has a date if it has a time;
- `ChatInv`: no agent run for a text that is not stored; `CallsInv` (`Saves`): of the details, a handler saves only
  those its copy has; `MailInv`: a mail that has a provider id has one row at most, filed as a job request exactly
  if it has a job (`Filed`). `GatesAgree` needs no induction: it is proved for every mail the parsers can make;
- `UsageInv`: the key of an event under way is in no other request and not stored; totals, and the sums and overages
  that requests carry, are at most what is counted, which no later event lowers (`SumsOK`, `OverageOK`);
- `PaymentsInv` (`OnePays`): an attempt has succeeded only on a paid invoice, and one at most;
- `ToolsInv`: a worker about to execute `Holds` a call that no other worker has and no person decides, proposed or
  withdrawn; the call of an effect has succeeded and has that effect only (`EffectsOK`).

Assumptions. Bounds are natural numbers; the deliveries of the CRM and the messages of `Usage` are finite sets,
since a counter is compared with the number of their rows; the holder of the authenticator is a member of the staff,
the creator a user, `sent` a verdict; values that stand for "none" or "nobody" are not among the names they are
compared with. `MCWorkspace` and `Channels.cfg` give values to all of them, and TLC evaluates them.

Only model-checked: the liveness properties `RemindersAreHandled` and `RunsFinish`, which need fairness and
`ENABLED`, both beyond this prover. Every other property of a run that is to pass is a theorem. `ScheduleImplemented`,
`NothingOverbooked` and `ChargesHonoured` carry hypotheses on constants (`MaxDelay`, `Replays`, `UniqueKeys`), which
their runs share; all other theorems hold without.

## 5. Disagreements found

Each has a run that ends in a counterexample and an entry under `findings` in PROJECT.json.

- `BillingRepay`: paying an invoice again after a refund meets the key of the first payment and takes no money.
- `BookingReplay`: a reschedule request sent again moves the appointment back to a slot that may be taken.
- `AIRuntimeBurst`: the run for a first message is queued; a second message arrives and its evaluation is skipped because
  of that run; the run then finds another prompt than the one it was queued with and is superseded; no run considers
  the second message.

The modules state more of what the documentation says and the code does not keep; TLC refutes each when it is
checked, and no run does.

| Property | Document | What happens |
|---|---|---|
| `Billing!CancellationTakesEffect` | billing-subscriptions.md:32 | a subscription cancelled at the end of its period is renewed |
| `Booking!EveryReminderIsHandled` | booking.md:75 | a reminder whose channel raises an error of its own ends the task for everybody, every minute |
| `Organizations!OwnerRemains` | client-onboarding.md:39 | two owners demote each other at once |
| `PlatformAccess!PlatformOwnerRemains` | internal-control-plane.md:20 | two platform owners do the same |
| `PlatformRequests!CriticalNeedsAdmin` | internal-control-plane.md | an incident raised to critical by an edit asks for no admin |
| `Crm!TombstoneStays` | crm-core.md:28 | an edit form writes a merged contact back to active |
| `Crm!ReplyPausesAI` | ai-conversation-runtime.md:69 | a settings form saved after a reply writes the old AI state back |
| `Sms!ProviderOptOutStands` | sms-messaging.md:51 | an employee's form replaces an opt-out |
| `Sms!EveryPathRechecks` | sms-messaging.md:52-53 | a number blocked between the checks of a retry and its call is sent the message: the retry reads the consent without a lock |
| `Gmail!EveryPassedIsStored` | gmail-email-integration.md:38-41 | more new mails than `HistoryLimit` move the cursor past those not read |
| `Gmail!DisconnectHolds` | gmail-email-integration.md:21 | a renewal that was under way connects the mailbox again |
| `Instagram!EchoFindsReply` | instagram-messaging.md:21 | an echo processed before Meta's answer is saved makes a second row, and saving the answer ends in an integrity error |
| `Instagram!WindowOpenAtSend` | instagram-messaging.md:20 | a retry asks nothing about the window |
| `Telegram!ConnectedTokenIsCurrent` | | a pause saved from an old copy writes the revoked token back |
| `Voice!EndedCallIsOver` | voice-ai-telephony.md | a retried job marks an ended call active |
| `Voice!NoToolAfterTakeover` | voice-ai-telephony.md | an event read before the takeover still runs its tool |
| `AssistantContext!VersionAdvances` | | a stale form takes the version back, and every later publishing fails |
| `WebChat!RepliesArePublished` | public-web-chat.md:11 | the process dies between the commit of a reply and its callback: the reply is never shown |
| `WebChat!ClosedHasNoCredential` | | a request that authenticated before the close revives the session |
| `ControlPlane!ReactivationRestoresOnly` | control-plane-runbook.md:22 | reactivation enables what was disabled by hand before the suspension |
| `Jobs!PoPolicyHolds` | comment at intake/models.py:343 | a stale save undoes the purchase order that work needs |
| `IntakeCalls!OneJobPerCall`, `EscalationIsNoJob` | comments at intake voice.py:9, :66 | overlapping callbacks make two jobs, or a job for an escalation |
| `Usage!AggregatesAreSums` | | an event committed during a reconciliation is lost from the total |
| `AITools!WithdrawnStays` | ai-conversation-runtime.md:71 | an automatic call withdrawn by a reply is executed |
| `CrmLeads!ActiveStageIsOpen`, `IntakeChat!OneOpenThread` | | overlapping requests leave a lead in a closed stage, a number with two threads |

Seen while modelling, without a property:

- Billing: a staff key used for two reversals reopens the second invoice without a refund (hence `UniqueKeys`); a
  provider event that was recorded and then failed is not handled on redelivery; a "failed" event that overlaps a
  payment writes the attempt back; a checkout of a paid or void invoice makes a pending attempt of zero.
- Booking: a request that waited for its locks converts a hold that has expired (hence `MaxDelay = 0` in
  `BookingSlots`); only the candidate's buffers are looked at; moving an appointment back to a former time leaves
  the reminders of that time cancelled; a pending appointment whose link has expired keeps its slot, and nothing
  offers a slot to the waitlist.
- AI runtime: a human reply between the last check of a run and its message does not stop the message; a run whose
  withdrawal is overwritten by `waiting_for_approval` blocks later runs; a queued run whose task call was lost
  with its process is never taken up; a redelivered run repeats an automatic internal note.
- SMS: a retry ignores the operational controls and meters nothing; `degraded` never clears
  and `circuit_open_until` is not read; an inbound message that failed may be processed after a later one (an old
  START after a STOP); a blocked operation leaves a queued message and answers with another type.
- Gmail: a cancellation before the last save of a synchronisation is overwritten; a full synchronisation, and the
  fallback of a notification whose cursor is too old, lists the newest messages only, and before it reads the cursor
  it then moves to; a crash between a message and its record means no evaluation; a crash after the provider accepted
  leaves `sending`.
- Instagram: the window follows the message processed last; an echo after a read report sets the message to sent again.
- Telegram: a provider failure after a request was marked created leaves nothing to retry; `bot_blocked_by_user` is not
  cleared; a retry asks no policy; a reconnect after a disconnect is connected without credentials.
- Web chat: the abuse score is rolled back by the exception that follows it; a merged contact leaves the
  session with its archived source; the widget shows its own post under the number after its cursor and moves there
  (`web-chat-widget.tsx:429`, `:442`), so an unread event of that number may be passed over.
- Voice: a killed gateway leaves a job running for ever (`locked_until` is not read); a blocked call leaves its job
  pending; a redelivered webhook accepts a finished call again; the concurrency limit is counted without a lock.
- CRM: replying to a resolved conversation does not reopen it; delivery updates have no rank; a duplicate open lead is
  looked for without a lock; an ingestion that read an identity before a merge writes to the archived contact.
- Organizations and users: an invitation accepted by an owner demotes him; an admin may suspend an owner through the
  user view; an expiry is rolled back by the exception that reports it; a refresh does not ask `is_active`.
- Control plane: two overlapping activations leave two active rows of a kind, and restoring one leaves the block;
  `retry_job` ignores `max_attempts`.
- Intake and jobs: contacts have no unique key, so two concurrent firsts make every later lookup raise; a callback
  that loses the race for its row loses its transcript; serializers drop fields the services read.

## 6. Not modelled, and the plan

Not modelled: plan catalogue, early access and the settings forms (one insert or update of validated data);
core middleware and encryption (no state); settings (the models take from there that tasks are acknowledged late and
how often the beat runs them); classification prompts and text extraction (a choice in `IntakeMail` and
`IntakeCalls`); evaluations, front ends, deployment files. Within modelled parts the notes of PROJECT.json name
what is left out: rows that nothing else depends on. Negative usage events, which `record_usage` would take as
corrections, are left out because nothing in the code records one.

Left for later: erasure and cleanup of Gmail, anonymization of the web chat, the voice settings; several
subscriptions in the lifecycle task (one that fails must not stop the others).
